-------------------------- MODULE SaveFilesProofs --------------------------
(***************************************************************************)
(* Theorems about the store and its save files: names stay fresh, and the  *)
(* store implements Snapshots, for any number of forms, values and saves   *)
(* and whatever the settings are; and every kind of record is read as it   *)
(* was written, whatever its size is.                                      *)
(***************************************************************************)
EXTENDS SaveFiles, SequenceFacts

MemoryForms == [value : Values, deleted : BOOLEAN, saved : BOOLEAN, changed : BOOLEAN]
SavedForms == [value : Values, deleted : BOOLEAN]

IsFile(f) ==
  /\ f = [prior |-> f.prior, nextid |-> f.nextid, queue |-> f.queue,
          records |-> f.records]
  /\ f.prior \in Seq(Nat)
  /\ f.nextid \in BaseId .. MaxId + 1
  /\ DOMAIN f.records \subseteq Ids
  /\ f.records \in [DOMAIN f.records -> SavedForms]

Up == phase # "down"

StoreType ==
  /\ regime \in Regimes
  /\ phase \in {"running", "saving", "down"}
  /\ DOMAIN forms \subseteq Ids
  /\ forms \in [DOMAIN forms -> MemoryForms]
  /\ Up => Static \subseteq DOMAIN forms
  /\ \A id \in DOMAIN forms \cap Static : ~forms[id].deleted
  /\ nextformid \in BaseId .. MaxId + 1
  /\ savenumber \in 1 .. MaxSaves + 1
  /\ loadednumber \in 0 .. MaxSaves
  /\ priorsaves \in Seq(Nat)
  /\ todo \subseteq DOMAIN forms /\ (phase # "saving" => todo = {})
  /\ phase = "down" => forms = <<>>
  /\ DOMAIN files \subseteq Numbers
  /\ files \in [DOMAIN files -> {files[n] : n \in DOMAIN files}]
  /\ \A n \in DOMAIN files : IsFile(files[n])
  /\ DOMAIN shots \subseteq DOMAIN files
  /\ \A n \in DOMAIN shots : shots[n] \in [DOMAIN shots[n] -> Values]

\* The saves that a load of this one reads, and those that the next save of
\* this process will depend on.
ChainOf(n)  == ToSet(files[n].prior) \cup {n}
ChainOfNext == ToSet(priorsaves) \cup {loadednumber}

\* No file of these holds a form whose id is yet to be given out.
IdsBelow(saves, next) ==
  \A k \in saves \cap DOMAIN files : \A id \in DOMAIN files[k].records : id < next

FreshInv ==
  /\ \A n \in DOMAIN files : /\ \A k \in ToSet(files[n].prior) : k < n
                             /\ IdsBelow(ChainOf(n), files[n].nextid)
  /\ Up => /\ \A n \in DOMAIN files : n < savenumber
           /\ \A k \in ChainOfNext : k < savenumber
           /\ IdsBelow(ChainOfNext, nextformid)
           /\ \A id \in DOMAIN forms : id < nextformid
  /\ phase = "saving" => /\ loadednumber \in DOMAIN files \ DOMAIN shots
                         /\ loadednumber = savenumber - 1
                         /\ files[loadednumber].nextid = nextformid
                         /\ files[loadednumber].prior = priorsaves

\* A record from which a load makes the form.
Holds(k, id) ==
  /\ k \in DOMAIN files
  /\ id \in DOMAIN files[k].records
  /\ ~files[k].records[id].deleted

\* What is alive is in some file of the chain, or will be put into the file
\* that is written now or next.
KeptInv ==
  /\ Up => \A id \in Live \ Static :
             \/ forms[id].changed
             \/ id \in todo
             \/ \E k \in ChainOfNext : Holds(k, id)
  /\ phase = "saving" => \A id \in DOMAIN forms \ {Controller} :
                           forms[id].changed => id \in todo
  /\ \A n \in DOMAIN shots : \A id \in DOMAIN shots[n] \ Static :
       \E k \in ChainOf(n) : Holds(k, id)

\* A full file depends on no other one, and shows what is alive.
ShowsForm(n, id) ==
  IF id \in DOMAIN forms
    THEN /\ id \in DOMAIN files[n].records
         /\ files[n].records[id] = [value |-> forms[id].value,
                                    deleted |-> forms[id].deleted]
    ELSE id \notin DOMAIN files[n].records

Shown(n) == {id \in DOMAIN files[n].records \ {Controller} : ~files[n].records[id].deleted}

ExactInv ==
  ~regime.incremental =>
    /\ \A n \in DOMAIN files : files[n].prior = <<>>
    /\ phase = "saving" => \A id \in Ids \ todo : ShowsForm(loadednumber, id)
    /\ \A n \in DOMAIN shots :
         /\ Tree \in DOMAIN shots[n]
         /\ shots[n] = [id \in Shown(n) |-> files[n].records[id].value]

\* Every complete save has the tree, and no save has the controller.
ShotInv ==
  \A n \in DOMAIN shots : DOMAIN shots[n] \subseteq Ids \ {Controller}

\* Only a process that may die while it saves leaves a file without a picture.
WholeInv ==
  ~regime.diesInSave =>
    \A n \in DOMAIN files \ DOMAIN shots : phase = "saving" /\ n = loadednumber

StoreInv ==
  StoreType /\ FreshInv /\ KeptInv /\ ExactInv /\ ShotInv /\ WholeInv
-----------------------------------------------------------------------------
(* Lemmas.                                                                 *)

LEMMA RegimeType ==
  ASSUME regime \in Regimes
  PROVE  /\ regime.incremental \in BOOLEAN /\ regime.diesInSave \in BOOLEAN
         /\ regime.maxId \in BaseId .. MaxId
         /\ regime.maxSaves \in 0 .. MaxSaves
         /\ MaxId \in Nat /\ MaxId >= BaseId /\ MaxSaves \in Nat
  BY SaveAssumption

LEMMA PutDomain ==
  ASSUME NEW f, NEW id, NEW x
  PROVE  /\ DOMAIN Put(f, id, x) = DOMAIN f \cup {id}
         /\ Put(f, id, x)[id] = x
         /\ \A k \in DOMAIN f \ {id} : Put(f, id, x)[k] = f[k]
         /\ Put(f, id, x) \in [DOMAIN f \cup {id} ->
                                {Put(f, id, x)[k] : k \in DOMAIN f \cup {id}}]
  BY DEF Put

\* The numbers of files are bounded, so the next number exists.
LEMMA NextNumberIsHighest ==
  ASSUME DOMAIN files \subseteq Numbers, MaxSaves \in Nat, NEW n \in DOMAIN files
  PROVE  /\ NextNumber(n) \in 1 .. MaxSaves + 1
         /\ \A k \in DOMAIN files : k < NextNumber(n)
<1> DEFINE T == {m \in Nat : \A k \in DOMAIN files : k < m}
<1>1. MaxSaves + 1 \in T
  BY DEF Numbers
<1>2. PICK m \in T : \A k \in T : m <= k
  BY <1>1, Least
<1>3. m \in 1 .. MaxSaves + 1
  BY <1>1, <1>2 DEF Numbers
<1>4. m - 1 \in DOMAIN files
  <2>1. m - 1 \in Nat /\ m - 1 \notin T
    BY <1>2, <1>3
  <2>2. PICK k \in DOMAIN files : ~(k < m - 1)
    BY <2>1
  <2>3. k \in Nat /\ k < m
    BY <1>2 DEF Numbers
  <2> QED BY <1>3, <2>2, <2>3
<1> QED BY <1>2, <1>3, <1>4 DEF NextNumber

\* The files that a save depends on, as a set.
LEMMA ChainOfPlaces ==
  ASSUME NEW n \in DOMAIN files, files[n].prior \in Seq(Nat), n \in Nat
  PROVE  /\ \A i \in DOMAIN Chain(n) : Chain(n)[i] \in ChainOf(n)
         /\ \A k \in ChainOf(n) : \E i \in DOMAIN Chain(n) : Chain(n)[i] = k
         /\ DOMAIN Chain(n) \subseteq Nat
<1>1. ToSet(Chain(n)) = ChainOf(n) /\ Chain(n) \in Seq(Nat)
  BY PushBack DEF Chain, ChainOf
<1> QED BY <1>1 DEF ToSet

\* The first and the last place.
LEMMA FirstAndLast ==
  ASSUME NEW n \in Nat, NEW A, A \subseteq 1 .. n, A # {}
  PROVE  Min(A) \in A /\ Max(A) \in A
<1> A \subseteq Nat
  OBVIOUS
<1>1. \E m \in A : \A k \in A : m <= k
  BY Least
<1>2. \E m \in A : \A k \in A : m >= k
  <2> DEFINE B == {n - a : a \in A}
  <2>1. B \subseteq Nat /\ B # {}
    <3>1. \A a \in A : n - a \in Nat
      OBVIOUS
    <3> QED BY <3>1
  <2> HIDE DEF B
  <2>2. PICK b \in B : \A k \in B : b <= k
    BY <2>1, Least
  <2>3. PICK m \in A : b = n - m
    BY <2>2 DEF B
  <2>4. ASSUME NEW k \in A PROVE m >= k
    <3>1. n - k \in B
      BY DEF B
    <3>2. b <= n - k
      BY <2>2, <3>1
    <3> QED BY <2>3, <3>2
  <2> QED BY <2>4
<1> QED BY <1>1, <1>2 DEF Min, Max

-----------------------------------------------------------------------------
(* The invariant.                                                          *)

LEMMA InitInv == Init => StoreInv
<1> SUFFICES ASSUME Init PROVE StoreInv
  OBVIOUS
<1> USE DEF Init
<1>1. /\ DOMAIN forms = Static /\ Static \subseteq Ids
      /\ \A id \in Static : forms[id] = NewForm(Initial)
      /\ NewForm(Initial) \in MemoryForms
  BY SaveAssumption DEF Static, Ids, BaseId, Tree, Controller, NewForm, MemoryForms
<1>2. DOMAIN files = {} /\ DOMAIN shots = {}
  OBVIOUS
<1>3. priorsaves \in Seq(Nat) /\ ToSet(priorsaves) = {}
  BY EmptyDeque DEF ToSet
<1>4. StoreType
  <2>1. \A id \in Static : ~forms[id].deleted
    BY <1>1 DEF NewForm
  <2>2. nextformid \in BaseId .. MaxId + 1 /\ savenumber \in 1 .. MaxSaves + 1
        /\ loadednumber \in 0 .. MaxSaves
    BY SaveAssumption DEF BaseId
  <2>3. forms \in [DOMAIN forms -> MemoryForms]
    BY <1>1
  <2>4. files \in [DOMAIN files -> {files[n] : n \in DOMAIN files}]
    OBVIOUS
  <2> QED BY <1>1, <1>2, <1>3, <2>1, <2>2, <2>3, <2>4 DEF StoreType, Up
<1>5. FreshInv
  BY <1>1, <1>2, <1>3 DEF FreshInv, ChainOfNext, IdsBelow, Static, Tree, Controller, BaseId, Up
<1>6. KeptInv
  BY <1>1, <1>2 DEF KeptInv, Live
<1> QED BY <1>2, <1>4, <1>5, <1>6 DEF StoreInv, ExactInv, ShotInv, WholeInv
\* As long as no save is written, only the files and pictures matter.
LEMMA SameFiles ==
  ASSUME ExactInv, phase' # "saving",
         regime' = regime, files' = files, shots' = shots
  PROVE  ExactInv'
<1>1. \A n : Shown(n)' = Shown(n)
  BY DEF Shown
<1> HIDE DEF Shown
<1> QED BY <1>1 DEF ExactInv

LEMMA CreateInv ==
  ASSUME StoreInv, NEW v \in Values, CreateForm(v)
  PROVE  StoreInv'
<1> DEFINE new == nextformid
<1> USE DEF StoreInv
<1>1. /\ regime' = regime /\ phase = "running" /\ phase' = phase
      /\ savenumber' = savenumber /\ loadednumber' = loadednumber
      /\ priorsaves' = priorsaves /\ todo' = todo /\ files' = files /\ shots' = shots
      /\ nextformid' = new + 1 /\ new \in BaseId .. MaxId /\ new \in Ids
      /\ forms' = Put(forms, new, NewForm(v)) /\ NewForm(v) \in MemoryForms
      /\ ~NewForm(v).deleted /\ NewForm(v).changed
  BY RegimeType DEF CreateForm, chain, StoreType, Ids, NewForm, MemoryForms, BaseId
<1>2. /\ DOMAIN forms' = DOMAIN forms \cup {new}
      /\ forms'[new] = NewForm(v)
      /\ \A k \in DOMAIN forms : k # new /\ k < new /\ forms'[k] = forms[k]
      /\ forms' \in [DOMAIN forms' -> MemoryForms]
  <2>1. \A k \in DOMAIN forms : k < new /\ k \in Nat
    BY <1>1 DEF FreshInv, StoreType, Up, Ids
  <2>2. /\ DOMAIN forms' = DOMAIN forms \cup {new} /\ forms'[new] = NewForm(v)
        /\ \A k \in DOMAIN forms \ {new} : forms'[k] = forms[k]
    BY <1>1 DEF Put
  <2>3. \A k \in DOMAIN forms : k # new
    BY <2>1, <1>1
  <2>4. \A k \in DOMAIN forms' : forms'[k] \in MemoryForms
    BY <1>1, <2>2, <2>3 DEF StoreType
  <2>5. forms' = [k \in DOMAIN forms \cup {new} |-> IF k = new THEN NewForm(v) ELSE forms[k]]
    BY <1>1 DEF Put
  <2> QED BY <2>1, <2>2, <2>3, <2>4, <2>5
<1> HIDE DEF new
<1>3. StoreType'
  <2>1. Static \subseteq DOMAIN forms' /\ \A id \in DOMAIN forms' \cap Static : ~forms'[id].deleted
    BY <1>1, <1>2 DEF StoreType, Up
  <2>2. DOMAIN forms' \subseteq Ids /\ todo' \subseteq DOMAIN forms'
    BY <1>1, <1>2 DEF StoreType
  <2>3. nextformid' \in BaseId .. MaxId + 1
    BY <1>1, SaveAssumption DEF BaseId
  <2> QED BY <1>1, <1>2, <2>1, <2>2, <2>3 DEF StoreType, Up
<1>4. FreshInv'
  <2>1. \A id \in DOMAIN forms' : id < nextformid'
    BY <1>1, <1>2 DEF FreshInv, StoreType, Ids, BaseId
  <2>2. IdsBelow(ChainOfNext, nextformid)'
    <3>1. ASSUME NEW k \in ChainOfNext \cap DOMAIN files, NEW id \in DOMAIN files[k].records
          PROVE  id < new + 1
      <4>1. id < new
        BY <1>1 DEF FreshInv, Up, IdsBelow, new
      <4>2. id \in Nat /\ new \in Nat
            <5>1. IsFile(files[k]) /\ nextformid \in BaseId .. MaxId + 1
          BY DEF StoreType
        <5>2. MaxId \in Nat /\ BaseId \in Nat
          BY SaveAssumption DEF BaseId
        <5>3. id \in Ids
          BY <5>1 DEF IsFile
        <5> QED BY <5>1, <5>2, <5>3 DEF Ids, new
      <4> QED BY <4>1, <4>2
    <3> QED BY <1>1, <3>1 DEF IdsBelow, ChainOfNext
  <2> QED BY <1>1, <2>1, <2>2 DEF FreshInv, Up, ChainOf, ChainOfNext, IdsBelow
<1>5. KeptInv'
  <2>1. ASSUME NEW id \in Live' \ Static
        PROVE  \/ forms'[id].changed
               \/ id \in todo'
               \/ (\E k \in ChainOfNext : Holds(k, id))'
    <3>1. CASE id = new
      BY <1>1, <1>2, <3>1
    <3>2. CASE id # new
      <4>1. id \in Live \ Static
        BY <1>2, <3>2, <2>1 DEF Live
      <4> QED BY <4>1, <1>1, <1>2, <3>2 DEF KeptInv, Up, ChainOfNext, Holds, Live
    <3> QED BY <3>1, <3>2
  <2> QED BY <1>1, <2>1 DEF KeptInv, ChainOf, Holds
<1>6. ExactInv' /\ ShotInv' /\ WholeInv'
  <2>1. ExactInv'
    BY <1>1, SameFiles
  <2>2. ShotInv'
    BY <1>1 DEF ShotInv
  <2>3. WholeInv'
    BY <1>1 DEF WholeInv
  <2> QED BY <2>1, <2>2, <2>3
<1> QED BY <1>3, <1>4, <1>5, <1>6
\* Steps that mark what they change, and leave the files, the numbers and the
\* chain alone.
LEMMA WorkInv ==
  ASSUME StoreInv, phase = "running",
         regime' = regime, phase' = phase, nextformid' = nextformid,
         savenumber' = savenumber, loadednumber' = loadednumber,
         priorsaves' = priorsaves, todo' = todo, files' = files, shots' = shots,
         DOMAIN forms' \subseteq DOMAIN forms,
         Static \subseteq DOMAIN forms',
         forms' \in [DOMAIN forms' -> MemoryForms],
         \A id \in DOMAIN forms' \cap Static : ~forms'[id].deleted,
         \A id \in DOMAIN forms' : forms'[id] = forms[id] \/ forms'[id].changed
  PROVE  StoreInv'
<1> USE DEF StoreInv
<1>1. todo = {}
  BY DEF StoreType
<1>2. StoreType'
  <2>1. DOMAIN forms' \subseteq Ids /\ todo' \subseteq DOMAIN forms'
    BY <1>1 DEF StoreType
  <2> QED BY <1>1, <2>1 DEF StoreType, Up
<1>3. FreshInv'
  <2>1. \A id \in DOMAIN forms' : id < nextformid'
    BY DEF FreshInv, Up
  <2> QED BY <2>1 DEF FreshInv, Up, ChainOf, ChainOfNext, IdsBelow
<1>4. KeptInv'
  <2>1. ASSUME NEW id \in Live' \ Static, ~forms'[id].changed
        PROVE  (\E k \in ChainOfNext : Holds(k, id))'
    <3>1. id \in Live \ Static /\ ~forms[id].changed
      BY <2>1 DEF Live
    <3> QED BY <3>1, <1>1 DEF KeptInv, Up, ChainOfNext, Holds
  <2> QED BY <2>1 DEF KeptInv, ChainOf, Holds
<1>5. ExactInv'
  BY SameFiles
<1>6. ShotInv' /\ WholeInv'
  BY DEF ShotInv, WholeInv
<1> QED BY <1>2, <1>3, <1>4, <1>5, <1>6

LEMMA ChangeInv ==
  ASSUME StoreInv, NEW v \in Values, NEW id \in Ids, ChangeForm(id, v)
  PROVE  StoreInv'
<1>1. /\ id \in DOMAIN forms
      /\ forms \in [DOMAIN forms -> MemoryForms]
      /\ Static \subseteq DOMAIN forms
      /\ \A k \in DOMAIN forms \cap Static : ~forms[k].deleted
  BY DEF ChangeForm, StoreInv, StoreType, Live, Up
<1>2. /\ DOMAIN forms' = DOMAIN forms
      /\ \A k \in DOMAIN forms \ {id} : forms'[k] = forms[k]
      /\ forms'[id] = [value |-> v, deleted |-> forms[id].deleted,
                       saved |-> forms[id].saved, changed |-> TRUE]
      /\ forms' = [k \in DOMAIN forms |-> forms'[k]]
  BY <1>1 DEF ChangeForm, MemoryForms
<1>3. forms'[id] \in MemoryForms
  BY <1>1, <1>2 DEF MemoryForms
<1>4. forms' \in [DOMAIN forms' -> MemoryForms]
  BY <1>1, <1>2, <1>3
<1>5. \A k \in DOMAIN forms' : forms'[k] = forms[k] \/ forms'[k].changed
  BY <1>2
<1>6. \A k \in DOMAIN forms' \cap Static : ~forms'[k].deleted
  BY <1>1, <1>2
<1> QED BY <1>1, <1>2, <1>4, <1>5, <1>6, WorkInv DEF ChangeForm, chain

LEMMA DeleteInv ==
  ASSUME StoreInv, NEW id \in Ids, DeleteForm(id)
  PROVE  StoreInv'
<1>1. /\ id \in DOMAIN forms /\ id \notin Static
      /\ forms \in [DOMAIN forms -> MemoryForms]
      /\ Static \subseteq DOMAIN forms
      /\ \A k \in DOMAIN forms \cap Static : ~forms[k].deleted
  BY DEF DeleteForm, StoreInv, StoreType, Live, Up
<1>2. CASE forms[id].saved
  <2>1. /\ DOMAIN forms' = DOMAIN forms
        /\ \A k \in DOMAIN forms \ {id} : forms'[k] = forms[k]
        /\ forms'[id] = [value |-> forms[id].value, deleted |-> TRUE,
                         saved |-> forms[id].saved, changed |-> TRUE]
        /\ forms' = [k \in DOMAIN forms |-> forms'[k]]
    BY <1>1, <1>2 DEF DeleteForm, MemoryForms
  <2>2. forms'[id] \in MemoryForms
    BY <1>1, <2>1 DEF MemoryForms
  <2>3. forms' \in [DOMAIN forms' -> MemoryForms]
    BY <1>1, <2>1, <2>2
  <2>4. \A k \in DOMAIN forms' : forms'[k] = forms[k] \/ forms'[k].changed
    BY <2>1
  <2>5. \A k \in DOMAIN forms' \cap Static : ~forms'[k].deleted
    BY <1>1, <2>1
  <2> QED BY <1>1, <2>1, <2>3, <2>4, <2>5, WorkInv DEF DeleteForm, chain
<1>3. CASE ~forms[id].saved
  <2>1. forms' = [k \in DOMAIN forms \ {id} |-> forms[k]]
    BY <1>1, <1>3 DEF DeleteForm
  <2>2. /\ DOMAIN forms' = DOMAIN forms \ {id}
        /\ \A k \in DOMAIN forms' : forms'[k] = forms[k]
        /\ forms' \in [DOMAIN forms' -> MemoryForms]
    BY <1>1, <2>1
  <2>3. Static \subseteq DOMAIN forms' /\ \A k \in DOMAIN forms' \cap Static : ~forms'[k].deleted
    BY <1>1, <2>2
  <2> QED BY <1>1, <2>2, <2>3, WorkInv DEF DeleteForm, chain
<1> QED BY <1>2, <1>3

\* The tasks of the controller do not matter to the store.
LEMMA TaskInv ==
  ASSUME StoreInv, UNCHANGED <<regime, phase, forms, nextformid, chain, todo, files, shots>>
  PROVE  StoreInv'
<1>1. /\ regime' = regime /\ phase' = phase /\ forms' = forms
      /\ nextformid' = nextformid /\ savenumber' = savenumber
      /\ loadednumber' = loadednumber /\ priorsaves' = priorsaves
      /\ todo' = todo /\ files' = files /\ shots' = shots
  BY DEF chain
<1>2. StoreType'
  BY <1>1 DEF StoreInv, StoreType, Up
<1>3. FreshInv'
  BY <1>1 DEF StoreInv, FreshInv, Up, ChainOf, ChainOfNext, IdsBelow
<1>4. KeptInv'
  BY <1>1 DEF StoreInv, KeptInv, Up, Live, ChainOf, ChainOfNext, Holds
<1>5. ExactInv'
  <2>1. \A n : Shown(n)' = Shown(n)
    BY <1>1 DEF Shown
  <2>2. \A n, id : ShowsForm(n, id)' = ShowsForm(n, id)
    BY <1>1 DEF ShowsForm
  <2> HIDE DEF Shown, ShowsForm
  <2> QED BY <1>1, <2>1, <2>2 DEF StoreInv, ExactInv
<1> QED BY <1>1, <1>2, <1>3, <1>4, <1>5 DEF StoreInv, ShotInv, WholeInv

\* What the next save will depend on.
LEMMA NextPriorsType ==
  ASSUME StoreType
  PROVE  /\ NextPriors \in Seq(Nat)
         /\ ToSet(NextPriors) \subseteq ChainOfNext
         /\ \A k \in ChainOfNext : k \in ToSet(NextPriors) \/ k = 0 \/ k \notin Nat
<1>1. priorsaves \in Seq(Nat) /\ loadednumber \in Nat
  BY SaveAssumption DEF StoreType
<1>2. CASE loadednumber > 0
  <2>1. /\ Append(priorsaves, loadednumber) \in Seq(Nat)
        /\ ToSet(Append(priorsaves, loadednumber)) = ToSet(priorsaves) \cup {loadednumber}
    BY <1>1, PushBack
  <2> QED BY <1>2, <2>1 DEF NextPriors, ChainOfNext
<1>3. CASE ~(loadednumber > 0)
  <2>1. loadednumber = 0
    BY <1>1, <1>3
  <2> QED BY <1>1, <1>3, <2>1 DEF NextPriors, ChainOfNext
<1> QED BY <1>2, <1>3

LEMMA BeginInv ==
  ASSUME StoreInv, BeginSave
  PROVE  StoreInv'
<1> DEFINE prior == IF WritesIncrement THEN NextPriors ELSE <<>>
           file == [prior |-> prior, nextid |-> nextformid, queue |-> <<>>, records |-> <<>>]
<1> USE DEF StoreInv
<1>0. PICK n : n = savenumber
  OBVIOUS
<1>1. /\ regime' = regime /\ phase = "running" /\ phase' = "saving"
      /\ forms' = forms /\ nextformid' = nextformid /\ savenumber' = n + 1
      /\ loadednumber' = n /\ priorsaves' = prior /\ todo' = ToWrite
      /\ files' = Put(files, n, file) /\ shots' = shots /\ Up /\ Up'
  BY <1>0 DEF BeginSave, TakeNumber, memory, Up
<1>2. /\ n \in 1 .. MaxSaves /\ n \in Numbers /\ MaxSaves \in Nat
      /\ n \notin DOMAIN files /\ n \notin DOMAIN shots
  <2>1. n \in 1 .. MaxSaves /\ MaxSaves \in Nat
    BY <1>0, RegimeType DEF BeginSave, TakeNumber, StoreType
  <2>2. n \notin DOMAIN files
    BY <1>0, <1>1, <2>1 DEF FreshInv
  <2> QED BY <2>1, <2>2 DEF StoreType, Numbers
<1>3. prior \in Seq(Nat) /\ ToSet(prior) \subseteq ChainOfNext
  <2>1. <<>> \in Seq(Nat) /\ ToSet(<<>>) = {}
    BY EmptyDeque
  <2> QED BY <2>1, NextPriorsType
<1>4. /\ DOMAIN files' = DOMAIN files \cup {n} /\ files'[n] = file
      /\ \A k \in DOMAIN files : k # n /\ files'[k] = files[k]
      /\ files' \in [DOMAIN files' -> {files'[k] : k \in DOMAIN files'}]
  <2>1. files' = [k \in DOMAIN files \cup {n} |-> IF k = n THEN file ELSE files[k]]
    BY <1>1 DEF Put
  <2> HIDE DEF file
  <2> QED BY <2>1, <1>2
<1>5. /\ file.prior = prior /\ file.nextid = nextformid /\ file.records = <<>>
      /\ IsFile(file)
  <2>1. DOMAIN file.records = {} /\ file.records \in [DOMAIN file.records -> SavedForms]
    OBVIOUS
  <2> QED BY <1>3, <2>1 DEF IsFile, StoreType
<1>6. ToWrite \subseteq DOMAIN forms
  BY DEF ToWrite
<1>7. \A k \in DOMAIN files : k \in Nat /\ k < n /\ \A j \in ChainOf(k) : j # n
  <2>1. ASSUME NEW k \in DOMAIN files
        PROVE  k \in Nat /\ k < n /\ \A j \in ChainOf(k) : j # n
    <3>1. k \in Nat /\ k < n /\ \A j \in ToSet(files[k].prior) : j < k
      BY <1>0, <1>1 DEF StoreType, FreshInv, Numbers
    <3>2. \A j \in ToSet(files[k].prior) : j \in Nat
      BY DEF StoreType, IsFile, ToSet
    <3> QED BY <3>1, <3>2, <1>2 DEF ChainOf
  <2> QED BY <2>1
<1>8. \A k \in ChainOfNext : k < n /\ k \in Nat
  BY <1>0, <1>1, SaveAssumption DEF FreshInv, ChainOfNext, StoreType, ToSet
<1>9. \A k \in DOMAIN files : ChainOf(k)' = ChainOf(k)
  BY <1>4 DEF ChainOf
<1>10. ChainOf(n)' = ToSet(prior) \cup {n} /\ ChainOfNext' = ToSet(prior) \cup {n}
  BY <1>1, <1>4, <1>5 DEF ChainOf, ChainOfNext
<1>11. \A k \in DOMAIN files : \A id : Holds(k, id)' = Holds(k, id)
  BY <1>4 DEF Holds
<1>12. DOMAIN files'[n].records = {}
  BY <1>4, <1>5
<1>13. ~regime.incremental => prior = <<>> /\ ToWrite = DOMAIN forms
  BY DEF ToWrite, WritesIncrement
<1>14. WritesIncrement => prior = NextPriors
  OBVIOUS
<1> HIDE DEF prior, file
<1>15. StoreType'
  <2>1. \A k \in DOMAIN files' : IsFile(files'[k])
    BY <1>4, <1>5 DEF StoreType
  <2>2. savenumber' \in 1 .. MaxSaves + 1 /\ loadednumber' \in 0 .. MaxSaves
    BY <1>1, <1>2
  <2>3. DOMAIN files' \subseteq Numbers
    BY <1>2, <1>4 DEF StoreType
  <2> QED BY <1>1, <1>3, <1>4, <1>6, <2>1, <2>2, <2>3 DEF StoreType, Up
<1>16. FreshInv'
  <2>1. ASSUME NEW m \in DOMAIN files'
        PROVE  /\ \A k \in ToSet(files'[m].prior) : k < m
               /\ IdsBelow(ChainOf(m), files[m].nextid)'
    <3>1. CASE m = n
      <4>1. \A k \in ToSet(prior) : k < n
        BY <1>3, <1>8
      <4>2. \A k \in ToSet(prior) \cap DOMAIN files : \A id \in DOMAIN files[k].records : id < nextformid
        BY <1>1, <1>3 DEF FreshInv, IdsBelow
      <4>3. IdsBelow(ChainOf(n), files[n].nextid)'
        <5>1. files'[n].nextid = nextformid
          BY <1>4, <1>5
        <5>2. \A k \in ChainOf(n)' \cap DOMAIN files' : k = n \/ k \in ToSet(prior) \cap DOMAIN files
          BY <1>4, <1>10
        <5> QED BY <5>1, <5>2, <4>2, <1>4, <1>12 DEF IdsBelow
      <4>4. files'[n].prior = prior
        BY <1>4, <1>5
      <4> QED BY <3>1, <4>1, <4>3, <4>4
    <3>2. CASE m # n
      <4>1. m \in DOMAIN files
        BY <3>2, <1>4
      <4>2. IdsBelow(ChainOf(m), files[m].nextid) /\ \A k \in ToSet(files[m].prior) : k < m
        BY <4>1 DEF FreshInv
      <4> QED BY <4>1, <4>2, <1>4, <1>7, <1>9 DEF IdsBelow
    <3> QED BY <3>1, <3>2
  <2>2. \A m \in DOMAIN files' : m < savenumber'
    BY <1>1, <1>2, <1>4, <1>7
  <2>3. \A k \in ChainOfNext' : k < savenumber'
    BY <1>1, <1>2, <1>3, <1>8, <1>10
  <2>4. IdsBelow(ChainOfNext, nextformid)'
    <3>1. \A k \in ToSet(prior) \cap DOMAIN files : \A id \in DOMAIN files[k].records : id < nextformid
      BY <1>1, <1>3 DEF FreshInv, IdsBelow
    <3> QED BY <3>1, <1>1, <1>4, <1>10, <1>12 DEF IdsBelow
  <2>5. \A id \in DOMAIN forms' : id < nextformid'
    BY <1>1 DEF FreshInv
  <2>6. /\ loadednumber' \in DOMAIN files' \ DOMAIN shots'
        /\ loadednumber' = savenumber' - 1
        /\ files'[loadednumber'].nextid = nextformid'
        /\ files'[loadednumber'].prior = priorsaves'
    BY <1>1, <1>2, <1>4, <1>5
  <2> QED BY <2>1, <2>2, <2>3, <2>4, <2>5, <2>6 DEF FreshInv
<1>17. KeptInv'
  <2>1. ASSUME NEW id \in Live' \ Static
        PROVE  \/ forms'[id].changed
               \/ id \in todo'
               \/ (\E k \in ChainOfNext : Holds(k, id))'
    <3>1. id \in Live \ Static /\ id \in DOMAIN forms
      BY <2>1, <1>1 DEF Live
    <3>2. CASE ~WritesIncrement
      BY <3>1, <3>2, <1>1 DEF ToWrite
    <3>3. CASE WritesIncrement /\ ~forms[id].changed
      <4>1. PICK k \in ChainOfNext : Holds(k, id)
        BY <3>1, <3>3, <1>1 DEF KeptInv, StoreType
      <4>2. k \in DOMAIN files /\ k # 0 /\ k \in Nat
        BY <4>1, <1>8 DEF Holds, StoreType, Numbers
      <4>3. k \in ToSet(prior)
        BY <4>2, <3>3, <1>14, NextPriorsType
      <4> QED BY <4>1, <4>2, <4>3, <1>10, <1>11
    <3> QED BY <3>2, <3>3, <1>1
  <2>2. \A id \in DOMAIN forms' : forms'[id].changed => id \in todo'
    BY <1>1 DEF ToWrite
  <2>3. ASSUME NEW m \in DOMAIN shots', NEW id \in DOMAIN shots'[m] \ Static
        PROVE  (\E k \in ChainOf(m) : Holds(k, id))'
    <3>1. m \in DOMAIN files
      BY <1>1 DEF StoreType
    <3>2. PICK k \in ChainOf(m) : Holds(k, id)
      BY <1>1 DEF KeptInv
    <3> QED BY <3>1, <3>2, <1>9, <1>11 DEF Holds
  <2> QED BY <1>1, <2>1, <2>2, <2>3 DEF KeptInv
<1>18. ExactInv'
  <2> SUFFICES ASSUME ~regime.incremental PROVE ExactInv'
    BY <1>1 DEF ExactInv
  <2>1. \A m \in DOMAIN files' : files'[m].prior = <<>>
    BY <1>4, <1>5, <1>13 DEF ExactInv
  <2>2. \A id \in Ids \ todo' : ShowsForm(loadednumber, id)'
    BY <1>1, <1>12, <1>13 DEF ShowsForm
  <2>3. \A m \in DOMAIN shots : m \in DOMAIN files /\ Shown(m)' = Shown(m)
    BY <1>4 DEF Shown, StoreType
  <2>4. ASSUME NEW m \in DOMAIN shots'
        PROVE  /\ Tree \in DOMAIN shots'[m]
               /\ shots'[m] = [id \in Shown(m)' |-> files'[m].records[id].value]
    BY <1>1, <1>4, <2>3 DEF ExactInv
  <2> QED BY <2>1, <2>2, <2>4 DEF ExactInv
<1>19. ShotInv' /\ WholeInv'
  <2>1. ShotInv'
    BY <1>1 DEF ShotInv
  <2>2. WholeInv'
    BY <1>1, <1>4 DEF WholeInv
  <2> QED BY <2>1, <2>2
<1> QED BY <1>15, <1>16, <1>17, <1>18, <1>19
LEMMA BeginFailsInv ==
  ASSUME StoreInv, BeginSaveFails
  PROVE  StoreInv'
<1> USE DEF StoreInv
<1>0. PICK n : n = savenumber
  OBVIOUS
<1>1. /\ regime' = regime /\ phase = "running" /\ phase' = phase
      /\ forms' = forms /\ nextformid' = nextformid /\ savenumber' = n + 1
      /\ loadednumber' = n /\ priorsaves' = NextPriors /\ todo' = todo
      /\ files' = files /\ shots' = shots /\ Up /\ Up'
  BY <1>0 DEF BeginSaveFails, TakeNumber, memory, Up
<1>2. /\ n \in 1 .. MaxSaves /\ MaxSaves \in Nat /\ n \notin DOMAIN files
  <2>1. n \in 1 .. MaxSaves /\ MaxSaves \in Nat
    BY <1>0, RegimeType DEF BeginSaveFails, TakeNumber, StoreType
  <2>2. n \notin DOMAIN files
    BY <1>0, <1>1, <2>1 DEF FreshInv
  <2> QED BY <2>1, <2>2
<1>3. NextPriors \in Seq(Nat) /\ ToSet(NextPriors) \subseteq ChainOfNext
  BY NextPriorsType
<1>4. ChainOfNext' = ToSet(NextPriors) \cup {n}
  BY <1>1 DEF ChainOfNext
<1>5. \A k \in ChainOfNext : k < n /\ k \in Nat
  BY <1>0, <1>1, SaveAssumption DEF FreshInv, ChainOfNext, StoreType, ToSet
<1>6. StoreType'
  <2>1. savenumber' \in 1 .. MaxSaves + 1 /\ loadednumber' \in 0 .. MaxSaves
    BY <1>1, <1>2
  <2> QED BY <1>1, <1>3, <2>1 DEF StoreType, Up
<1>7. FreshInv'
  <2>1. \A m \in DOMAIN files' : m < savenumber'
    <3>1. \A m \in DOMAIN files : m \in Nat /\ m < n
      BY <1>0, <1>1 DEF FreshInv, StoreType, Numbers
    <3> QED BY <1>1, <1>2, <3>1
  <2>2. \A k \in ChainOfNext' : k < savenumber'
    BY <1>1, <1>2, <1>3, <1>4, <1>5
  <2>3. IdsBelow(ChainOfNext, nextformid)'
    BY <1>1, <1>2, <1>3, <1>4 DEF FreshInv, IdsBelow
  <2> QED BY <1>1, <2>1, <2>2, <2>3 DEF FreshInv, ChainOf, IdsBelow
<1>8. KeptInv'
  <2>1. ASSUME NEW id \in Live' \ Static, ~forms'[id].changed
        PROVE  (\E k \in ChainOfNext : Holds(k, id))'
    <3>1. PICK k \in ChainOfNext : Holds(k, id)
      BY <2>1, <1>1 DEF KeptInv, StoreType, Live
    <3>2. k \in ToSet(NextPriors)
      BY <3>1, <1>5, NextPriorsType DEF Holds, StoreType, Numbers
    <3> QED BY <3>1, <3>2, <1>1, <1>4 DEF Holds
  <2> QED BY <1>1, <2>1 DEF KeptInv, ChainOf, Holds
<1>9. ExactInv'
  BY <1>1, SameFiles
<1>10. ShotInv' /\ WholeInv'
  <2>1. ShotInv'
    BY <1>1 DEF ShotInv
  <2>2. WholeInv'
    BY <1>1 DEF WholeInv
  <2> QED BY <2>1, <2>2
<1> QED BY <1>6, <1>7, <1>8, <1>9, <1>10

LEMMA WriteInv ==
  ASSUME StoreInv, NEW id \in Ids, WriteRecord(id)
  PROVE  StoreInv' /\ Picture' = Picture
<1> USE DEF StoreInv
<1> DEFINE rec == [value |-> forms[id].value, deleted |-> forms[id].deleted]
<1>0. PICK n : n = loadednumber
  OBVIOUS
<1>1. /\ regime' = regime /\ phase = "saving" /\ phase' = phase
      /\ nextformid' = nextformid /\ savenumber' = savenumber
      /\ loadednumber' = n /\ priorsaves' = priorsaves /\ todo' = todo \ {id}
      /\ shots' = shots /\ Up /\ Up' /\ id \in todo /\ id \in DOMAIN forms
      /\ n \in DOMAIN files \ DOMAIN shots /\ n = savenumber - 1 /\ n \in Nat
  <2>1. n \in DOMAIN files \ DOMAIN shots /\ n = savenumber - 1 /\ phase = "saving"
    BY <1>0 DEF FreshInv, WriteRecord
  <2> QED BY <1>0, <2>1 DEF WriteRecord, chain, Up, StoreType, Numbers
<1>2. IsFile(files[n]) /\ forms[id] \in MemoryForms
  BY <1>1 DEF StoreType
<1>3. /\ DOMAIN forms' = DOMAIN forms
      /\ \A k \in DOMAIN forms \ {id} : forms'[k] = forms[k]
      /\ forms'[id] = [value |-> forms[id].value, deleted |-> forms[id].deleted,
                       saved |-> TRUE, changed |-> (id = Controller)]
      /\ forms' = [k \in DOMAIN forms |-> forms'[k]]
  BY <1>1, <1>2 DEF WriteRecord, MemoryForms, StoreType
<1>4. /\ DOMAIN files' = DOMAIN files
      /\ \A k \in DOMAIN files \ {n} : files'[k] = files[k]
      /\ files'[n] = [prior |-> files[n].prior, nextid |-> files[n].nextid,
                      queue |-> IF id = Controller THEN queue ELSE files[n].queue,
                      records |-> Put(files[n].records, id, rec)]
      /\ files' = [k \in DOMAIN files |-> files'[k]]
  <2>1. PICK records : records = Put(files[n].records, id, rec)
    OBVIOUS
  <2>2. PICK q : q = IF id = Controller THEN queue ELSE files[n].queue
    OBVIOUS
  <2>3. PICK file : file = WithRecord(files[n], id)
    OBVIOUS
  <2>4. files' = [files EXCEPT ![n] = file]
    BY <1>0, <2>3 DEF WriteRecord
  <2>5. file = [prior |-> files[n].prior, nextid |-> files[n].nextid,
                queue |-> q, records |-> records]
    BY <1>2, <2>1, <2>2, <2>3 DEF IsFile, WithRecord
  <2>6. files = [k \in DOMAIN files |-> files[k]]
    BY DEF StoreType
  <2> QED BY <1>1, <2>1, <2>2, <2>4, <2>5, <2>6
<1>5. rec \in SavedForms /\ rec.deleted = forms[id].deleted
  BY <1>2 DEF SavedForms, MemoryForms
<1>6. /\ files'[n].prior = files[n].prior /\ files'[n].nextid = files[n].nextid
      /\ DOMAIN files'[n].records = DOMAIN files[n].records \cup {id}
      /\ files'[n].records[id] = rec
      /\ \A k \in DOMAIN files[n].records \ {id} : files'[n].records[k] = files[n].records[k]
  <2>1. files'[n].records = Put(files[n].records, id, rec)
    BY <1>4
  <2>2. files'[n].prior = files[n].prior /\ files'[n].nextid = files[n].nextid
    BY <1>4
  <2> HIDE DEF rec
  <2> QED BY <2>1, <2>2 DEF Put
<1>7. forms'[id].value = forms[id].value /\ forms'[id].deleted = forms[id].deleted
      /\ forms'[id].changed = (id = Controller) /\ forms'[id] \in MemoryForms
  BY <1>2, <1>3 DEF MemoryForms
<1>8. IsFile(files'[n])
  <2>1. files'[n].records \in [DOMAIN files'[n].records -> SavedForms]
    <3>1. files'[n].records = [k \in DOMAIN files[n].records \cup {id} |->
                                 IF k = id THEN rec ELSE files[n].records[k]]
      BY <1>4 DEF Put
    <3>2. \A k \in DOMAIN files[n].records : files[n].records[k] \in SavedForms
      BY <1>2 DEF IsFile
    <3> HIDE DEF rec
    <3> QED BY <1>5, <1>6, <3>1, <3>2
  <2> HIDE DEF rec
  <2> QED BY <1>2, <1>4, <1>6, <2>1 DEF IsFile
<1>9. Live' = Live
  BY <1>3, <1>7 DEF Live
<1>10. Picture' = Picture
  <2>1. \A k \in Live \ {Controller} : forms'[k].value = forms[k].value
    BY <1>3, <1>7 DEF Live
  <2> QED BY <1>9, <2>1 DEF Picture
<1>11. \A k, i : Holds(k, i) /\ (i \in DOMAIN forms => ~forms[i].deleted) => Holds(k, i)'
  <2> SUFFICES ASSUME NEW k, NEW i, Holds(k, i), i \in DOMAIN forms => ~forms[i].deleted
               PROVE  Holds(k, i)'
    OBVIOUS
  <2>1. CASE k = n /\ i = id
    BY <2>1, <1>1, <1>4, <1>5, <1>6 DEF Holds
  <2>2. CASE k = n /\ i # id
    BY <2>2, <1>4, <1>6 DEF Holds
  <2>3. CASE k # n
    BY <2>3, <1>4 DEF Holds
  <2> QED BY <2>1, <2>2, <2>3
<1> HIDE DEF rec
<1>12. \A m \in DOMAIN files : files'[m].prior = files[m].prior /\ files'[m].nextid = files[m].nextid
                               /\ ChainOf(m)' = ChainOf(m)
  BY <1>4, <1>6 DEF ChainOf
<1>13. ChainOfNext' = ChainOfNext
  BY <1>0, <1>1 DEF ChainOfNext
<1>14. StoreType'
  <2>1. \A m \in DOMAIN files' : IsFile(files'[m])
    BY <1>4, <1>8 DEF StoreType
  <2>2. forms' \in [DOMAIN forms' -> MemoryForms]
    BY <1>3, <1>7 DEF StoreType
  <2>3. \A k \in DOMAIN forms' \cap Static : ~forms'[k].deleted
    BY <1>3, <1>7 DEF StoreType
  <2>4. files' \in [DOMAIN files' -> {files'[m] : m \in DOMAIN files'}]
    BY <1>4
  <2> QED BY <1>0, <1>1, <1>3, <1>4, <2>1, <2>2, <2>3, <2>4 DEF StoreType, Up
<1>15. FreshInv'
  <2>1. id < nextformid
    BY <1>1 DEF FreshInv
  <2>2. ASSUME NEW m \in DOMAIN files'
        PROVE  IdsBelow(ChainOf(m), files[m].nextid)'
    <3>1. m \in DOMAIN files /\ m \in Nat /\ m < savenumber
      BY <1>1, <1>4 DEF FreshInv, StoreType, Numbers
    <3>2. CASE m = n
      <4>1. files[n].nextid = nextformid
        BY <1>0, <1>1 DEF FreshInv
      <4>2. ASSUME NEW k \in ChainOf(m) \cap DOMAIN files, NEW i \in DOMAIN files'[k].records
            PROVE  i < nextformid
        BY <2>1, <3>2, <4>1, <1>1, <1>4, <1>6 DEF FreshInv, IdsBelow
      <4> QED BY <3>2, <4>1, <4>2, <1>4, <1>12 DEF IdsBelow
    <3>3. CASE m # n
      <4>1. n \notin ChainOf(m)
        <5>1. \A k \in ToSet(files[m].prior) : k < m /\ k \in Nat
          BY <3>1 DEF FreshInv, StoreType, IsFile, ToSet
        <5>2. m <= n
          BY <3>1, <1>1, SaveAssumption DEF StoreType
        <5> QED BY <3>1, <3>3, <5>1, <5>2, <1>1 DEF ChainOf
      <4>2. IdsBelow(ChainOf(m), files[m].nextid)
        BY <3>1 DEF FreshInv
      <4> QED BY <3>1, <4>1, <4>2, <1>4, <1>12 DEF IdsBelow
    <3> QED BY <3>2, <3>3
  <2>3. IdsBelow(ChainOfNext, nextformid)'
    <3>1. IdsBelow(ChainOfNext, nextformid)
      BY <1>1 DEF FreshInv
    <3> QED BY <2>1, <3>1, <1>1, <1>4, <1>6, <1>13 DEF IdsBelow
  <2>4. \A m \in DOMAIN files' : m < savenumber' /\ \A k \in ToSet(files'[m].prior) : k < m
    BY <1>1, <1>4, <1>12 DEF FreshInv
  <2>5. /\ \A k \in ChainOfNext' : k < savenumber'
        /\ \A k \in DOMAIN forms' : k < nextformid'
    BY <1>1, <1>3, <1>13 DEF FreshInv
  <2>6. /\ loadednumber' \in DOMAIN files' \ DOMAIN shots'
        /\ loadednumber' = savenumber' - 1
        /\ files'[loadednumber'].nextid = nextformid'
        /\ files'[loadednumber'].prior = priorsaves'
    BY <1>0, <1>1, <1>4, <1>6 DEF FreshInv
  <2> QED BY <2>2, <2>3, <2>4, <2>5, <2>6 DEF FreshInv
<1>16. KeptInv'
  <2>1. ASSUME NEW i \in Live' \ Static
        PROVE  \/ forms'[i].changed
               \/ i \in todo'
               \/ (\E k \in ChainOfNext : Holds(k, i))'
    <3>1. i \in Live \ Static /\ ~forms[i].deleted
      BY <2>1, <1>9 DEF Live
    <3>2. CASE i = id
      <4>1. Holds(n, id)'
        BY <3>1, <3>2, <1>1, <1>4, <1>5, <1>6 DEF Holds
      <4>2. n \in ChainOfNext'
        BY <1>0, <1>13 DEF ChainOfNext
      <4> QED BY <3>2, <4>1, <4>2
    <3>3. CASE i # id
      <4>1. forms'[i].changed = forms[i].changed /\ (i \in todo => i \in todo')
        BY <3>1, <3>3, <1>1, <1>3 DEF Live
      <4>2. CASE \E k \in ChainOfNext : Holds(k, i)
        BY <3>1, <4>2, <1>11, <1>13
      <4> QED BY <3>1, <4>1, <4>2, <1>1 DEF KeptInv
    <3> QED BY <3>2, <3>3
  <2>2. \A k \in DOMAIN forms' \ {Controller} : forms'[k].changed => k \in todo'
    BY <1>1, <1>3, <1>7 DEF KeptInv
  <2>3. ASSUME NEW m \in DOMAIN shots', NEW i \in DOMAIN shots'[m] \ Static
        PROVE  (\E k \in ChainOf(m) : Holds(k, i))'
    <3>1. m \in DOMAIN shots /\ m \in DOMAIN files /\ m # n /\ m \in Nat /\ m < savenumber
      BY <1>1 DEF StoreType, FreshInv, Numbers
    <3>2. PICK k \in ChainOf(m) : Holds(k, i)
      BY <3>1, <1>1 DEF KeptInv
    <3>3. k # n
      <4>1. \A j \in ToSet(files[m].prior) : j < m /\ j \in Nat
        BY <3>1 DEF FreshInv, StoreType, IsFile, ToSet
      <4>2. m <= n
        BY <3>1, <1>1, SaveAssumption DEF StoreType
      <4> QED BY <3>1, <3>2, <4>1, <4>2, <1>1 DEF ChainOf
    <3> QED BY <3>1, <3>2, <3>3, <1>4, <1>12 DEF Holds
  <2> QED BY <1>1, <2>1, <2>2, <2>3 DEF KeptInv
<1>17. ExactInv'
  <2> SUFFICES ASSUME ~regime.incremental PROVE ExactInv'
    BY <1>1 DEF ExactInv
  <2>1. \A m \in DOMAIN files' : files'[m].prior = <<>>
    BY <1>4, <1>12 DEF ExactInv
  <2>2. ASSUME NEW i \in Ids \ todo' PROVE ShowsForm(n, i)'
    <3>1. CASE i = id
      BY <3>1, <1>1, <1>3, <1>6, <1>7 DEF ShowsForm, rec
    <3>2. CASE i # id
      <4>1. ShowsForm(n, i)
        BY <2>2, <3>2, <1>0, <1>1 DEF ExactInv
      <4> QED BY <3>2, <4>1, <1>3, <1>6 DEF ShowsForm
    <3> QED BY <3>1, <3>2
  <2>3. \A m \in DOMAIN shots : m \in DOMAIN files /\ files'[m] = files[m] /\ Shown(m)' = Shown(m)
    BY <1>1, <1>4 DEF Shown, StoreType
  <2>4. ASSUME NEW m \in DOMAIN shots'
        PROVE  /\ Tree \in DOMAIN shots'[m]
               /\ shots'[m] = [i \in Shown(m)' |-> files'[m].records[i].value]
    BY <1>1, <2>3 DEF ExactInv
  <2>5. \A i \in Ids \ todo' : ShowsForm(loadednumber, i)'
    BY <1>1, <2>2 DEF ShowsForm
  <2> QED BY <2>1, <2>4, <2>5 DEF ExactInv
<1>18. ShotInv' /\ WholeInv'
  <2>1. ShotInv'
    BY <1>1 DEF ShotInv
  <2>2. WholeInv'
    BY <1>0, <1>1, <1>4 DEF WholeInv
  <2> QED BY <2>1, <2>2
<1> QED BY <1>10, <1>14, <1>15, <1>16, <1>17, <1>18
\* The picture that is taken is of what is alive.
LEMMA PictureType ==
  ASSUME StoreType
  PROVE  /\ Picture \in [Live \ {Controller} -> Values]
         /\ Live \ {Controller} \subseteq Ids
         /\ DOMAIN Picture = Live \ {Controller}
  BY DEF Picture, StoreType, Live, MemoryForms

LEMMA EndInv ==
  ASSUME StoreInv, EndSave
  PROVE  StoreInv'
<1> USE DEF StoreInv
<1>0. PICK n : n = loadednumber
  OBVIOUS
<1>1. /\ regime' = regime /\ phase = "saving" /\ phase' = "running" /\ todo = {}
      /\ forms' = forms /\ nextformid' = nextformid /\ savenumber' = savenumber
      /\ loadednumber' = n /\ priorsaves' = priorsaves /\ todo' = todo
      /\ files' = files /\ shots' = Put(shots, n, Picture) /\ Up /\ Up'
      /\ n \in DOMAIN files \ DOMAIN shots
  <2>1. n \in DOMAIN files \ DOMAIN shots
    BY <1>0 DEF FreshInv, EndSave
  <2> QED BY <1>0, <2>1 DEF EndSave, memory, chain, Up
<1>2. /\ DOMAIN shots' = DOMAIN shots \cup {n} /\ shots'[n] = Picture
      /\ \A k \in DOMAIN shots : shots'[k] = shots[k]
  BY <1>1 DEF Put
<1>3. StoreType'
  <2>1. \A m \in DOMAIN shots' : shots'[m] \in [DOMAIN shots'[m] -> Values]
    BY <1>2, PictureType DEF StoreType
  <2> QED BY <1>0, <1>1, <1>2, <2>1 DEF StoreType, Up
<1>4. FreshInv'
  BY <1>0, <1>1 DEF FreshInv, Up, ChainOf, ChainOfNext, IdsBelow
<1>5. KeptInv'
  <2>1. ASSUME NEW id \in Live \ Static, id # Controller
        PROVE  \E k \in ChainOfNext : Holds(k, id)
    <3>1. id \in DOMAIN forms \ {Controller} /\ id \notin todo
      BY <2>1, <1>1 DEF Live
    <3>2. ~forms[id].changed
      BY <3>1, <1>1 DEF KeptInv
    <3> QED BY <3>1, <3>2, <1>1 DEF KeptInv
  <2>2. ASSUME NEW id \in Live' \ Static
        PROVE  (\E k \in ChainOfNext : Holds(k, id))'
    BY <2>1, <1>0, <1>1 DEF Live, Static, ChainOfNext, Holds
  <2>3. ASSUME NEW m \in DOMAIN shots', NEW id \in DOMAIN shots'[m] \ Static
        PROVE  (\E k \in ChainOf(m) : Holds(k, id))'
    <3>1. CASE m = n
      <4>1. id \in Live \ Static /\ id # Controller
        BY <3>1, <2>3, <1>2, PictureType
      <4>2. files[n].prior = priorsaves
        BY <1>0, <1>1 DEF FreshInv
      <4>3. ChainOf(m)' = ChainOfNext
        BY <3>1, <4>2, <1>0, <1>1 DEF ChainOf, ChainOfNext
      <4> QED BY <4>1, <4>3, <2>1, <1>1 DEF Holds
    <3>2. CASE m # n
      BY <3>2, <1>1, <1>2 DEF KeptInv, ChainOf, Holds
    <3> QED BY <3>1, <3>2
  <2> QED BY <1>1, <2>2, <2>3 DEF KeptInv
<1>6. ExactInv'
  <2> SUFFICES ASSUME ~regime.incremental PROVE ExactInv'
    BY <1>1 DEF ExactInv
  <2>1. \A m : Shown(m)' = Shown(m)
    BY <1>1 DEF Shown
  <2>2. \A id \in Ids : ShowsForm(n, id)
    BY <1>0, <1>1 DEF ExactInv
  <2>8. ASSUME NEW id \in DOMAIN forms
        PROVE  /\ id \in DOMAIN files[n].records
               /\ files[n].records[id].value = forms[id].value
               /\ files[n].records[id].deleted = forms[id].deleted
    <3>1. PICK rec : rec = [value |-> forms[id].value, deleted |-> forms[id].deleted]
      OBVIOUS
    <3>2. id \in DOMAIN files[n].records /\ files[n].records[id] = rec
      BY <2>2, <3>1 DEF ShowsForm, StoreType
    <3> QED BY <3>1, <3>2
  <2>3. Shown(n) = Live \ {Controller}
    <3>1. DOMAIN files[n].records \subseteq Ids /\ DOMAIN forms \subseteq Ids
      BY <1>1 DEF StoreType, IsFile
    <3>2. DOMAIN files[n].records = DOMAIN forms
      BY <2>2, <3>1 DEF ShowsForm
    <3>3. \A id \in DOMAIN forms : files[n].records[id].deleted = forms[id].deleted
      BY <2>8
    <3> QED BY <3>2, <3>3 DEF Shown, Live
  <2>4. \A id \in Shown(n) : files[n].records[id].value = forms[id].value
    <3>1. \A id \in Live : id \in DOMAIN forms /\ id \in Ids
      BY DEF Live, StoreType
    <3> QED BY <2>3, <2>8, <3>1
  <2>5. Picture = [id \in Shown(n) |-> files[n].records[id].value]
    BY <2>3, <2>4 DEF Picture
  <2>6. Tree \in DOMAIN Picture
    BY <1>1, PictureType DEF StoreType, Live, Static, Tree, Controller
  <2> HIDE DEF Shown
  <2>7. ASSUME NEW m \in DOMAIN shots'
        PROVE  /\ Tree \in DOMAIN shots'[m]
               /\ shots'[m] = [id \in Shown(m)' |-> files'[m].records[id].value]
    <3>1. CASE m = n
      BY <3>1, <1>1, <1>2, <2>1, <2>5, <2>6
    <3>2. CASE m # n
      BY <3>2, <1>1, <1>2, <2>1 DEF ExactInv
    <3> QED BY <3>1, <3>2
  <2> QED BY <1>1, <2>7 DEF ExactInv
<1>7. ShotInv' /\ WholeInv'
  <2>1. ShotInv'
    BY <1>2, PictureType DEF ShotInv
  <2>2. WholeInv'
    BY <1>0, <1>1, <1>2 DEF WholeInv
  <2> QED BY <2>1, <2>2
<1> QED BY <1>3, <1>4, <1>5, <1>6, <1>7

LEMMA DieInv ==
  ASSUME StoreInv, Die
  PROVE  StoreInv'
<1> USE DEF StoreInv
<1>1. /\ regime' = regime /\ phase' = "down" /\ forms' = <<>> /\ nextformid' = BaseId
      /\ savenumber' = 1 /\ loadednumber' = 0 /\ priorsaves' = <<>> /\ todo' = {}
      /\ files' = files /\ shots' = shots /\ ~Up'
  BY DEF Die, Up
<1>2. StoreType'
  <2>1. /\ DOMAIN forms' = {} /\ forms' \in [DOMAIN forms' -> MemoryForms]
        /\ priorsaves' \in Seq(Nat)
    BY <1>1
  <2>2. /\ nextformid' \in BaseId .. MaxId + 1 /\ savenumber' \in 1 .. MaxSaves + 1
        /\ loadednumber' \in 0 .. MaxSaves
    BY <1>1, SaveAssumption DEF BaseId
  <2> QED BY <1>1, <2>1, <2>2 DEF StoreType, Up
<1>3. FreshInv'
  BY <1>1 DEF FreshInv, ChainOf, IdsBelow
<1>4. KeptInv'
  BY <1>1 DEF KeptInv, ChainOf, Holds
<1>5. ExactInv'
  BY <1>1, SameFiles
<1>6. ShotInv' /\ WholeInv'
  <2>1. ShotInv'
    BY <1>1 DEF ShotInv
  <2>2. WholeInv'
    BY <1>1 DEF WholeInv, Die
  <2> QED BY <2>1, <2>2
<1> QED BY <1>2, <1>3, <1>4, <1>5, <1>6

\* What a load makes of the files.
LEMMA LoadedType ==
  ASSUME StoreType, NEW n \in DOMAIN files, PriorsExist(n)
  PROVE  /\ \A id \in LoadedIds(n) : LoadedValue(n, id) \in Values
         /\ Static \subseteq LoadedIds(n) /\ LoadedIds(n) \subseteq Ids
         /\ \A id \in Ids \ Static :
              id \in LoadedIds(n) <=> \E k \in ChainOf(n) : Holds(k, id)
<1>1. IsFile(files[n]) /\ n \in Nat /\ Static \subseteq Ids
  <2>1. Static \subseteq Ids
    BY SaveAssumption DEF Static, Ids, Tree, Controller, BaseId
  <2> QED BY <2>1 DEF StoreType, Numbers
<1>2. /\ \A i \in DOMAIN Chain(n) : Chain(n)[i] \in ChainOf(n)
      /\ \A k \in ChainOf(n) : \E i \in DOMAIN Chain(n) : Chain(n)[i] = k
  BY <1>1, ChainOfPlaces DEF IsFile
<1>3. \A i \in DOMAIN Chain(n) : Chain(n)[i] \in DOMAIN files
  BY <1>2 DEF ChainOf, PriorsExist
<1>4. \A id : \A i \in Places(n, id) : RecordAt(n, id, i).value \in Values
  BY <1>3 DEF Places, RecordAt, StoreType, IsFile, SavedForms
<1>5. PICK m \in Nat : DOMAIN Chain(n) = 1 .. m
  BY <1>1 DEF IsFile, Chain
<1>6. \A id : Places(n, id) \subseteq 1 .. m /\ Registered(n, id) \subseteq Places(n, id)
  BY <1>5 DEF Places, Registered
<1>7. ASSUME NEW id \in Ids \ Static
      PROVE  Registered(n, id) # {} <=> \E k \in ChainOf(n) : Holds(k, id)
  <2>1. ASSUME NEW i \in Registered(n, id) PROVE \E k \in ChainOf(n) : Holds(k, id)
    BY <1>2, <1>3 DEF Registered, Places, RecordAt, Holds
  <2>2. ASSUME NEW k \in ChainOf(n), Holds(k, id) PROVE Registered(n, id) # {}
    <3>1. PICK i \in DOMAIN Chain(n) : Chain(n)[i] = k
      BY <1>2
    <3>2. i \in Registered(n, id)
      BY <3>1, <2>2 DEF Registered, Places, RecordAt, Holds
    <3> QED BY <3>2
  <2> QED BY <2>1, <2>2
<1>8. ASSUME NEW id \in LoadedIds(n) PROVE LoadedValue(n, id) \in Values
  <2>1. CASE id \in Static /\ Places(n, id) = {}
    BY <2>1, SaveAssumption DEF LoadedValue
  <2>2. CASE id \in Static /\ Places(n, id) # {}
    <3>1. Max(Places(n, id)) \in Places(n, id)
      BY <2>2, <1>6, FirstAndLast
    <3> QED BY <2>2, <3>1, <1>4 DEF LoadedValue
  <2>3. CASE id \notin Static
    <3>1. Registered(n, id) # {}
      BY <1>8, <2>3 DEF LoadedIds
    <3>2. Min(Registered(n, id)) \in Registered(n, id)
      BY <3>1, <1>6, FirstAndLast
    <3> QED BY <2>3, <3>2, <1>4, <1>6 DEF LoadedValue
  <2> QED BY <2>1, <2>2, <2>3
<1> QED BY <1>1, <1>7, <1>8 DEF LoadedIds
LEMMA LoadInv ==
  ASSUME StoreInv, NEW n, Load(n)
  PROVE  StoreInv'
<1> USE DEF StoreInv
<1>1. /\ regime' = regime /\ phase = "down" /\ phase' = "running"
      /\ forms' = [id \in LoadedIds(n) |-> LoadedForm(n, id)]
      /\ nextformid' = files[n].nextid /\ savenumber' = NextNumber(n)
      /\ loadednumber' = n /\ priorsaves' = files[n].prior /\ todo' = {}
      /\ files' = files /\ shots' = shots /\ Up'
      /\ n \in DOMAIN files /\ PriorsExist(n)
  BY DEF Load, LoadedNextId, Up
<1>2. /\ IsFile(files[n]) /\ n \in 1 .. MaxSaves /\ MaxSaves \in Nat
      /\ NextNumber(n) \in 1 .. MaxSaves + 1
      /\ \A k \in DOMAIN files : k < NextNumber(n)
  <2>1. /\ IsFile(files[n]) /\ n \in Numbers /\ MaxSaves \in Nat
        /\ DOMAIN files \subseteq Numbers
    BY <1>1, SaveAssumption DEF StoreType
  <2> QED BY <1>1, <2>1, NextNumberIsHighest DEF Numbers
<1>3. DOMAIN forms' = LoadedIds(n) /\ \A id \in LoadedIds(n) : forms'[id] = LoadedForm(n, id)
  BY <1>1
<1>4. \A id \in LoadedIds(n) : LoadedForm(n, id) \in MemoryForms /\ ~LoadedForm(n, id).deleted
  <2> TAKE id \in LoadedIds(n)
  <2>1. LoadedValue(n, id) \in Values
    BY <1>1, LoadedType
  <2> QED BY <2>1 DEF LoadedForm, MemoryForms
<1>5. ChainOfNext' = ChainOf(n)
  BY <1>1 DEF ChainOfNext, ChainOf
<1>6. StoreType'
  <2>1. /\ Static \subseteq DOMAIN forms' /\ DOMAIN forms' \subseteq Ids
        /\ forms' \in [DOMAIN forms' -> MemoryForms]
        /\ \A id \in DOMAIN forms' : ~forms'[id].deleted
    <3>1. \A id \in DOMAIN forms' : forms'[id] \in MemoryForms /\ ~forms'[id].deleted
      BY <1>3, <1>4
    <3>2. Static \subseteq DOMAIN forms' /\ DOMAIN forms' \subseteq Ids
      BY <1>1, <1>3, LoadedType
    <3>3. forms' = [id \in DOMAIN forms' |-> forms'[id]]
      BY <1>1, <1>3
    <3> QED BY <3>1, <3>2, <3>3
  <2>2. /\ nextformid' \in BaseId .. MaxId + 1 /\ savenumber' \in 1 .. MaxSaves + 1
        /\ loadednumber' \in 0 .. MaxSaves /\ priorsaves' \in Seq(Nat)
    BY <1>1, <1>2 DEF IsFile
  <2> QED BY <1>1, <2>1, <2>2 DEF StoreType, Up
<1>7. FreshInv'
  <2>1. IdsBelow(ChainOfNext, nextformid)'
    BY <1>1, <1>5 DEF FreshInv, IdsBelow
  <2>2. \A m \in DOMAIN files' : m < savenumber'
    BY <1>1, <1>2
  <2>3. \A k \in ChainOfNext' : k < savenumber'
    BY <1>1, <1>2, <1>5 DEF ChainOf, PriorsExist
  <2>4. ASSUME NEW id \in DOMAIN forms' PROVE id < nextformid'
    <3>1. CASE id \in Static
      <4>1. id \in 1 .. 2 /\ nextformid' \in Nat /\ nextformid' >= 3
        BY <3>1, <1>1, <1>2, SaveAssumption DEF IsFile, Static, Tree, Controller, BaseId
      <4> QED BY <4>1
    <3>2. CASE id \notin Static
      <4>1. \E k \in ChainOf(n) : Holds(k, id)
        BY <3>2, <1>1, <1>3, LoadedType
      <4> QED BY <4>1, <1>1 DEF FreshInv, IdsBelow, Holds
    <3> QED BY <3>1, <3>2
  <2> QED BY <1>1, <2>1, <2>2, <2>3, <2>4 DEF FreshInv, ChainOf, IdsBelow
<1>8. KeptInv'
  <2>1. ASSUME NEW id \in Live' \ Static
        PROVE  (\E k \in ChainOfNext : Holds(k, id))'
    <3>1. id \in LoadedIds(n) /\ id \in Ids \ Static
      BY <1>1, <1>3, LoadedType DEF Live
    <3>2. \E k \in ChainOf(n) : Holds(k, id)
      BY <3>1, <1>1, LoadedType
    <3> QED BY <3>2, <1>1, <1>5 DEF Holds
  <2> QED BY <1>1, <2>1 DEF KeptInv, ChainOf, Holds
<1>9. ExactInv'
  BY <1>1, SameFiles
<1>10. ShotInv' /\ WholeInv'
  <2>1. ShotInv'
    BY <1>1 DEF ShotInv
  <2>2. WholeInv'
    BY <1>1 DEF WholeInv
  <2> QED BY <2>1, <2>2
<1> QED BY <1>6, <1>7, <1>8, <1>9, <1>10

LEMMA NextInv == StoreInv /\ [Next]_vars => StoreInv'
<1> SUFFICES ASSUME StoreInv, [Next]_vars PROVE StoreInv'
  OBVIOUS
<1>1. CASE Next
  <2>1. ASSUME NEW v \in Values, CreateForm(v) PROVE StoreInv'
    BY <2>1, CreateInv
  <2>2. ASSUME NEW v \in Values, NEW id \in Ids, ChangeForm(id, v) PROVE StoreInv'
    BY <2>2, ChangeInv
  <2>3. ASSUME NEW id \in Ids, DeleteForm(id) PROVE StoreInv'
    BY <2>3, DeleteInv
  <2>4. ASSUME NEW id \in Ids, WriteRecord(id) PROVE StoreInv'
    BY <2>4, WriteInv
  <2>5. ASSUME NEW t \in Tasks, AddTask(t) PROVE StoreInv'
    BY <2>5, TaskInv DEF AddTask
  <2>6. CASE TakeTask
    BY <2>6, TaskInv DEF TakeTask
  <2>7. CASE BeginSave
    BY <2>7, BeginInv
  <2>8. CASE BeginSaveFails
    BY <2>8, BeginFailsInv
  <2>9. CASE EndSave
    BY <2>9, EndInv
  <2>10. CASE Die
    BY <2>10, DieInv
  <2>11. ASSUME NEW n \in Numbers, Load(n) PROVE StoreInv'
    BY <2>11, LoadInv
  <2> QED BY <1>1, <2>1, <2>2, <2>3, <2>4, <2>5, <2>6, <2>7, <2>8, <2>9, <2>10, <2>11 DEF Next
<1>2. CASE UNCHANGED vars
  BY <1>2, TaskInv DEF vars, chain
<1> QED BY <1>1, <1>2

\* The inductive invariant of the store and its files.
THEOREM StoreInvariant == Spec => []StoreInv
<1> QED BY InitInv, NextInv, PTL DEF Spec

\* Whatever is created, deleted, saved, torn and loaded in whatever order, over
\* any number of processes: no form that is loaded or alive has the id that
\* CreateForm gives out next, and no file the name of the next save
\* (Data::CreateForm, Data::GetSaveName, Data::Load).
THEOREM FreshNames == Spec => []NamesAreFresh
<1>1. StoreInv => NamesAreFresh
  <2> SUFFICES ASSUME StoreInv, phase = "running"
               PROVE  /\ \A id \in DOMAIN forms : id < nextformid
                      /\ savenumber \notin DOMAIN files
    BY DEF NamesAreFresh
  <2>1. savenumber \in Nat
    BY SaveAssumption DEF StoreInv, StoreType
  <2> QED BY <2>1 DEF StoreInv, FreshInv, Up
<1> QED BY <1>1, StoreInvariant, PTL

-----------------------------------------------------------------------------
(* The refinement of Snapshots.                                            *)

IsPicture(p) == p \in UNION {[S -> Values] : S \in SUBSET Ids}

LEMMA PicturesArePictures == StoreType => IsPicture(Picture)
  BY PictureType DEF IsPicture

LEMMA PicturesStayPictures == (StoreType => IsPicture(Picture))'
  BY PicturesArePictures, PTL

LEMMA SnapInitHolds == Init => Store!SnapInit
<1> SUFFICES ASSUME Init PROVE Store!SnapInit
  OBVIOUS
<1>1. StoreType /\ regime.incremental \in BOOLEAN /\ regime.diesInSave \in BOOLEAN
  BY InitInv, RegimeType DEF StoreInv, StoreType
<1>2. Picture \in Store!Pictures
  BY <1>1, PicturesArePictures DEF Store!Pictures, IsPicture
<1> QED BY <1>1, <1>2 DEF Store!SnapInit, Init

\* The program works.
LEMMA SnapWork ==
  ASSUME StoreInv', regime' = regime, shots' = shots, phase = "running", phase' = "running"
  PROVE  Store!Work
<1>1. Picture' \in Store!Pictures
  BY PicturesStayPictures DEF Store!Pictures, IsPicture, StoreInv
<1> QED BY <1>1 DEF Store!Work

\* What is alive does not change.
LEMMA SnapSame ==
  ASSUME regime' = regime, shots' = shots, forms' = forms, (phase # "down") = (phase' # "down")
  PROVE  UNCHANGED Store!snapVars
<1>1. Picture' = Picture
  BY DEF Picture, Live
<1> QED BY <1>1 DEF Store!snapVars

LEMMA SnapTake ==
  ASSUME StoreInv, EndSave
  PROVE  \E n \in Numbers : Store!Take(n)
<1>0. PICK n : n = loadednumber
  OBVIOUS
<1>1. n \in Numbers /\ n \notin DOMAIN shots /\ phase = "saving"
  BY <1>0 DEF StoreInv, StoreType, FreshInv, EndSave
<1>2. /\ forms' = forms /\ phase' = "running" /\ regime' = regime
      /\ shots' = Put(shots, n, Picture)
  BY <1>0 DEF EndSave, memory
<1>3. Picture' = Picture
  BY <1>2 DEF Picture, Live
<1> QED BY <1>1, <1>2, <1>3 DEF Store!Take, Put

LEMMA SnapStop ==
  ASSUME Die
  PROVE  Store!Stop
<1>1. phase # "down" /\ phase' = "down" /\ forms' = <<>> /\ regime' = regime /\ shots' = shots
  BY DEF Die
<1>2. Live' = {}
  BY <1>1 DEF Live
<1>3. Picture' = [id \in {} |-> forms'[id].value]
  BY <1>2 DEF Picture
<1>4. Picture' = <<>>
  BY <1>3
<1> QED BY <1>1, <1>4 DEF Store!Stop

\* A complete save gives back what it shows, exactly if files are full; a torn
\* one gives back anything.
LEMMA SnapRestore ==
  ASSUME StoreInv, StoreInv', NEW n \in Numbers, Load(n)
  PROVE  Store!Restore(n) \/ Store!RestoreTorn(n)
<1>1. /\ regime' = regime /\ phase = "down" /\ phase' = "running" /\ shots' = shots
      /\ forms' = [id \in LoadedIds(n) |-> LoadedForm(n, id)]
      /\ n \in DOMAIN files /\ PriorsExist(n) /\ StoreType
      /\ regime.incremental \in BOOLEAN /\ regime.diesInSave \in BOOLEAN
  BY RegimeType DEF Load, StoreInv, StoreType
<1>2. Picture' \in Store!Pictures
  BY PicturesStayPictures DEF Store!Pictures, IsPicture, StoreInv
<1>3. CASE n \notin DOMAIN shots
  <2>1. regime.diesInSave
    BY <1>1, <1>3 DEF StoreInv, WholeInv
  <2> QED BY <1>1, <1>2, <1>3, <2>1 DEF Store!RestoreTorn
<1>4. CASE n \in DOMAIN shots
  <2>1. \A id \in LoadedIds(n) : /\ forms'[id].value = LoadedValue(n, id)
                                 /\ ~forms'[id].deleted
    BY <1>1 DEF LoadedForm
  <2>2. /\ DOMAIN forms' = LoadedIds(n)
        /\ Live' = LoadedIds(n)
    BY <1>1, <2>1 DEF Live
  <2>3. Picture' = [id \in LoadedIds(n) \ {Controller} |-> LoadedValue(n, id)]
    BY <2>1, <2>2 DEF Picture
  <2>4. CASE regime.incremental
    <3>1. DOMAIN Picture' = LoadedIds(n) \ {Controller}
      BY <2>3
    <3>2. DOMAIN shots[n] \subseteq Ids \ {Controller}
      BY <1>4 DEF StoreInv, ShotInv
    <3>3. ASSUME NEW id \in DOMAIN shots[n] PROVE id \in LoadedIds(n)
      <4>1. CASE id \in Static
        BY <4>1, <1>1, LoadedType
      <4>2. CASE id \notin Static
        <5>1. \E k \in ChainOf(n) : Holds(k, id)
          BY <4>2, <1>4 DEF StoreInv, KeptInv
        <5> QED BY <4>2, <5>1, <3>2, <1>1, LoadedType
      <4> QED BY <4>1, <4>2
    <3>4. DOMAIN shots[n] \subseteq DOMAIN Picture'
      BY <3>1, <3>2, <3>3
    <3>5. Picture' \in Store!Shows(shots[n])
      BY <1>2, <2>4, <3>4 DEF Store!Shows
    <3> QED BY <1>1, <1>4, <3>5 DEF Store!Restore
  <2>5. CASE ~regime.incremental
    <3>1. /\ files[n].prior = <<>> /\ Tree \in DOMAIN shots[n]
          /\ shots[n] = [id \in Shown(n) |-> files[n].records[id].value]
      BY <1>1, <1>4, <2>5 DEF StoreInv, ExactInv
    <3>2. Chain(n) = <<n>>
      BY <3>1 DEF Chain
    <3>3. DOMAIN Chain(n) = {1} /\ Chain(n)[1] = n
      BY <3>2
    <3>4. \A id : /\ Places(n, id) = IF id \in DOMAIN files[n].records THEN {1} ELSE {}
                  /\ RecordAt(n, id, 1) = files[n].records[id]
      BY <3>3 DEF Places, RecordAt
    <3>5. Max({1}) = 1 /\ Min({1}) = 1
      BY DEF Max, Min
    <3>6. Tree \in Shown(n) /\ Tree \in Static
      BY <3>1 DEF Static
    <3>7. \A id \in Ids \ Static : id \in LoadedIds(n) <=> id \in Shown(n)
      <4> TAKE id \in Ids \ Static
      <4>1. Registered(n, id) # {} <=> id \in DOMAIN files[n].records /\ ~files[n].records[id].deleted
        BY <3>4 DEF Registered
      <4> QED BY <4>1 DEF LoadedIds, Shown, Static
    <3>8. LoadedIds(n) \ {Controller} = Shown(n)
      <4>1. LoadedIds(n) \subseteq Ids /\ Static \subseteq LoadedIds(n)
        BY <1>1, LoadedType
      <4>2. Shown(n) \subseteq Ids \ {Controller}
        BY <1>1 DEF Shown, StoreType, IsFile
      <4>3. \A id \in Static : id = Tree \/ id = Controller
        BY DEF Static
      <4> QED BY <3>6, <3>7, <4>1, <4>2, <4>3
    <3>9. ASSUME NEW id \in Shown(n) PROVE LoadedValue(n, id) = files[n].records[id].value
      <4>1. Places(n, id) = {1} /\ ~files[n].records[id].deleted
        BY <3>4 DEF Shown
      <4>2. Registered(n, id) = {1}
        BY <4>1, <3>4 DEF Registered
      <4> QED BY <3>4, <3>5, <4>1, <4>2 DEF LoadedValue
    <3>10. Picture' = shots[n]
      BY <2>3, <3>1, <3>8, <3>9
    <3>11. Picture' \in Store!Shows(shots[n])
      BY <1>2, <2>5, <3>10 DEF Store!Shows
    <3> QED BY <1>1, <1>4, <3>11 DEF Store!Restore
  <2> QED BY <1>1, <2>4, <2>5
<1> QED BY <1>3, <1>4

LEMMA SnapNextHolds ==
  StoreInv /\ StoreInv' /\ [Next]_vars => [Store!SnapNext]_(Store!snapVars)
<1> SUFFICES ASSUME StoreInv, StoreInv', [Next]_vars
             PROVE  Store!SnapNext \/ UNCHANGED Store!snapVars
  OBVIOUS
<1>1. CASE Next
  <2>1. ASSUME NEW v \in Values, CreateForm(v) PROVE Store!Work
    BY <2>1, SnapWork DEF CreateForm
  <2>2. ASSUME NEW v \in Values, NEW id \in Ids, ChangeForm(id, v) PROVE Store!Work
    BY <2>2, SnapWork DEF ChangeForm
  <2>3. ASSUME NEW id \in Ids, DeleteForm(id) PROVE Store!Work
    BY <2>3, SnapWork DEF DeleteForm
  <2>4. ASSUME NEW id \in Ids, WriteRecord(id) PROVE UNCHANGED Store!snapVars
    BY <2>4, WriteInv DEF WriteRecord, Store!snapVars
  <2>5. ASSUME NEW t \in Tasks, AddTask(t) PROVE UNCHANGED Store!snapVars
    BY <2>5, SnapSame DEF AddTask
  <2>6. CASE TakeTask
    BY <2>6, SnapSame DEF TakeTask
  <2>7. CASE BeginSave
    BY <2>7, SnapSame DEF BeginSave, memory
  <2>8. CASE BeginSaveFails
    BY <2>8, SnapSame DEF BeginSaveFails, memory
  <2>9. CASE EndSave
    BY <2>9, SnapTake DEF Store!SnapNext
  <2>10. CASE Die
    BY <2>10, SnapStop DEF Store!SnapNext
  <2>11. ASSUME NEW n \in Numbers, Load(n) PROVE Store!SnapNext
    BY <2>11, SnapRestore DEF Store!SnapNext
  <2>12. Store!Work => Store!SnapNext
    BY DEF Store!SnapNext
  <2> QED BY <1>1, <2>1, <2>2, <2>3, <2>4, <2>5, <2>6, <2>7, <2>8, <2>9, <2>10, <2>11, <2>12
          DEF Next
<1>2. CASE UNCHANGED vars
  BY <1>2, SnapSame DEF vars
<1> QED BY <1>1, <1>2

\* Saving and loading implement Snapshots: whatever chain of full and incremental
\* files a load reads, it brings back every form that was alive when the save was
\* complete, and exactly those, with their values, if files are full; only a save
\* that was cut short can show anything else (Data::Save, Data::LoadIntern).
THEOREM StoreImplementsSnapshots == Spec => StoreSpec
<1>1. Spec => []StoreInv
  BY StoreInvariant
<1> QED BY <1>1, SnapInitHolds, SnapNextHolds, PTL DEF Spec, StoreSpec, Store!SnapSpec
-----------------------------------------------------------------------------
(* Layouts: the sum of their widths, one layout after another, and what a  *)
(* buffer of a given size takes.                                           *)

-----------------------------------------------------------------------------
(* The size of a layout.                                                   *)

IsLayout(s) ==
  /\ s \in Seq({s[i] : i \in DOMAIN s})
  /\ \A i \in 1 .. Len(s) : s[i].width \in Nat /\ s[i].spare \in Nat

\* The fields of a layout have widths and spares.
LEMMA FieldFacts ==
  ASSUME NEW s, IsLayout(s)
  PROVE  /\ Len(s) \in Nat
         /\ \A i \in 1 .. Len(s) : s[i].width \in Nat /\ s[i].spare \in Nat
BY DEF IsLayout

\* A list of fields is a layout.
LEMMA MadeLayout ==
  ASSUME NEW s, NEW n \in Nat, s = [i \in 1 .. n |-> s[i]],
         \A i \in 1 .. n : s[i].width \in Nat /\ s[i].spare \in Nat
  PROVE  IsLayout(s) /\ Len(s) = n
<1> DEFINE S == {s[i] : i \in 1 .. n}
<1>1. DOMAIN s = 1 .. n
  OBVIOUS
<1>2. \A i \in 1 .. n : s[i] \in S
  OBVIOUS
<1> HIDE DEF S
<1>3. s \in Seq(S) /\ Len(s) = n
  BY <1>2
<1>4. s \in Seq({s[i] : i \in DOMAIN s})
  BY <1>1, <1>3 DEF S
<1> QED BY <1>3, <1>4 DEF IsLayout

\* Two layouts after each other are a layout.
LEMMA JoinLayout ==
  ASSUME NEW a, NEW b, IsLayout(a), IsLayout(b)
  PROVE  /\ IsLayout(a \o b) /\ Len(a \o b) = Len(a) + Len(b)
         /\ \A i \in 1 .. Len(a) + Len(b) :
              (a \o b)[i] = IF i <= Len(a) THEN a[i] ELSE b[i - Len(a)]
<1> DEFINE m == Len(a)
           n == Len(b)
           S == {a[i] : i \in DOMAIN a} \cup {b[i] : i \in DOMAIN b}
<1>1. a \in Seq(S) /\ b \in Seq(S)
  <2>1. {a[i] : i \in DOMAIN a} \subseteq S /\ {b[i] : i \in DOMAIN b} \subseteq S
    OBVIOUS
  <2>2. a \in Seq({a[i] : i \in DOMAIN a}) /\ b \in Seq({b[i] : i \in DOMAIN b})
    BY DEF IsLayout
  <2> HIDE DEF S
  <2> QED BY <2>1, <2>2
<1>2. m \in Nat /\ n \in Nat
  BY <1>1
<1> HIDE DEF S
<1>3. PICK c : c = a \o b
  OBVIOUS
<1>4. c \in Seq(S) /\ Len(c) = m + n
  BY <1>1, <1>3
<1>5. \A i \in 1 .. m + n : c[i] = IF i <= m THEN a[i] ELSE b[i - m]
  BY <1>1, <1>3
<1>6. c = [i \in 1 .. m + n |-> c[i]]
  BY <1>2, <1>4
<1>7. ASSUME NEW i \in 1 .. m + n
      PROVE  c[i].width \in Nat /\ c[i].spare \in Nat
  <2>1. CASE i <= m
    <3>1. i \in 1 .. m /\ c[i] = a[i]
      BY <1>2, <1>5, <2>1
    <3> QED BY <3>1, FieldFacts
  <2>2. CASE i > m
    <3>1. i - m \in 1 .. n /\ c[i] = b[i - m]
      BY <1>2, <1>5, <2>2
    <3> QED BY <3>1, FieldFacts
  <2> QED BY <1>2, <2>1, <2>2
<1>8. m + n \in Nat
  BY <1>2
<1>9. IsLayout(c)
  BY <1>6, <1>7, <1>8, MadeLayout
<1> QED BY <1>3, <1>4, <1>5, <1>9

\* Joining layouts is associative.
LEMMA JoinAgain ==
  ASSUME NEW a, NEW b, NEW c, IsLayout(a), IsLayout(b), IsLayout(c)
  PROVE  (a \o b) \o c = a \o (b \o c)
<1> DEFINE A == {a[i] : i \in DOMAIN a}
           B == {b[i] : i \in DOMAIN b}
           C == {c[i] : i \in DOMAIN c}
           S == A \cup B \cup C
<1>1. a \in Seq(A) /\ b \in Seq(B) /\ c \in Seq(C)
  BY DEF IsLayout
<1>2. A \subseteq S /\ B \subseteq S /\ C \subseteq S
  OBVIOUS
<1> HIDE DEF A, B, C, S
<1>3. a \in Seq(S) /\ b \in Seq(S) /\ c \in Seq(S)
  BY <1>1, <1>2
<1> QED BY <1>3, ConcatAssociative

IsSum(f, s, n) ==
  f = [i \in 0 .. n |-> IF i = 0 THEN 0 ELSE f[i - 1] + s[i].width]

\* The function by which Total is defined exists.
LEMMA SumExists ==
  ASSUME NEW s, NEW n \in Nat
  PROVE  \E f : IsSum(f, s, n)
<1> DEFINE Bad == {m \in Nat : ~ \E f : IsSum(f, s, m)}
<1> SUFFICES ASSUME Bad # {}
             PROVE  FALSE
  OBVIOUS
<1>1. PICK m \in Bad : \A k \in Bad : m <= k
  <2>1. Bad \subseteq Nat
    OBVIOUS
  <2> HIDE DEF Bad
  <2> QED BY <2>1, Least
<1>2. CASE m = 0
  <2>1. IsSum([i \in 0 .. 0 |-> 0], s, 0)
    BY DEF IsSum
  <2> QED BY <1>2, <2>1
<1>3. CASE m # 0
  <2>1. m - 1 \in Nat /\ m - 1 \notin Bad
    BY <1>1, <1>3
  <2>2. PICK g : IsSum(g, s, m - 1)
    BY <2>1
  <2> DEFINE f == [i \in 0 .. m |-> IF i = m THEN g[m - 1] + s[m].width ELSE g[i]]
  <2>3. ASSUME NEW i \in 0 .. m
        PROVE  f[i] = IF i = 0 THEN 0 ELSE f[i - 1] + s[i].width
    <3>1. CASE i = m
      BY <1>3, <2>1, <3>1
    <3>2. CASE i = 0
      BY <1>3, <2>1, <2>2, <3>2 DEF IsSum
    <3>3. CASE i \in 1 .. m - 1
      <4>1. f[i] = g[i] /\ f[i - 1] = g[i - 1] /\ i \in 0 .. m - 1 /\ i # 0
        BY <2>1, <3>3
      <4>2. g[i] = g[i - 1] + s[i].width
        BY <2>2, <4>1 DEF IsSum
      <4> QED BY <4>1, <4>2
    <3> QED BY <3>1, <3>2, <3>3
  <2>4. f = [i \in 0 .. m |-> f[i]]
    OBVIOUS
  <2> HIDE DEF f
  <2>5. f = [i \in 0 .. m |-> IF i = 0 THEN 0 ELSE f[i - 1] + s[i].width]
    BY <2>3, <2>4
  <2> QED BY <2>5 DEF IsSum
<1> QED BY <1>2, <1>3

\* The bytes up to a field.
IsUpto(f, s) ==
  /\ f[0] = 0
  /\ \A i \in 1 .. Len(s) : f[i] = f[i - 1] + s[i].width

\* Total adds the widths one after another.
LEMMA TotalIs ==
  ASSUME NEW s, Len(s) \in Nat
  PROVE  \E f : IsUpto(f, s) /\ Total(s) = f[Len(s)]
<1> DEFINE f == CHOOSE f : IsSum(f, s, Len(s))
<1>1. IsSum(f, s, Len(s))
  BY SumExists
<1>2. Total(s) = f[Len(s)]
  BY DEF Total, IsSum
<1> HIDE DEF f
<1>3. f[0] = 0
  BY <1>1 DEF IsSum
<1>4. \A i \in 1 .. Len(s) : f[i] = f[i - 1] + s[i].width
  BY <1>1 DEF IsSum
<1> QED BY <1>2, <1>3, <1>4 DEF IsUpto

\* Whatever counts the bytes like that counts them all.
LEMMA TotalFrom ==
  ASSUME NEW s, IsLayout(s), NEW g, IsUpto(g, s)
  PROVE  Total(s) = g[Len(s)] /\ \A i \in 0 .. Len(s) : g[i] \in Nat
<1>1. PICK f : IsUpto(f, s) /\ Total(s) = f[Len(s)]
  BY TotalIs, FieldFacts
<1> DEFINE n == Len(s)
           Bad == {i \in 0 .. n : f[i] # g[i] \/ g[i] \notin Nat}
<1>n. n \in Nat
  BY FieldFacts
<1>w. \A i \in 1 .. n : s[i].width \in Nat
  BY FieldFacts
<1>2. Bad = {}
  <2> SUFFICES ASSUME Bad # {}
               PROVE  FALSE
    OBVIOUS
  <2>1. PICK i \in Bad : \A k \in Bad : i <= k
    <3>1. Bad \subseteq Nat
      OBVIOUS
    <3> HIDE DEF Bad
    <3> QED BY <3>1, Least
  <2>2. i # 0
    BY <1>1, <2>1 DEF IsUpto
  <2>3. i \in 1 .. n /\ i - 1 \in 0 .. n /\ i - 1 \notin Bad
    BY <1>n, <2>1, <2>2
  <2>4. f[i] = f[i - 1] + s[i].width /\ g[i] = g[i - 1] + s[i].width
    BY <1>1, <2>3 DEF IsUpto
  <2>5. f[i - 1] = g[i - 1] /\ g[i - 1] \in Nat
    BY <2>3
  <2> QED BY <1>w, <2>1, <2>3, <2>4, <2>5
<1> QED BY <1>1, <1>2, <1>n

\* A layout takes a number of bytes.
LEMMA TotalNat ==
  ASSUME NEW s, IsLayout(s)
  PROVE  Total(s) \in Nat
<1>1. Len(s) \in Nat
  BY FieldFacts
<1>2. PICK f : IsUpto(f, s) /\ Total(s) = f[Len(s)]
  BY <1>1, TotalIs
<1> QED BY <1>1, <1>2, TotalFrom

\* Nothing takes nothing.
LEMMA TotalEmpty == IsLayout(<<>>) /\ Total(<<>>) = 0
<1>1. IsLayout(<<>>)
  <2>1. <<>> = [i \in 1 .. 0 |-> <<>>[i]]
    OBVIOUS
  <2>2. 0 \in Nat /\ 1 .. 0 = {}
    OBVIOUS
  <2> QED BY <2>1, <2>2, MadeLayout
<1>2. PICK f : IsUpto(f, <<>>) /\ Total(<<>>) = f[Len(<<>>)]
  BY TotalIs
<1> QED BY <1>1, <1>2 DEF IsUpto

\* Two layouts after each other take what both of them take.
LEMMA TotalJoin ==
  ASSUME NEW a, NEW b, IsLayout(a), IsLayout(b)
  PROVE  IsLayout(a \o b) /\ Total(a \o b) = Total(a) + Total(b)
<1>1. PICK f : IsUpto(f, a) /\ Total(a) = f[Len(a)]
  BY TotalIs, FieldFacts
<1>2. PICK g : IsUpto(g, b) /\ Total(b) = g[Len(b)]
  BY TotalIs, FieldFacts
<1> DEFINE m == Len(a)
           n == Len(b)
           c == a \o b
           h == [i \in 0 .. m + n |-> IF i <= m THEN f[i] ELSE f[m] + g[i - m]]
<1>3. m \in Nat /\ n \in Nat /\ IsLayout(c) /\ Len(c) = m + n
  BY FieldFacts, JoinLayout
<1>4. \A i \in 1 .. m + n : c[i] = IF i <= m THEN a[i] ELSE b[i - m]
  BY JoinLayout
<1>5. f[m] \in Nat
  BY <1>1, <1>3, TotalFrom
<1>6. IsUpto(h, c)
  <2> HIDE DEF c
  <2>1. h[0] = 0
    BY <1>1, <1>3 DEF IsUpto
  <2>2. ASSUME NEW i \in 1 .. m + n
        PROVE  h[i] = h[i - 1] + c[i].width
    <3>1. CASE i <= m
      <4>1. i \in 1 .. m /\ h[i] = f[i] /\ h[i - 1] = f[i - 1] /\ c[i] = a[i]
        BY <1>3, <1>4, <3>1
      <4> QED BY <1>1, <4>1 DEF IsUpto
    <3>2. CASE i > m
      <4> DEFINE k == i - m
      <4>1. k \in 1 .. n /\ k - 1 \in 0 .. n /\ h[i] = f[m] + g[k] /\ c[i] = b[k]
        BY <1>3, <1>4, <3>2
      <4>2. h[i - 1] = f[m] + g[k - 1]
        <5>1. CASE i = m + 1
          <6>1. k = 1 /\ g[k - 1] = 0
            BY <1>2, <1>3, <5>1 DEF IsUpto
          <6>2. h[i - 1] = f[m]
            BY <1>3, <5>1
          <6> QED BY <1>5, <6>1, <6>2
        <5>2. CASE i # m + 1
          <6>1. i - 1 \in 0 .. m + n /\ i - 1 > m /\ (i - 1) - m = k - 1
            BY <1>3, <3>2, <5>2
          <6> QED BY <6>1
        <5> QED BY <5>1, <5>2
      <4>3. g[k] = g[k - 1] + b[k].width
        BY <1>2, <4>1 DEF IsUpto
      <4>4. g[k - 1] \in Nat
        BY <1>2, <4>1, TotalFrom
      <4>5. b[k].width \in Nat
        BY <4>1, FieldFacts
      <4> HIDE DEF k, h
      <4> QED BY <1>5, <4>1, <4>2, <4>3, <4>4, <4>5
    <3> QED BY <1>3, <3>1, <3>2
  <2> QED BY <1>3, <2>1, <2>2 DEF IsUpto
<1>7. Total(c) = h[m + n]
  BY <1>3, <1>6, TotalFrom
<1>8. h[m + n] = f[m] + g[n]
  <2>1. CASE n = 0
    <3>1. g[n] = 0 /\ h[m + n] = f[m]
      BY <1>2, <1>3, <2>1 DEF IsUpto
    <3> QED BY <1>5, <3>1
  <2>2. CASE n # 0
    BY <1>3, <2>2
  <2> QED BY <2>1, <2>2
<1> HIDE DEF h, c
<1> QED BY <1>1, <1>2, <1>3, <1>7, <1>8 DEF c

-----------------------------------------------------------------------------
(* What the parts of a record take.                                        *)

\* One field takes its width.
LEMMA OneField ==
  ASSUME NEW name, NEW width \in Nat, NEW spare \in Nat
  PROVE  IsLayout(<<Field(name, width, spare)>>) /\ Total(<<Field(name, width, spare)>>) = width
<1> DEFINE s == <<Field(name, width, spare)>>
           f == [i \in 0 .. 1 |-> IF i = 0 THEN 0 ELSE width]
<1>1. Field(name, width, spare).width = width /\ Field(name, width, spare).spare = spare
  BY DEF Field
<1>2. IsLayout(s) /\ Len(s) = 1 /\ s[1] = Field(name, width, spare)
  <2>1. s = [i \in 1 .. 1 |-> s[i]] /\ s[1] = Field(name, width, spare) /\ 1 \in Nat
    OBVIOUS
  <2>2. \A i \in 1 .. 1 : s[i].width \in Nat /\ s[i].spare \in Nat
    BY <1>1, <2>1
  <2> HIDE DEF s
  <2> QED BY <2>1, <2>2, MadeLayout
<1>3. IsUpto(f, s)
  <2> HIDE DEF s
  <2> QED BY <1>1, <1>2 DEF IsUpto
<1>4. Total(s) = f[1]
  BY <1>2, <1>3, TotalFrom
<1> QED BY <1>2, <1>4

\* Fields of one width.
LEMMA ManyFields ==
  ASSUME NEW names, NEW n \in Nat, Len(names) = n, DOMAIN names = 1 .. n, NEW width \in {1, 4, 8}
  PROVE  IsLayout(Fields(width, names)) /\ Total(Fields(width, names)) = width * n
<1> DEFINE s == Fields(width, names)
           f == [i \in 0 .. n |-> width * i]
<1>1. s = [i \in 1 .. n |-> Field(names[i], width, 0)]
  BY DEF Fields
<1>4. \A i \in 1 .. n : s[i].width = width /\ s[i].spare = 0
  <2> HIDE DEF s
  <2> QED BY <1>1 DEF Field
<1>3. IsLayout(s) /\ Len(s) = n
  <2> HIDE DEF s
  <2>1. s = [i \in 1 .. n |-> s[i]]
    BY <1>1
  <2>2. \A i \in 1 .. n : s[i].width \in Nat /\ s[i].spare \in Nat
    BY <1>4
  <2> QED BY <2>1, <2>2, MadeLayout
<1>5. IsUpto(f, s)
  <2> HIDE DEF s
  <2>1. \A i \in 1 .. n : f[i] = f[i - 1] + width
    BY <1>1
  <2>2. f[0] = 0
    BY <1>1
  <2> HIDE DEF f
  <2> QED BY <1>3, <1>4, <2>1, <2>2 DEF IsUpto
<1>6. Total(s) = f[n]
  BY <1>3, <1>5, TotalFrom
<1>7. f[n] = width * n
  BY <1>1
<1> QED BY <1>3, <1>6, <1>7

\* Scalars of one, four and eight bytes.
LEMMA ScalarFields ==
  ASSUME NEW names, NEW n \in Nat, Len(names) = n, DOMAIN names = 1 .. n
  PROVE  /\ IsLayout(Bytes(names)) /\ Total(Bytes(names)) = n
         /\ IsLayout(Words(names)) /\ Total(Words(names)) = 4 * n
         /\ IsLayout(Longs(names)) /\ Total(Longs(names)) = 8 * n
BY ManyFields DEF Bytes, Words, Longs

\* A container takes eight bytes and those of its elements.
LEMMA ListFields ==
  ASSUME NEW name, NEW n \in Nat, NEW width \in {1, 8, 16}
  PROVE  IsLayout(List(name, n, width)) /\ Total(List(name, n, width)) = 8 + n * width
<1>1. 8 + n * width \in Nat
  OBVIOUS
<1> QED BY <1>1, OneField DEF List

\* A block takes eight bytes and its own.
LEMMA BlockFields ==
  ASSUME NEW name, NEW len \in Nat
  PROVE  IsLayout(Block(name, len)) /\ Total(Block(name, len)) = 8 + len
<1>1. 8 + len \in Nat
  OBVIOUS
<1> QED BY <1>1, OneField DEF Block

\* A string takes eight bytes and its characters.
LEMMA StringFields ==
  ASSUME NEW name, NEW len \in Nat
  PROVE  IsLayout(String(name, len)) /\ Total(String(name, len)) = 8 + len
<1> DEFINE spare  == IF len = 0 THEN 0 ELSE 8
           first  == <<Field("length", 8, len)>>
           second == <<Field(name, len, spare)>>
<1>1. IsLayout(first) /\ Total(first) = 8
  <2>1. 8 \in Nat
    OBVIOUS
  <2>2. ASSUME NEW x, NEW y \in Nat
        PROVE  IsLayout(<<Field(x, y, len)>>) /\ Total(<<Field(x, y, len)>>) = y
    BY OneField
  <2> QED BY <2>1, <2>2
<1>2. IsLayout(second) /\ Total(second) = len
  <2>1. spare \in Nat
    OBVIOUS
  <2>2. ASSUME NEW x \in Nat
        PROVE  IsLayout(<<Field(name, len, x)>>) /\ Total(<<Field(name, len, x)>>) = len
    BY OneField
  <2> HIDE DEF spare
  <2> QED BY <2>1, <2>2
<1>3. String(name, len) = first \o second
  BY DEF String
<1> HIDE DEF first, second
<1> QED BY <1>1, <1>2, <1>3, TotalJoin

\* The passes of FlattenSeq.
IsFlat(f, ss, n) ==
  f = [i \in 1 .. n |-> IF i = 1 THEN ss[i] ELSE f[i - 1] \o ss[i]]

\* The passes of FlattenSeq exist.
LEMMA FlatExists ==
  ASSUME NEW ss, NEW n \in Nat
  PROVE  \E f : IsFlat(f, ss, n)
<1> DEFINE Bad == {m \in Nat : ~ \E f : IsFlat(f, ss, m)}
<1> SUFFICES ASSUME Bad # {}
             PROVE  FALSE
  OBVIOUS
<1>1. PICK m \in Bad : \A k \in Bad : m <= k
  <2>1. Bad \subseteq Nat
    OBVIOUS
  <2> HIDE DEF Bad
  <2> QED BY <2>1, Least
<1>2. CASE m = 0
  <2>1. IsFlat([i \in 1 .. 0 |-> 0], ss, 0)
    BY DEF IsFlat
  <2> QED BY <1>2, <2>1
<1>3. CASE m # 0
  <2>1. m - 1 \in Nat /\ m - 1 \notin Bad
    BY <1>1, <1>3
  <2>2. PICK g : IsFlat(g, ss, m - 1)
    BY <2>1
  <2> DEFINE f == [i \in 1 .. m |->
                     IF i = m THEN IF m = 1 THEN ss[1] ELSE g[m - 1] \o ss[m] ELSE g[i]]
  <2>3. ASSUME NEW i \in 1 .. m
        PROVE  f[i] = IF i = 1 THEN ss[i] ELSE f[i - 1] \o ss[i]
    <3>1. CASE i = m
      BY <1>3, <2>1, <3>1
    <3>2. CASE i # m /\ i = 1
      BY <1>3, <2>1, <2>2, <3>2 DEF IsFlat
    <3>3. CASE i \in 2 .. m - 1
      <4>1. f[i] = g[i] /\ f[i - 1] = g[i - 1] /\ i \in 1 .. m - 1 /\ i # 1
        BY <2>1, <3>3
      <4>2. g[i] = g[i - 1] \o ss[i]
        BY <2>2, <4>1 DEF IsFlat
      <4> QED BY <4>1, <4>2
    <3> QED BY <2>1, <3>1, <3>2, <3>3
  <2>4. f = [i \in 1 .. m |-> f[i]]
    OBVIOUS
  <2> HIDE DEF f
  <2>5. f = [i \in 1 .. m |-> IF i = 1 THEN ss[i] ELSE f[i - 1] \o ss[i]]
    BY <2>3, <2>4
  <2> QED BY <2>5 DEF IsFlat
<1> QED BY <1>2, <1>3

\* FlattenSeq joins one layout after another.
LEMMA FlatIs ==
  ASSUME NEW ss, Len(ss) \in Nat \ {0}
  PROVE  \E f : /\ FlattenSeq(ss) = f[Len(ss)]
                /\ f[1] = ss[1]
                /\ \A i \in 2 .. Len(ss) : f[i] = f[i - 1] \o ss[i]
<1> DEFINE f == CHOOSE f : IsFlat(f, ss, Len(ss))
<1>1. IsFlat(f, ss, Len(ss))
  BY FlatExists
<1>2. FlattenSeq(ss) = f[Len(ss)]
  BY DEF FlattenSeq, IsFlat
<1> HIDE DEF f
<1>3. f[1] = ss[1]
  <2> DEFINE n == Len(ss)
  <2>1. n \in Nat /\ 1 \in 1 .. n
    OBVIOUS
  <2> HIDE DEF n
  <2>2. IsFlat(f, ss, n)
    BY <1>1 DEF n
  <2>3. f[1] = IF 1 = 1 THEN ss[1] ELSE f[1 - 1] \o ss[1]
    BY <2>1, <2>2 DEF IsFlat
  <2> QED BY <2>3
<1>4. ASSUME NEW i \in 2 .. Len(ss)
      PROVE  f[i] = f[i - 1] \o ss[i]
  <2>1. i \in 1 .. Len(ss) /\ i # 1
    OBVIOUS
  <2> QED BY <1>1, <2>1 DEF IsFlat
<1> QED BY <1>2, <1>3, <1>4

\* Layouts after each other are a layout.
LEMMA FlatLayout ==
  ASSUME NEW ss, NEW n \in Nat, ss = [i \in 1 .. n |-> ss[i]],
         \A i \in 1 .. n : IsLayout(ss[i])
  PROVE  IsLayout(FlattenSeq(ss))
<1>n. Len(ss) = n
  OBVIOUS
<1>1. CASE n = 0
  <2>1. ss = <<>> /\ Len(ss) = 0
    BY <1>1, <1>n
  <2> QED BY <1>1, <2>1, TotalEmpty DEF FlattenSeq
<1>2. CASE n # 0
  <2>1. Len(ss) \in Nat \ {0}
    BY <1>2, <1>n
  <2>2. PICK f : /\ FlattenSeq(ss) = f[Len(ss)]
                 /\ f[1] = ss[1]
                 /\ \A i \in 2 .. Len(ss) : f[i] = f[i - 1] \o ss[i]
    BY <2>1, FlatIs
  <2> DEFINE Bad == {i \in 1 .. n : ~IsLayout(f[i])}
  <2>3. \A i \in 1 .. n : IsLayout(ss[i])
    OBVIOUS
  <2>4. Bad = {}
    <3> SUFFICES ASSUME Bad # {}
                 PROVE  FALSE
      OBVIOUS
    <3>1. PICK i \in Bad : \A k \in Bad : i <= k
      <4>1. Bad \subseteq Nat
        OBVIOUS
      <4> HIDE DEF Bad
      <4> QED BY <4>1, Least
    <3>2. i # 1
      BY <1>n, <2>1, <2>2, <2>3, <3>1
    <3>3. i \in 2 .. n /\ i - 1 \in 1 .. n /\ i - 1 \notin Bad
      BY <3>1, <3>2
    <3>4. f[i] = f[i - 1] \o ss[i] /\ IsLayout(f[i - 1])
      BY <1>n, <2>2, <3>3
    <3> QED BY <2>3, <3>1, <3>3, <3>4, TotalJoin
  <2> QED BY <1>n, <1>2, <2>2, <2>4
<1> QED BY <1>1, <1>2

\* Repeated fields take their bytes as often as they are repeated.
LEMMA RepeatedFields ==
  ASSUME NEW fields, IsLayout(fields), NEW n \in Nat
  PROVE  IsLayout(Repeat(n, fields)) /\ Total(Repeat(n, fields)) = n * Total(fields)
<1> DEFINE ss == [i \in 1 .. n |-> fields]
           t == Total(fields)
<1>t. t \in Nat
  BY TotalNat
<1>1. ss = [i \in 1 .. n |-> ss[i]] /\ Len(ss) = n /\ \A i \in 1 .. n : ss[i] = fields
  OBVIOUS
<1>2. IsLayout(Repeat(n, fields))
  <2> HIDE DEF ss
  <2>1. \A i \in 1 .. n : IsLayout(ss[i])
    BY <1>1
  <2>2. IsLayout(FlattenSeq(ss))
    BY <1>1, <2>1, FlatLayout
  <2> QED BY <2>2 DEF Repeat, ss
<1>3. CASE n = 0
  <2>1. Repeat(n, fields) = <<>>
    BY <1>3 DEF Repeat, FlattenSeq
  <2> QED BY <1>3, <1>t, <2>1, TotalEmpty
<1>4. CASE n # 0
  <2>1. n \in Nat \ {0}
    BY <1>4
  <2> HIDE DEF ss
  <2>2. PICK f : /\ FlattenSeq(ss) = f[n]
                 /\ f[1] = fields
                 /\ \A i \in 2 .. n : f[i] = f[i - 1] \o fields
    <3>0. Len(ss) \in Nat \ {0}
      BY <1>1, <2>1
    <3>1. PICK f : /\ FlattenSeq(ss) = f[Len(ss)]
                   /\ f[1] = ss[1]
                   /\ \A i \in 2 .. Len(ss) : f[i] = f[i - 1] \o ss[i]
      BY <3>0, FlatIs
    <3>2. 1 \in 1 .. n /\ \A i \in 2 .. n : i \in 1 .. n
      BY <2>1
    <3>3. f[1] = fields
      BY <1>1, <3>1, <3>2
    <3>4. ASSUME NEW i \in 2 .. n
          PROVE  f[i] = f[i - 1] \o fields
      <4>1. ss[i] = fields /\ i \in 2 .. Len(ss)
        BY <1>1, <3>2
      <4> QED BY <3>1, <4>1
    <3>5. FlattenSeq(ss) = f[n]
      BY <1>1, <3>1
    <3> QED BY <3>3, <3>4, <3>5
  <2> HIDE DEF t
  <2> DEFINE Bad == {i \in 1 .. n : ~(IsLayout(f[i]) /\ Total(f[i]) = i * t)}
  <2>4. Bad = {}
    <3> SUFFICES ASSUME Bad # {}
                 PROVE  FALSE
      OBVIOUS
    <3>1. PICK i \in Bad : \A k \in Bad : i <= k
      <4>1. Bad \subseteq Nat
        OBVIOUS
      <4> HIDE DEF Bad
      <4> QED BY <4>1, Least
    <3>2. i # 1
      BY <1>t, <2>1, <2>2, <3>1 DEF t
    <3>3. i \in 2 .. n /\ i - 1 \in 1 .. n /\ i - 1 \notin Bad
      BY <2>1, <3>1, <3>2
    <3>4. f[i] = f[i - 1] \o fields /\ IsLayout(f[i - 1]) /\ Total(f[i - 1]) = (i - 1) * t
      BY <2>2, <3>3
    <3>5. IsLayout(f[i]) /\ Total(f[i]) = (i - 1) * t + t
      BY <3>4, TotalJoin DEF t
    <3>6. (i - 1) * t + t = i * t
      BY <1>t, <3>3
    <3> QED BY <3>1, <3>5, <3>6
  <2>5. Total(f[n]) = n * t
    BY <2>1, <2>4
  <2>6. Repeat(n, fields) = f[n]
    BY <2>2 DEF Repeat, ss
  <2> QED BY <1>2, <2>5, <2>6 DEF t
<1> QED BY <1>3, <1>4

-----------------------------------------------------------------------------
(* What fits into a buffer.                                                *)

IsFree(f, s, room, n) ==
  f = [i \in 0 .. n |-> IF i = 0 THEN room ELSE Left(f[i - 1], s[i])]

\* The function by which FitsInto is defined exists.
LEMMA FreeExists ==
  ASSUME NEW s, NEW room, NEW n \in Nat
  PROVE  \E f : IsFree(f, s, room, n)
<1> DEFINE Bad == {m \in Nat : ~ \E f : IsFree(f, s, room, m)}
<1> SUFFICES ASSUME Bad # {}
             PROVE  FALSE
  OBVIOUS
<1>1. PICK m \in Bad : \A k \in Bad : m <= k
  <2>1. Bad \subseteq Nat
    OBVIOUS
  <2> HIDE DEF Bad
  <2> QED BY <2>1, Least
<1>2. CASE m = 0
  <2>1. IsFree([i \in 0 .. 0 |-> room], s, room, 0)
    BY DEF IsFree
  <2> QED BY <1>2, <2>1
<1>3. CASE m # 0
  <2>1. m - 1 \in Nat /\ m - 1 \notin Bad
    BY <1>1, <1>3
  <2>2. PICK g : IsFree(g, s, room, m - 1)
    BY <2>1
  <2> DEFINE f == [i \in 0 .. m |-> IF i = m THEN Left(g[m - 1], s[m]) ELSE g[i]]
  <2>3. ASSUME NEW i \in 0 .. m
        PROVE  f[i] = IF i = 0 THEN room ELSE Left(f[i - 1], s[i])
    <3>1. CASE i = m
      BY <1>3, <2>1, <3>1
    <3>2. CASE i = 0
      BY <1>3, <2>1, <2>2, <3>2 DEF IsFree
    <3>3. CASE i \in 1 .. m - 1
      <4>1. f[i] = g[i] /\ f[i - 1] = g[i - 1] /\ i \in 0 .. m - 1 /\ i # 0
        BY <2>1, <3>3
      <4>2. g[i] = Left(g[i - 1], s[i])
        BY <2>2, <4>1 DEF IsFree
      <4> QED BY <4>1, <4>2
    <3> QED BY <3>1, <3>2, <3>3
  <2>4. f = [i \in 0 .. m |-> f[i]]
    OBVIOUS
  <2> HIDE DEF f
  <2>5. f = [i \in 0 .. m |-> IF i = 0 THEN room ELSE Left(f[i - 1], s[i])]
    BY <2>3, <2>4
  <2> QED BY <2>5 DEF IsFree
<1> QED BY <1>2, <1>3

\* FitsInto puts one field after another into what is free.
LEMMA FreeIs ==
  ASSUME NEW s, NEW room, Len(s) \in Nat
  PROVE  \E f : /\ FitsInto(s, room) <=> f[Len(s)] # Refused
                /\ f[0] = room
                /\ \A i \in 1 .. Len(s) : f[i] = Left(f[i - 1], s[i])
<1> DEFINE f == CHOOSE f : IsFree(f, s, room, Len(s))
<1>1. IsFree(f, s, room, Len(s))
  BY FreeExists
<1>2. FitsInto(s, room) <=> f[Len(s)] # Refused
  BY DEF FitsInto, IsFree
<1> HIDE DEF f
<1>3. f[0] = room
  BY <1>1 DEF IsFree
<1>4. \A i \in 1 .. Len(s) : f[i] = Left(f[i - 1], s[i])
  BY <1>1 DEF IsFree
<1> QED BY <1>2, <1>3, <1>4

\* A layout of n bytes that has the room its fields ask for.
Fits(s, n, room) ==
  /\ IsLayout(s)
  /\ n \in Nat
  /\ \E f : /\ IsUpto(f, s) /\ f[Len(s)] = n
            /\ \A i \in 0 .. Len(s) : f[i] \in Nat
            /\ \A i \in 1 .. Len(s) : f[i] + s[i].spare <= room

\* What Fits says is what the buffer does.
LEMMA FitsMeans ==
  ASSUME NEW s, NEW n, NEW room \in Nat, Fits(s, n, room)
  PROVE  FitsInto(s, room) /\ Total(s) = n
<1> DEFINE m == Len(s)
<1>1. PICK f : /\ IsUpto(f, s) /\ f[m] = n
               /\ \A i \in 0 .. m : f[i] \in Nat
               /\ \A i \in 1 .. m : f[i] + s[i].spare <= room
  BY DEF Fits
<1>2. IsLayout(s) /\ m \in Nat
  BY FieldFacts DEF Fits
<1>3. PICK g : /\ FitsInto(s, room) <=> g[m] # Refused
               /\ g[0] = room
               /\ \A i \in 1 .. m : g[i] = Left(g[i - 1], s[i])
  <2>1. Len(s) \in Nat
    BY <1>2
  <2>2. PICK g : /\ FitsInto(s, room) <=> g[Len(s)] # Refused
                 /\ g[0] = room
                 /\ \A i \in 1 .. Len(s) : g[i] = Left(g[i - 1], s[i])
    BY <2>1, FreeIs
  <2> QED BY <2>2
<1> DEFINE Bad == {i \in 0 .. m : g[i] # room - f[i]}
<1>4. Bad = {}
  <2> SUFFICES ASSUME Bad # {}
               PROVE  FALSE
    OBVIOUS
  <2>1. PICK i \in Bad : \A k \in Bad : i <= k
    <3>1. Bad \subseteq Nat
      OBVIOUS
    <3> HIDE DEF Bad
    <3> QED BY <3>1, Least
  <2>2. i # 0
    BY <1>1, <1>3, <2>1 DEF IsUpto
  <2>3. i \in 1 .. m /\ i - 1 \in 0 .. m /\ i - 1 \notin Bad
    BY <1>2, <2>1, <2>2
  <2>4. g[i - 1] = room - f[i - 1] /\ f[i - 1] \in Nat /\ f[i] \in Nat
    BY <1>1, <2>3
  <2>5. f[i] = f[i - 1] + s[i].width /\ f[i] + s[i].spare <= room
    BY <1>1, <2>3 DEF IsUpto
  <2>6. s[i].width \in Nat /\ s[i].spare \in Nat
    BY <1>2, <2>3, FieldFacts
  <2>7. g[i] = g[i - 1] - s[i].width
    <3>1. g[i] = Left(g[i - 1], s[i])
      BY <1>3, <2>3
    <3>2. ASSUME NEW u \in Nat, NEW v \in Nat, NEW w \in Nat, NEW z \in Nat,
                 v = u + w, v + z <= room
          PROVE  w + z <= room - u
      BY <3>2
    <3>3. s[i].width + s[i].spare <= room - f[i - 1]
      BY <2>4, <2>5, <2>6, <3>2
    <3>4. s[i].width + s[i].spare <= g[i - 1]
      BY <2>4, <3>3
    <3> QED BY <3>1, <3>4 DEF Left
  <2>8. g[i] = room - f[i]
    BY <2>4, <2>5, <2>6, <2>7
  <2> QED BY <2>1, <2>8
<1>5. FitsInto(s, room)
  <2>1. g[m] = room - f[m] /\ f[m] \in Nat
    BY <1>1, <1>2, <1>4
  <2>2. f[m] <= room
    <3>1. CASE m = 0
      BY <1>1, <3>1 DEF IsUpto
    <3>2. CASE m # 0
      <4>1. m \in 1 .. m
        BY <1>2, <3>2
      <4>2. s[m].spare \in Nat /\ f[m] + s[m].spare <= room
        BY <1>1, <1>2, <4>1, FieldFacts
      <4> QED BY <2>1, <4>2
    <3> QED BY <3>1, <3>2
  <2> QED BY <1>3, <2>1, <2>2 DEF Refused
<1>6. Total(s) = n
  BY <1>1, <1>2, TotalFrom
<1> QED BY <1>5, <1>6

\* A layout whose fields need no more than they take.
Plain(s) == IsLayout(s) /\ \A i \in 1 .. Len(s) : s[i].spare = 0

\* Joined plain layouts are plain.
LEMMA PlainJoin ==
  ASSUME NEW a, NEW b, Plain(a), Plain(b)
  PROVE  Plain(a \o b)
<1>1. IsLayout(a) /\ IsLayout(b) /\ Len(a) \in Nat /\ Len(b) \in Nat
  BY FieldFacts DEF Plain
<1>2. IsLayout(a \o b) /\ Len(a \o b) = Len(a) + Len(b)
  BY <1>1, JoinLayout
<1>3. ASSUME NEW i \in 1 .. Len(a) + Len(b)
      PROVE  (a \o b)[i].spare = 0
  <2>1. (a \o b)[i] = IF i <= Len(a) THEN a[i] ELSE b[i - Len(a)]
    BY <1>1, JoinLayout
  <2>2. CASE i <= Len(a)
    <3>1. i \in 1 .. Len(a) /\ (a \o b)[i] = a[i]
      BY <1>1, <2>1, <2>2
    <3> QED BY <3>1 DEF Plain
  <2>3. CASE i > Len(a)
    <3>1. i - Len(a) \in 1 .. Len(b) /\ (a \o b)[i] = b[i - Len(a)]
      BY <1>1, <2>1, <2>3
    <3> QED BY <3>1 DEF Plain
  <2> QED BY <1>1, <2>2, <2>3
<1> QED BY <1>2, <1>3 DEF Plain

\* Nothing fits everywhere.
LEMMA FitsNothing ==
  ASSUME NEW room \in Nat
  PROVE  Fits(<<>>, 0, room)
<1> DEFINE f == [i \in 0 .. 0 |-> 0]
<1>1. IsUpto(f, <<>>) /\ f[Len(<<>>)] = 0 /\ \A i \in 0 .. Len(<<>>) : f[i] \in Nat
  BY DEF IsUpto
<1>2. \A i \in 1 .. Len(<<>>) : f[i] + <<>>[i].spare <= room
  OBVIOUS
<1> HIDE DEF f
<1> QED BY <1>1, <1>2, TotalEmpty DEF Fits

\* Two layouts after each other.
LEMMA FitsJoin ==
  ASSUME NEW a, NEW b, NEW m, NEW n, NEW room \in Int, Fits(a, m, room), Fits(b, n, room - m)
  PROVE  Fits(a \o b, m + n, room)
<1>1. PICK f : /\ IsUpto(f, a) /\ f[Len(a)] = m
               /\ \A i \in 0 .. Len(a) : f[i] \in Nat
               /\ \A i \in 1 .. Len(a) : f[i] + a[i].spare <= room
  BY DEF Fits
<1>2. PICK g : /\ IsUpto(g, b) /\ g[Len(b)] = n
               /\ \A i \in 0 .. Len(b) : g[i] \in Nat
               /\ \A i \in 1 .. Len(b) : g[i] + b[i].spare <= room - m
  BY DEF Fits
<1> DEFINE p == Len(a)
           q == Len(b)
           c == a \o b
           h == [i \in 0 .. p + q |-> IF i <= p THEN f[i] ELSE m + g[i - p]]
<1>3. IsLayout(a) /\ IsLayout(b) /\ m \in Nat /\ n \in Nat
  BY DEF Fits
<1>4. p \in Nat /\ q \in Nat /\ IsLayout(c) /\ Len(c) = p + q
  BY <1>3, FieldFacts, JoinLayout
<1>5. \A i \in 1 .. p + q : c[i] = IF i <= p THEN a[i] ELSE b[i - p]
  BY <1>3, JoinLayout
<1> HIDE DEF c
<1>6. h[0] = 0 /\ \A i \in 0 .. p + q : h[i] \in Nat
  <2>1. h[0] = 0
    BY <1>1, <1>4 DEF IsUpto
  <2>2. ASSUME NEW i \in 0 .. p + q
        PROVE  h[i] \in Nat
    <3>1. CASE i <= p
      <4>1. i \in 0 .. p /\ h[i] = f[i]
        BY <1>4, <3>1
      <4> QED BY <1>1, <4>1
    <3>2. CASE i > p
      <4>1. i - p \in 0 .. q /\ h[i] = m + g[i - p]
        BY <1>4, <3>2
      <4>2. g[i - p] \in Nat
        BY <1>2, <4>1
      <4> HIDE DEF h
      <4> QED BY <1>3, <4>1, <4>2
    <3> QED BY <1>4, <3>1, <3>2
  <2> QED BY <2>1, <2>2
<1>7. ASSUME NEW i \in 1 .. p + q
      PROVE  h[i] = h[i - 1] + c[i].width /\ h[i] + c[i].spare <= room
  <2>1. CASE i <= p
    <3>1. i \in 1 .. p /\ h[i] = f[i] /\ h[i - 1] = f[i - 1] /\ c[i] = a[i]
      BY <1>4, <1>5, <2>1
    <3> HIDE DEF h
    <3> QED BY <1>1, <3>1 DEF IsUpto
  <2>2. CASE i > p
    <3> DEFINE k == i - p
    <3>1. k \in 1 .. q /\ k - 1 \in 0 .. q /\ k \in 0 .. q /\ h[i] = m + g[k] /\ c[i] = b[k]
      BY <1>4, <1>5, <2>2
    <3>2. h[i - 1] = m + g[k - 1]
      <4>1. CASE i = p + 1
        <5>1. k = 1 /\ g[k - 1] = 0
          BY <1>2, <1>4, <4>1 DEF IsUpto
        <5>2. h[i - 1] = f[p]
          BY <1>4, <4>1
        <5> QED BY <1>1, <1>3, <5>1, <5>2
      <4>2. CASE i # p + 1
        <5>1. i - 1 \in 0 .. p + q /\ i - 1 > p /\ (i - 1) - p = k - 1
          BY <1>4, <2>2, <4>2
        <5> QED BY <5>1
      <4> QED BY <4>1, <4>2
    <3>3. g[k] = g[k - 1] + b[k].width /\ g[k] + b[k].spare <= room - m
      BY <1>2, <3>1 DEF IsUpto
    <3>4. g[k - 1] \in Nat /\ g[k] \in Nat
      BY <1>2, <3>1
    <3>5. b[k].width \in Nat /\ b[k].spare \in Nat
      BY <1>3, <3>1, FieldFacts
    <3> HIDE DEF k, h
    <3>6. m + g[k] = (m + g[k - 1]) + b[k].width
      BY <1>3, <3>3, <3>4, <3>5
    <3>7. (m + g[k]) + b[k].spare <= room
      BY <1>3, <3>3, <3>4, <3>5
    <3> QED BY <3>1, <3>2, <3>6, <3>7
  <2> QED BY <1>4, <2>1, <2>2
<1>8. h[p + q] = m + n
  <2>1. CASE q = 0
    <3>1. n = 0 /\ h[p + q] = f[p]
      BY <1>2, <1>4, <2>1 DEF IsUpto
    <3> QED BY <1>1, <1>3, <3>1
  <2>2. CASE q # 0
    BY <1>2, <1>4, <2>2
  <2> QED BY <2>1, <2>2
<1> HIDE DEF h
<1>9. IsUpto(h, c) /\ h[Len(c)] = m + n
  BY <1>4, <1>6, <1>7, <1>8 DEF IsUpto
<1>10. Fits(c, m + n, room)
  <2>1. m + n \in Nat
    BY <1>3
  <2>2. \A i \in 0 .. Len(c) : h[i] \in Nat
    BY <1>4, <1>6
  <2>3. \A i \in 1 .. Len(c) : h[i] + c[i].spare <= room
    BY <1>4, <1>7
  <2> QED BY <1>4, <1>9, <2>1, <2>2, <2>3 DEF Fits
<1> QED BY <1>10 DEF c

\* A plain layout fits if its bytes do.
LEMMA FitsPlain ==
  ASSUME NEW s, Plain(s), NEW room \in Int, Total(s) <= room
  PROVE  Fits(s, Total(s), room)
<1>1. IsLayout(s) /\ Len(s) \in Nat
  BY FieldFacts DEF Plain
<1>2. PICK f : IsUpto(f, s) /\ Total(s) = f[Len(s)]
  BY <1>1, TotalIs
<1>3. \A i \in 0 .. Len(s) : f[i] \in Nat
  BY <1>1, <1>2, TotalFrom
<1> DEFINE n == Len(s)
           Bad == {k \in 0 .. n : f[n - k] > f[n]}
<1>4. Bad = {}
  <2> SUFFICES ASSUME Bad # {}
               PROVE  FALSE
    OBVIOUS
  <2>1. PICK k \in Bad : \A j \in Bad : k <= j
    <3>1. Bad \subseteq Nat
      OBVIOUS
    <3> HIDE DEF Bad
    <3> QED BY <3>1, Least
  <2>2. k # 0
    <3>1. n \in 0 .. n /\ n - 0 = n
      BY <1>1
    <3>2. f[n] \in Nat
      BY <1>3, <3>1
    <3> QED BY <2>1, <3>1, <3>2
  <2>3. k - 1 \in 0 .. n /\ k - 1 \notin Bad /\ n - k \in 0 .. n /\ n - (k - 1) \in 1 .. n
    BY <1>1, <2>1, <2>2
  <2>4. f[n - (k - 1)] <= f[n]
    <3>1. f[n - (k - 1)] \in Nat /\ f[n] \in Nat
      BY <1>1, <1>3, <2>3
    <3> QED BY <2>3, <3>1
  <2>5. f[n - (k - 1)] = f[(n - (k - 1)) - 1] + s[n - (k - 1)].width
    BY <1>2, <2>3 DEF IsUpto
  <2>6. (n - (k - 1)) - 1 = n - k
    BY <1>1, <2>1
  <2>7. s[n - (k - 1)].width \in Nat /\ f[n - k] \in Nat /\ f[n] \in Nat
    BY <1>1, <1>3, <2>3, FieldFacts
  <2>8. f[n - k] <= f[n]
    BY <2>4, <2>5, <2>6, <2>7
  <2> QED BY <2>1, <2>7, <2>8
<1>5. ASSUME NEW i \in 1 .. n
      PROVE  f[i] + s[i].spare <= room
  <2>1. n - i \in 0 .. n /\ n - (n - i) = i /\ i \in 0 .. n /\ n \in 0 .. n
    BY <1>1
  <2>2. n - i \notin Bad
    BY <1>4
  <2>3. f[i] \in Nat /\ f[n] \in Nat
    BY <1>3, <2>1
  <2>4. f[i] <= f[n]
    BY <2>1, <2>2, <2>3
  <2>5. s[i].spare = 0
    BY DEF Plain
  <2> QED BY <1>2, <2>3, <2>4, <2>5
<1>6. Total(s) \in Nat
  BY <1>1, TotalNat
<1> QED BY <1>1, <1>2, <1>3, <1>5, <1>6 DEF Fits

\* A string fits if there are eight more bytes than it takes.
LEMMA FitsString ==
  ASSUME NEW name, NEW len \in Nat, NEW room \in Int,
         8 + len <= room, len # 0 => 16 + len <= room
  PROVE  Fits(String(name, len), 8 + len, room)
<1> DEFINE spare == IF len = 0 THEN 0 ELSE 8
           s == String(name, len)
           f == [i \in 0 .. 2 |-> IF i = 0 THEN 0 ELSE IF i = 1 THEN 8 ELSE 8 + len]
<1>1. s = <<Field("length", 8, len), Field(name, len, spare)>>
  BY DEF String
<1>2. Len(s) = 2 /\ s[1].width = 8 /\ s[1].spare = len /\ s[2].width = len /\ s[2].spare = spare
  <2> HIDE DEF s, spare
  <2> QED BY <1>1 DEF Field
<1>3. IsLayout(s)
  BY StringFields
<1> HIDE DEF s
<1>4. IsUpto(f, s) /\ f[Len(s)] = 8 + len
  BY <1>2 DEF IsUpto
<1>5. \A i \in 0 .. Len(s) : f[i] \in Nat
  BY <1>2
<1>6. \A i \in 1 .. Len(s) : f[i] + s[i].spare <= room
  BY <1>2
<1>7. 8 + len \in Nat
  OBVIOUS
<1> HIDE DEF f, spare
<1> QED BY <1>3, <1>4, <1>5, <1>6, <1>7 DEF Fits, s

\* One field without a spare.
LEMMA PlainField ==
  ASSUME NEW name, NEW width \in Nat
  PROVE  Plain(<<Field(name, width, 0)>>)
<1> DEFINE s == <<Field(name, width, 0)>>
<1>1. IsLayout(s)
  <2>1. 0 \in Nat
    OBVIOUS
  <2>2. ASSUME NEW x \in Nat
        PROVE  IsLayout(<<Field(name, width, x)>>)
    BY OneField
  <2> QED BY <2>1, <2>2
<1>2. Len(s) = 1 /\ s[1].spare = 0
  BY DEF Field
<1> HIDE DEF s
<1>3. Plain(s)
  BY <1>1, <1>2 DEF Plain
<1> QED BY <1>3 DEF s

\* Scalars need no spare.
LEMMA PlainFields ==
  ASSUME NEW names, NEW n \in Nat, Len(names) = n, DOMAIN names = 1 .. n
  PROVE  Plain(Bytes(names)) /\ Plain(Words(names)) /\ Plain(Longs(names))
<1>1. ASSUME NEW width \in {1, 4, 8}
      PROVE  Plain(Fields(width, names))
  <2> DEFINE s == Fields(width, names)
  <2>1. IsLayout(s)
    BY ManyFields
  <2>2. s = [i \in 1 .. n |-> Field(names[i], width, 0)]
    BY DEF Fields
  <2> HIDE DEF s
  <2>3. Len(s) = n /\ \A i \in 1 .. n : s[i].spare = 0
    BY <2>2 DEF Field
  <2>4. Plain(s)
    BY <2>1, <2>3 DEF Plain
  <2> QED BY <2>4 DEF s
<1> QED BY <1>1 DEF Bytes, Words, Longs

\* Containers and blocks need no spare.
LEMMA PlainParts ==
  ASSUME NEW name, NEW n \in Nat
  PROVE  /\ Plain(Block(name, n))
         /\ \A width \in {1, 8, 16} : Plain(List(name, n, width))
<1>1. 8 + n \in Nat /\ \A width \in {1, 8, 16} : 8 + n * width \in Nat
  OBVIOUS
<1>2. ASSUME NEW w \in Nat
      PROVE  Plain(<<Field(name, w, 0)>>)
  BY PlainField
<1> QED BY <1>1, <1>2 DEF Block, List

-----------------------------------------------------------------------------
(* Some fields of one width, and layouts joined in another order.          *)

\* One, two and more scalars of one width.
LEMMA Of1 ==
  ASSUME NEW a
  PROVE  /\ Plain(Bytes(<<a>>)) /\ IsLayout(Bytes(<<a>>))
         /\ Total(Bytes(<<a>>)) = 1
         /\ Plain(Words(<<a>>)) /\ IsLayout(Words(<<a>>))
         /\ Total(Words(<<a>>)) = 4
         /\ Plain(Longs(<<a>>)) /\ IsLayout(Longs(<<a>>))
         /\ Total(Longs(<<a>>)) = 8
<1> DEFINE names == <<a>>
<1>1. Len(names) = 1 /\ DOMAIN names = 1 .. 1 /\ 1 \in Nat
  OBVIOUS
<1> HIDE DEF names
<1>2. /\ Plain(Bytes(names)) /\ IsLayout(Bytes(names))
      /\ Plain(Words(names)) /\ IsLayout(Words(names))
      /\ Plain(Longs(names)) /\ IsLayout(Longs(names))
  BY <1>1, PlainFields, ScalarFields
<1>3. /\ Total(Bytes(names)) = 1
      /\ Total(Words(names)) = 4 * 1
      /\ Total(Longs(names)) = 8 * 1
  BY <1>1, ScalarFields
<1> QED BY <1>2, <1>3 DEF names

LEMMA Of2 ==
  ASSUME NEW a, NEW b
  PROVE  /\ Plain(Bytes(<<a, b>>)) /\ IsLayout(Bytes(<<a, b>>))
         /\ Total(Bytes(<<a, b>>)) = 2
         /\ Plain(Words(<<a, b>>)) /\ IsLayout(Words(<<a, b>>))
         /\ Total(Words(<<a, b>>)) = 8
         /\ Plain(Longs(<<a, b>>)) /\ IsLayout(Longs(<<a, b>>))
         /\ Total(Longs(<<a, b>>)) = 16
<1> DEFINE names == <<a, b>>
<1>1. Len(names) = 2 /\ DOMAIN names = 1 .. 2 /\ 2 \in Nat
  OBVIOUS
<1> HIDE DEF names
<1>2. /\ Plain(Bytes(names)) /\ IsLayout(Bytes(names))
      /\ Plain(Words(names)) /\ IsLayout(Words(names))
      /\ Plain(Longs(names)) /\ IsLayout(Longs(names))
  BY <1>1, PlainFields, ScalarFields
<1>3. /\ Total(Bytes(names)) = 2
      /\ Total(Words(names)) = 4 * 2
      /\ Total(Longs(names)) = 8 * 2
  BY <1>1, ScalarFields
<1> QED BY <1>2, <1>3 DEF names

LEMMA Of3 ==
  ASSUME NEW a, NEW b, NEW c
  PROVE  /\ Plain(Bytes(<<a, b, c>>)) /\ IsLayout(Bytes(<<a, b, c>>))
         /\ Total(Bytes(<<a, b, c>>)) = 3
         /\ Plain(Words(<<a, b, c>>)) /\ IsLayout(Words(<<a, b, c>>))
         /\ Total(Words(<<a, b, c>>)) = 12
         /\ Plain(Longs(<<a, b, c>>)) /\ IsLayout(Longs(<<a, b, c>>))
         /\ Total(Longs(<<a, b, c>>)) = 24
<1> DEFINE names == <<a, b, c>>
<1>1. Len(names) = 3 /\ DOMAIN names = 1 .. 3 /\ 3 \in Nat
  OBVIOUS
<1> HIDE DEF names
<1>2. /\ Plain(Bytes(names)) /\ IsLayout(Bytes(names))
      /\ Plain(Words(names)) /\ IsLayout(Words(names))
      /\ Plain(Longs(names)) /\ IsLayout(Longs(names))
  BY <1>1, PlainFields, ScalarFields
<1>3. /\ Total(Bytes(names)) = 3
      /\ Total(Words(names)) = 4 * 3
      /\ Total(Longs(names)) = 8 * 3
  BY <1>1, ScalarFields
<1> QED BY <1>2, <1>3 DEF names

LEMMA Of4 ==
  ASSUME NEW a, NEW b, NEW c, NEW d
  PROVE  /\ Plain(Bytes(<<a, b, c, d>>)) /\ IsLayout(Bytes(<<a, b, c, d>>))
         /\ Total(Bytes(<<a, b, c, d>>)) = 4
         /\ Plain(Words(<<a, b, c, d>>)) /\ IsLayout(Words(<<a, b, c, d>>))
         /\ Total(Words(<<a, b, c, d>>)) = 16
         /\ Plain(Longs(<<a, b, c, d>>)) /\ IsLayout(Longs(<<a, b, c, d>>))
         /\ Total(Longs(<<a, b, c, d>>)) = 32
<1> DEFINE names == <<a, b, c, d>>
<1>1. Len(names) = 4 /\ DOMAIN names = 1 .. 4 /\ 4 \in Nat
  OBVIOUS
<1> HIDE DEF names
<1>2. /\ Plain(Bytes(names)) /\ IsLayout(Bytes(names))
      /\ Plain(Words(names)) /\ IsLayout(Words(names))
      /\ Plain(Longs(names)) /\ IsLayout(Longs(names))
  BY <1>1, PlainFields, ScalarFields
<1>3. /\ Total(Bytes(names)) = 4
      /\ Total(Words(names)) = 4 * 4
      /\ Total(Longs(names)) = 8 * 4
  BY <1>1, ScalarFields
<1> QED BY <1>2, <1>3 DEF names

LEMMA Of5 ==
  ASSUME NEW a, NEW b, NEW c, NEW d, NEW e
  PROVE  /\ Plain(Bytes(<<a, b, c, d, e>>)) /\ IsLayout(Bytes(<<a, b, c, d, e>>))
         /\ Total(Bytes(<<a, b, c, d, e>>)) = 5
         /\ Plain(Words(<<a, b, c, d, e>>)) /\ IsLayout(Words(<<a, b, c, d, e>>))
         /\ Total(Words(<<a, b, c, d, e>>)) = 20
         /\ Plain(Longs(<<a, b, c, d, e>>)) /\ IsLayout(Longs(<<a, b, c, d, e>>))
         /\ Total(Longs(<<a, b, c, d, e>>)) = 40
<1> DEFINE names == <<a, b, c, d, e>>
<1>1. Len(names) = 5 /\ DOMAIN names = 1 .. 5 /\ 5 \in Nat
  OBVIOUS
<1> HIDE DEF names
<1>2. /\ Plain(Bytes(names)) /\ IsLayout(Bytes(names))
      /\ Plain(Words(names)) /\ IsLayout(Words(names))
      /\ Plain(Longs(names)) /\ IsLayout(Longs(names))
  BY <1>1, PlainFields, ScalarFields
<1>3. /\ Total(Bytes(names)) = 5
      /\ Total(Words(names)) = 4 * 5
      /\ Total(Longs(names)) = 8 * 5
  BY <1>1, ScalarFields
<1> QED BY <1>2, <1>3 DEF names

LEMMA Of6 ==
  ASSUME NEW a, NEW b, NEW c, NEW d, NEW e, NEW f
  PROVE  /\ Plain(Bytes(<<a, b, c, d, e, f>>)) /\ IsLayout(Bytes(<<a, b, c, d, e, f>>))
         /\ Total(Bytes(<<a, b, c, d, e, f>>)) = 6
         /\ Plain(Words(<<a, b, c, d, e, f>>)) /\ IsLayout(Words(<<a, b, c, d, e, f>>))
         /\ Total(Words(<<a, b, c, d, e, f>>)) = 24
         /\ Plain(Longs(<<a, b, c, d, e, f>>)) /\ IsLayout(Longs(<<a, b, c, d, e, f>>))
         /\ Total(Longs(<<a, b, c, d, e, f>>)) = 48
<1> DEFINE names == <<a, b, c, d, e, f>>
<1>1. Len(names) = 6 /\ DOMAIN names = 1 .. 6 /\ 6 \in Nat
  OBVIOUS
<1> HIDE DEF names
<1>2. /\ Plain(Bytes(names)) /\ IsLayout(Bytes(names))
      /\ Plain(Words(names)) /\ IsLayout(Words(names))
      /\ Plain(Longs(names)) /\ IsLayout(Longs(names))
  BY <1>1, PlainFields, ScalarFields
<1>3. /\ Total(Bytes(names)) = 6
      /\ Total(Words(names)) = 4 * 6
      /\ Total(Longs(names)) = 8 * 6
  BY <1>1, ScalarFields
<1> QED BY <1>2, <1>3 DEF names

LEMMA Of7 ==
  ASSUME NEW a, NEW b, NEW c, NEW d, NEW e, NEW f, NEW g
  PROVE  /\ Plain(Bytes(<<a, b, c, d, e, f, g>>)) /\ IsLayout(Bytes(<<a, b, c, d, e, f, g>>))
         /\ Total(Bytes(<<a, b, c, d, e, f, g>>)) = 7
         /\ Plain(Words(<<a, b, c, d, e, f, g>>)) /\ IsLayout(Words(<<a, b, c, d, e, f, g>>))
         /\ Total(Words(<<a, b, c, d, e, f, g>>)) = 28
         /\ Plain(Longs(<<a, b, c, d, e, f, g>>)) /\ IsLayout(Longs(<<a, b, c, d, e, f, g>>))
         /\ Total(Longs(<<a, b, c, d, e, f, g>>)) = 56
<1> DEFINE names == <<a, b, c, d, e, f, g>>
<1>1. Len(names) = 7 /\ DOMAIN names = 1 .. 7 /\ 7 \in Nat
  OBVIOUS
<1> HIDE DEF names
<1>2. /\ Plain(Bytes(names)) /\ IsLayout(Bytes(names))
      /\ Plain(Words(names)) /\ IsLayout(Words(names))
      /\ Plain(Longs(names)) /\ IsLayout(Longs(names))
  BY <1>1, PlainFields, ScalarFields
<1>3. /\ Total(Bytes(names)) = 7
      /\ Total(Words(names)) = 4 * 7
      /\ Total(Longs(names)) = 8 * 7
  BY <1>1, ScalarFields
<1> QED BY <1>2, <1>3 DEF names

LEMMA Of11 ==
  ASSUME NEW a, NEW b, NEW c, NEW d, NEW e, NEW f, NEW g, NEW h, NEW i, NEW j, NEW k
  PROVE  /\ Plain(Bytes(<<a, b, c, d, e, f, g, h, i, j, k>>))
         /\ IsLayout(Bytes(<<a, b, c, d, e, f, g, h, i, j, k>>))
         /\ Total(Bytes(<<a, b, c, d, e, f, g, h, i, j, k>>)) = 11
         /\ Plain(Words(<<a, b, c, d, e, f, g, h, i, j, k>>))
         /\ IsLayout(Words(<<a, b, c, d, e, f, g, h, i, j, k>>))
         /\ Total(Words(<<a, b, c, d, e, f, g, h, i, j, k>>)) = 44
         /\ Plain(Longs(<<a, b, c, d, e, f, g, h, i, j, k>>))
         /\ IsLayout(Longs(<<a, b, c, d, e, f, g, h, i, j, k>>))
         /\ Total(Longs(<<a, b, c, d, e, f, g, h, i, j, k>>)) = 88
<1> DEFINE names == <<a, b, c, d, e, f, g, h, i, j, k>>
<1>1. Len(names) = 11 /\ DOMAIN names = 1 .. 11 /\ 11 \in Nat
  OBVIOUS
<1> HIDE DEF names
<1>2. /\ Plain(Bytes(names)) /\ IsLayout(Bytes(names))
      /\ Plain(Words(names)) /\ IsLayout(Words(names))
      /\ Plain(Longs(names)) /\ IsLayout(Longs(names))
  BY <1>1, PlainFields, ScalarFields
<1>3. /\ Total(Bytes(names)) = 11
      /\ Total(Words(names)) = 4 * 11
      /\ Total(Longs(names)) = 8 * 11
  BY <1>1, ScalarFields
<1> QED BY <1>2, <1>3 DEF names

Groups2(p, a, b) ==
  p \o (a \o b) = p \o a \o b

LEMMA Group2 ==
  ASSUME NEW p, NEW a, NEW b, IsLayout(p), IsLayout(a), IsLayout(b)
  PROVE  Groups2(p, a, b)
BY JoinAgain DEF Groups2

Groups3(p, a, b, c) ==
  p \o (a \o b \o c) = p \o a \o b \o c

LEMMA Group3 ==
  ASSUME NEW p, NEW a, NEW b, NEW c, IsLayout(p), IsLayout(a), IsLayout(b), IsLayout(c)
  PROVE  Groups3(p, a, b, c)
<1> DEFINE q == a \o b
<1>1. IsLayout(q)
  BY TotalJoin
<1>2. Groups2(p, a, b)
  BY Group2
<1>3. Groups2(p, q, c)
  BY <1>1, Group2
<1> QED BY <1>2, <1>3 DEF Groups2, Groups2, Groups3

Groups4(p, a, b, c, d) ==
  p \o (a \o b \o c \o d) = p \o a \o b \o c \o d

LEMMA Group4 ==
  ASSUME NEW p, NEW a, NEW b, NEW c, NEW d, IsLayout(p), IsLayout(a), IsLayout(b),
         IsLayout(c), IsLayout(d)
  PROVE  Groups4(p, a, b, c, d)
<1> DEFINE q == a \o b \o c
<1>1. IsLayout(q)
  BY TotalJoin
<1>2. Groups3(p, a, b, c)
  BY Group3
<1>3. Groups2(p, q, d)
  BY <1>1, Group2
<1> QED BY <1>2, <1>3 DEF Groups2, Groups3, Groups4

Groups5(p, a, b, c, d, e) ==
  p \o (a \o b \o c \o d \o e) = p \o a \o b \o c \o d \o e

LEMMA Group5 ==
  ASSUME NEW p, NEW a, NEW b, NEW c, NEW d, NEW e, IsLayout(p), IsLayout(a), IsLayout(b),
         IsLayout(c), IsLayout(d), IsLayout(e)
  PROVE  Groups5(p, a, b, c, d, e)
<1> DEFINE q == a \o b \o c \o d
<1>1. IsLayout(q)
  BY TotalJoin
<1>2. Groups4(p, a, b, c, d)
  BY Group4
<1>3. Groups2(p, q, e)
  BY <1>1, Group2
<1> QED BY <1>2, <1>3 DEF Groups2, Groups4, Groups5

Groups6(p, a, b, c, d, e, f) ==
  p \o (a \o b \o c \o d \o e \o f) = p \o a \o b \o c \o d \o e \o f

LEMMA Group6 ==
  ASSUME NEW p, NEW a, NEW b, NEW c, NEW d, NEW e, NEW f, IsLayout(p), IsLayout(a),
         IsLayout(b), IsLayout(c), IsLayout(d), IsLayout(e), IsLayout(f)
  PROVE  Groups6(p, a, b, c, d, e, f)
<1> DEFINE q == a \o b \o c \o d \o e
<1>1. IsLayout(q)
  BY TotalJoin
<1>2. Groups5(p, a, b, c, d, e)
  BY Group5
<1>3. Groups2(p, q, f)
  BY <1>1, Group2
<1> QED BY <1>2, <1>3 DEF Groups2, Groups5, Groups6

Groups7(p, a, b, c, d, e, f, g) ==
  p \o (a \o b \o c \o d \o e \o f \o g) = p \o a \o b \o c \o d \o e \o f \o g

LEMMA Group7 ==
  ASSUME NEW p, NEW a, NEW b, NEW c, NEW d, NEW e, NEW f, NEW g, IsLayout(p), IsLayout(a),
         IsLayout(b), IsLayout(c), IsLayout(d), IsLayout(e), IsLayout(f), IsLayout(g)
  PROVE  Groups7(p, a, b, c, d, e, f, g)
<1> DEFINE q == a \o b \o c \o d \o e \o f
<1>1. IsLayout(q)
  BY TotalJoin
<1>2. Groups6(p, a, b, c, d, e, f)
  BY Group6
<1>3. Groups2(p, q, g)
  BY <1>1, Group2
<1> QED BY <1>2, <1>3 DEF Groups2, Groups6, Groups7

Groups8(p, a, b, c, d, e, f, g, h) ==
  p \o (a \o b \o c \o d \o e \o f \o g \o h) = p \o a \o b \o c \o d \o e \o f \o g \o h

LEMMA Group8 ==
  ASSUME NEW p, NEW a, NEW b, NEW c, NEW d, NEW e, NEW f, NEW g, NEW h, IsLayout(p),
         IsLayout(a), IsLayout(b), IsLayout(c), IsLayout(d), IsLayout(e), IsLayout(f),
         IsLayout(g), IsLayout(h)
  PROVE  Groups8(p, a, b, c, d, e, f, g, h)
<1> DEFINE q == a \o b \o c \o d \o e \o f \o g
<1>1. IsLayout(q)
  BY TotalJoin
<1>2. Groups7(p, a, b, c, d, e, f, g)
  BY Group7
<1>3. Groups2(p, q, h)
  BY <1>1, Group2
<1> QED BY <1>2, <1>3 DEF Groups2, Groups7, Groups8

Groups9(p, a, b, c, d, e, f, g, h, i) ==
  p \o (a \o b \o c \o d \o e \o f \o g \o h \o i) = p \o a \o b \o c \o d \o e \o f \o g \o h \o i

LEMMA Group9 ==
  ASSUME NEW p, NEW a, NEW b, NEW c, NEW d, NEW e, NEW f, NEW g, NEW h, NEW i, IsLayout(p),
         IsLayout(a), IsLayout(b), IsLayout(c), IsLayout(d), IsLayout(e), IsLayout(f),
         IsLayout(g), IsLayout(h), IsLayout(i)
  PROVE  Groups9(p, a, b, c, d, e, f, g, h, i)
<1> DEFINE q == a \o b \o c \o d \o e \o f \o g \o h
<1>1. IsLayout(q)
  BY TotalJoin
<1>2. Groups8(p, a, b, c, d, e, f, g, h)
  BY Group8
<1>3. Groups2(p, q, i)
  BY <1>1, Group2
<1> QED BY <1>2, <1>3 DEF Groups2, Groups8, Groups9

Groups10(p, a, b, c, d, e, f, g, h, i, j) ==
  p \o (a \o b \o c \o d \o e \o f \o g \o h \o i \o j) = p \o a \o b \o c \o d \o e \o f \o g \o h \o i \o j

LEMMA Group10 ==
  ASSUME NEW p, NEW a, NEW b, NEW c, NEW d, NEW e, NEW f, NEW g, NEW h, NEW i, NEW j,
         IsLayout(p), IsLayout(a), IsLayout(b), IsLayout(c), IsLayout(d), IsLayout(e),
         IsLayout(f), IsLayout(g), IsLayout(h), IsLayout(i), IsLayout(j)
  PROVE  Groups10(p, a, b, c, d, e, f, g, h, i, j)
<1> DEFINE q == a \o b \o c \o d \o e \o f \o g \o h \o i
<1>1. IsLayout(q)
  BY TotalJoin
<1>2. Groups9(p, a, b, c, d, e, f, g, h, i)
  BY Group9
<1>3. Groups2(p, q, j)
  BY <1>1, Group2
<1> QED BY <1>2, <1>3 DEF Groups2, Groups9, Groups10

\* Containers of elements of one, eight and sixteen bytes.
LEMMA Lists ==
  ASSUME NEW name, NEW n \in Nat
  PROVE  /\ Plain(List(name, n, 1)) /\ IsLayout(List(name, n, 1))
         /\ Total(List(name, n, 1)) = 8 + n
         /\ Plain(List(name, n, 8)) /\ IsLayout(List(name, n, 8))
         /\ Total(List(name, n, 8)) = 8 + 8 * n
         /\ Plain(List(name, n, 16)) /\ IsLayout(List(name, n, 16))
         /\ Total(List(name, n, 16)) = 8 + 16 * n
BY ListFields, PlainParts

\* The head that each form writes.
LEMMA HeadFields ==
  ASSUME NEW f \in Nat
  PROVE  Plain(FormHead(f)) /\ IsLayout(FormHead(f)) /\ Total(FormHead(f)) = 32 + 8 * f
<1>1. Plain(FormFields(f)) /\ IsLayout(FormFields(f)) /\ Total(FormFields(f)) = 28 + 8 * f
  BY Lists, Of1, Of2, PlainJoin, TotalJoin DEF FormFields
<1> QED BY <1>1, Of1, PlainJoin, TotalJoin DEF FormHead

\* Joining nothing.
LEMMA NothingMore ==
  ASSUME NEW s, IsLayout(s)
  PROVE  s \o <<>> = s /\ <<>> \o s = s
BY DEF IsLayout

\* What is found as it was written.
LEMMA SameIsFound ==
  ASSUME NEW s, IsLayout(s)
  PROVE  SameFields(s, s)
BY FieldFacts DEF SameFields

\* A plain layout that is not longer than the buffer is not refused.
LEMMA PlainFits ==
  ASSUME NEW s, Plain(s), NEW room \in Nat, Total(s) <= room
  PROVE  FitsInto(s, room)
<1>1. room \in Int
  OBVIOUS
<1> QED BY <1>1, FitsPlain, FitsMeans

-----------------------------------------------------------------------------
(* A record that is read as it was written, and the small classes.         *)

\* Numbers of elements of any size.
Sized(c, names) == \A x \in names : c[x] \in Nat

InPlaceAndInside(r) == MembersInPlace(r) /\ SizeSuffices(r)

\* What holds for the records of a class.
LEMMA StreamIsRead ==
  ASSUME NEW class, NEW size \in Nat, NEW written, NEW read,
         IsLayout(written), read = written, Total(written) <= size
  PROVE  InPlaceAndInside(Kind(class, "stream", size, written, read))
<1> DEFINE r == Kind(class, "stream", size, written, read)
<1>1. r.written = written /\ r.read = written /\ r.size = size /\ r.kind = "stream"
  BY DEF Kind
<1> HIDE DEF r
<1>2. CreateRecord(r) - 12 = size
  BY <1>1 DEF CreateRecord
<1>3. MembersInPlace(r)
  BY <1>1, SameIsFound DEF MembersInPlace
<1>4. SizeSuffices(r)
  BY <1>1, <1>2 DEF SizeSuffices
<1> QED BY <1>3, <1>4 DEF InPlaceAndInside, r

\* The same for a class with a buffer, if nothing it writes is refused.
LEMMA BufferIsRead ==
  ASSUME NEW class, NEW size \in Nat, NEW written, NEW read,
         IsLayout(written), read = written, FitsInto(written, size)
  PROVE  InPlaceAndInside(Kind(class, "buffer", size, written, read))
<1> DEFINE r == Kind(class, "buffer", size, written, read)
<1>1. r.written = written /\ r.read = written /\ r.size = size /\ r.kind = "buffer"
  BY DEF Kind
<1> HIDE DEF r
<1>2. CreateRecord(r) - 12 = size
  BY <1>1 DEF CreateRecord
<1>3. MembersInPlace(r)
  BY <1>1, SameIsFound DEF MembersInPlace
<1>4. SizeSuffices(r)
  BY <1>1, <1>2 DEF SizeSuffices
<1> QED BY <1>3, <1>4 DEF InPlaceAndInside, r

\* The same for a part whose size is written with it.
LEMMA ExactIsRead ==
  ASSUME NEW class, NEW size, NEW written, NEW read,
         IsLayout(written), read = written, Total(written) = size
  PROVE  InPlaceAndInside(Kind(class, "exact", size, written, read))
<1> DEFINE r == Kind(class, "exact", size, written, read)
<1>1. r.written = written /\ r.read = written /\ r.size = size /\ r.kind = "exact"
  BY DEF Kind
<1> HIDE DEF r
<1>2. MembersInPlace(r)
  BY <1>1, SameIsFound DEF MembersInPlace
<1>3. SizeSuffices(r)
  BY <1>1 DEF SizeSuffices
<1> QED BY <1>2, <1>3 DEF InPlaceAndInside, r

\* A derivation tree (DerivationTree.cpp).
LEMMA DerivationTreeComesBack ==
  ASSUME NEW c, Sized(c, TreeLists)
  PROVE  InPlaceAndInside(DerivationTreeRecord(c))
<1>c. c.flags \in Nat /\ c.segments \in Nat
  BY DEF Sized, TreeLists
<1> DEFINE start == FormHead(c.flags) \o Longs(<<"grammarID">>) \o Bytes(<<"regenerate">>)
                      \o Words(<<"seed", "targetlen">>) \o Longs(<<"parentID">>)
           list == List("segments", c.segments, 16)
           len  == Longs(<<"length">>)
           stop == Longs(<<"stop">>)
           w    == DerivationTreeWritten(c)
<1>1. Plain(w) /\ IsLayout(w) /\ Total(w) = 32 + 8 * c.flags + 8 + 1 + 8 + 8
                                            + (8 + 16 * c.segments) + 16 + 1 + 8
  BY <1>c, HeadFields, Lists, Of1, Of2, PlainJoin, TotalJoin DEF DerivationTreeWritten
<1>2. DerivationTreeSize(c) \in Nat /\ Total(w) <= DerivationTreeSize(c)
  BY <1>c, <1>1 DEF DerivationTreeSize, FormSize, DerivationTreeStatic
<1>3. DerivationTreeRead(2, c) = w
  <2>1. Longs(<<"length", "stop">>) = len \o stop
    BY DEF Longs, Fields
  <2>2. IsLayout(start) /\ IsLayout(list) /\ IsLayout(len) /\ IsLayout(stop)
    BY <1>c, HeadFields, Lists, Of1, Of2, TotalJoin
  <2>3. w = start \o list \o (len \o stop) \o Bytes(<<"complement">>) \o Longs(<<"inputID">>)
    BY <2>1 DEF DerivationTreeWritten
  <2>4. DerivationTreeRead(2, c)
          = start \o (list \o len) \o stop \o Bytes(<<"complement">>) \o Longs(<<"inputID">>)
    BY DEF DerivationTreeRead
  <2> HIDE DEF start, list, len, stop, w
  <2>5. Groups2(start, list, len) /\ Groups2(start \o list, len, stop)
    BY <2>2, Group2, TotalJoin
  <2> QED BY <2>3, <2>4, <2>5 DEF Groups2
<1> HIDE DEF w
<1> QED BY <1>1, <1>2, <1>3, PlainFits, BufferIsRead DEF DerivationTreeRecord, w

\* A node of the exclusion tree (ExclusionTree.cpp).
LEMMA NodeComesBack ==
  ASSUME NEW c, Sized(c, {"children"})
  PROVE  InPlaceAndInside(NodeRecord(c))
<1>c. c.children \in Nat
  BY DEF Sized
<1> DEFINE w == NodeWritten(c)
<1>1. Plain(w) /\ IsLayout(w) /\ Total(w) = 4 + (4 + 16) + 8 + (8 + 8 * c.children) + 16
  BY <1>c, Lists, Of1, Of2, PlainJoin, TotalJoin DEF NodeWritten, StrippedFields
<1>2. NodeSize(c) \in Nat /\ Total(w) <= NodeSize(c)
  BY <1>c, <1>1 DEF NodeSize, NodeStatic, StrippedSize
<1>3. NodeRead(3, c) = w
  <2>1. /\ IsLayout(Words(<<"classversion">>) \o StrippedFields \o Longs(<<"stringID">>))
        /\ IsLayout(Words(<<"classversion">>) \o StrippedFields \o Longs(<<"stringID">>)
                      \o List("children", c.children, 8))
    BY <1>c, Lists, Of1, Of2, TotalJoin DEF StrippedFields
  <2> QED BY <2>1, NothingMore DEF NodeRead, NodeWritten
<1> HIDE DEF w
<1> QED BY <1>1, <1>2, <1>3, PlainFits, BufferIsRead DEF NodeRecord, w

\* The exclusion tree (ExclusionTree.cpp).
LEMMA TreeComesBack ==
  ASSUME NEW c, Sized(c, {"flags"})
  PROVE  InPlaceAndInside(TreeRecord(c))
<1>c. c.flags \in Nat
  BY DEF Sized
<1> DEFINE w == TreeWritten(c)
<1>1. IsLayout(w) /\ Total(w) = 32 + 8 * c.flags + 32
  BY <1>c, HeadFields, Of4, TotalJoin DEF TreeWritten
<1>2. TreeSize(c) \in Nat /\ Total(w) <= TreeSize(c)
  BY <1>c, <1>1 DEF TreeSize, TreeStatic, FormSize
<1>3. TreeRead(4, c) = w
  BY <1>c, HeadFields, NothingMore DEF TreeRead, TreeWritten
<1> HIDE DEF w
<1> QED BY <1>1, <1>2, <1>3, StreamIsRead DEF TreeRecord, w

\* A generation (Generation.cpp).
LEMMA GenerationComesBack ==
  ASSUME NEW c, Sized(c, GenerationContainers)
  PROVE  InPlaceAndInside(GenerationRecord(c))
<1>c. /\ c.flags \in Nat /\ c.generatedInputs \in Nat /\ c.ddInputs \in Nat
      /\ c.ddControllers \in Nat /\ c.sources \in Nat
  BY DEF Sized, GenerationContainers
<1> DEFINE w == GenerationWritten(c)
<1>1. /\ IsLayout(GenerationLists(c))
      /\ Total(GenerationLists(c)) = 32 + 8 * c.generatedInputs + 8 * c.ddInputs
                                        + 8 * c.ddControllers + 8 * c.sources
  BY <1>c, Lists, TotalJoin DEF GenerationLists
<1>2. /\ IsLayout(w)
      /\ Total(w) = 32 + 8 * c.flags + 56 + 4 + Total(GenerationLists(c)) + 32
  BY <1>c, <1>1, HeadFields, Of1, Of4, Of7, TotalJoin DEF GenerationWritten
<1>3. GenerationSize(c) \in Nat /\ Total(w) <= GenerationSize(c)
  BY <1>c, <1>1, <1>2 DEF GenerationSize, GenerationStatic, FormSize
<1>4. GenerationRead(2, c) = w
  BY DEF GenerationRead, GenerationWritten
<1> HIDE DEF w
<1> QED BY <1>2, <1>3, <1>4, StreamIsRead DEF GenerationRecord, w

\* The generator and the session, which write little (Generator.cpp, Session.cpp).
LEMMA GeneratorComesBack ==
  ASSUME NEW c, Sized(c, {"flags"})
  PROVE  InPlaceAndInside(GeneratorRecord(c)) /\ InPlaceAndInside(SessionRecord(c))
<1>c. c.flags \in Nat
  BY DEF Sized
<1>1. IsLayout(GeneratorFields(c)) /\ Total(GeneratorFields(c)) = 40 + 8 * c.flags
  BY <1>c, HeadFields, Of1, TotalJoin DEF GeneratorFields
<1>2. IsLayout(SessionFields(c)) /\ Total(SessionFields(c)) = 32 + 8 * c.flags
  BY <1>c, HeadFields DEF SessionFields
<1>3. GeneratorSize(c) \in Nat /\ Total(GeneratorFields(c)) <= GeneratorSize(c)
  BY <1>c, <1>1 DEF GeneratorSize, FormSize
<1>4. SessionSize(c) \in Nat /\ Total(SessionFields(c)) <= SessionSize(c)
  BY <1>c, <1>2 DEF SessionSize, FormSize
<1> QED BY <1>1, <1>2, <1>3, <1>4, StreamIsRead DEF GeneratorRecord, SessionRecord

-----------------------------------------------------------------------------
(* Inputs and tests, which write into a buffer.                            *)

\* A layout that fits, with its size.
Fit(s, room) == Fits(s, Total(s), room)

\* A plain beginning.
LEMMA FitStart ==
  ASSUME NEW s, Plain(s), NEW room \in Nat, Total(s) <= room
  PROVE  Fit(s, room)
<1>1. room \in Int
  OBVIOUS
<1> QED BY <1>1, FitsPlain DEF Fit

\* A plain layout after one that fits.
LEMMA FitMore ==
  ASSUME NEW s, NEW t, NEW room \in Nat, Fit(s, room), Plain(t), Total(s \o t) <= room
  PROVE  Fit(s \o t, room)
<1>1. IsLayout(s) /\ IsLayout(t) /\ Total(s) \in Nat /\ Total(t) \in Nat
  BY TotalNat DEF Fit, Fits, Plain
<1>2. Total(s \o t) = Total(s) + Total(t)
  BY <1>1, TotalJoin
<1>3. Total(t) <= room - Total(s) /\ room - Total(s) \in Int /\ room \in Int
  BY <1>1, <1>2
<1>4. Fits(t, Total(t), room - Total(s))
  BY <1>3, FitsPlain
<1>5. Fits(s \o t, Total(s) + Total(t), room)
  BY <1>3, <1>4, FitsJoin DEF Fit
<1> QED BY <1>2, <1>5 DEF Fit

\* A string has to have eight more bytes after it than it takes.
LEMMA FitString ==
  ASSUME NEW s, NEW name, NEW len \in Nat, NEW room \in Nat, Fit(s, room),
         Total(s) + (8 + len) <= room, len # 0 => Total(s) + (16 + len) <= room
  PROVE  /\ Fit(s \o String(name, len), room)
         /\ Total(s \o String(name, len)) = Total(s) + (8 + len)
<1> DEFINE t == String(name, len)
<1>1. IsLayout(s) /\ IsLayout(t) /\ Total(s) \in Nat /\ Total(t) = 8 + len
  BY StringFields DEF Fit, Fits
<1>2. Total(s \o t) = Total(s) + (8 + len)
  BY <1>1, TotalJoin
<1>3. /\ room - Total(s) \in Int /\ 8 + len <= room - Total(s)
      /\ len # 0 => 16 + len <= room - Total(s)
  BY <1>1
<1>4. Fits(t, 8 + len, room - Total(s))
  BY <1>3, FitsString
<1>5. Fits(s \o t, Total(s) + (8 + len), room)
  BY <1>4, FitsJoin DEF Fit
<1> QED BY <1>2, <1>5 DEF Fit

\* What fits is not refused.
LEMMA FitIs ==
  ASSUME NEW s, NEW room \in Nat, Fit(s, room)
  PROVE  FitsInto(s, room)
BY FitsMeans DEF Fit

\* An input: GetDynamicSize counts a flag more than WriteData writes, never less.
LEMMA InputComesBack ==
  ASSUME NEW c, Sized(c, InputLists), c.regenerate \in Nat, c.sequence \in BOOLEAN
  PROVE  InPlaceAndInside(InputRecord(c))
<1> DEFINE flags == InputFlagsWritten(c)
           text  == c.stringrep
           segs  == c.segments
           first == c.primaryScores
           other == c.secondaryScores
           room  == InputSize(c)
           start == FormHead(flags) \o Bytes(<<"hasfinished", "trimmed">>)
                      \o Longs(<<"executiontime">>) \o Words(<<"exitcode">>)
                      \o Longs(<<"oracleResult", "test", "derive">>)
           mid   == Longs(<<"primaryScore", "secondaryScore", "trimmedlength", "parentInput">>)
           parts == List("segments", segs, 16)
           more  == Bytes(<<"complement">>)
           times == Longs(<<"generationID", "derivedInputs", "generationTime">>)
           on    == Bytes(<<"enablePrimary", "enableSecondary">>)
           one   == List("primaryScores", first, 8)
           two   == List("secondaryScores", other, 8)
           fails == Longs(<<"derivedFails">>)
           older == Longs(<<"olderinputs">>)
           stem  == start \o String("stringrep", text)
           body  == stem \o mid \o parts \o more \o times
           w     == body \o on \o one \o two \o (fails \o older)
<1>c. flags \in Nat /\ text \in Nat /\ segs \in Nat /\ first \in Nat /\ other \in Nat
  BY DEF Sized, InputLists, InputFlagsWritten
<1>1. room \in Nat /\ room >= 177 + 8 * flags + text + 16 * segs + 8 * first + 8 * other
  <2>1. InputFlagsSized(c) \in Nat /\ flags <= InputFlagsSized(c)
    BY DEF Sized, InputLists, InputFlagsWritten, InputFlagsSized
  <2> HIDE DEF flags
  <2> QED BY <1>c, <2>1 DEF InputSize, FormSize, InputStatic
<1>2. Longs(<<"derivedFails", "olderinputs">>) = fails \o older
  BY DEF Longs, Fields
<1>3. InputWritten(c) = w
  BY <1>2 DEF InputWritten
<1>4. InputRead(3, c) = body \o (on \o one \o two \o fails) \o older
  BY DEF InputRead
<1>5. Plain(start) /\ IsLayout(start) /\ Total(start) = 70 + 8 * flags
  <2> HIDE DEF flags
  <2> QED BY <1>c, HeadFields, Of1, Of2, Of3, PlainJoin, TotalJoin
<1>6. /\ Plain(mid) /\ Plain(parts) /\ Plain(more) /\ Plain(times)
      /\ IsLayout(mid) /\ IsLayout(parts) /\ IsLayout(more) /\ IsLayout(times)
      /\ Total(mid) = 32 /\ Total(parts) = 8 + 16 * segs /\ Total(more) = 1
      /\ Total(times) = 24
  <2> HIDE DEF flags, segs
  <2> QED BY <1>c, Lists, Of1, Of3, Of4
<1>7. /\ Plain(on) /\ Plain(one) /\ Plain(two) /\ Plain(fails) /\ Plain(older)
      /\ IsLayout(on) /\ IsLayout(one) /\ IsLayout(two) /\ IsLayout(fails) /\ IsLayout(older)
      /\ Total(on) = 2 /\ Total(one) = 8 + 8 * first /\ Total(two) = 8 + 8 * other
      /\ Total(fails) = 8 /\ Total(older) = 8
  <2> HIDE DEF flags, first, other
  <2> QED BY <1>c, Lists, Of1, Of2
<1> HIDE DEF start, mid, parts, more, times, on, one, two, fails, older, flags, text, segs,
             first, other, room
<1>8. Fit(stem, room) /\ IsLayout(stem) /\ Total(stem) = 78 + 8 * flags + text
  <2>1. Fit(start, room)
    BY <1>c, <1>1, <1>5, FitStart
  <2>2. /\ Total(start) + (8 + text) <= room
        /\ text # 0 => Total(start) + (16 + text) <= room
    BY <1>c, <1>1, <1>5
  <2>3. Fit(stem, room) /\ Total(stem) = Total(start) + (8 + text)
    BY <1>c, <1>1, <2>1, <2>2, FitString
  <2> QED BY <1>c, <1>5, <2>3 DEF Fit, Fits
<1> HIDE DEF stem
<1>9. Fit(body, room) /\ IsLayout(body) /\ Total(body) = 143 + 8 * flags + text + 16 * segs
  <2> DEFINE rest == mid \o parts \o more \o times
  <2>1. Plain(rest) /\ IsLayout(rest) /\ Total(rest) = 65 + 16 * segs
    BY <1>c, <1>6, PlainJoin, TotalJoin
  <2>2. body = stem \o rest
    <3>1. Groups4(stem, mid, parts, more, times)
      BY <1>6, <1>8, Group4
    <3> QED BY <3>1 DEF Groups4
  <2> HIDE DEF rest, body
  <2>3. IsLayout(body) /\ Total(body) = Total(stem) + Total(rest)
    BY <1>8, <2>1, <2>2, TotalJoin
  <2>4. Total(body) = 143 + 8 * flags + text + 16 * segs
    BY <1>c, <1>8, <2>1, <2>3
  <2>5. Total(stem \o rest) <= room
    BY <1>c, <1>1, <2>2, <2>4
  <2> QED BY <1>1, <1>8, <2>1, <2>2, <2>3, <2>4, <2>5, FitMore
<1> HIDE DEF body
<1>10. Fit(w, room) /\ IsLayout(w)
  <2> DEFINE rest == on \o one \o two \o (fails \o older)
  <2>1. Plain(rest) /\ IsLayout(rest) /\ Total(rest) = 34 + 8 * first + 8 * other
    BY <1>c, <1>7, PlainJoin, TotalJoin
  <2>2. w = body \o rest
    <3>1. Groups4(body, on, one, two, fails \o older)
      BY <1>7, <1>9, TotalJoin, Group4
    <3> QED BY <3>1 DEF Groups4
  <2> HIDE DEF rest, w
  <2>3. IsLayout(w) /\ Total(w) = Total(body) + Total(rest)
    BY <1>9, <2>1, <2>2, TotalJoin
  <2>4. Total(body \o rest) <= room
    BY <1>c, <1>1, <1>9, <2>1, <2>2, <2>3
  <2> QED BY <1>1, <1>9, <2>1, <2>2, <2>3, <2>4, FitMore
<1>11. InputRead(3, c) = w
  <2>1. Groups4(body, on, one, two, fails)
    BY <1>7, <1>9, Group4
  <2>2. Groups2(body \o on \o one \o two, fails, older)
    BY <1>7, <1>9, TotalJoin, Group2
  <2> QED BY <1>4, <2>1, <2>2 DEF Groups2, Groups4
<1> HIDE DEF w
<1>12. FitsInto(w, room)
  BY <1>1, <1>10, FitIs
<1> QED BY <1>1, <1>3, <1>10, <1>11, <1>12, BufferIsRead DEF InputRecord, room

\* A test, whose callback and output may be missing (Test.cpp).
LEMMA TestComesBack ==
  ASSUME NEW c, Sized(c, TestLists), c.callback \in Nat, c.storeoutput \in BOOLEAN
  PROVE  InPlaceAndInside(TestRecord(c))
<1> DEFINE flags == c.flags
           last  == c.lastwritten
           out   == TestOutput(c)
           call  == c.callback
           room  == TestSize(c)
           taken == IF call > 0 THEN 8 + call ELSE 0
           back  == IF call > 0 THEN Block("callback", call) ELSE <<>>
           start == FormHead(flags) \o Bytes(<<"running">>)
                      \o Longs(<<"starttime", "endtime", "input">>)
           time  == Longs(<<"lasttime">>)
           list  == List("reactiontime", c.reactiontime, 8)
           stem  == start \o String("lastwritten", last)
           body  == stem \o time \o list
           trunk == body \o String("output", out)
           rest  == Longs(<<"identifier", "exitreason">>)
           yes   == Bytes(<<"valid", "hascallback">>)
           skip  == Bytes(<<"skipOracle">>)
           w     == trunk \o rest \o yes \o back \o skip
<1>c. /\ flags \in Nat /\ last \in Nat /\ c.reactiontime \in Nat /\ out \in Nat
      /\ call \in Nat /\ taken \in Nat
  BY DEF Sized, TestLists, TestOutput
<1>1. room \in Nat /\ room >= 108 + 8 * flags + last + 8 * c.reactiontime + out + taken
  BY <1>c DEF Sized, TestLists, TestSize, FormSize, TestStatic, TestOutput
<1>2. TestWritten(c) = w /\ TestRead(2, c) = w
  <2>1. TestWritten(c) = w
    BY DEF TestWritten
  <2>2. back = IF c.callback = 0 THEN <<>>
               ELSE IF 2 = 1 THEN <<Field("callback", c.callback, 0)>>
               ELSE Block("callback", c.callback)
    BY <1>c
  <2> HIDE DEF back
  <2>3. TestRead(2, c) = w
    BY <2>2 DEF TestRead
  <2> QED BY <2>1, <2>3 DEF back
<1>3. Plain(back) /\ IsLayout(back) /\ Total(back) = taken
  <2>1. Plain(<<>>)
    BY TotalEmpty DEF Plain
  <2> QED BY <1>c, <2>1, BlockFields, PlainParts, TotalEmpty
<1>4. Plain(start) /\ IsLayout(start) /\ Total(start) = 57 + 8 * flags
  BY <1>c, HeadFields, Of1, Of3, PlainJoin, TotalJoin
<1>5. /\ Plain(time) /\ Plain(list) /\ Plain(rest) /\ Plain(yes) /\ Plain(skip)
      /\ IsLayout(time) /\ IsLayout(list) /\ IsLayout(rest) /\ IsLayout(yes)
      /\ IsLayout(skip) /\ Total(time) = 8 /\ Total(list) = 8 + 8 * c.reactiontime
      /\ Total(rest) = 16 /\ Total(yes) = 2 /\ Total(skip) = 1
  BY <1>c, Lists, Of1, Of2
<1> HIDE DEF start, time, list, rest, yes, skip, flags, last, out, call, room, taken, back
<1>6. Fit(stem, room) /\ IsLayout(stem) /\ Total(stem) = 65 + 8 * flags + last
  <2>1. Fit(start, room)
    BY <1>c, <1>1, <1>4, FitStart
  <2>2. /\ Total(start) + (8 + last) <= room
        /\ last # 0 => Total(start) + (16 + last) <= room
    BY <1>c, <1>1, <1>4
  <2>3. Fit(stem, room) /\ Total(stem) = Total(start) + (8 + last)
    BY <1>c, <1>1, <2>1, <2>2, FitString
  <2> QED BY <1>c, <1>4, <2>3 DEF Fit, Fits
<1> HIDE DEF stem
<1>7. /\ Fit(body, room) /\ IsLayout(body)
      /\ Total(body) = 81 + 8 * flags + last + 8 * c.reactiontime
  <2> DEFINE more == time \o list
  <2>1. Plain(more) /\ IsLayout(more) /\ Total(more) = 16 + 8 * c.reactiontime
    BY <1>c, <1>5, PlainJoin, TotalJoin
  <2>2. body = stem \o more
    <3>1. Groups2(stem, time, list)
      BY <1>5, <1>6, Group2
    <3> QED BY <3>1 DEF Groups2
  <2> HIDE DEF more, body
  <2>3. IsLayout(body) /\ Total(body) = Total(stem) + Total(more)
    BY <1>6, <2>1, <2>2, TotalJoin
  <2>4. Total(body) = 81 + 8 * flags + last + 8 * c.reactiontime
    BY <1>c, <1>6, <2>1, <2>3
  <2>5. Total(stem \o more) <= room
    BY <1>c, <1>1, <2>2, <2>4
  <2> QED BY <1>1, <1>6, <2>1, <2>2, <2>3, <2>4, <2>5, FitMore
<1> HIDE DEF body
<1>8. /\ Fit(trunk, room) /\ IsLayout(trunk)
      /\ Total(trunk) = 89 + 8 * flags + last + 8 * c.reactiontime + out
  <2>1. /\ Total(body) + (8 + out) <= room
        /\ out # 0 => Total(body) + (16 + out) <= room
    BY <1>c, <1>1, <1>7
  <2>2. Fit(trunk, room) /\ Total(trunk) = Total(body) + (8 + out)
    BY <1>c, <1>1, <1>7, <2>1, FitString
  <2>3. IsLayout(trunk)
    BY <2>2 DEF Fit, Fits
  <2> HIDE DEF trunk
  <2>4. Total(trunk) = 89 + 8 * flags + last + 8 * c.reactiontime + out
    BY <1>c, <1>7, <2>2
  <2> QED BY <2>2, <2>3, <2>4
<1> HIDE DEF trunk
<1>9. Fit(w, room) /\ IsLayout(w)
  <2> DEFINE more == rest \o yes \o back \o skip
  <2>1. Plain(more) /\ IsLayout(more) /\ Total(more) = 19 + taken
    BY <1>c, <1>3, <1>5, PlainJoin, TotalJoin
  <2>2. w = trunk \o more
    <3>1. Groups4(trunk, rest, yes, back, skip)
      BY <1>3, <1>5, <1>8, Group4
    <3> QED BY <3>1 DEF Groups4
  <2> HIDE DEF more, w
  <2>3. IsLayout(w) /\ Total(w) = Total(trunk) + Total(more)
    BY <1>8, <2>1, <2>2, TotalJoin
  <2>4. Total(trunk \o more) <= room
    BY <1>c, <1>1, <1>8, <2>1, <2>2, <2>3
  <2> QED BY <1>1, <1>8, <2>1, <2>2, <2>3, <2>4, FitMore
<1> HIDE DEF w
<1>10. FitsInto(w, room)
  BY <1>1, <1>9, FitIs
<1> QED BY <1>1, <1>2, <1>9, <1>10, BufferIsRead DEF TestRecord, room

-----------------------------------------------------------------------------
(* Callbacks, and the classes that queue them.                             *)

\* GetLength of every callback is what its members take.
IsCallback(f) ==
  /\ f.length \in 0 .. 48
  /\ IsLayout(f.fields) /\ Total(f.fields) = f.length

\* A callback writes its type and its members.
LEMMA CallbackIs ==
  ASSUME NEW n, NEW members, IsLayout(members), Total(members) = n, n \in 0 .. 40
  PROVE  IsCallback(Callback(n, members))
<1>1. /\ IsLayout(Longs(<<"type">>) \o members)
      /\ Total(Longs(<<"type">>) \o members) = 8 + n
  BY Of1, TotalJoin
<1> QED BY <1>1 DEF IsCallback, Callback

\* All callbacks announce what they write.
LEMMA AreCallbacks ==
  \A f \in Callbacks : IsCallback(f)
<1>1. IsCallback(TestCallback) /\ IsCallback(DDTestCallback)
  BY Of2, Of4, CallbackIs DEF TestCallback, DDTestCallback
<1>2. IsCallback(DDEvaluateExplicitCallback) /\ IsCallback(MasterGenerationCallback)
  BY Of1, CallbackIs DEF DDEvaluateExplicitCallback, MasterGenerationCallback
<1>3. IsCallback(DDGenerateComplementCallback)
  <2> DEFINE members == Longs(<<"controller">>) \o Words(<<"begin", "length">>)
                          \o Longs(<<"approxthreshold", "batchident", "input">>)
  <2>1. IsLayout(members) /\ Total(members) = 40
    BY Of1, Of2, Of3, TotalJoin
  <2> HIDE DEF members
  <2> QED BY <2>1, CallbackIs DEF DDGenerateComplementCallback, members
<1>4. IsCallback(DDGenerateCheckSplit)
  BY Of4, CallbackIs DEF DDGenerateCheckSplit
<1>5. IsCallback(GenerationFinishedCallback)
  <2> DEFINE members == Longs(<<"session", "generation">>) \o Bytes(<<"afterSave">>)
  <2>1. IsLayout(members) /\ Total(members) = 8 + 8 + 1
    BY Of1, Of2, TotalJoin
  <2> HIDE DEF members
  <2> QED BY <2>1, CallbackIs DEF GenerationFinishedCallback, members
<1>6. IsCallback(GenerationEndCallback) /\ IsCallback(FinishSessionCallback)
  BY Of1, CallbackIs DEF GenerationEndCallback, FinishSessionCallback
<1>7. /\ IsCallback(SessionDDTestCallback) /\ IsCallback(ExecInitTestsCallback)
      /\ IsCallback(WriteTestInputCallback)
  BY TotalEmpty, CallbackIs
     DEF SessionDDTestCallback, ExecInitTestsCallback, WriteTestInputCallback
<1> QED BY <1>1, <1>2, <1>3, <1>4, <1>5, <1>6, <1>7 DEF Callbacks

\* A callback on its own (Function.cpp).
LEMMA CallbackComesBack ==
  ASSUME NEW f, IsCallback(f)
  PROVE  InPlaceAndInside(CallbackRecord(f))
BY ExactIsRead DEF CallbackRecord, IsCallback

\* A queue of tasks takes the bytes of its callbacks.
LEMMA QueueFields ==
  ASSUME NEW name, NEW f, IsCallback(f), NEW n \in Nat
  PROVE  IsLayout(Queue(name, f, n)) /\ Total(Queue(name, f, n)) = 8 + n * f.length
<1>1. IsLayout(Repeat(n, f.fields)) /\ Total(Repeat(n, f.fields)) = n * f.length
  BY RepeatedFields DEF IsCallback
<1>2. n * f.length \in Nat
  BY DEF IsCallback
<1> QED BY <1>1, <1>2, Of1, TotalJoin DEF Queue

\* The task controller with its three queues (TaskController.cpp).
LEMMA ControllerComesBack ==
  ASSUME NEW c, Sized(c, ControllerLists), IsCallback(c.callback)
  PROVE  InPlaceAndInside(ControllerRecord(c))
<1> DEFINE len    == c.callback.length
           heavy  == c.tasks * len
           medium == c.medium * len
           light  == c.light * len
           named  == c.executed * (8 + c.name + 8)
           q1     == Queue("tasks", c.callback, c.tasks)
           q2     == Queue("medium", c.callback, c.medium)
           q3     == Queue("light", c.callback, c.light)
           start  == FormHead(c.flags) \o Bytes(<<"terminate", "wait", "active">>)
           one    == Words(<<"numthreads">>)
           four   == Words(<<"numLight", "numMedium", "numHeavy", "numAll">>)
           on     == Bytes(<<"enableFine", "enableLight", "enableMedium", "enableHeavy">>)
           done   == Longs(<<"completedjobs">>)
           times  == Executed(c)
           w      == start \o (one \o four) \o on \o q1 \o q2 \o q3 \o done \o times
<1>c. /\ c.flags \in Nat /\ c.tasks \in Nat /\ c.medium \in Nat /\ c.light \in Nat
      /\ c.executed \in Nat /\ c.name \in Nat /\ len \in Nat
  BY DEF Sized, ControllerLists, IsCallback
<1>n. heavy \in Nat /\ medium \in Nat /\ light \in Nat /\ named \in Nat
  <2>1. 8 + c.name + 8 \in Nat
    BY <1>c
  <2>2. ASSUME NEW x \in Nat, NEW y \in Nat
        PROVE  x * y \in Nat
    OBVIOUS
  <2> HIDE DEF len
  <2> QED BY <1>c, <2>1, <2>2
<1>1. /\ IsLayout(q1) /\ Total(q1) = 8 + heavy
      /\ IsLayout(q2) /\ Total(q2) = 8 + medium
      /\ IsLayout(q3) /\ Total(q3) = 8 + light
  BY <1>c, QueueFields
<1>2. IsLayout(times) /\ Total(times) = 8 + named
  <2> DEFINE entry == String("name", c.name) \o Longs(<<"count">>)
  <2>1. IsLayout(entry) /\ Total(entry) = 8 + c.name + 8
    BY <1>c, StringFields, Of1, TotalJoin
  <2> HIDE DEF entry
  <2>2. IsLayout(Repeat(c.executed, entry)) /\ Total(Repeat(c.executed, entry)) = named
    BY <1>c, <2>1, RepeatedFields
  <2> HIDE DEF named
  <2> QED BY <1>n, <2>2, Of1, TotalJoin DEF Executed, entry
<1>3. ControllerSize(c) = FormSize(c.flags) + ControllerStatic + heavy + medium + light + 8 + named
  BY DEF ControllerSize
<1>4. IsLayout(start) /\ Total(start) = 35 + 8 * c.flags
  BY <1>c, HeadFields, Of3, TotalJoin
<1>5. /\ IsLayout(one) /\ IsLayout(four) /\ IsLayout(on) /\ IsLayout(done)
      /\ Total(one) = 4 /\ Total(four) = 16 /\ Total(on) = 4 /\ Total(done) = 8
  BY Of1, Of4
<1>6. ControllerWritten(c) = w
  <2>1. Words(<<"numthreads", "numLight", "numMedium", "numHeavy", "numAll">>) = one \o four
    BY DEF Words, Fields
  <2> HIDE DEF one, four
  <2> QED BY <2>1 DEF ControllerWritten
<1>7. ControllerRead(2, c) = start \o one \o (four \o on \o q1 \o q2 \o q3 \o done \o times)
  BY DEF ControllerRead
<1> HIDE DEF start, one, four, on, done, times, q1, q2, q3, heavy, medium, light, named, len
<1>8. /\ IsLayout(w)
      /\ Total(w) = 99 + 8 * c.flags + heavy + medium + light + named
  <2> DEFINE front == start \o (one \o four) \o on
  <2>1. IsLayout(front) /\ Total(front) = 59 + 8 * c.flags
    BY <1>c, <1>4, <1>5, TotalJoin
  <2> HIDE DEF front
  <2>2. IsLayout(front \o q1 \o q2 \o q3 \o done \o times)
    BY <1>1, <1>2, <1>5, <2>1, TotalJoin
  <2>3. Total(front \o q1 \o q2 \o q3 \o done \o times)
          = Total(front) + Total(q1) + Total(q2) + Total(q3) + Total(done) + Total(times)
    BY <1>1, <1>2, <1>5, <2>1, TotalJoin, TotalNat
  <2>4. Total(w) = Total(front) + Total(q1) + Total(q2) + Total(q3) + Total(done) + Total(times)
    BY <2>3 DEF front
  <2> HIDE DEF w
  <2>5. Total(w) = 99 + 8 * c.flags + heavy + medium + light + named
    BY <1>c, <1>n, <1>1, <1>2, <1>5, <2>1, <2>4
  <2> QED BY <2>2, <2>5 DEF front, w
<1>9. ControllerRead(2, c) = w
  <2>1. Groups7(start \o one, four, on, q1, q2, q3, done, times)
    BY <1>1, <1>2, <1>4, <1>5, TotalJoin, Group7
  <2>2. Groups2(start, one, four)
    BY <1>4, <1>5, Group2
  <2> QED BY <1>7, <2>1, <2>2 DEF Groups2, Groups7
<1> HIDE DEF w
<1>10. ControllerSize(c) \in Nat /\ Total(w) <= ControllerSize(c)
  BY <1>c, <1>n, <1>3, <1>8 DEF FormSize, ControllerStatic
<1> QED BY <1>6, <1>8, <1>9, <1>10, StreamIsRead DEF ControllerRecord

\* The execution handler with its lists of tests (ExecutionHandler.cpp).
LEMMA HandlerComesBack ==
  ASSUME NEW c, Sized(c, HandlerLists)
  PROVE  InPlaceAndInside(HandlerRecord(c))
<1> DEFINE n == c.stopping + c.running + c.waiting + c.waitingExec
           w == HandlerWritten(c)
<1>c. /\ c.flags \in Nat /\ c.stopping \in Nat /\ c.running \in Nat /\ c.waiting \in Nat
      /\ c.waitingExec \in Nat
  BY DEF Sized, HandlerLists
<1>1. n \in Nat /\ n = c.waiting + c.waitingExec + c.running + c.stopping
  BY <1>c
<1>2. HandlerSize(c) = FormSize(c.flags) + 35 + 8 * n
  BY <1>c DEF HandlerSize, FormSize
<1>3. w = HandlerRead(n, c)
  BY <1>1 DEF HandlerWritten, HandlerRead
<1> HIDE DEF n
<1>4. IsLayout(HandlerFields) /\ Total(HandlerFields) = 23
  BY Of1, TotalJoin DEF HandlerFields
<1>5. IsLayout(w) /\ Total(w) = 63 + 8 * c.flags + 8 * n
  <2>1. IsLayout(FormHead(c.flags)) /\ Total(FormHead(c.flags)) = 32 + 8 * c.flags
    BY <1>c, HeadFields
  <2>2. IsLayout(List("tests", n, 8)) /\ Total(List("tests", n, 8)) = 8 + 8 * n
    BY <1>1, Lists
  <2>3. w = FormHead(c.flags) \o HandlerFields \o List("tests", n, 8)
    BY <1>3 DEF HandlerRead
  <2>4. Total(w) = Total(FormHead(c.flags)) + Total(HandlerFields) + Total(List("tests", n, 8))
    BY <1>4, <2>1, <2>2, <2>3, TotalJoin, TotalNat
  <2>5. IsLayout(w)
    BY <1>4, <2>1, <2>2, <2>3, TotalJoin
  <2> HIDE DEF w
  <2> QED BY <1>c, <1>1, <1>4, <2>1, <2>2, <2>4, <2>5
<1>6. HandlerSize(c) \in Nat /\ Total(w) <= HandlerSize(c)
  BY <1>c, <1>1, <1>2, <1>5 DEF FormSize
<1> HIDE DEF w
<1> QED BY <1>3, <1>5, <1>6, StreamIsRead DEF HandlerRecord, w, n

\* The results of a session (SessionData.cpp).
LEMMA SessionDataComesBack ==
  ASSUME NEW c, Sized(c, SessionLists)
  PROVE  InPlaceAndInside(SessionDataRecord(c))
<1> DEFINE start == FormHead(c.flags)
                      \o Longs(<<"positiveNumber", "negativeNumber", "unfinishedNumber",
                                 "undefinedNumber">>)
                      \o List("positive", c.positive, 8) \o List("negative", c.negative, 16)
                      \o List("unfinished", c.unfinished, 16)
                      \o List("undefined", c.undefined, 8)
                      \o List("recentfails", c.recentfails, 1)
                      \o List("generations", c.generations, 8)
           eleven == Longs(<<"generationfails", "generatedinputs", "generatedWithPrefix",
                             "generatedExcluded", "lastchecks", "natural", "lastinput",
                             "terminated", "timeout", "fragmenttimeout", "memory">>)
           one   == Longs(<<"pipe">>)
           six   == Longs(<<"initerror", "failureRate", "addtestFails", "grammar", "generation",
                            "lastGenerationID">>)
           ends  == Bytes(<<"generationEnding", "generationFinishing">>)
           last  == Longs(<<"defaultGen">>)
           w     == start \o (eleven \o one \o six) \o ends \o last
<1>c. /\ c.flags \in Nat /\ c.positive \in Nat /\ c.negative \in Nat /\ c.unfinished \in Nat
      /\ c.undefined \in Nat /\ c.recentfails \in Nat /\ c.generations \in Nat
  BY DEF Sized, SessionLists
<1>1. /\ IsLayout(start)
      /\ Total(start) = 112 + 8 * c.flags + 8 * c.positive + 16 * c.negative
                          + 16 * c.unfinished + 8 * c.undefined + c.recentfails
                          + 8 * c.generations
  <2> DEFINE tests == FormHead(c.flags)
                        \o Longs(<<"positiveNumber", "negativeNumber", "unfinishedNumber",
                                   "undefinedNumber">>)
             l1 == List("positive", c.positive, 8)
             l2 == List("negative", c.negative, 16)
             l3 == List("unfinished", c.unfinished, 16)
             l4 == List("undefined", c.undefined, 8)
             l5 == List("recentfails", c.recentfails, 1)
             l6 == List("generations", c.generations, 8)
  <2>1. IsLayout(tests) /\ Total(tests) = 64 + 8 * c.flags
    BY <1>c, HeadFields, Of4, TotalJoin
  <2>2. /\ IsLayout(l1) /\ IsLayout(l2) /\ IsLayout(l3) /\ IsLayout(l4) /\ IsLayout(l5)
        /\ IsLayout(l6)
    BY <1>c, Lists
  <2>t. /\ Total(l1) = 8 + 8 * c.positive /\ Total(l2) = 8 + 16 * c.negative
        /\ Total(l3) = 8 + 16 * c.unfinished /\ Total(l4) = 8 + 8 * c.undefined
        /\ Total(l5) = 8 + c.recentfails /\ Total(l6) = 8 + 8 * c.generations
    BY <1>c, Lists
  <2>3. start = tests \o l1 \o l2 \o l3 \o l4 \o l5 \o l6
    OBVIOUS
  <2> HIDE DEF start, tests, l1, l2, l3, l4, l5, l6
  <2>4. /\ IsLayout(start)
        /\ Total(start) = Total(tests) + Total(l1) + Total(l2) + Total(l3) + Total(l4)
                            + Total(l5) + Total(l6)
    <3>1. IsLayout(tests)
      BY <2>1
    <3>2. IsLayout(start)
      BY <2>2, <2>3, <3>1, TotalJoin
    <3>3. Total(tests \o l1 \o l2 \o l3 \o l4 \o l5 \o l6)
            = Total(tests) + Total(l1) + Total(l2) + Total(l3) + Total(l4) + Total(l5)
                + Total(l6)
      BY <2>2, <3>1, TotalJoin, TotalNat
    <3> QED BY <2>3, <3>2, <3>3
  <2> QED BY <1>c, <2>1, <2>t, <2>4
<1>2. /\ IsLayout(eleven) /\ IsLayout(one) /\ IsLayout(six) /\ IsLayout(ends) /\ IsLayout(last)
      /\ Total(eleven) = 88 /\ Total(one) = 8 /\ Total(six) = 48 /\ Total(ends) = 2
      /\ Total(last) = 8
  BY Of1, Of2, Of6, Of11
<1>3. SessionDataWritten(c) = w
  <2>1. Longs(<<"generationfails", "generatedinputs", "generatedWithPrefix",
               "generatedExcluded", "lastchecks", "natural", "lastinput", "terminated",
               "timeout", "fragmenttimeout", "memory", "pipe", "initerror", "failureRate",
               "addtestFails", "grammar", "generation", "lastGenerationID">>)
          = eleven \o one \o six
    BY DEF Longs, Fields
  <2> HIDE DEF eleven, one, six
  <2> QED BY <2>1 DEF SessionDataWritten
<1>4. SessionDataRead(2, c) = start \o eleven \o one \o six \o (ends \o last)
  BY DEF SessionDataRead
<1> HIDE DEF start, eleven, one, six, ends, last
<1>5. IsLayout(w) /\ Total(w) = Total(start) + 154
  BY <1>c, <1>1, <1>2, TotalJoin
<1>6. SessionDataRead(2, c) = w
  <2>1. Groups3(start, eleven, one, six)
    BY <1>1, <1>2, Group3
  <2>2. Groups2(start \o eleven \o one \o six, ends, last)
    BY <1>1, <1>2, TotalJoin, Group2
  <2> QED BY <1>4, <2>1, <2>2 DEF Groups2, Groups3
<1> HIDE DEF w
<1>7. SessionDataSize(c) \in Nat /\ Total(w) <= SessionDataSize(c)
  <2>1. SessionDataSize(c) = 266 + 8 * c.flags + 8 * c.positive + 16 * c.negative
                               + 16 * c.unfinished + 8 * c.undefined + c.recentfails
                               + 8 * c.generations
    BY <1>c DEF SessionDataSize, SessionDataStatic, FormSize
  <2> QED BY <1>c, <1>1, <1>5, <2>1
<1> QED BY <1>3, <1>5, <1>6, <1>7, StreamIsRead DEF SessionDataRecord

\* The table of strings (Data.cpp).
LEMMA StringTableComesBack ==
  ASSUME NEW c, Sized(c, {"strings", "text"})
  PROVE  InPlaceAndInside(StringTableRecord(c))
<1> DEFINE w     == StringTableWritten(c)
           entry == Longs(<<"id">>) \o String("text", c.text)
           size  == c.strings * (8 + 8 + c.text)
<1>c. c.strings \in Nat /\ c.text \in Nat
  BY DEF Sized
<1>1. IsLayout(entry) /\ Total(entry) = 8 + 8 + c.text
  BY <1>c, Of1, StringFields, TotalJoin
<1>2. /\ IsLayout(Repeat(c.strings, entry)) /\ Total(Repeat(c.strings, entry)) = size
      /\ size \in Nat
  <2> HIDE DEF entry
  <2>1. IsLayout(Repeat(c.strings, entry)) /\ Total(Repeat(c.strings, entry)) = size
    BY <1>c, <1>1, RepeatedFields
  <2> HIDE DEF size
  <2> QED BY <2>1, TotalNat
<1>3. StringTableSize(c) = 12 + size
  BY <1>c, <1>2 DEF StringTableSize
<1> HIDE DEF size
<1>4. IsLayout(w) /\ Total(w) = 12 + size
  BY <1>2, Of1, TotalJoin DEF StringTableWritten
<1>5. StringTableRead(c) = w
  BY DEF StringTableRead, StringTableWritten
<1> HIDE DEF w
<1> QED BY <1>2, <1>3, <1>4, <1>5, StreamIsRead DEF StringTableRecord, w

\* The head of a save file with its callback (Data.cpp).
LEMMA HeaderComesBack ==
  ASSUME NEW c, Sized(c, {"priors"}), IsCallback(c.callback)
  PROVE  InPlaceAndInside(HeaderRecord(c))
<1> DEFINE len    == c.callback.length
           fields == c.callback.fields
           n      == 256 - len - 1
           start  == Words(<<"saveversion">>) \o Longs(<<"guid1", "guid2", "nextformid">>)
                       \o Bytes(<<"globalTasks", "globalExec">>) \o Longs(<<"runtime">>)
                       \o Words(<<"compressionLevel">>) \o Bytes(<<"compressionExtreme">>)
           number == Longs(<<"priors">>)
           priors == Repeat(c.priors, Words(<<"prior">>))
           has    == Bytes(<<"hascallback">>)
           unused == Fields(n, <<"unused">>)
           last   == Longs(<<"records">>)
           w      == start \o number \o priors \o has \o fields \o unused \o last
<1>c. c.priors \in Nat /\ len \in 0 .. 48 /\ n \in Nat
  BY DEF Sized, IsCallback
<1>1. IsLayout(fields) /\ Total(fields) = len
  BY DEF IsCallback
<1>2. IsLayout(start) /\ Total(start) = 43
  BY Of1, Of2, Of3, TotalJoin
<1>3. /\ IsLayout(number) /\ IsLayout(has) /\ IsLayout(last)
      /\ Total(number) = 8 /\ Total(has) = 1 /\ Total(last) = 8
  BY Of1
<1>4. IsLayout(priors) /\ Total(priors) = 4 * c.priors
  <2>1. IsLayout(Words(<<"prior">>)) /\ Total(Words(<<"prior">>)) = 4
    BY Of1
  <2>2. IsLayout(priors) /\ Total(priors) = c.priors * 4
    BY <1>c, <2>1, RepeatedFields
  <2> QED BY <1>c, <2>2
<1>5. IsLayout(unused) /\ Total(unused) = n
  <2> HIDE DEF n
  <2>1. unused = <<Field("unused", n, 0)>>
    BY DEF Fields
  <2>2. IsLayout(<<Field("unused", n, 0)>>) /\ Total(<<Field("unused", n, 0)>>) = n
    <3>1. 0 \in Nat
      OBVIOUS
    <3> QED BY <1>c, <3>1, OneField
  <2> QED BY <2>1, <2>2
<1>6. HeaderWritten(c) = w
  BY DEF HeaderWritten
<1>7. HeaderRead(3, c) = start \o (number \o priors) \o has \o fields \o unused \o last
  <2>1. n = 256 - 1 - len
    BY <1>c
  <2> HIDE DEF n
  <2> QED BY <2>1 DEF HeaderRead
<1> HIDE DEF start, number, priors, has, unused, last, fields
<1>8. IsLayout(w) /\ Total(w) = 60 + 4 * c.priors + len + n
  <2> HIDE DEF len, n
  <2> QED BY <1>c, <1>1, <1>2, <1>3, <1>4, <1>5, TotalJoin
<1>9. Total(w) = HeaderSize(c)
  <2> HIDE DEF w
  <2> QED BY <1>c, <1>8 DEF HeaderSize
<1>10. HeaderRead(3, c) = w
  <2>1. Groups2(start, number, priors)
    BY <1>2, <1>3, <1>4, Group2
  <2> QED BY <1>7, <2>1 DEF Groups2
<1> HIDE DEF w
<1> QED BY <1>6, <1>8, <1>9, <1>10, ExactIsRead DEF HeaderRecord

-----------------------------------------------------------------------------
(* Oracles.                                                                *)

IsPass(f, ss, i) == f[i] = f[i - 1] \o ss[i]

StringsAre6(a, b, c, d, e, f, len) ==
  Strings(<<a, b, c, d, e, f>>, len)
    = String(a, len[a]) \o String(b, len[b]) \o String(c, len[c])
        \o String(d, len[d]) \o String(e, len[e]) \o String(f, len[f])

\* Rows of six, seven and eight strings.
LEMMA Strings6 ==
  ASSUME NEW a, NEW b, NEW c, NEW d, NEW e, NEW f, NEW len
  PROVE  StringsAre6(a, b, c, d, e, f, len)
<1> DEFINE names == <<a, b, c, d, e, f>>
           ss == [i \in 1 .. 6 |-> String(names[i], len[names[i]])]
<1>1. DOMAIN names = 1 .. 6
  OBVIOUS
<1>2. Strings(names, len) = FlattenSeq(ss)
  <2> HIDE DEF names
  <2> QED BY <1>1 DEF Strings
<1>3. ss[1] = String(a, len[a]) /\ ss[2] = String(b, len[b]) /\ ss[3] = String(c, len[c])
  OBVIOUS
<1>4. ss[4] = String(d, len[d]) /\ ss[5] = String(e, len[e]) /\ ss[6] = String(f, len[f])
  OBVIOUS
<1>5. Len(ss) = 6
  <2> HIDE DEF names
  <2> QED OBVIOUS
<1> HIDE DEF names, ss
<1>6. PICK pass : /\ FlattenSeq(ss) = pass[Len(ss)]
               /\ pass[1] = ss[1]
               /\ \A i \in 2 .. Len(ss) : pass[i] = pass[i - 1] \o ss[i]
  <2>1. Len(ss) \in Nat \ {0}
    BY <1>5
  <2> QED BY <2>1, FlatIs
<1>7. /\ pass[1] = ss[1] /\ pass[2] = pass[1] \o ss[2] /\ pass[3] = pass[2] \o ss[3]
      /\ pass[4] = pass[3] \o ss[4] /\ pass[5] = pass[4] \o ss[5]
      /\ pass[6] = pass[5] \o ss[6]
  <2>1. \A i \in 2 .. 6 : IsPass(pass, ss, i)
    BY <1>5, <1>6 DEF IsPass
  <2>2. /\ IsPass(pass, ss, 2) /\ IsPass(pass, ss, 3) /\ IsPass(pass, ss, 4)
        /\ IsPass(pass, ss, 5) /\ IsPass(pass, ss, 6)
    BY <2>1
  <2>3. 2 - 1 = 1 /\ 3 - 1 = 2 /\ 4 - 1 = 3 /\ 5 - 1 = 4 /\ 6 - 1 = 5
    OBVIOUS
  <2> QED BY <1>6, <2>2, <2>3 DEF IsPass
<1>8. FlattenSeq(ss) = pass[6]
  BY <1>5, <1>6
<1> QED BY <1>2, <1>3, <1>4, <1>7, <1>8 DEF names, StringsAre6

StringsAre7(a, b, c, d, e, f, g, len) ==
  Strings(<<a, b, c, d, e, f, g>>, len)
    = String(a, len[a]) \o String(b, len[b]) \o String(c, len[c]) \o String(d, len[d])
        \o String(e, len[e]) \o String(f, len[f]) \o String(g, len[g])

LEMMA Strings7 ==
  ASSUME NEW a, NEW b, NEW c, NEW d, NEW e, NEW f, NEW g, NEW len
  PROVE  StringsAre7(a, b, c, d, e, f, g, len)
<1> DEFINE names == <<a, b, c, d, e, f, g>>
           ss == [i \in 1 .. 7 |-> String(names[i], len[names[i]])]
<1>1. DOMAIN names = 1 .. 7
  OBVIOUS
<1>2. Strings(names, len) = FlattenSeq(ss)
  <2> HIDE DEF names
  <2> QED BY <1>1 DEF Strings
<1>3. /\ ss[1] = String(a, len[a]) /\ ss[2] = String(b, len[b]) /\ ss[3] = String(c, len[c])
      /\ ss[4] = String(d, len[d])
  OBVIOUS
<1>4. ss[5] = String(e, len[e]) /\ ss[6] = String(f, len[f]) /\ ss[7] = String(g, len[g])
  OBVIOUS
<1>5. Len(ss) = 7
  <2> HIDE DEF names
  <2> QED OBVIOUS
<1> HIDE DEF names, ss
<1>6. PICK pass : /\ FlattenSeq(ss) = pass[Len(ss)]
               /\ pass[1] = ss[1]
               /\ \A i \in 2 .. Len(ss) : pass[i] = pass[i - 1] \o ss[i]
  <2>1. Len(ss) \in Nat \ {0}
    BY <1>5
  <2> QED BY <2>1, FlatIs
<1>7. /\ pass[1] = ss[1] /\ pass[2] = pass[1] \o ss[2] /\ pass[3] = pass[2] \o ss[3]
      /\ pass[4] = pass[3] \o ss[4] /\ pass[5] = pass[4] \o ss[5]
      /\ pass[6] = pass[5] \o ss[6] /\ pass[7] = pass[6] \o ss[7]
  <2>1. \A i \in 2 .. 7 : IsPass(pass, ss, i)
    BY <1>5, <1>6 DEF IsPass
  <2>2. /\ IsPass(pass, ss, 2) /\ IsPass(pass, ss, 3) /\ IsPass(pass, ss, 4)
        /\ IsPass(pass, ss, 5) /\ IsPass(pass, ss, 6) /\ IsPass(pass, ss, 7)
    BY <2>1
  <2>3. 2 - 1 = 1 /\ 3 - 1 = 2 /\ 4 - 1 = 3 /\ 5 - 1 = 4 /\ 6 - 1 = 5 /\ 7 - 1 = 6
    OBVIOUS
  <2> QED BY <1>6, <2>2, <2>3 DEF IsPass
<1>8. FlattenSeq(ss) = pass[7]
  BY <1>5, <1>6
<1> QED BY <1>2, <1>3, <1>4, <1>7, <1>8 DEF names, StringsAre7

StringsAre8(a, b, c, d, e, f, g, h, len) ==
  Strings(<<a, b, c, d, e, f, g, h>>, len)
    = String(a, len[a]) \o String(b, len[b]) \o String(c, len[c]) \o String(d, len[d])
        \o String(e, len[e]) \o String(f, len[f]) \o String(g, len[g]) \o String(h, len[h])

LEMMA Strings8 ==
  ASSUME NEW a, NEW b, NEW c, NEW d, NEW e, NEW f, NEW g, NEW h, NEW len
  PROVE  StringsAre8(a, b, c, d, e, f, g, h, len)
<1> DEFINE names == <<a, b, c, d, e, f, g, h>>
           ss == [i \in 1 .. 8 |-> String(names[i], len[names[i]])]
<1>1. DOMAIN names = 1 .. 8
  OBVIOUS
<1>2. Strings(names, len) = FlattenSeq(ss)
  <2> HIDE DEF names
  <2> QED BY <1>1 DEF Strings
<1>3. /\ ss[1] = String(a, len[a]) /\ ss[2] = String(b, len[b]) /\ ss[3] = String(c, len[c])
      /\ ss[4] = String(d, len[d])
  OBVIOUS
<1>4. /\ ss[5] = String(e, len[e]) /\ ss[6] = String(f, len[f]) /\ ss[7] = String(g, len[g])
      /\ ss[8] = String(h, len[h])
  OBVIOUS
<1>5. Len(ss) = 8
  <2> HIDE DEF names
  <2> QED OBVIOUS
<1> HIDE DEF names, ss
<1>6. PICK pass : /\ FlattenSeq(ss) = pass[Len(ss)]
               /\ pass[1] = ss[1]
               /\ \A i \in 2 .. Len(ss) : pass[i] = pass[i - 1] \o ss[i]
  <2>1. Len(ss) \in Nat \ {0}
    BY <1>5
  <2> QED BY <2>1, FlatIs
<1>7. /\ pass[1] = ss[1] /\ pass[2] = pass[1] \o ss[2] /\ pass[3] = pass[2] \o ss[3]
      /\ pass[4] = pass[3] \o ss[4] /\ pass[5] = pass[4] \o ss[5]
      /\ pass[6] = pass[5] \o ss[6] /\ pass[7] = pass[6] \o ss[7]
      /\ pass[8] = pass[7] \o ss[8]
  <2>1. \A i \in 2 .. 8 : IsPass(pass, ss, i)
    BY <1>5, <1>6 DEF IsPass
  <2>2. /\ IsPass(pass, ss, 2) /\ IsPass(pass, ss, 3) /\ IsPass(pass, ss, 4)
        /\ IsPass(pass, ss, 5) /\ IsPass(pass, ss, 6) /\ IsPass(pass, ss, 7)
        /\ IsPass(pass, ss, 8)
    BY <2>1
  <2>3. 2 - 1 = 1 /\ 3 - 1 = 2 /\ 4 - 1 = 3 /\ 5 - 1 = 4 /\ 6 - 1 = 5 /\ 7 - 1 = 6 /\ 8 - 1 = 7
    OBVIOUS
  <2> QED BY <1>6, <2>2, <2>3 DEF IsPass
<1>8. FlattenSeq(ss) = pass[8]
  BY <1>5, <1>6
<1> QED BY <1>2, <1>3, <1>4, <1>7, <1>8 DEF names, StringsAre8

\* The oracle, a row of strings (Oracle.cpp).
LEMMA OracleComesBack ==
  ASSUME NEW c, c.flags \in Nat, Sized(c.strings, ToSet(OracleStrings))
  PROVE  InPlaceAndInside(OracleRecord(c))
<1> DEFINE len  == c.strings
           all  == Strings(OracleStrings, len)
           front == FormHead(c.flags) \o Words(<<"type">>) \o Bytes(<<"valid">>)
           s1 == String("path", len.path)
           s2 == String("oracle", len.oracle)
           s3 == String("oraclePath", len.oraclePath)
           s4 == String("cmd", len.cmd)
           s5 == String("cmdPath", len.cmdPath)
           s6 == String("script", len.script)
           s7 == String("scriptPath", len.scriptPath)
           w  == front \o all
<1>1. all = s1 \o s2 \o s3 \o s4 \o s5 \o s6 \o s7
  <2>1. StringsAre7("path", "oracle", "oraclePath", "cmd", "cmdPath", "script", "scriptPath",
                    len)
    BY Strings7
  <2> QED BY <2>1 DEF OracleStrings, StringsAre7
<1>2. /\ len.path \in Nat /\ len.oracle \in Nat /\ len.oraclePath \in Nat /\ len.cmd \in Nat
      /\ len.cmdPath \in Nat /\ len.script \in Nat /\ len.scriptPath \in Nat
  BY DEF Sized, OracleStrings, ToSet
<1>3. /\ IsLayout(s1) /\ IsLayout(s2) /\ IsLayout(s3) /\ IsLayout(s4) /\ IsLayout(s5)
      /\ IsLayout(s6) /\ IsLayout(s7)
  BY <1>2, StringFields
<1>4. IsLayout(front) /\ Total(front) = 37 + 8 * c.flags
  BY HeadFields, Of1, TotalJoin
<1>5. OracleWritten(c) = w
  BY DEF OracleWritten
<1>6. OracleRead(c) = front \o s1 \o s2 \o s3 \o s4 \o s5 \o s6 \o s7
  BY DEF OracleRead
<1>7. OracleSize(c) = FormSize(c.flags) + 57 + Total(all)
  BY DEF OracleSize, FormSize
<1> HIDE DEF all, front, s1, s2, s3, s4, s5, s6, s7
<1>8. IsLayout(all)
  BY <1>1, <1>3, TotalJoin
<1>9. OracleRead(c) = w
  <2>1. Groups7(front, s1, s2, s3, s4, s5, s6, s7)
    BY <1>3, <1>4, Group7
  <2> QED BY <1>1, <1>6, <2>1 DEF Groups7
<1>10. IsLayout(w) /\ Total(w) = Total(front) + Total(all) /\ Total(all) \in Nat
  BY <1>4, <1>8, TotalJoin, TotalNat
<1> HIDE DEF w
<1>11. OracleSize(c) \in Nat /\ Total(w) <= OracleSize(c)
  BY <1>4, <1>7, <1>10 DEF FormSize
<1> QED BY <1>5, <1>9, <1>10, <1>11, StreamIsRead DEF OracleRecord

-----------------------------------------------------------------------------
(* Settings.                                                               *)

\* The settings, scalars and strings by turns (Settings.cpp).
LEMMA SettingsComesBack ==
  ASSUME NEW c, c.flags \in Nat, Sized(c.strings, ToSet(SettingsStrings))
  PROVE  InPlaceAndInside(SettingsRecord(c))
<1> DEFINE text  == Strings(SubSeq(SettingsStrings, 1, 6), c.strings)
           x1    == FormHead(c.flags) \o Words(<<"oracle">>) \o text
           x2    == x1 \o Bytes(<<"usehardwarethreads">>)
                     \o Words(<<"numthreads", "numcomputingthreads", "concurrenttests">>)
                     \o Longs(<<"memory_limit", "memory_softlimit", "memory_sweep_period">>)
                     \o Bytes(<<"enablesaves">>)
                     \o Longs(<<"autosave_every_tests", "autosave_every_seconds">>)
                     \o String("savepath", c.strings.savepath)
           x3    == x2 \o Words(<<"compressionLevel">>) \o Bytes(<<"compressionExtreme">>)
                     \o Bytes(<<"constructinputsiteratively", "deltadebugging">>)
                     \o Longs(<<"executeAboveLength">>) \o Words(<<"mode">>)
                     \o Bytes(<<"allowScoreOptimization">>)
                     \o Longs(<<"optimizationLossThreshold">>)
                     \o Bytes(<<"approximativeTestExecution">>)
           x4    == x3 \o Longs(<<"approximativeThreshold">>)
                     \o Words(<<"generationsize", "tweakstart", "tweakmax", "activeGeneratedInputs">>)
                     \o Bytes(<<"generationalMode", "allowBacktrackFailedInputs">>)
                     \o Words(<<"numberOfInputsToDeltaDebug", "numberOfSources">>)
                     \o Bytes(<<"use_foundnegatives">>) \o Longs(<<"foundnegatives">>)
                     \o Bytes(<<"use_foundpositives">>) \o Longs(<<"foundpositives">>)
           x5    == x4 \o Bytes(<<"use_timeout">>) \o Longs(<<"timeout">>)
                     \o Bytes(<<"use_overalltests">>) \o Longs(<<"overalltests">>)
                     \o Bytes(<<"executeFragments", "use_testtimeout">>)
                     \o Longs(<<"testtimeout">>) \o Bytes(<<"use_fragmenttimeout">>)
                     \o Longs(<<"fragmenttimeout">>)
                     \o Bytes(<<"storePUToutput", "storePUToutputSuccessful">>)
                     \o Longs(<<"maxUsedMemory">>)
           p35   == String("oraclepath_Unix", c.strings.oraclepath_Unix)
           p36   == Words(<<"generationLengthMin", "generationLengthMax", "sourcesType">>)
           p37   == Longs(<<"maxNumberOfFailsPerSource", "maxNumberOfGenerationsPerSource">>)
           p38   == Words(<<"chance_new_generations">>)
           p39   == Bytes(<<"disableExclusionTree", "saveAfterEachGeneration">>)
           p40   == Words(<<"extensionMin", "extensionMax", "backtrackMin", "backtrackMax">>)
           p41   == Longs(<<"testEnginePeriod">>)
           p42   == Words(<<"skipoptions">>)
           p43   == Bytes(<<"runReproduceResults">>)
           p44   == Words(<<"batchprocessing", "budgetGenEnd">>)
           p45   == Bytes(<<"activateSettings">>)
           p46   == Words(<<"numLightThreads", "numMediumThreads", "numHeavyThreads", "numAllThreads">>)
           p47   == Bytes(<<"disableExecHandlerSleep", "repeatTimeoutedTests">>)
           p48   == Words(<<"exclusionTreeLengthLimit">>)
           p49   == Bytes(<<"skipDeltaDebuggedParts">>)
           p50   == Longs(<<"optimizationLossAbsolute">>)
           p51   == Bytes(<<"use_generations">>)
           p52   == Longs(<<"generations">>)
           p53   == Bytes(<<"incrementalSaveFiles">>)
           p54   == Words(<<"createFullSaveEvery">>)
           g     == p35 \o p36 \o p37 \o p38 \o p39 \o p40 \o p41
           x6    == x5 \o p35 \o p36 \o p37 \o p38 \o p39 \o p40 \o p41
           x7    == x6 \o p42 \o p43 \o p44 \o p45 \o p46 \o p47 \o p48
           w     == x7 \o p49 \o p50 \o p51 \o p52 \o p53 \o p54
<1>1. /\ c.strings.oraclepath \in Nat
      /\ c.strings.lua_path_cmd \in Nat
      /\ c.strings.lua_path_script \in Nat
      /\ c.strings.lua_path_cmd_replay \in Nat
      /\ c.strings.lua_path_oracle \in Nat
      /\ c.strings.grammar_path \in Nat
      /\ c.strings.savepath \in Nat /\ c.strings.oraclepath_Unix \in Nat
  BY DEF Sized, SettingsStrings, ToSet
<1>2. IsLayout(text) /\ Total(Strings(SettingsStrings, c.strings))
                          = Total(text) + 16 + c.strings.savepath + c.strings.oraclepath_Unix
  <2> DEFINE s1 == String("oraclepath", c.strings.oraclepath)
             s2 == String("lua_path_cmd", c.strings.lua_path_cmd)
             s3 == String("lua_path_script", c.strings.lua_path_script)
             s4 == String("lua_path_cmd_replay", c.strings.lua_path_cmd_replay)
             s5 == String("lua_path_oracle", c.strings.lua_path_oracle)
             s6 == String("grammar_path", c.strings.grammar_path)
             s7 == String("savepath", c.strings.savepath)
             s8 == String("oraclepath_Unix", c.strings.oraclepath_Unix)
  <2>1. text = s1 \o s2 \o s3 \o s4 \o s5 \o s6
    <3>1. StringsAre6("oraclepath", "lua_path_cmd", "lua_path_script", "lua_path_cmd_replay",
                      "lua_path_oracle", "grammar_path", c.strings)
      BY Strings6
    <3>2. SubSeq(SettingsStrings, 1, 6)
            = <<"oraclepath", "lua_path_cmd", "lua_path_script", "lua_path_cmd_replay",
                "lua_path_oracle", "grammar_path">>
      <4> DEFINE s == SettingsStrings
                 t == SubSeq(s, 1, 6)
      <4>1. s \in Seq({"oraclepath", "lua_path_cmd", "lua_path_script",
                        "lua_path_cmd_replay", "lua_path_oracle", "grammar_path", "savepath",
                        "oraclepath_Unix"})
        BY DEF SettingsStrings
      <4>2. Len(s) = 8
        BY DEF SettingsStrings
      <4>3. /\ s[1] = "oraclepath" /\ s[2] = "lua_path_cmd" /\ s[3] = "lua_path_script"
            /\ s[4] = "lua_path_cmd_replay" /\ s[5] = "lua_path_oracle"
            /\ s[6] = "grammar_path"
        BY DEF SettingsStrings
      <4> HIDE DEF s
      <4>4. /\ Len(t) = 6 /\ \A i \in 1 .. 6 : t[i] = s[i]
            /\ t = [i \in 1 .. 6 |-> t[i]]
        BY <4>1, <4>2
      <4> HIDE DEF t
      <4>5. t = <<"oraclepath", "lua_path_cmd", "lua_path_script", "lua_path_cmd_replay",
                  "lua_path_oracle", "grammar_path">>
        BY <4>3, <4>4
      <4> QED BY <4>5 DEF s, t
    <3> QED BY <3>1, <3>2 DEF StringsAre6
  <2>2. Strings(SettingsStrings, c.strings) = s1 \o s2 \o s3 \o s4 \o s5 \o s6 \o s7 \o s8
    <3>1. StringsAre8("oraclepath", "lua_path_cmd", "lua_path_script", "lua_path_cmd_replay",
                      "lua_path_oracle", "grammar_path", "savepath", "oraclepath_Unix",
                      c.strings)
      BY Strings8
    <3> QED BY <3>1 DEF SettingsStrings, StringsAre8
  <2>3. /\ IsLayout(s1) /\ IsLayout(s2) /\ IsLayout(s3) /\ IsLayout(s4) /\ IsLayout(s5)
        /\ IsLayout(s6) /\ IsLayout(s7) /\ IsLayout(s8)
        /\ Total(s7) = 8 + c.strings.savepath /\ Total(s8) = 8 + c.strings.oraclepath_Unix
    BY <1>1, StringFields
  <2> HIDE DEF text, s1, s2, s3, s4, s5, s6, s7, s8
  <2>4. IsLayout(text)
    BY <2>1, <2>3, TotalJoin
  <2>5. Strings(SettingsStrings, c.strings) = text \o s7 \o s8
    BY <2>1, <2>2
  <2>6. Total(text) \in Nat
    BY <2>4, TotalNat
  <2>7. Total(text \o s7 \o s8) = Total(text) + Total(s7) + Total(s8)
    BY <2>3, <2>4, TotalJoin, TotalNat
  <2>8. Total(s7) + Total(s8) = 16 + c.strings.savepath + c.strings.oraclepath_Unix
    BY <1>1, <2>3
  <2>9. Total(s7) \in Nat /\ Total(s8) \in Nat
    BY <2>3, TotalNat
  <2>10. Total(Strings(SettingsStrings, c.strings)) = Total(text) + (Total(s7) + Total(s8))
    BY <2>5, <2>6, <2>7, <2>9
  <2> QED BY <1>1, <2>4, <2>6, <2>8, <2>10
<1>3. SettingsWritten(c) = w
  BY DEF SettingsWritten
<1>4. SettingsRead(5, c) = x5 \o (g \o p42 \o p43 \o p44 \o p45 \o p46 \o p47) \o p48
                              \o (p49 \o p50 \o p51 \o p52) \o (p53 \o p54)
  BY DEF SettingsRead
<1>5. /\ IsLayout(p35) /\ IsLayout(p36) /\ IsLayout(p37) /\ IsLayout(p38) /\ IsLayout(p39)
      /\ IsLayout(p40) /\ IsLayout(p41)
      /\ Total(p35) = 8 + c.strings.oraclepath_Unix
      /\ Total(p36) = 12 /\ Total(p37) = 16 /\ Total(p38) = 4 /\ Total(p39) = 2
      /\ Total(p40) = 16 /\ Total(p41) = 8
  BY <1>1, StringFields, Of1, Of2, Of3, Of4
<1>6. /\ IsLayout(p42) /\ IsLayout(p43) /\ IsLayout(p44) /\ IsLayout(p45) /\ IsLayout(p46)
      /\ IsLayout(p47) /\ IsLayout(p48)
      /\ Total(p42) = 4 /\ Total(p43) = 1 /\ Total(p44) = 8 /\ Total(p45) = 1 /\ Total(p46) = 16
      /\ Total(p47) = 2 /\ Total(p48) = 4
  BY Of1, Of2, Of4
<1>7. /\ IsLayout(p49) /\ IsLayout(p50) /\ IsLayout(p51) /\ IsLayout(p52) /\ IsLayout(p53)
      /\ IsLayout(p54)
      /\ Total(p49) = 1 /\ Total(p50) = 8 /\ Total(p51) = 1 /\ Total(p52) = 8 /\ Total(p53) = 1
      /\ Total(p54) = 4
  BY Of1
<1> DEFINE n == Total(text)
<1> HIDE DEF text, g, p35, p36, p37, p38, p39, p40, p41, p42, p43, p44, p45, p46, p47,
             p48, p49, p50, p51, p52, p53, p54
<1>n. n \in Nat
  BY <1>2, TotalNat
<1>8. IsLayout(x1) /\ Total(x1) = 36 + 8 * c.flags + n
  BY <1>2, <1>n, HeadFields, Of1, TotalJoin
<1> HIDE DEF n, x1
<1>9. IsLayout(x2) /\ Total(x2) = 98 + 8 * c.flags + n + c.strings.savepath
  BY <1>1, <1>n, <1>8, StringFields, Of1, Of2, Of3, TotalJoin
<1> HIDE DEF x2
<1>10. IsLayout(x3) /\ Total(x3) = Total(x2) + 29
  BY <1>9, TotalNat, Of1, Of2, TotalJoin
<1> HIDE DEF x3
<1>11. IsLayout(x4) /\ Total(x4) = Total(x3) + 52
  BY <1>10, TotalNat, Of1, Of2, Of4, TotalJoin
<1> HIDE DEF x4
<1>12. IsLayout(x5) /\ Total(x5) = Total(x4) + 47
  BY <1>11, TotalNat, Of1, Of2, TotalJoin
<1> HIDE DEF x5
<1>13. IsLayout(g) /\ Total(g) = 66 + c.strings.oraclepath_Unix /\ x6 = x5 \o g /\ IsLayout(x6)
  <2>1. IsLayout(g) /\ Total(g) = 66 + c.strings.oraclepath_Unix
    BY <1>1, <1>5, TotalJoin DEF g
  <2>2. Groups7(x5, p35, p36, p37, p38, p39, p40, p41)
    BY <1>5, <1>12, Group7
  <2>3. x6 = x5 \o g
    BY <2>2 DEF Groups7, g
  <2> QED BY <1>12, <2>1, <2>3, TotalJoin
<1> HIDE DEF x6
<1>14. IsLayout(x7) /\ Total(x7) = Total(x6) + 36
  <2>1. IsLayout(x7)
    BY <1>6, <1>13, TotalJoin
  <2>2. Total(x6 \o p42 \o p43 \o p44 \o p45 \o p46 \o p47 \o p48)
          = Total(x6) + Total(p42) + Total(p43) + Total(p44) + Total(p45) + Total(p46)
              + Total(p47) + Total(p48)
    <3>1. /\ IsLayout(x6) /\ IsLayout(p42) /\ IsLayout(p43) /\ IsLayout(p44) /\ IsLayout(p45)
          /\ IsLayout(p46) /\ IsLayout(p47) /\ IsLayout(p48)
      BY <1>6, <1>13
    <3> QED BY <3>1, TotalJoin, TotalNat
  <2>3. Total(x6) \in Nat
    BY <1>13, TotalNat
  <2>4. Total(x7) = Total(x6) + 36
    BY <1>6, <2>2, <2>3
  <2> QED BY <2>1, <2>4
<1>15. x5 \o (g \o p42 \o p43 \o p44 \o p45 \o p46 \o p47) \o p48 = x7
  <2>1. Groups7(x5, g, p42, p43, p44, p45, p46, p47)
    BY <1>6, <1>12, <1>13, Group7
  <2> QED BY <1>13, <2>1 DEF Groups7
<1> HIDE DEF x7
<1>16. IsLayout(w) /\ Total(w) = Total(x7) + 23
  BY <1>7, <1>14, TotalNat, TotalJoin
<1>17. SettingsRead(5, c) = w
  <2>1. Groups4(x7, p49, p50, p51, p52)
    BY <1>7, <1>14, Group4
  <2>2. Groups2(x7 \o p49 \o p50 \o p51 \o p52, p53, p54)
    BY <1>7, <1>14, TotalJoin, Group2
  <2> QED BY <1>4, <1>15, <2>1, <2>2 DEF Groups2, Groups4
<1> HIDE DEF w
<1>18. SettingsSize(c) = 351 + 8 * c.flags + n + c.strings.savepath + c.strings.oraclepath_Unix
  BY <1>1, <1>2, <1>n DEF SettingsSize, SettingsStatic, FormSize, n
<1>19. SettingsSize(c) \in Nat /\ Total(w) <= SettingsSize(c)
  <2>1. Total(x6) = Total(x5) + Total(g)
    BY <1>12, <1>13, TotalJoin
  <2>2. Total(x5) = 226 + 8 * c.flags + n + c.strings.savepath
    BY <1>1, <1>n, <1>9, <1>10, <1>11, <1>12
  <2>3. Total(x6) = 292 + 8 * c.flags + n + c.strings.savepath + c.strings.oraclepath_Unix
    <3>1. Total(g) = 66 + c.strings.oraclepath_Unix
      BY <1>13
    <3> QED BY <1>1, <1>n, <2>1, <2>2, <3>1
  <2>4. Total(w) = 351 + 8 * c.flags + n + c.strings.savepath + c.strings.oraclepath_Unix
    BY <1>1, <1>n, <1>14, <1>16, <2>3
  <2> QED BY <1>1, <1>n, <1>18, <2>4
<1> QED BY <1>3, <1>16, <1>17, <1>19, StreamIsRead DEF SettingsRecord

-----------------------------------------------------------------------------
(* Grammars and delta debugging controllers.                               *)

\* A node of a grammar.
LEMMA GrammarNodeFields ==
  ASSUME NEW n, n.identifier \in Nat, n.derivation \in Nat, n.expansions \in Nat,
         n.parents \in Nat
  PROVE  /\ IsLayout(GrammarNodeWritten(n)) /\ GrammarNodeRead(n) = GrammarNodeWritten(n)
         /\ Total(GrammarNodeWritten(n)) = GrammarNodeSize(n) /\ GrammarNodeSize(n) \in Nat
<1> DEFINE s1 == String("identifier", n.identifier)
           s2 == String("derivation", n.derivation)
           l1 == List("expansions", n.expansions, 8)
           l2 == List("parents", n.parents, 8)
           h1 == Words(<<"classversion">>)
           h2 == Longs(<<"id">>)
           h3 == Longs(<<"flags">>)
           h4 == Words(<<"type">>)
           h5 == Bytes(<<"reachable", "producing", "remove">>)
           front == h1 \o s1 \o s2 \o h2 \o l1
           w  == front \o h3 \o h4 \o l2 \o h5
<1>1. /\ IsLayout(s1) /\ IsLayout(s2) /\ IsLayout(l1) /\ IsLayout(l2)
      /\ Total(s1) = 8 + n.identifier /\ Total(s2) = 8 + n.derivation
      /\ Total(l1) = 8 + 8 * n.expansions /\ Total(l2) = 8 + 8 * n.parents
  BY StringFields, Lists
<1>2. GrammarNodeWritten(n) = w /\ GrammarNodeRead(n) = w
  BY DEF GrammarNodeWritten, GrammarNodeRead
<1>h. /\ IsLayout(h1) /\ IsLayout(h2) /\ IsLayout(h3) /\ IsLayout(h4) /\ IsLayout(h5)
      /\ Total(h1) = 4 /\ Total(h2) = 8 /\ Total(h3) = 8 /\ Total(h4) = 4 /\ Total(h5) = 3
  BY Of1, Of3
<1> HIDE DEF s1, s2, l1, l2, h1, h2, h3, h4, h5
<1>3. /\ IsLayout(front)
      /\ Total(front) = Total(h1) + Total(s1) + Total(s2) + Total(h2) + Total(l1)
  <2>1. IsLayout(h1) /\ IsLayout(s1) /\ IsLayout(s2) /\ IsLayout(h2) /\ IsLayout(l1)
    BY <1>1, <1>h
  <2> QED BY <2>1, TotalJoin, TotalNat
<1> HIDE DEF front
<1>4. IsLayout(w) /\ Total(w) = Total(front) + Total(h3) + Total(h4) + Total(l2) + Total(h5)
  <2>1. IsLayout(front) /\ IsLayout(h3) /\ IsLayout(h4) /\ IsLayout(l2) /\ IsLayout(h5)
    BY <1>1, <1>3, <1>h
  <2> QED BY <2>1, TotalJoin, TotalNat
<1> DEFINE i == n.identifier
           d == n.derivation
           e == 8 * n.expansions
           p == 8 * n.parents
<1>5. i \in Nat /\ d \in Nat /\ e \in Nat /\ p \in Nat
  OBVIOUS
<1>6. Total(s1) = 8 + i /\ Total(s2) = 8 + d /\ Total(l1) = 8 + e /\ Total(l2) = 8 + p
  BY <1>1
<1>7. GrammarNodeSize(n) = 4 + (8 + i) + (8 + d) + 8 + (8 + e) + 8 + 4 + (8 + p) + 1 + 1 + 1
  BY DEF GrammarNodeSize
<1> HIDE DEF w, i, d, e, p
<1>8. Total(front) = 36 + i + d + e
  BY <1>3, <1>5, <1>6, <1>h
<1>9. Total(w) = 59 + i + d + e + p
  BY <1>4, <1>5, <1>6, <1>8, <1>h
<1>10. GrammarNodeSize(n) = 59 + i + d + e + p /\ GrammarNodeSize(n) \in Nat
  BY <1>5, <1>7
<1> QED BY <1>2, <1>4, <1>9, <1>10

\* An expansion of a grammar.
LEMMA ExpansionFields ==
  ASSUME NEW n \in Nat
  PROVE  /\ IsLayout(ExpansionWritten(n)) /\ ExpansionRead(2, n) = ExpansionWritten(n)
         /\ Total(ExpansionWritten(n)) = ExpansionSize(2, n) /\ ExpansionSize(2, n) \in Nat
<1> DEFINE w == ExpansionWritten(n)
<1>1. IsLayout(w) /\ Total(w) = 54 + 8 * n
  BY Lists, Of1, Of3, TotalJoin DEF ExpansionWritten
<1>2. ExpansionRead(2, n) = w
  BY DEF ExpansionRead, ExpansionWritten
<1> HIDE DEF w
<1> QED BY <1>1, <1>2 DEF ExpansionSize, w

\* A regular expression of a grammar.
LEMMA RegexFields ==
  /\ IsLayout(RegexWritten) /\ RegexRead = RegexWritten
  /\ Total(RegexWritten) = RegexSize /\ RegexSize = 54
<1>1. IsLayout(RegexWritten) /\ Total(RegexWritten) = 54
  BY Of1, Of3, TotalJoin DEF RegexWritten
<1> QED BY <1>1 DEF RegexRead, RegexWritten, RegexSize

\* A grammar: nodes, expansions, regular expressions and terminals (Grammar.cpp).
LEMMA GrammarComesBack ==
  ASSUME NEW c, Sized(c, GrammarLists)
  PROVE  InPlaceAndInside(GrammarRecord(c))
<1> DEFINE node  == GrammarNodeSize(c)
           plain == ExpansionSize(2, c.nodes)
           a     == c.nodes * (8 + node)
           b     == c.plain * (1 + 8 + plain)
           d     == c.regex * (1 + 8 + RegexSize)
           front == FormHead(c.flags) \o Longs(<<"nextid">>) \o Words(<<"numcycles">>)
                      \o Bytes(<<"valid">>) \o Longs(<<"root">>)
                      \o List("ruleorder", c.ruleorder, 8) \o Longs(<<"hashmap">>)
           r1    == Repeat(c.nodes, Longs(<<"id">>) \o GrammarNodeWritten(c))
           map   == Longs(<<"hashmap_expansions">>)
           r2    == Repeat(c.plain, Bytes(<<"regex">>) \o Longs(<<"id">>)
                                      \o ExpansionWritten(c.nodes))
           r3    == Repeat(c.regex, Bytes(<<"regex">>) \o Longs(<<"id">>) \o RegexWritten)
           body  == front \o r1 \o map \o r2 \o r3
           w     == body \o List("nonterminals", c.nonterminals, 8)
                      \o List("terminals", c.terminals, 8)
                      \o Words(<<"extension_min", "extension_max", "backtrack_min",
                                 "backtrack_max">>)
                      \o Bytes(<<"simpleGrammar">>)
<1>c. /\ c.flags \in Nat /\ c.ruleorder \in Nat /\ c.nodes \in Nat /\ c.plain \in Nat
      /\ c.regex \in Nat /\ c.nonterminals \in Nat /\ c.terminals \in Nat
      /\ c.identifier \in Nat /\ c.derivation \in Nat /\ c.expansions \in Nat
      /\ c.parents \in Nat
  BY DEF Sized, GrammarLists
<1>1. /\ IsLayout(GrammarNodeWritten(c)) /\ GrammarNodeRead(c) = GrammarNodeWritten(c)
      /\ Total(GrammarNodeWritten(c)) = node /\ node \in Nat
  BY <1>c, GrammarNodeFields
<1>2. /\ IsLayout(ExpansionWritten(c.nodes))
      /\ ExpansionRead(2, c.nodes) = ExpansionWritten(c.nodes)
      /\ Total(ExpansionWritten(c.nodes)) = plain /\ plain \in Nat
  BY <1>c, ExpansionFields
<1>3. GrammarWritten(c) = w
  BY DEF GrammarWritten
<1>4. GrammarRead0x2(c) = w
  BY <1>1, <1>2, RegexFields DEF GrammarRead0x2
<1>5. GrammarSize(c) = FormSize(c.flags) + GrammarStatic(2) + (8 + 8 * c.ruleorder)
                        + 8 + a + 8 + b + d + (8 + c.nonterminals * 8) + (8 + c.terminals * 8)
  BY DEF GrammarSize
<1> HIDE DEF node, plain
<1>6. IsLayout(r1) /\ Total(r1) = a
  <2> DEFINE entry == Longs(<<"id">>) \o GrammarNodeWritten(c)
  <2>1. IsLayout(entry) /\ Total(entry) = 8 + node
    BY <1>1, Of1, TotalJoin
  <2> HIDE DEF entry
  <2>2. IsLayout(Repeat(c.nodes, entry)) /\ Total(Repeat(c.nodes, entry)) = a
    BY <1>c, <2>1, RepeatedFields
  <2> QED BY <2>2 DEF entry
<1>7. IsLayout(r2) /\ Total(r2) = b
  <2> DEFINE entry == Bytes(<<"regex">>) \o Longs(<<"id">>) \o ExpansionWritten(c.nodes)
  <2>1. IsLayout(entry) /\ Total(entry) = 1 + 8 + plain
    BY <1>2, Of1, TotalJoin
  <2> HIDE DEF entry
  <2>2. IsLayout(Repeat(c.plain, entry)) /\ Total(Repeat(c.plain, entry)) = b
    BY <1>c, <2>1, RepeatedFields
  <2> QED BY <2>2 DEF entry
<1>8. IsLayout(r3) /\ Total(r3) = d
  <2> DEFINE entry == Bytes(<<"regex">>) \o Longs(<<"id">>) \o RegexWritten
  <2>1. IsLayout(entry) /\ Total(entry) = 1 + 8 + RegexSize
    BY RegexFields, Of1, TotalJoin
  <2> HIDE DEF entry
  <2>2. IsLayout(Repeat(c.regex, entry)) /\ Total(Repeat(c.regex, entry)) = d
    BY <1>c, <2>1, RepeatedFields
  <2> QED BY <2>2 DEF entry
<1>9. IsLayout(front) /\ Total(front) = 69 + 8 * c.flags + 8 * c.ruleorder
  BY <1>c, HeadFields, Lists, Of1, TotalJoin
<1> HIDE DEF a, b, d, front, r1, r2, r3
<1>10. a \in Nat /\ b \in Nat /\ d \in Nat
  BY <1>6, <1>7, <1>8, TotalNat
<1>11. IsLayout(map) /\ Total(map) = 8
  BY Of1
<1> HIDE DEF map
<1>12. IsLayout(body) /\ Total(body) = Total(front) + a + 8 + b + d
  BY <1>6, <1>7, <1>8, <1>9, <1>10, <1>11, TotalJoin, TotalNat
<1> HIDE DEF body
<1>13. IsLayout(w) /\ Total(w) = Total(body) + 33 + 8 * c.nonterminals + 8 * c.terminals
  BY <1>c, <1>12, Lists, Of1, Of4, TotalJoin, TotalNat
<1> HIDE DEF w
<1>14. GrammarSize(c) \in Nat /\ Total(w) <= GrammarSize(c)
  <2> DEFINE fl == 8 * c.flags
             ro == 8 * c.ruleorder
             nt == 8 * c.nonterminals
             te == 8 * c.terminals
  <2>1. fl \in Nat /\ ro \in Nat /\ nt \in Nat /\ te \in Nat
    BY <1>c
  <2>2. Total(front) = 69 + fl + ro /\ Total(w) = Total(body) + 33 + nt + te
    BY <1>9, <1>13
  <2>3. FormSize(c.flags) = 28 + fl /\ GrammarStatic(2) = 42
    BY <1>c DEF FormSize, GrammarStatic
  <2>4. c.nonterminals * 8 = nt /\ c.terminals * 8 = te
    BY <1>c
  <2>5. GrammarSize(c) = FormSize(c.flags) + GrammarStatic(2) + (8 + ro) + 8 + a + 8 + b + d
                          + (8 + nt) + (8 + te)
    BY <1>5, <2>4
  <2> HIDE DEF fl, ro, nt, te
  <2>6. GrammarSize(c) = 110 + fl + ro + a + b + d + nt + te
    BY <1>10, <2>1, <2>3, <2>5
  <2>7. Total(w) = 110 + fl + ro + a + b + d + nt + te
    BY <1>10, <1>12, <2>1, <2>2
  <2> QED BY <1>10, <2>1, <2>6, <2>7
<1> QED BY <1>3, <1>4, <1>13, <1>14, StreamIsRead DEF GrammarRecord

\* The parameters of a goal take at most one byte more than it announces.
LEMMA ParamsFields ==
  ASSUME NEW goal \in DOMAIN GoalSize
  PROVE  /\ IsLayout(ParamsWritten(goal)) /\ ParamsRead(4, goal) = ParamsWritten(goal)
         /\ Total(ParamsWritten(goal)) <= GoalSize[goal] + 1 /\ GoalSize[goal] \in Nat
<1> DEFINE front == Words(<<"goal">>) \o Longs(<<"class size">>)
                      \o Words(<<"minimalSubsetSize">>) \o Bytes(<<"bypassTests">>)
                      \o Words(<<"budget", "mode">>)
           one  == Words(<<"secondarygoal">>)
           two  == Words(<<"lossPrimary", "lossPrimaryAbsolute">>)
           sec  == Words(<<"lossSecondary", "lossSecondaryAbsolute">>)
           four == Words(<<"lossPrimary", "lossPrimaryAbsolute", "lossSecondary",
                           "lossSecondaryAbsolute">>)
<1>1. IsLayout(front) /\ Total(front) = 25
  <2> DEFINE h1 == Words(<<"goal">>)
             h2 == Longs(<<"class size">>)
             h3 == Words(<<"minimalSubsetSize">>)
             h4 == Bytes(<<"bypassTests">>)
             h5 == Words(<<"budget", "mode">>)
  <2>1. /\ IsLayout(h1) /\ IsLayout(h2) /\ IsLayout(h3) /\ IsLayout(h4) /\ IsLayout(h5)
        /\ Total(h1) = 4 /\ Total(h2) = 8 /\ Total(h3) = 4 /\ Total(h4) = 1 /\ Total(h5) = 8
    BY Of1, Of2
  <2>2. front = h1 \o h2 \o h3 \o h4 \o h5
    OBVIOUS
  <2> HIDE DEF h1, h2, h3, h4, h5, front
  <2> QED BY <2>1, <2>2, TotalJoin
<1>2. /\ IsLayout(one) /\ IsLayout(two) /\ IsLayout(sec) /\ IsLayout(four)
      /\ Total(one) = 4 /\ Total(two) = 8 /\ Total(sec) = 8 /\ Total(four) = 16
  BY Of1, Of2, Of4
<1>3. goal \in {"None", "ReproduceResult", "MaximizePrimaryScore", "MaximizeSecondaryScore",
                "MaximizeBothScores"}
  BY DEF GoalSize
<1>4. CASE goal = "None"
  <2>1. ParamsWritten(goal) = front \o <<>> /\ ParamsRead(4, goal) = front \o <<>>
    BY <1>4 DEF ParamsWritten, ParamsRead
  <2>2. GoalSize[goal] = 24
    BY <1>4 DEF GoalSize
  <2> HIDE DEF front
  <2> QED BY <1>1, <2>1, <2>2, TotalEmpty, TotalJoin
<1>5. CASE goal = "ReproduceResult"
  <2>1. ParamsWritten(goal) = front \o one /\ ParamsRead(4, goal) = front \o one
    BY <1>5 DEF ParamsWritten, ParamsRead
  <2>2. GoalSize[goal] = 32
    BY <1>5 DEF GoalSize
  <2> HIDE DEF front, one
  <2> QED BY <1>1, <1>2, <2>1, <2>2, TotalJoin
<1>6. CASE goal = "MaximizePrimaryScore"
  <2>1. ParamsWritten(goal) = front \o two /\ ParamsRead(4, goal) = front \o two
    BY <1>6 DEF ParamsWritten, ParamsRead
  <2>2. GoalSize[goal] = 32
    BY <1>6 DEF GoalSize
  <2> HIDE DEF front, two
  <2> QED BY <1>1, <1>2, <2>1, <2>2, TotalJoin
<1>7. CASE goal = "MaximizeSecondaryScore"
  <2>1. ParamsWritten(goal) = front \o sec /\ ParamsRead(4, goal) = front \o (<<>> \o sec)
    <3>1. ParamsWritten(goal) = front \o sec
      BY <1>7 DEF ParamsWritten
    <3>2. ParamsRead(4, goal)
            = front \o ((IF 4 = 1 THEN Words(<<"skipped">>) ELSE <<>>) \o sec)
      BY <1>7 DEF ParamsRead
    <3>3. (IF 4 = 1 THEN Words(<<"skipped">>) ELSE <<>>) = <<>>
      OBVIOUS
    <3> QED BY <3>1, <3>2, <3>3
  <2>2. GoalSize[goal] = 32
    BY <1>7 DEF GoalSize
  <2> HIDE DEF front, sec
  <2> QED BY <1>1, <1>2, <2>1, <2>2, NothingMore, TotalJoin
<1>8. CASE goal = "MaximizeBothScores"
  <2>1. ParamsWritten(goal) = front \o four /\ ParamsRead(4, goal) = front \o four
    BY <1>8 DEF ParamsWritten, ParamsRead
  <2>2. GoalSize[goal] = 40
    BY <1>8 DEF GoalSize
  <2> HIDE DEF front, four
  <2> QED BY <1>1, <1>2, <2>1, <2>2, TotalJoin
<1> QED BY <1>3, <1>4, <1>5, <1>6, <1>7, <1>8

\* A delta debugging controller, whatever its goal (DeltaDebugging.cpp).
LEMMA DeltaComesBack ==
  ASSUME NEW c, Sized(c, DeltaLists), c.goal \in DOMAIN GoalSize, IsCallback(c.callback)
  PROVE  InPlaceAndInside(DeltaRecord(c))
<1> DEFINE len   == c.callback.length
           calls == c.callbacks * len
           waits == c.testqueue * len
           fl    == 8 * c.flags
           re    == 28 * c.results
           ai    == 8 * c.activeInputs
           ct    == 8 * c.completedTests
           wt    == 8 * c.waitingTests
           sp    == 8 * c.splits
           co    == 8 * c.complements
           di    == 9 * c.dinfo
           goal  == ParamsWritten(c.goal)
           p     == DeltaProgressWritten(c)
           s     == DeltaStateWritten(c)
           b     == DeltaBatchWritten(c)
           w     == p \o goal \o s \o b
<1>c. /\ c.flags \in Nat /\ c.results \in Nat /\ c.activeInputs \in Nat
      /\ c.completedTests \in Nat /\ c.callbacks \in Nat /\ c.waitingTests \in Nat
      /\ c.splits \in Nat /\ c.complements \in Nat /\ c.dinfo \in Nat /\ c.testqueue \in Nat
      /\ len \in Nat
  BY DEF Sized, DeltaLists, IsCallback
<1>d. /\ fl \in Nat /\ re \in Nat /\ ai \in Nat /\ ct \in Nat /\ wt \in Nat /\ sp \in Nat
      /\ co \in Nat /\ di \in Nat
  BY <1>c
<1>1. IsLayout(p) /\ Total(p) = 97 + fl + re + ai + ct
  <2> DEFINE front == FormHead(c.flags)
                        \o Words(<<"tasks", "remainingtasks", "tests", "remainingtests",
                                   "totaltests">>)
                        \o Bytes(<<"finished">>) \o Longs(<<"origInput", "input">>)
                        \o Words(<<"level">>) \o Longs(<<"results">>)
             entry == Longs(<<"id", "lossPrimary", "lossSecondary">>) \o Words(<<"level">>)
             found == Repeat(c.results, entry)
             l1    == List("activeInputs", c.activeInputs, 8)
             l2    == List("completedTests", c.completedTests, 8)
  <2>1. p = front \o found \o l1 \o l2
    BY DEF DeltaProgressWritten
  <2>2. IsLayout(front) /\ Total(front) = 81 + 8 * c.flags
    BY <1>c, HeadFields, Of1, Of2, Of5, TotalJoin
  <2>3. IsLayout(entry) /\ Total(entry) = 28
    BY Of1, Of3, TotalJoin
  <2>4. /\ IsLayout(l1) /\ IsLayout(l2) /\ Total(l1) = 8 + 8 * c.activeInputs
        /\ Total(l2) = 8 + 8 * c.completedTests
    BY <1>c, Lists
  <2> HIDE DEF front, entry, l1, l2, p
  <2>5. IsLayout(found) /\ Total(found) = c.results * 28
    BY <1>c, <2>3, RepeatedFields
  <2> HIDE DEF found
  <2>6. IsLayout(p) /\ Total(p) = Total(front) + Total(found) + Total(l1) + Total(l2)
    <3>1. IsLayout(front) /\ IsLayout(found) /\ IsLayout(l1) /\ IsLayout(l2)
      BY <2>2, <2>4, <2>5
    <3> QED BY <2>1, <3>1, TotalJoin, TotalNat
  <2>7. /\ Total(front) = 81 + fl /\ Total(found) = re /\ Total(l1) = 8 + ai
        /\ Total(l2) = 8 + ct
    BY <1>c, <2>2, <2>4, <2>5
  <2> HIDE DEF fl, re, ai, ct
  <2> QED BY <1>d, <2>6, <2>7
<1>n. calls \in Nat /\ waits \in Nat
  <2>1. ASSUME NEW x \in Nat, NEW y \in Nat
        PROVE  x * y \in Nat
    OBVIOUS
  <2> HIDE DEF len
  <2> QED BY <1>c, <2>1
<1>2. IsLayout(s) /\ Total(s) = 49 + calls + wt
  <2> DEFINE q == Queue("callbacks", c.callback, c.callbacks)
             l == List("waitingTests", c.waitingTests, 8)
             m == Longs(<<"bestPrimary", "bestSecondary">>)
             v == Words(<<"skippedTests", "prefixTests", "invalidTests", "activetests">>)
  <2>1. s = q \o m \o v \o Bytes(<<"stopbatch">>) \o l
    BY DEF DeltaStateWritten
  <2>2. IsLayout(q) /\ Total(q) = 8 + calls
    BY <1>c, QueueFields
  <2>3. /\ IsLayout(l) /\ Total(l) = 8 + 8 * c.waitingTests /\ IsLayout(m) /\ Total(m) = 16
        /\ IsLayout(v) /\ Total(v) = 16
    BY <1>c, Lists, Of2, Of4
  <2>4. IsLayout(Bytes(<<"stopbatch">>)) /\ Total(Bytes(<<"stopbatch">>)) = 1
    BY Of1
  <2> HIDE DEF q, l, m, v, calls, s
  <2>5. /\ IsLayout(s)
        /\ Total(s) = Total(q) + Total(m) + Total(v) + Total(Bytes(<<"stopbatch">>)) + Total(l)
    <3>1. /\ IsLayout(q) /\ IsLayout(m) /\ IsLayout(v) /\ IsLayout(Bytes(<<"stopbatch">>))
          /\ IsLayout(l)
      BY <2>2, <2>3, <2>4
    <3> QED BY <2>1, <3>1, TotalJoin, TotalNat
  <2>6. Total(l) = 8 + wt
    BY <2>3
  <2> HIDE DEF wt
  <2> QED BY <1>d, <1>n, <2>2, <2>3, <2>4, <2>5, <2>6
<1>3. /\ IsLayout(b)
      /\ Total(b) = 79 + sp + co + di + waits
  <2> DEFINE front == Longs(<<"skipRanges">>) \o Bytes(<<"active">>) \o Longs(<<"batchtasks">>)
                        \o Bytes(<<"sendEndEvent", "processedEndEvent">>)
             l1    == List("splits", c.splits, 8)
             l2    == List("complements", c.complements, 8)
             entry == Bytes(<<"complement">>) \o Words(<<"positionbegin", "length">>)
             parts == Repeat(c.dinfo, entry)
             q     == Queue("testqueue", c.callback, c.testqueue)
             info  == Longs(<<"dinfo">>)
             times == Longs(<<"batchident", "DD_begin", "DD_end">>)
             last  == Words(<<"approxTests">>)
  <2>1. b = front \o l1 \o l2 \o info \o parts \o q \o times \o last
    BY DEF DeltaBatchWritten
  <2>2. /\ IsLayout(front) /\ Total(front) = 19 /\ IsLayout(info) /\ Total(info) = 8
        /\ IsLayout(times) /\ Total(times) = 24 /\ IsLayout(last) /\ Total(last) = 4
    BY Of1, Of2, Of3, TotalJoin
  <2>3. /\ IsLayout(l1) /\ IsLayout(l2) /\ Total(l1) = 8 + 8 * c.splits
        /\ Total(l2) = 8 + 8 * c.complements
    BY <1>c, Lists
  <2>4. IsLayout(entry) /\ Total(entry) = 9
    BY Of1, Of2, TotalJoin
  <2> HIDE DEF entry
  <2>5. IsLayout(parts) /\ Total(parts) = c.dinfo * 9
    BY <1>c, <2>4, RepeatedFields
  <2>6. IsLayout(q) /\ Total(q) = 8 + waits
    BY <1>c, QueueFields
  <2> HIDE DEF front, l1, l2, parts, q, info, times, last, b, waits
  <2>7. IsLayout(b)
    BY <2>1, <2>2, <2>3, <2>5, <2>6, TotalJoin
  <2>8. Total(front \o l1 \o l2 \o info \o parts \o q \o times \o last)
          = Total(front) + Total(l1) + Total(l2) + Total(info) + Total(parts) + Total(q)
              + Total(times) + Total(last)
    <3>1. /\ IsLayout(front) /\ IsLayout(l1) /\ IsLayout(l2) /\ IsLayout(info)
          /\ IsLayout(parts) /\ IsLayout(q) /\ IsLayout(times) /\ IsLayout(last)
      BY <2>2, <2>3, <2>5, <2>6
    <3> QED BY <3>1, TotalJoin, TotalNat
  <2>9. Total(b) = Total(front) + Total(l1) + Total(l2) + Total(info) + Total(parts) + Total(q)
                     + Total(times) + Total(last)
    BY <2>1, <2>8
  <2>10. /\ Total(front) = 19 /\ Total(info) = 8 /\ Total(times) = 24 /\ Total(last) = 4
         /\ Total(l1) = 8 + sp /\ Total(l2) = 8 + co
         /\ Total(parts) = di /\ Total(q) = 8 + waits
    BY <1>c, <2>2, <2>3, <2>5, <2>6
  <2> HIDE DEF sp, co, di
  <2> QED BY <1>d, <1>n, <2>7, <2>9, <2>10
<1>4. /\ IsLayout(goal) /\ ParamsRead(4, c.goal) = goal
      /\ Total(goal) <= GoalSize[c.goal] + 1 /\ GoalSize[c.goal] \in Nat /\ Total(goal) \in Nat
  BY ParamsFields, TotalNat
<1>5. DeltaWritten(c) = w
  BY DEF DeltaWritten
<1>6. DeltaRead(4, c) = p \o goal \o (s \o b)
  <2>1. DeltaProgressRead(4, c) = p
    BY DEF DeltaProgressRead, DeltaProgressWritten
  <2>2. DeltaStateRead(c) = s
    BY DEF DeltaStateRead, DeltaStateWritten
  <2>3. DeltaBatchRead(4, c) = b
    BY DEF DeltaBatchRead, DeltaBatchWritten
  <2> HIDE DEF p, s, b, goal
  <2> QED BY <1>4, <2>1, <2>2, <2>3 DEF DeltaRead
<1>7. DeltaSize(c) = 237 + fl + re + ai + ct + wt + sp + co + di + GoalSize[c.goal] + calls
                      + waits
  <2> HIDE DEF len
  <2>1. DeltaSize(c) = FormSize(c.flags) + DeltaStatic(4) + (8 + re) + (8 + ai) + (8 + ct) + 4 + 8
          + (8 + wt) + (8 + sp) + (8 + co) + (8 + di) + GoalSize[c.goal] + calls + waits
    BY DEF DeltaSize, len
  <2> HIDE DEF calls, waits
  <2>2. FormSize(c.flags) = 28 + fl /\ DeltaStatic(4) = 141
    BY <1>c DEF FormSize, DeltaStatic
  <2>3. GoalSize[c.goal] \in Nat
    BY <1>4
  <2> DEFINE more == GoalSize[c.goal]
  <2>4. more \in Nat
    BY <2>3
  <2> HIDE DEF more, fl, re, ai, ct, wt, sp, co, di
  <2>5. DeltaSize(c) = (28 + fl) + 141 + (8 + re) + (8 + ai) + (8 + ct) + 4 + 8
          + (8 + wt) + (8 + sp) + (8 + co) + (8 + di) + more + calls + waits
    BY <2>1, <2>2 DEF more
  <2>6. DeltaSize(c) = 237 + fl + re + ai + ct + wt + sp + co + di + more + calls + waits
    BY <1>d, <1>n, <2>4, <2>5
  <2> QED BY <2>6 DEF more
<1> HIDE DEF p, s, b, goal, calls, waits, len, fl, re, ai, ct, wt, sp, co, di
<1>8. IsLayout(w) /\ Total(w) = Total(p) + Total(goal) + Total(s) + Total(b)
  BY <1>1, <1>2, <1>3, <1>4, TotalJoin, TotalNat
<1>9. DeltaRead(4, c) = w
  <2>1. Groups2(p \o goal, s, b)
    BY <1>1, <1>2, <1>3, <1>4, TotalJoin, Group2
  <2> QED BY <1>6, <2>1 DEF Groups2
<1> HIDE DEF w
<1>10. DeltaSize(c) \in Nat /\ Total(w) <= DeltaSize(c)
  <2> DEFINE rest == fl + re + ai + ct + wt + sp + co + di + calls + waits
             more == GoalSize[c.goal]
             took == Total(goal)
  <2>1. rest \in Nat
    BY <1>d, <1>n
  <2>2. took \in Nat /\ more \in Nat /\ took <= more + 1
    BY <1>4
  <2>3. DeltaSize(c) = 237 + rest + more
    <3>1. DeltaSize(c) = 237 + fl + re + ai + ct + wt + sp + co + di + more + calls + waits
      BY <1>7
    <3> HIDE DEF more
    <3> QED BY <1>d, <1>n, <2>2, <3>1
  <2>4. Total(p) + Total(s) + Total(b) = 225 + rest
    BY <1>d, <1>n, <1>1, <1>2, <1>3
  <2>5. Total(p) \in Nat /\ Total(s) \in Nat /\ Total(b) \in Nat
    BY <1>1, <1>2, <1>3, TotalNat
  <2> HIDE DEF rest, more, took
  <2>6. Total(w) = 225 + rest + took
    BY <1>8, <2>1, <2>2, <2>4, <2>5 DEF took
  <2> QED BY <2>1, <2>2, <2>3, <2>6
<1> QED BY <1>5, <1>8, <1>9, <1>10, StreamIsRead DEF DeltaRecord

-----------------------------------------------------------------------------
(* The shortest records are not refused.                                   *)

\* A record of an input, of every version, is not shorter than its static part.
LEMMA InputLongEnough ==
  ASSUME NEW c, Sized(c, InputLists), c.regenerate \in Nat, c.sequence \in BOOLEAN,
         c.doNotFree = FALSE, NEW v \in 1 .. 3
  PROVE  Total(InputRead(v, c)) >= InputStatic(v)
<1> DEFINE flags == InputFlagsWritten(c)
           head  == FormHead(flags)
           p1    == Bytes(<<"hasfinished", "trimmed">>)
           p2    == Longs(<<"executiontime">>)
           p3    == Words(<<"exitcode">>)
           p4    == Longs(<<"oracleResult", "test", "derive">>)
           text  == String("stringrep", c.stringrep)
           mid   == Longs(<<"primaryScore", "secondaryScore", "trimmedlength", "parentInput">>)
           parts == IF v = 1 THEN Longs(<<"begin", "length">>)
                             ELSE List("segments", c.segments, 16)
           more  == Bytes(<<"complement">>)
           times == Longs(<<"generationID", "derivedInputs", "generationTime">>)
           on    == Bytes(<<"enablePrimary", "enableSecondary">>)
           one   == List("primaryScores", c.primaryScores, 8)
           two   == List("secondaryScores", c.secondaryScores, 8)
           fails == Longs(<<"derivedFails">>)
           score == IF v = 1 THEN <<>> ELSE on \o one \o two \o fails
           older == IF v = 3 THEN Longs(<<"olderinputs">>) ELSE <<>>
           body  == head \o p1 \o p2 \o p3 \o p4 \o text
           w     == body \o mid \o parts \o more \o times \o score \o older
<1>c. /\ flags \in Nat /\ c.stringrep \in Nat /\ c.segments \in Nat /\ c.primaryScores \in Nat
      /\ c.secondaryScores \in Nat
  BY DEF Sized, InputLists, InputFlagsWritten
<1>1. IsLayout(head) /\ Total(head) >= 32 /\ Total(head) \in Nat
  <2> HIDE DEF flags
  <2> QED BY <1>c, HeadFields
<1>2. /\ IsLayout(p1) /\ IsLayout(p2) /\ IsLayout(p3) /\ IsLayout(p4) /\ IsLayout(mid)
      /\ IsLayout(more) /\ IsLayout(times) /\ IsLayout(on) /\ IsLayout(fails)
      /\ Total(p1) = 2 /\ Total(p2) = 8 /\ Total(p3) = 4 /\ Total(p4) = 24 /\ Total(mid) = 32
      /\ Total(more) = 1 /\ Total(times) = 24 /\ Total(on) = 2 /\ Total(fails) = 8
  BY Of1, Of2, Of3, Of4
<1>3. IsLayout(text) /\ Total(text) >= 8 /\ Total(text) \in Nat
  BY <1>c, StringFields
<1>4. /\ IsLayout(parts) /\ Total(parts) \in Nat
      /\ Total(parts) >= IF v = 1 THEN 16 ELSE 8
  BY <1>c, Of2, Lists
<1>5. /\ IsLayout(one) /\ Total(one) >= 8 /\ Total(one) \in Nat
      /\ IsLayout(two) /\ Total(two) >= 8 /\ Total(two) \in Nat
  BY <1>c, Lists
<1>6. IsLayout(older) /\ Total(older) = IF v = 3 THEN 8 ELSE 0
  BY Of1, TotalEmpty
<1>7. InputRead(v, c) = w
  <2>1. /\ InputRead(v, c)
             = body
                 \o (IF v = 1 /\ c.doNotFree
                     THEN List("sequence", c.strings, 8) \o List("orig_sequence", c.strings, 8)
                     ELSE <<>>)
                 \o mid \o parts \o more \o times \o score \o older
    BY DEF InputRead
  <2>2. (IF v = 1 /\ c.doNotFree
         THEN List("sequence", c.strings, 8) \o List("orig_sequence", c.strings, 8)
         ELSE <<>>) = <<>>
    OBVIOUS
  <2> HIDE DEF head, p1, p2, p3, p4, text, mid, parts, more, times, score, older
  <2>3. IsLayout(body)
    BY <1>1, <1>2, <1>3, TotalJoin
  <2> HIDE DEF body
  <2>4. body \o <<>> = body
    BY <2>3, NothingMore
  <2> QED BY <2>1, <2>2, <2>4
<1> HIDE DEF head, p1, p2, p3, p4, text, mid, parts, more, times, on, one, two, fails, older
<1>8. IsLayout(score) /\ Total(score) >= (IF v = 1 THEN 0 ELSE 26) /\ Total(score) \in Nat
  <2>1. IsLayout(on \o one \o two \o fails)
    BY <1>2, <1>5, TotalJoin
  <2>2. Total(on \o one \o two \o fails) = Total(on) + Total(one) + Total(two) + Total(fails)
    BY <1>2, <1>5, TotalJoin, TotalNat
  <2>3. Total(on \o one \o two \o fails) >= 26 /\ Total(on \o one \o two \o fails) \in Nat
    BY <1>2, <1>5, <2>2
  <2> QED BY <2>1, <2>3, TotalEmpty
<1> HIDE DEF score
<1>9. IsLayout(body) /\ Total(body) >= 78 /\ Total(body) \in Nat
  <2>1. IsLayout(body)
    BY <1>1, <1>2, <1>3, TotalJoin
  <2>2. Total(body) = Total(head) + Total(p1) + Total(p2) + Total(p3) + Total(p4) + Total(text)
    <3>1. /\ IsLayout(head) /\ IsLayout(p1) /\ IsLayout(p2) /\ IsLayout(p3) /\ IsLayout(p4)
          /\ IsLayout(text)
      BY <1>1, <1>2, <1>3
    <3> QED BY <3>1, TotalJoin, TotalNat
  <2>3. Total(body) >= 78 /\ Total(body) \in Nat
    BY <1>1, <1>2, <1>3, <2>2
  <2> QED BY <2>1, <2>3
<1> HIDE DEF body
<1>10. Total(w) = Total(body) + Total(mid) + Total(parts) + Total(more) + Total(times)
                    + Total(score) + Total(older)
  <2>1. /\ IsLayout(body) /\ IsLayout(mid) /\ IsLayout(parts) /\ IsLayout(more)
        /\ IsLayout(times) /\ IsLayout(score) /\ IsLayout(older)
    BY <1>2, <1>4, <1>6, <1>8, <1>9
  <2> QED BY <2>1, TotalJoin, TotalNat
<1> HIDE DEF w
<1>11. CASE v = 1
  <2>1. InputStatic(v) = 115
    BY <1>11 DEF InputStatic
  <2> QED BY <1>2, <1>4, <1>6, <1>7, <1>8, <1>9, <1>10, <1>11, <2>1
<1>12. CASE v = 2
  <2>1. InputStatic(v) = 109
    BY <1>12 DEF InputStatic
  <2> QED BY <1>2, <1>4, <1>6, <1>7, <1>8, <1>9, <1>10, <1>12, <2>1
<1>13. CASE v = 3
  <2>1. InputStatic(v) = 117
    BY <1>13 DEF InputStatic
  <2> QED BY <1>2, <1>4, <1>6, <1>7, <1>8, <1>9, <1>10, <1>13, <2>1
<1> QED BY <1>11, <1>12, <1>13

\* The same of a test without a callback.
LEMMA TestLongEnough ==
  ASSUME NEW c, Sized(c, TestLists), c.callback = 0, c.storeoutput \in BOOLEAN,
         NEW v \in 1 .. 2
  PROVE  Total(TestRead(v, c)) >= TestStatic
<1> DEFINE out   == TestOutput(c)
           head  == FormHead(c.flags)
           p1    == Bytes(<<"running">>)
           p2    == Longs(<<"starttime", "endtime", "input">>)
           last  == String("lastwritten", c.lastwritten)
           time  == Longs(<<"lasttime">>)
           list  == List("reactiontime", c.reactiontime, 8)
           text  == String("output", out)
           rest  == Longs(<<"identifier", "exitreason">>)
           yes   == Bytes(<<"valid", "hascallback">>)
           skip  == Bytes(<<"skipOracle">>)
           body  == head \o p1 \o p2 \o last \o time \o list
           trunk == body \o text \o rest \o yes
           w     == trunk \o skip
<1>c. c.flags \in Nat /\ c.lastwritten \in Nat /\ c.reactiontime \in Nat /\ out \in Nat
  BY DEF Sized, TestLists, TestOutput
<1>1. IsLayout(head) /\ Total(head) >= 32 /\ Total(head) \in Nat
  BY <1>c, HeadFields
<1>2. /\ IsLayout(p1) /\ IsLayout(p2) /\ IsLayout(time) /\ IsLayout(rest) /\ IsLayout(yes)
      /\ IsLayout(skip) /\ Total(p1) = 1 /\ Total(p2) = 24 /\ Total(time) = 8
      /\ Total(rest) = 16 /\ Total(yes) = 2 /\ Total(skip) = 1
  BY Of1, Of2, Of3
<1>3. /\ IsLayout(last) /\ Total(last) >= 8 /\ Total(last) \in Nat
      /\ IsLayout(text) /\ Total(text) >= 8 /\ Total(text) \in Nat
  <2> HIDE DEF out
  <2> QED BY <1>c, StringFields
<1>4. IsLayout(list) /\ Total(list) >= 8 /\ Total(list) \in Nat
  BY <1>c, Lists
<1> HIDE DEF out, head, p1, p2, last, time, list, text, rest, yes, skip
<1>5. IsLayout(body) /\ Total(body) >= 81 /\ Total(body) \in Nat
  <2>1. /\ IsLayout(head) /\ IsLayout(p1) /\ IsLayout(p2) /\ IsLayout(last) /\ IsLayout(time)
        /\ IsLayout(list)
    BY <1>1, <1>2, <1>3, <1>4
  <2>2. /\ IsLayout(body)
        /\ Total(body) = Total(head) + Total(p1) + Total(p2) + Total(last) + Total(time)
                           + Total(list)
    BY <2>1, TotalJoin, TotalNat
  <2> HIDE DEF body
  <2>3. Total(body) >= 81 /\ Total(body) \in Nat
    BY <1>1, <1>2, <1>3, <1>4, <2>2
  <2> QED BY <2>2, <2>3
<1> HIDE DEF body
<1>6. IsLayout(trunk) /\ Total(trunk) = Total(body) + Total(text) + Total(rest) + Total(yes)
  <2>1. IsLayout(body) /\ IsLayout(text) /\ IsLayout(rest) /\ IsLayout(yes)
    BY <1>2, <1>3, <1>5
  <2> QED BY <2>1, TotalJoin, TotalNat
<1>7. TestRead(v, c) = w
  <2>1. TestRead(v, c)
          = trunk
              \o (IF c.callback = 0 THEN <<>>
                  ELSE IF v = 1 THEN <<Field("callback", c.callback, 0)>>
                  ELSE Block("callback", c.callback))
              \o skip
    BY DEF TestRead, trunk, body, head, p1, p2, last, time, list, text, out, rest, yes, skip
  <2>2. (IF c.callback = 0 THEN <<>>
         ELSE IF v = 1 THEN <<Field("callback", c.callback, 0)>>
         ELSE Block("callback", c.callback)) = <<>>
    OBVIOUS
  <2> HIDE DEF trunk
  <2>3. trunk \o <<>> = trunk
    BY <1>6, NothingMore
  <2> QED BY <2>1, <2>2, <2>3
<1> HIDE DEF trunk
<1>8. Total(w) = Total(trunk) + Total(skip)
  BY <1>2, <1>6, TotalJoin
<1> HIDE DEF w
<1>9. TestStatic = 56
  BY DEF TestStatic
<1> QED BY <1>2, <1>3, <1>5, <1>6, <1>7, <1>8, <1>9

-----------------------------------------------------------------------------
(* The records that the runs check are of those sizes.                     *)

\* The numbers of elements the runs choose.
LEMMA CountsAreSized ==
  ASSUME NEW names, NEW n \in Counts(names)
  PROVE  Sized(n, names) /\ DOMAIN n = names
BY DEF Counts, Sized

\* More members beside the numbers of elements.
LEMMA WithBoth ==
  ASSUME NEW names, NEW n, DOMAIN n = names, Sized(n, names), NEW more,
         \A x \in DOMAIN more : x \notin names
  PROVE  /\ Sized(With(n, more), names)
         /\ \A x \in DOMAIN more : With(n, more)[x] = more[x]
BY DEF With, Sized

\* Empty containers have a number of elements.
LEMMA EmptyIsSized ==
  ASSUME NEW names
  PROVE  Sized(Empty(names), names) /\ DOMAIN Empty(names) = names
BY DEF Empty, Sized

\* No callback at all takes no bytes.
LEMMA NoCallbackIs == IsCallback(NoCallback)
BY TotalEmpty DEF IsCallback, NoCallback

\* The records of the classes with a buffer.
LEMMA BufferRecordsComeBack ==
  \A r \in BufferRecords : InPlaceAndInside(r)
<1>1. ASSUME NEW n \in Counts(InputLists), NEW r \in 0 .. 1, NEW s \in BOOLEAN
      PROVE  InPlaceAndInside(InputRecord(With(n, [regenerate |-> r, sequence |-> s])))
  <2> DEFINE more == [regenerate |-> r, sequence |-> s]
             c    == With(n, more)
  <2>1. DOMAIN more = {"regenerate", "sequence"} /\ more.regenerate = r /\ more.sequence = s
    OBVIOUS
  <2>2. "regenerate" \notin InputLists /\ "sequence" \notin InputLists
    BY DEF InputLists
  <2> HIDE DEF more
  <2>3. Sized(c, InputLists) /\ \A x \in DOMAIN more : c[x] = more[x]
    <3>1. \A x \in DOMAIN more : x \notin InputLists
      BY <2>1, <2>2
    <3>2. Sized(n, InputLists) /\ DOMAIN n = InputLists
      BY <1>1, CountsAreSized
    <3> QED BY <3>1, <3>2, WithBoth
  <2> HIDE DEF c
  <2>4. c["regenerate"] = r /\ c["sequence"] = s
    BY <2>1, <2>3
  <2>5. c.regenerate \in Nat /\ c.sequence \in BOOLEAN
    BY <1>1, <2>4
  <2>6. InPlaceAndInside(InputRecord(c))
    BY <2>3, <2>5, InputComesBack
  <2> QED BY <2>6 DEF c, more
<1>2. ASSUME NEW n \in Counts(TestLists), NEW s \in BOOLEAN, NEW f \in Callbacks \cup {NoCallback}
      PROVE  InPlaceAndInside(TestRecord(With(n, [storeoutput |-> s, callback |-> f.length])))
  <2> DEFINE more == [storeoutput |-> s, callback |-> f.length]
             c    == With(n, more)
  <2>1. DOMAIN more = {"storeoutput", "callback"} /\ more.storeoutput = s
        /\ more.callback = f.length
    OBVIOUS
  <2>2. "storeoutput" \notin TestLists /\ "callback" \notin TestLists
    BY DEF TestLists
  <2> HIDE DEF more
  <2>3. Sized(c, TestLists) /\ \A x \in DOMAIN more : c[x] = more[x]
    <3>1. \A x \in DOMAIN more : x \notin TestLists
      BY <2>1, <2>2
    <3>2. Sized(n, TestLists) /\ DOMAIN n = TestLists
      BY <1>2, CountsAreSized
    <3> QED BY <3>1, <3>2, WithBoth
  <2>n. f.length \in Nat
    BY <1>2, AreCallbacks, NoCallbackIs DEF IsCallback
  <2> HIDE DEF c
  <2>4. c["storeoutput"] = s /\ c["callback"] = f.length
    BY <2>1, <2>3
  <2>5. c.callback \in Nat /\ c.storeoutput \in BOOLEAN
    BY <1>2, <2>n, <2>4
  <2>6. InPlaceAndInside(TestRecord(c))
    BY <2>3, <2>5, TestComesBack
  <2> QED BY <2>6 DEF c, more
<1>3. \A c \in Counts(TreeLists) : InPlaceAndInside(DerivationTreeRecord(c))
  BY CountsAreSized, DerivationTreeComesBack
<1>4. \A c \in Counts({"children"}) : InPlaceAndInside(NodeRecord(c))
  BY CountsAreSized, NodeComesBack
<1> DEFINE inputs == {InputRecord(With(n, [regenerate |-> r, sequence |-> s])) :
                        n \in Counts(InputLists), r \in 0 .. 1, s \in BOOLEAN}
           tests  == {TestRecord(With(n, [storeoutput |-> s, callback |-> f.length])) :
                        n \in Counts(TestLists), s \in BOOLEAN,
                        f \in Callbacks \cup {NoCallback}}
           trees  == {DerivationTreeRecord(c) : c \in Counts(TreeLists)}
           nodes  == {NodeRecord(c) : c \in Counts({"children"})}
<1>5. ASSUME NEW x \in inputs
      PROVE  InPlaceAndInside(x)
  <2>1. PICK n \in Counts(InputLists), r \in 0 .. 1, s \in BOOLEAN :
          x = InputRecord(With(n, [regenerate |-> r, sequence |-> s]))
    BY <1>5
  <2> QED BY <2>1, <1>1
<1>6. ASSUME NEW x \in tests
      PROVE  InPlaceAndInside(x)
  <2>1. PICK n \in Counts(TestLists), s \in BOOLEAN, f \in Callbacks \cup {NoCallback} :
          x = TestRecord(With(n, [storeoutput |-> s, callback |-> f.length]))
    BY <1>6
  <2> QED BY <2>1, <1>2
<1>7. \A r \in trees \cup nodes : InPlaceAndInside(r)
  BY <1>3, <1>4
<1>8. BufferRecords = inputs \cup tests \cup trees \cup nodes
  BY DEF BufferRecords
<1> HIDE DEF inputs, tests, trees, nodes
<1> QED BY <1>5, <1>6, <1>7, <1>8

\* The records of the classes that write to the stream.
LEMMA StreamRecordsComeBack ==
  \A r \in StreamRecords : InPlaceAndInside(r)
<1>1. \A c \in Counts({"flags"}) :
        /\ InPlaceAndInside(TreeRecord(c)) /\ InPlaceAndInside(GeneratorRecord(c))
        /\ InPlaceAndInside(SessionRecord(c))
  BY CountsAreSized, TreeComesBack, GeneratorComesBack
<1>2. \A c \in Counts(GenerationContainers) : InPlaceAndInside(GenerationRecord(c))
  BY CountsAreSized, GenerationComesBack
<1>3. ASSUME NEW n \in Counts(ControllerLists), NEW f \in Callbacks
      PROVE  InPlaceAndInside(ControllerRecord(With(n, [callback |-> f])))
  <2> DEFINE more == [callback |-> f]
             c    == With(n, more)
  <2>1. DOMAIN more = {"callback"} /\ more.callback = f /\ "callback" \notin ControllerLists
    BY DEF ControllerLists
  <2> HIDE DEF more
  <2>2. Sized(n, ControllerLists) /\ DOMAIN n = ControllerLists
    BY <1>3, CountsAreSized
  <2>3. Sized(c, ControllerLists) /\ \A x \in DOMAIN more : c[x] = more[x]
    BY <2>1, <2>2, WithBoth
  <2> HIDE DEF c
  <2>4. c["callback"] = f
    BY <2>1, <2>3
  <2>5. IsCallback(c.callback)
    BY <1>3, <2>4, AreCallbacks
  <2>6. InPlaceAndInside(ControllerRecord(c))
    BY <2>3, <2>5, ControllerComesBack
  <2> QED BY <2>6 DEF c, more
<1>4. \A c \in Counts(HandlerLists) : InPlaceAndInside(HandlerRecord(c))
  BY CountsAreSized, HandlerComesBack
<1>5. \A c \in Counts(SessionLists) : InPlaceAndInside(SessionDataRecord(c))
  BY CountsAreSized, SessionDataComesBack
<1>6. ASSUME NEW s \in Counts(ToSet(OracleStrings))
      PROVE  InPlaceAndInside(OracleRecord([flags |-> 0, strings |-> s]))
  <2> DEFINE c == [flags |-> 0, strings |-> s]
  <2>1. c.flags \in Nat /\ c.strings = s
    OBVIOUS
  <2>2. Sized(s, ToSet(OracleStrings))
    BY <1>6, CountsAreSized
  <2> HIDE DEF c
  <2>3. InPlaceAndInside(OracleRecord(c))
    BY <2>1, <2>2, OracleComesBack
  <2> QED BY <2>3 DEF c
<1>7. ASSUME NEW s \in Counts(ToSet(SettingsStrings))
      PROVE  InPlaceAndInside(SettingsRecord([flags |-> 0, strings |-> s]))
  <2> DEFINE c == [flags |-> 0, strings |-> s]
  <2>1. c.flags \in Nat /\ c.strings = s
    OBVIOUS
  <2>2. Sized(s, ToSet(SettingsStrings))
    BY <1>7, CountsAreSized
  <2> HIDE DEF c
  <2>3. InPlaceAndInside(SettingsRecord(c))
    BY <2>1, <2>2, SettingsComesBack
  <2> QED BY <2>3 DEF c
<1>8. \A c \in Counts(GrammarLists) : InPlaceAndInside(GrammarRecord(c))
  BY CountsAreSized, GrammarComesBack
<1>9. ASSUME NEW n \in Counts(DeltaLists), NEW g \in DOMAIN GoalSize, NEW f \in Callbacks
      PROVE  InPlaceAndInside(DeltaRecord(With(n, [goal |-> g, callback |-> f])))
  <2> DEFINE more == [goal |-> g, callback |-> f]
             c    == With(n, more)
  <2>1. DOMAIN more = {"goal", "callback"} /\ more.goal = g /\ more.callback = f
    OBVIOUS
  <2>2. "goal" \notin DeltaLists /\ "callback" \notin DeltaLists
    BY DEF DeltaLists
  <2> HIDE DEF more
  <2>3. Sized(n, DeltaLists) /\ DOMAIN n = DeltaLists
    BY <1>9, CountsAreSized
  <2>4. Sized(c, DeltaLists) /\ \A x \in DOMAIN more : c[x] = more[x]
    <3>1. \A x \in DOMAIN more : x \notin DeltaLists
      BY <2>1, <2>2
    <3> QED BY <2>3, <3>1, WithBoth
  <2> HIDE DEF c
  <2>5. c["goal"] = g /\ c["callback"] = f
    BY <2>1, <2>4
  <2>6. c.goal \in DOMAIN GoalSize /\ IsCallback(c.callback)
    BY <1>9, <2>5, AreCallbacks
  <2>7. InPlaceAndInside(DeltaRecord(c))
    BY <2>4, <2>6, DeltaComesBack
  <2> QED BY <2>7 DEF c, more
<1> DEFINE flagged  == {TreeRecord(c) : c \in Counts({"flags"})}
           born     == {GenerationRecord(c) : c \in Counts(GenerationContainers)}
           maker    == {GeneratorRecord(c) : c \in Counts({"flags"})}
           session  == {SessionRecord(c) : c \in Counts({"flags"})}
           control  == {ControllerRecord(With(n, [callback |-> f])) :
                          n \in Counts(ControllerLists), f \in Callbacks}
           handler  == {HandlerRecord(c) : c \in Counts(HandlerLists)}
           data     == {SessionDataRecord(c) : c \in Counts(SessionLists)}
           oracle   == {OracleRecord([flags |-> 0, strings |-> s]) :
                          s \in Counts(ToSet(OracleStrings))}
           settings == {SettingsRecord([flags |-> 0, strings |-> s]) :
                          s \in Counts(ToSet(SettingsStrings))}
           grammar  == {GrammarRecord(c) : c \in Counts(GrammarLists)}
           delta    == {DeltaRecord(With(n, [goal |-> g, callback |-> f])) :
                          n \in Counts(DeltaLists), g \in DOMAIN GoalSize,
                          f \in {DDTestCallback, DDGenerateComplementCallback}}
<1>10. \A r \in flagged : InPlaceAndInside(r)
  BY <1>1
<1>11. \A r \in maker : InPlaceAndInside(r)
  BY <1>1
<1>12. \A r \in session : InPlaceAndInside(r)
  BY <1>1
<1>13. \A r \in born : InPlaceAndInside(r)
  BY <1>2
<1>14. ASSUME NEW x \in control
      PROVE  InPlaceAndInside(x)
  <2>1. PICK n \in Counts(ControllerLists), f \in Callbacks :
          x = ControllerRecord(With(n, [callback |-> f]))
    BY <1>14
  <2> QED BY <2>1, <1>3
<1>15. \A r \in handler : InPlaceAndInside(r)
  BY <1>4
<1>16. \A r \in data : InPlaceAndInside(r)
  BY <1>5
<1>17. \A r \in oracle : InPlaceAndInside(r)
  BY <1>6
<1>18. \A r \in settings : InPlaceAndInside(r)
  BY <1>7
<1>19. \A r \in grammar : InPlaceAndInside(r)
  BY <1>8
<1>20. ASSUME NEW x \in delta
      PROVE  InPlaceAndInside(x)
  <2>1. PICK n \in Counts(DeltaLists), g \in DOMAIN GoalSize,
                f \in {DDTestCallback, DDGenerateComplementCallback} :
          x = DeltaRecord(With(n, [goal |-> g, callback |-> f]))
    BY <1>20
  <2>2. f \in Callbacks
    BY <2>1 DEF Callbacks
  <2> QED BY <2>1, <2>2, <1>9
<1>21. StreamRecords = flagged \cup born \cup maker \cup session \cup control \cup handler
                        \cup data \cup oracle \cup settings \cup grammar \cup delta
  BY DEF StreamRecords
<1> HIDE DEF flagged, born, maker, session, control, handler, data, oracle, settings, grammar,
             delta
<1> QED BY <1>10, <1>11, <1>12, <1>13, <1>14, <1>15, <1>16, <1>17, <1>18, <1>19, <1>20, <1>21

\* Callbacks, strings and heads of files.
LEMMA OtherRecordsComeBack ==
  \A r \in OtherRecords : InPlaceAndInside(r)
<1>1. \A f \in Callbacks : InPlaceAndInside(CallbackRecord(f))
  BY AreCallbacks, CallbackComesBack
<1>2. \A c \in Counts({"strings", "text"}) : InPlaceAndInside(StringTableRecord(c))
  BY CountsAreSized, StringTableComesBack
<1>3. ASSUME NEW n \in Counts({"priors"}), NEW f \in Callbacks \cup {NoCallback}
      PROVE  InPlaceAndInside(HeaderRecord(With(n, [callback |-> f])))
  <2> DEFINE more == [callback |-> f]
             c    == With(n, more)
  <2>1. DOMAIN more = {"callback"} /\ more.callback = f /\ "callback" \notin {"priors"}
    OBVIOUS
  <2> HIDE DEF more
  <2>2. Sized(n, {"priors"}) /\ DOMAIN n = {"priors"}
    BY <1>3, CountsAreSized
  <2>3. Sized(c, {"priors"}) /\ \A x \in DOMAIN more : c[x] = more[x]
    BY <2>1, <2>2, WithBoth
  <2> HIDE DEF c
  <2>4. c["callback"] = f
    BY <2>1, <2>3
  <2>5. IsCallback(c.callback)
    BY <1>3, <2>4, AreCallbacks, NoCallbackIs
  <2>6. InPlaceAndInside(HeaderRecord(c))
    BY <2>3, <2>5, HeaderComesBack
  <2> QED BY <2>6 DEF c, more
<1> DEFINE calls   == {CallbackRecord(f) : f \in Callbacks}
           tables  == {StringTableRecord(c) : c \in Counts({"strings", "text"})}
           headers == {HeaderRecord(With(n, [callback |-> f])) :
                         n \in Counts({"priors"}), f \in Callbacks \cup {NoCallback}}
<1>4. \A r \in calls : InPlaceAndInside(r)
  BY <1>1
<1>5. \A r \in tables : InPlaceAndInside(r)
  BY <1>2
<1>6. ASSUME NEW x \in headers
      PROVE  InPlaceAndInside(x)
  <2>1. PICK n \in Counts({"priors"}), f \in Callbacks \cup {NoCallback} :
          x = HeaderRecord(With(n, [callback |-> f]))
    BY <1>6
  <2> QED BY <2>1, <1>3
<1>7. OtherRecords = calls \cup tables \cup headers
  BY DEF OtherRecords
<1> HIDE DEF calls, tables, headers
<1> QED BY <1>4, <1>5, <1>6, <1>7

\* The shortest records, of old versions too.
LEMMA ShortestIsAccepted == ShortestAccepted
<1>1. ASSUME NEW v \in 1 .. 3, NEW s \in BOOLEAN
      PROVE  Total(InputRead(v, With(Empty(InputLists),
                                     [regenerate |-> 0, sequence |-> s, doNotFree |-> FALSE])))
               >= InputStatic(v)
  <2> DEFINE n    == Empty(InputLists)
             more == [regenerate |-> 0, sequence |-> s, doNotFree |-> FALSE]
             c    == With(n, more)
  <2>1. /\ DOMAIN more = {"regenerate", "sequence", "doNotFree"}
        /\ more.regenerate = 0 /\ more.sequence = s /\ more.doNotFree = FALSE
    OBVIOUS
  <2>2. "regenerate" \notin InputLists /\ "sequence" \notin InputLists
        /\ "doNotFree" \notin InputLists
    BY DEF InputLists
  <2> HIDE DEF more
  <2>3. Sized(n, InputLists) /\ DOMAIN n = InputLists
    BY EmptyIsSized
  <2> HIDE DEF n
  <2>4. Sized(c, InputLists) /\ \A x \in DOMAIN more : c[x] = more[x]
    <3>1. \A x \in DOMAIN more : x \notin InputLists
      BY <2>1, <2>2
    <3> QED BY <2>3, <3>1, WithBoth
  <2> HIDE DEF c
  <2>5. c["regenerate"] = 0 /\ c["sequence"] = s /\ c["doNotFree"] = FALSE
    BY <2>1, <2>4
  <2>6. c.regenerate \in Nat /\ c.sequence \in BOOLEAN /\ c.doNotFree = FALSE
    BY <1>1, <2>5
  <2>7. Total(InputRead(v, c)) >= InputStatic(v)
    BY <1>1, <2>4, <2>6, InputLongEnough
  <2> QED BY <2>7 DEF c, n, more
<1>2. ASSUME NEW v \in 1 .. 2, NEW s \in BOOLEAN
      PROVE  Total(TestRead(v, With(Empty(TestLists), [storeoutput |-> s, callback |-> 0])))
               >= TestStatic
  <2> DEFINE n    == Empty(TestLists)
             more == [storeoutput |-> s, callback |-> 0]
             c    == With(n, more)
  <2>1. DOMAIN more = {"storeoutput", "callback"} /\ more.storeoutput = s /\ more.callback = 0
    OBVIOUS
  <2>2. "storeoutput" \notin TestLists /\ "callback" \notin TestLists
    BY DEF TestLists
  <2> HIDE DEF more
  <2>3. Sized(n, TestLists) /\ DOMAIN n = TestLists
    BY EmptyIsSized
  <2> HIDE DEF n
  <2>4. Sized(c, TestLists) /\ \A x \in DOMAIN more : c[x] = more[x]
    <3>1. \A x \in DOMAIN more : x \notin TestLists
      BY <2>1, <2>2
    <3> QED BY <2>3, <3>1, WithBoth
  <2> HIDE DEF c
  <2>5. c["storeoutput"] = s /\ c["callback"] = 0
    BY <2>1, <2>4
  <2>6. c.storeoutput \in BOOLEAN /\ c.callback = 0
    BY <1>2, <2>5
  <2>7. Total(TestRead(v, c)) >= TestStatic
    BY <1>2, <2>4, <2>6, TestLongEnough
  <2> QED BY <2>7 DEF c, n, more
<1> QED BY <1>1, <1>2 DEF ShortestAccepted

\* Every kind of record is read as it was written.
LEMMA AllAreRead == RecordsAreRead
BY BufferRecordsComeBack, StreamRecordsComeBack, OtherRecordsComeBack, ShortestIsAccepted
   DEF RecordsAreRead, AllRecords, InPlaceAndInside

-----------------------------------------------------------------------------
(* The records of a save file, of any size.                                *)

\* ReadData finds every member where WriteData put it and the size that was announced
\* is never exceeded, for every class that is saved, whatever the numbers of elements
\* of its containers and the lengths of its strings are, and whatever its callbacks and
\* its goal: no write into a buffer is refused, no string loses its characters and
\* ReadRecord throws no record away (WriteData, ReadData, GetStaticSize and
\* GetDynamicSize of each class, ArrayBuffer::Write, Record.h).
THEOREM RecordsOfAnySize ==
  ASSUME NEW c
  PROVE  /\ Sized(c, InputLists) /\ c.regenerate \in Nat /\ c.sequence \in BOOLEAN =>
              InPlaceAndInside(InputRecord(c))
         /\ Sized(c, TestLists) /\ c.callback \in Nat /\ c.storeoutput \in BOOLEAN =>
              InPlaceAndInside(TestRecord(c))
         /\ Sized(c, TreeLists) => InPlaceAndInside(DerivationTreeRecord(c))
         /\ Sized(c, {"children"}) => InPlaceAndInside(NodeRecord(c))
         /\ Sized(c, {"flags"}) => /\ InPlaceAndInside(TreeRecord(c))
                                   /\ InPlaceAndInside(GeneratorRecord(c))
                                   /\ InPlaceAndInside(SessionRecord(c))
         /\ Sized(c, GenerationContainers) => InPlaceAndInside(GenerationRecord(c))
         /\ Sized(c, ControllerLists) /\ c.callback \in Callbacks =>
              InPlaceAndInside(ControllerRecord(c))
         /\ Sized(c, HandlerLists) => InPlaceAndInside(HandlerRecord(c))
         /\ Sized(c, SessionLists) => InPlaceAndInside(SessionDataRecord(c))
         /\ c.flags \in Nat /\ Sized(c.strings, ToSet(OracleStrings)) =>
              InPlaceAndInside(OracleRecord(c))
         /\ c.flags \in Nat /\ Sized(c.strings, ToSet(SettingsStrings)) =>
              InPlaceAndInside(SettingsRecord(c))
         /\ Sized(c, GrammarLists) => InPlaceAndInside(GrammarRecord(c))
         /\ /\ Sized(c, DeltaLists) /\ c.goal \in DOMAIN GoalSize
            /\ c.callback \in Callbacks
            => InPlaceAndInside(DeltaRecord(c))
         /\ Sized(c, {"strings", "text"}) => InPlaceAndInside(StringTableRecord(c))
         /\ Sized(c, {"priors"}) /\ c.callback \in Callbacks \cup {NoCallback} =>
              InPlaceAndInside(HeaderRecord(c))
         /\ \A f \in Callbacks : InPlaceAndInside(CallbackRecord(f))
<1>1. \A f \in Callbacks \cup {NoCallback} : IsCallback(f)
  BY AreCallbacks, NoCallbackIs
<1>2. /\ Sized(c, InputLists) /\ c.regenerate \in Nat /\ c.sequence \in BOOLEAN =>
           InPlaceAndInside(InputRecord(c))
      /\ Sized(c, TestLists) /\ c.callback \in Nat /\ c.storeoutput \in BOOLEAN =>
           InPlaceAndInside(TestRecord(c))
  BY InputComesBack, TestComesBack
<1>3. /\ Sized(c, TreeLists) => InPlaceAndInside(DerivationTreeRecord(c))
      /\ Sized(c, {"children"}) => InPlaceAndInside(NodeRecord(c))
      /\ Sized(c, {"flags"}) => /\ InPlaceAndInside(TreeRecord(c))
                                /\ InPlaceAndInside(GeneratorRecord(c))
                                /\ InPlaceAndInside(SessionRecord(c))
      /\ Sized(c, GenerationContainers) => InPlaceAndInside(GenerationRecord(c))
  BY DerivationTreeComesBack, NodeComesBack, TreeComesBack, GeneratorComesBack,
     GenerationComesBack
<1>4. /\ Sized(c, ControllerLists) /\ c.callback \in Callbacks =>
           InPlaceAndInside(ControllerRecord(c))
      /\ Sized(c, HandlerLists) => InPlaceAndInside(HandlerRecord(c))
      /\ Sized(c, SessionLists) => InPlaceAndInside(SessionDataRecord(c))
  BY <1>1, ControllerComesBack, HandlerComesBack, SessionDataComesBack
<1>5. /\ c.flags \in Nat /\ Sized(c.strings, ToSet(OracleStrings)) =>
           InPlaceAndInside(OracleRecord(c))
      /\ c.flags \in Nat /\ Sized(c.strings, ToSet(SettingsStrings)) =>
           InPlaceAndInside(SettingsRecord(c))
  BY OracleComesBack, SettingsComesBack
<1>6. /\ Sized(c, GrammarLists) => InPlaceAndInside(GrammarRecord(c))
      /\ /\ Sized(c, DeltaLists) /\ c.goal \in DOMAIN GoalSize
         /\ c.callback \in Callbacks
         => InPlaceAndInside(DeltaRecord(c))
  BY <1>1, GrammarComesBack, DeltaComesBack
<1>7. /\ Sized(c, {"strings", "text"}) => InPlaceAndInside(StringTableRecord(c))
      /\ Sized(c, {"priors"}) /\ c.callback \in Callbacks \cup {NoCallback} =>
           InPlaceAndInside(HeaderRecord(c))
      /\ \A f \in Callbacks : InPlaceAndInside(CallbackRecord(f))
  BY <1>1, StringTableComesBack, HeaderComesBack, CallbackComesBack
<1> QED BY <1>2, <1>3, <1>4, <1>5, <1>6, <1>7

\* What a save writes comes back, whatever kinds of form there are (CreateRecord and
\* ReadRecord of Record.h): the records of RecordsAreRead are of those sizes, and the
\* shortest records of old versions are not refused.
THEOREM RecordsRead == Spec => []RecordsComeBack
<1>1. RecordsComeBack
  BY AllAreRead DEF RecordsComeBack
<1> QED BY <1>1, PTL
=============================================================================
