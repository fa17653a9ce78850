---------------------------- MODULE StoresProofs ----------------------------
(***************************************************************************)
(* Theorems about the files the program keeps, for every number of         *)
(* programs, tasks, files, edits and records: JsonStore, ParallelWriter,   *)
(* TaskFile, Retrieval and Trail.                                          *)
(***************************************************************************)
EXTENDS JsonStore, ParallelWriter, TaskFile, Retrieval, Trail,
  FiniteSetTheorems, SequenceTheorems, TLAPS

(* JsonStore: a save takes effect in one step.                             *)

\* Where a program is with the file.
StorePlaces == {"down", "up", "open", "written"}

\* Every variable has its type, and a program that has a temporary file open has
\* one.
StoreTypeOK ==
  /\ config \in Files \cup {NoLink}
  /\ tmp \in Files \cup {NoLink}
  /\ corrupt \in Files \cup {NoLink}
  /\ content \in [Files -> Contents \cup {Torn}]
  /\ held \in [Programs -> Contents]
  /\ storePc \in [Programs -> StorePlaces]
  /\ handle \in [Programs -> Files \cup {NoLink}]
  /\ \A p \in Programs : storePc[p] = "open" => handle[p] # NoLink
  /\ overlapped \in BOOLEAN

\* The configuration file is whole, and so is the one that was put aside: it was
\* a read that failed.
FileWhole == Found \in Contents /\ (corrupt # NoLink => content[corrupt] \in Contents)

\* Until two saves overlap: one program saves at most, the temporary name is the
\* file it has open, has filled or has left behind, unless another program has
\* removed it, and never the configuration or what was put aside; what is filled
\* has what the program holds.
OneSaves ==
  /\ tmp # NoLink => tmp # config /\ tmp # corrupt
  /\ \A p \in Programs : storePc[p] = "open" =>
       handle[p] \notin {config, corrupt} /\ tmp \in {handle[p], NoLink}
  /\ \A p \in Programs : storePc[p] = "written" /\ tmp # NoLink => content[tmp] = held[p]
  /\ \A p, q \in Saving : p = q

\* The file is whole because of what holds until two saves overlap; from then on
\* nothing is claimed.
StoreInv == StoreTypeOK /\ (~overlapped => FileWhole /\ OneSaves)

(* A set with one more element has one more at most.                       *)
LEMMA OneMore ==
  ASSUME NEW S, NEW x, NEW n \in Nat, IsFiniteSet(S), Cardinality(S) <= n
  PROVE  IsFiniteSet(S \cup {x}) /\ Cardinality(S \cup {x}) <= n + 1
<1>1. Cardinality(S) \in Nat
  BY FS_CardinalityType
<1>2. /\ IsFiniteSet(S \cup {x})
      /\ Cardinality(S \cup {x}) = IF x \in S THEN Cardinality(S) ELSE Cardinality(S) + 1
  BY FS_AddElement
<1>. QED
  BY <1>1, <1>2

(* While nothing has the temporary name there is a file that nothing links *)
(* to and nobody has open: those are two and one for each program at most. *)
LEMMA NewFileIsNew ==
  StoreTypeOK /\ tmp = NoLink => NewFile \in Files /\ NewFile # config /\ NewFile # corrupt
<1> SUFFICES ASSUME StoreTypeOK, tmp = NoLink
             PROVE  \E f \in Files : f \notin {config, tmp, corrupt} \cup {handle[p] : p \in Programs}
  BY DEF NewFile
<1> DEFINE open == {handle[p] : p \in Programs}
           n == Cardinality(Programs)
           used == open \cup {config} \cup {corrupt}
<1>1. n \in Nat /\ Cardinality(Files) \in Nat /\ Cardinality(Files) >= n + 3
  BY StoreAssumption, FS_CardinalityType
<1>2. handle \in Surjection(Programs, open)
  BY DEF StoreTypeOK, Surjection
<1>3. IsFiniteSet(open) /\ Cardinality(open) <= n
  BY <1>2, StoreAssumption, FS_Surjection
<1>4. IsFiniteSet(open \cup {config}) /\ Cardinality(open \cup {config}) <= n + 1
  <2> HIDE DEF open, n
  <2>. QED
    BY <1>1, <1>3, OneMore
<1>5. IsFiniteSet(used) /\ Cardinality(used) <= n + 2
  <2>1. n + 1 \in Nat /\ n + 1 + 1 = n + 2
    BY <1>1
  <2> HIDE DEF open, n
  <2>. QED
    BY <1>4, <2>1, OneMore
<1>6. Cardinality(used) \in Nat
  BY <1>5, FS_CardinalityType
<1>7. ~ Files \subseteq used
  <2> HIDE DEF used, n
  <2>. QED
    BY <1>1, <1>5, <1>6, FS_Subset
<1>. QED
  BY <1>7, StoreAssumption

(* A step of any program keeps the types: a new temporary file is a file,  *)
(* there being enough of them.                                             *)
LEMMA StoreTypes == StoreTypeOK /\ [StoreNext]_storeVars => StoreTypeOK'
<1> SUFFICES ASSUME StoreTypeOK, [StoreNext]_storeVars PROVE StoreTypeOK'
  OBVIOUS
<1> USE StoreAssumption DEF StoreTypeOK, StorePlaces, Names
<1>1. CASE UNCHANGED storeVars
  BY <1>1 DEF storeVars
<1>2. ASSUME NEW p \in Programs, Load(p) PROVE StoreTypeOK'
  <2>1. held' \in [Programs -> Contents]
    <3>1. Found # Torn => Found \in Contents
      BY DEF Found
    <3>2. \E x \in Contents : held' = [held EXCEPT ![p] = x]
      BY <1>2, <3>1 DEF Load
    <3>. QED
      BY <3>2
  <2>2. UNCHANGED <<tmp, content, handle, overlapped>> /\ storePc' = [storePc EXCEPT ![p] = "up"]
    BY <1>2 DEF Load
  <2>3. config' \in Files \cup {NoLink} /\ corrupt' \in Files \cup {NoLink}
    BY <1>2 DEF Load
  <2>. QED
    BY <2>1, <2>2, <2>3
<1>3. ASSUME NEW p \in Programs, NEW settings \in Contents, OpenTmp(p, settings) PROVE StoreTypeOK'
  <2>1. tmp' \in Files
    BY <1>3, NewFileIsNew DEF OpenTmp
  <2>. QED
    BY <1>3, <2>1 DEF OpenTmp
<1>4. ASSUME NEW p \in Programs, NEW settings \in Contents, NotOpened(p, settings)
      PROVE  StoreTypeOK'
  BY <1>4 DEF NotOpened
<1>5. ASSUME NEW p \in Programs, FillTmp(p) PROVE StoreTypeOK'
  BY <1>5 DEF FillTmp
<1>6. ASSUME NEW p \in Programs, Replace(p) PROVE StoreTypeOK'
  BY <1>6 DEF Replace
<1>7. ASSUME NEW p \in Programs, SaveFails(p) PROVE StoreTypeOK'
  BY <1>7 DEF SaveFails
<1>8. ASSUME NEW p \in Programs, Down(p) PROVE StoreTypeOK'
  BY <1>8 DEF Down
<1>. QED
  BY <1>1, <1>2, <1>3, <1>4, <1>5, <1>6, <1>7, <1>8 DEF StoreNext

(* While no two programs save at a time, a step of any of them keeps what  *)
(* config.json names a whole file, and is a step of the file that is       *)
(* written in one step: the replacement is the write, all that precedes it *)
(* is seen by nobody.                                                      *)
LEMMA StepIsWhole ==
  ASSUME StoreInv, StoreNext, ~overlapped'
  PROVE  FileWhole' /\ OneSaves' /\ [Whole!WholeNext]_(Whole!wholeVars)
<1>1. ~overlapped /\ FileWhole /\ OneSaves /\ StoreTypeOK
  BY DEF StoreInv, StoreTypeOK, StoreNext, Load, OpenTmp, NotOpened, FillTmp, Replace,
     SaveFails, Down
<1> DEFINE Good == FileWhole' /\ OneSaves' /\ [Whole!WholeNext]_(Whole!wholeVars)
<1> USE <1>1, StoreAssumption DEF FileWhole, OneSaves, StoreTypeOK, StorePlaces, Names, Saving, Found
<1>2. ASSUME NEW p \in Programs, Load(p) PROVE Good
  <2>1. CASE held' = [held EXCEPT ![p] = Found] /\ UNCHANGED <<config, corrupt>>
    <3>1. Whole!Start(p)
      BY <1>2, <2>1 DEF Load, Whole!Start
    <3>. QED
      BY <1>2, <2>1, <3>1 DEF Load, Whole!WholeNext
  <2>2. CASE /\ config # NoLink
             /\ held' = [held EXCEPT ![p] = NoSettings]
             /\ \/ corrupt' = config /\ config' = NoLink
                \/ UNCHANGED <<config, corrupt>>
    <3>1. Whole!StartUnread(p)
      BY <1>2, <2>2 DEF Load, Whole!StartUnread
    <3>2. FileWhole' /\ OneSaves'
      BY <1>2, <2>2 DEF Load
    <3>. QED
      BY <3>1, <3>2 DEF Whole!WholeNext
  <2>. QED
    BY <1>2, <2>1, <2>2 DEF Load
<1>3. ASSUME NEW p \in Programs, NEW settings \in Contents, OpenTmp(p, settings) PROVE Good
  <2>1. tmp' \in Files /\ tmp' # config /\ tmp' # corrupt
    BY <1>3, NewFileIsNew DEF OpenTmp
  <2>2. Saving = {} /\ Found' = Found
    BY <1>3, <2>1 DEF OpenTmp
  <2>3. Whole!Change(p, settings)
    BY <1>3, <2>2 DEF OpenTmp, Whole!Change
  <2>. QED
    BY <1>3, <2>1, <2>2, <2>3 DEF OpenTmp, Whole!WholeNext
<1>4. ASSUME NEW p \in Programs, NEW settings \in Contents, NotOpened(p, settings) PROVE Good
  <2>1. Whole!Change(p, settings)
    BY <1>4 DEF NotOpened, Whole!Change
  <2>. QED
    BY <1>4, <2>1 DEF NotOpened, Whole!WholeNext
<1>5. ASSUME NEW p \in Programs, FillTmp(p) PROVE Good
  <2>1. UNCHANGED Whole!wholeVars
    BY <1>5 DEF FillTmp, Whole!wholeVars
  <2>. QED
    BY <1>5, <2>1 DEF FillTmp
<1>6. ASSUME NEW p \in Programs, Replace(p) PROVE Good
  <2>1. CASE tmp # NoLink
    <3>1. Whole!Write(p)
      BY <1>6, <2>1 DEF Replace, Whole!Write
    <3>. QED
      BY <1>6, <2>1, <3>1 DEF Replace, Whole!WholeNext
  <2>2. CASE tmp = NoLink
    <3>1. Whole!GiveUp(p)
      BY <1>6, <2>2 DEF Replace, Whole!GiveUp
    <3>. QED
      BY <1>6, <2>2, <3>1 DEF Replace, Whole!WholeNext
  <2>. QED
    BY <2>1, <2>2
<1>7. ASSUME NEW p \in Programs, SaveFails(p) PROVE Good
  <2>1. Whole!GiveUp(p)
    BY <1>7 DEF SaveFails, Whole!GiveUp
  <2>. QED
    BY <1>7, <2>1 DEF SaveFails, Whole!WholeNext
<1>8. ASSUME NEW p \in Programs, Down(p) PROVE Good
  <2>1. Whole!Stop(p)
    BY <1>8 DEF Down, Whole!Stop
  <2>. QED
    BY <1>8, <2>1 DEF Down, Whole!WholeNext
<1>. QED
  BY <1>2, <1>3, <1>4, <1>5, <1>6, <1>7, <1>8 DEF StoreNext

(* What the theorems about JsonStore rest on.                              *)
LEMMA StoreInvariant == StoreSpec => []StoreInv
<1>1. StoreInit => StoreInv
  BY StoreAssumption DEF StoreInit, StoreInv, StoreTypeOK, StorePlaces, FileWhole, OneSaves,
     Saving, Found
<1>2. StoreInv /\ [StoreNext]_storeVars => StoreInv'
  <2> SUFFICES ASSUME StoreInv, [StoreNext]_storeVars PROVE StoreInv'
    OBVIOUS
  <2>1. CASE StoreNext
    BY <2>1, StoreTypes, StepIsWhole DEF StoreInv
  <2>2. CASE UNCHANGED storeVars
    BY <2>2, StoreTypes DEF storeVars, StoreInv, FileWhole, OneSaves, Saving, Found
  <2>. QED
    BY <2>1, <2>2
<1>. QED
  BY <1>1, <1>2, PTL DEF StoreSpec

(* JsonStore._save_locked, _read_json: whoever stops where, and whatever   *)
(* fails, the configuration file has the whole of some settings, and what  *)
(* a start has put aside is whole too (it was the read that failed, never  *)
(* a save that was cut), unless two programs have saved at the same time:  *)
(* for any number of programs.                                             *)
THEOREM ConfigurationWhole == StoreSpec => [](~overlapped => FileWhole)
<1>1. StoreInv => (~overlapped => FileWhole)
  BY DEF StoreInv
<1>. QED
  BY <1>1, StoreInvariant, PTL

(* JsonStore._save_locked, _read_json: until two programs have saved at    *)
(* the same time, every step of a program is one of a file that is written *)
(* in one step, and lost only to a start that cannot read it, or none that *)
(* anybody sees: for any number of programs, files and settings.           *)
THEOREM SavesTakeEffectAtOnce == StoreSpec => SavesAreWhole
<1> DEFINE Seen == overlapped' \/ UNCHANGED Whole!wholeVars \/ Whole!WholeNext
<1>1. StoreInv /\ [StoreNext]_storeVars => [Seen]_storeVars
  BY StepIsWhole
<1>. QED
  BY <1>1, StoreInvariant, PTL DEF StoreSpec, SavesAreWhole

(* JsonStore implements SettingsFile while no two programs save at the     *)
(* same time.                                                              *)
THEOREM StoreImplementsFile == StoreSpec /\ []~overlapped => Whole!WholeSpec
<1>1. StoreInit => Whole!WholeInit
  BY DEF StoreInit, Whole!WholeInit, Found, Saving
<1>2. StoreInv /\ ~overlapped' /\ [StoreNext]_storeVars => [Whole!WholeNext]_(Whole!wholeVars)
  <2> SUFFICES ASSUME StoreInv, ~overlapped', [StoreNext]_storeVars
               PROVE  [Whole!WholeNext]_(Whole!wholeVars)
    OBVIOUS
  <2>1. CASE StoreNext
    BY <2>1, StepIsWhole
  <2>2. CASE UNCHANGED storeVars
    BY <2>2 DEF storeVars, Whole!wholeVars, Found, Saving
  <2>. QED
    BY <2>1, <2>2
<1>. QED
  BY <1>1, <1>2, StoreInvariant, PTL DEF StoreSpec, Whole!WholeSpec

-----------------------------------------------------------------------------
(* ParallelWriter: all or nothing.                                         *)

\* Where an edit is.
EditStates == {"queued", "writing", "renaming", "ok", "failed"}

\* Nothing has been reported.
NoResults == [i \in Indices |-> "none"]

\* Every variable has its type.
WriterTypeOK ==
  /\ onDisk \in [EditedFiles -> Indices \cup {0, Old}]
  /\ edit \in [Indices -> EditStates]
  /\ results \in [Indices -> EditStates \cup {"none", "rolled back"}]
  /\ writerPc \in {"idle", "pool", "rollback"}
  /\ toUndo \in SUBSET Indices
  /\ stuck \in SUBSET EditedFiles

\* What a file holds of this call is an edit of it that went well, and every
\* edit that went well has left its text or a later one.
TextsOfEdits ==
  /\ \A f \in EditedFiles :
       onDisk[f] \in Indices => Edits[onDisk[f]] = f /\ edit[onDisk[f]] = "ok"
  /\ \A i \in Indices : edit[i] = "ok" => onDisk[Edits[i]] \in Indices

\* A file that still holds a text of this call will be taken back, or could not
\* be.
LeftToUndo ==
  /\ \E i \in Indices : edit[i] # "ok"
  /\ \A f \in EditedFiles \ stuck :
       onDisk[f] \in {0, Old} \/ \E i \in toUndo : Edits[i] = f

\* The pool leaves texts of edits that went well, the rollback what it has still
\* to take back, and the end what is promised.
WriterInv ==
  /\ WriterTypeOK
  /\ writerPc # "pool" => Busy = {}
  /\ writerPc = "pool" => stuck = {} /\ TextsOfEdits
  /\ writerPc = "rollback" => LeftToUndo
  /\ AllOrNothing

(* A text of before the call, or none, is not that of an edit.             *)
LEMMA NoIndex == 0 \notin Indices /\ Old \notin Indices
<1>1. Len(Edits) \in Nat
  BY WriterAssumption
<1>. QED
  BY <1>1 DEF Indices, Old

(* The files of a call are those its edits name.                           *)
LEMMA NamedFiles ==
  /\ \A i \in Indices : Edits[i] \in EditedFiles
  /\ \A f \in EditedFiles : \E i \in Indices : Edits[i] = f
BY DEF EditedFiles

(* Every step of the call keeps this: in the pool an edit leaves its own   *)
(* text or a failure, the rollback takes back one edit at a time.          *)
LEMMA WriterKept == WriterInv /\ [WriterNext]_writerVars => WriterInv'
<1> SUFFICES ASSUME WriterInv, [WriterNext]_writerVars PROVE WriterInv'
  OBVIOUS
<1>1. CASE UNCHANGED writerVars
  BY <1>1 DEF writerVars, WriterInv, WriterTypeOK, Busy, TextsOfEdits, LeftToUndo,
     AllOrNothing
<1>2. CASE BeginWrites
  <2>1. /\ writerPc' = "pool" /\ toUndo' = {} /\ stuck' = {}
        /\ onDisk' \in [EditedFiles -> {0, Old}]
        /\ edit' = [i \in Indices |-> "queued"] /\ results' = NoResults
    BY <1>2 DEF BeginWrites, NoResults
  <2>2. \A f \in EditedFiles : onDisk'[f] \notin Indices
    BY <2>1, NoIndex
  <2>3. TextsOfEdits'
    BY <2>1, <2>2 DEF TextsOfEdits
  <2>4. WriterTypeOK'
    BY <2>1 DEF WriterTypeOK, NoResults, EditStates
  <2>. QED
    BY <2>1, <2>3, <2>4 DEF WriterInv, AllOrNothing
<1>3. ASSUME NEW i \in Indices, StartEdit(i) \/ FillTemp(i) PROVE WriterInv'
  <2>1. writerPc = "pool" /\ UNCHANGED <<onDisk, results, writerPc, toUndo, stuck>>
    BY <1>3 DEF StartEdit, FillTemp, WriterInv, WriterTypeOK, Busy
  <2>2. /\ edit' \in [Indices -> EditStates]
        /\ \A j \in Indices : edit'[j] = "ok" <=> edit[j] = "ok"
    BY <1>3 DEF StartEdit, FillTemp, WriterInv, WriterTypeOK, EditStates
  <2>3. TextsOfEdits'
    BY <2>1, <2>2 DEF WriterInv, TextsOfEdits
  <2>. QED
    BY <2>1, <2>2, <2>3 DEF WriterInv, WriterTypeOK, AllOrNothing
<1>4. ASSUME NEW i \in Indices, RenameTemp(i) PROVE WriterInv'
  <2>1. writerPc = "pool" /\ UNCHANGED <<results, writerPc, toUndo, stuck>>
    BY <1>4 DEF RenameTemp, WriterInv, Busy
  <2>2. Edits[i] \in EditedFiles /\ \A j \in Indices : Edits[j] \in EditedFiles
    BY NamedFiles
  <2>3. /\ edit' \in [Indices -> EditStates]
        /\ onDisk' \in [EditedFiles -> Indices \cup {0, Old}]
    <3>1. \/ onDisk' = [onDisk EXCEPT ![Edits[i]] = i]
          \/ onDisk' = onDisk
      BY <1>4 DEF RenameTemp
    <3>2. \/ edit' = [edit EXCEPT ![i] = "ok"]
          \/ edit' = [edit EXCEPT ![i] = "failed"]
      BY <1>4 DEF RenameTemp
    <3>3. onDisk' \in [EditedFiles -> Indices \cup {0, Old}]
      BY <2>2, <3>1 DEF WriterInv, WriterTypeOK
    <3>4. edit' \in [Indices -> EditStates]
      BY <3>2 DEF WriterInv, WriterTypeOK, EditStates
    <3>. QED
      BY <3>3, <3>4
  <2>4. TextsOfEdits'
    <3>1. CASE UNCHANGED onDisk /\ edit' = [edit EXCEPT ![i] = "failed"]
      BY <1>4, <2>1, <3>1 DEF RenameTemp, TextsOfEdits, WriterInv, WriterTypeOK
    <3>2. CASE onDisk' = [onDisk EXCEPT ![Edits[i]] = i] /\ edit' = [edit EXCEPT ![i] = "ok"]
      <4>1. /\ \A f \in EditedFiles : onDisk'[f] = IF f = Edits[i] THEN i ELSE onDisk[f]
            /\ \A j \in Indices : edit'[j] = IF j = i THEN "ok" ELSE edit[j]
        BY <3>2 DEF WriterInv, WriterTypeOK
      <4>. QED
        BY <2>1, <2>2, <4>1 DEF WriterInv, TextsOfEdits
    <3>. QED
      BY <1>4, <3>1, <3>2 DEF RenameTemp
  <2>. QED
    BY <2>1, <2>3, <2>4 DEF WriterInv, WriterTypeOK, AllOrNothing
<1>5. CASE PoolOver
  <2>1. /\ stuck = {} /\ TextsOfEdits /\ AllOver /\ WriterTypeOK
        /\ UNCHANGED <<onDisk, edit, stuck>>
    BY <1>5 DEF PoolOver, WriterInv
  <2>2. Busy' = {}
    BY <2>1 DEF AllOver, Busy
  <2>3. CASE \A i \in Indices : edit[i] = "ok"
    <3>1. writerPc' = "idle" /\ results' = edit /\ UNCHANGED toUndo
      BY <1>5, <2>3 DEF PoolOver
    <3>2. \A f \in EditedFiles : onDisk[f] \in Indices /\ Edits[onDisk[f]] = f
      BY <2>1, <2>3, NamedFiles DEF TextsOfEdits
    <3>3. AllOrNothing'
      BY <2>1, <2>3, <3>1, <3>2 DEF AllOrNothing
    <3>4. WriterTypeOK'
      BY <2>1, <3>1 DEF WriterTypeOK
    <3>. QED
      BY <2>2, <3>1, <3>3, <3>4 DEF WriterInv
  <2>4. CASE ~ \A i \in Indices : edit[i] = "ok"
    <3>1. /\ writerPc' = "rollback" /\ UNCHANGED results
          /\ toUndo' = {i \in Indices : edit[i] = "ok"}
      BY <1>5, <2>4 DEF PoolOver
    <3>2. \A f \in EditedFiles : onDisk[f] \in Indices \cup {0, Old}
      BY <2>1 DEF WriterTypeOK
    <3>3. LeftToUndo'
      BY <2>1, <2>4, <3>1, <3>2 DEF LeftToUndo, TextsOfEdits
    <3>4. WriterTypeOK'
      BY <2>1, <3>1 DEF WriterTypeOK
    <3>. QED
      BY <2>2, <3>1, <3>3, <3>4 DEF WriterInv, AllOrNothing
  <2>. QED
    BY <2>3, <2>4
<1>6. ASSUME NEW i \in Indices, TakeBack(i) PROVE WriterInv'
  <2>1. /\ writerPc' = "rollback"
        /\ i \in toUndo /\ toUndo' = toUndo \ {i}
        /\ UNCHANGED <<edit, results>>
        /\ LeftToUndo /\ WriterTypeOK /\ Busy' = {}
    BY <1>6 DEF TakeBack, WriterInv, Busy
  <2>2. Edits[i] \in EditedFiles
    BY NamedFiles
  <2>3. CASE onDisk' = [onDisk EXCEPT ![Edits[i]] = 0] /\ UNCHANGED stuck
    <3>1. \A f \in EditedFiles : onDisk'[f] = IF f = Edits[i] THEN 0 ELSE onDisk[f]
      BY <2>1, <2>3 DEF WriterTypeOK
    <3>2. LeftToUndo'
      BY <2>1, <2>3, <3>1 DEF LeftToUndo
    <3>3. WriterTypeOK'
      BY <2>1, <2>3 DEF WriterTypeOK
    <3>. QED
      BY <2>1, <3>2, <3>3 DEF WriterInv, AllOrNothing
  <2>4. CASE stuck' = stuck \cup {Edits[i]} /\ UNCHANGED onDisk
    <3>1. LeftToUndo'
      BY <2>1, <2>4 DEF LeftToUndo
    <3>2. WriterTypeOK'
      BY <2>1, <2>2, <2>4 DEF WriterTypeOK
    <3>. QED
      BY <2>1, <3>1, <3>2 DEF WriterInv, AllOrNothing
  <2>. QED
    BY <1>6, <2>3, <2>4 DEF TakeBack
<1>7. CASE RolledBack
  <2>1. /\ writerPc' = "idle" /\ toUndo = {}
        /\ results' = [i \in Indices |-> IF edit[i] = "ok" THEN "rolled back" ELSE edit[i]]
        /\ UNCHANGED <<onDisk, edit, toUndo, stuck>>
        /\ LeftToUndo /\ WriterTypeOK /\ Busy' = {}
    BY <1>7 DEF RolledBack, WriterInv, Busy
  <2>2. WriterTypeOK'
    BY <2>1 DEF WriterTypeOK, EditStates
  <2>3. AllOrNothing'
    BY <2>1 DEF LeftToUndo, AllOrNothing
  <2>. QED
    BY <2>1, <2>2, <2>3 DEF WriterInv
<1>. QED
  BY <1>1, <1>2, <1>3, <1>4, <1>5, <1>6, <1>7 DEF WriterNext

(* write_parallel: when the call has returned, either every edit is        *)
(* reported written and every file holds an edit of it, or none is and no  *)
(* file does but those that could not be removed: for any list of edits,   *)
(* any number of workers, and failures anywhere.                           *)
THEOREM AllWrittenOrNone == WriterSpec => []AllOrNothing
<1>1. WriterInit => WriterInv
  BY NoIndex DEF WriterInit, WriterInv, WriterTypeOK, AllOrNothing, Busy, EditStates
<1>2. WriterInv => AllOrNothing
  BY DEF WriterInv
<1>. QED
  BY <1>1, <1>2, WriterKept, PTL DEF WriterSpec

-----------------------------------------------------------------------------
(* TaskFile: ends are saved.                                               *)

\* No two records of one task number: a new one takes the place of the old one.
OnePerNumber(records) == \A r, q \in records : r.number = q.number => r = q

\* The records of tasks.
TaskRecords == [number : Numbers, run : Nat, over : BOOLEAN]

\* Every variable has its type, and the sets of records are finite.
TaskFileTypeOK ==
  /\ start \in Nat
  /\ table \in SUBSET TaskRecords /\ IsFiniteSet(table)
  /\ reader \in [Numbers -> {"none", "running", "filed", "copied", "saved"}]
  /\ copy \in [Numbers -> SUBSET TaskRecords]
  /\ taskFile \in [parses : BOOLEAN, records : SUBSET TaskRecords]
  /\ disturbed \in BOOLEAN
  /\ \A i \in Numbers : IsFiniteSet(copy[i])
  /\ IsFiniteSet(taskFile.records)

\* The records of this run.
Ends == {r \in table : r.over /\ r.run = start}

\* The table has the end of every task whose reader has filed it, and nothing of
\* this run that no reader was begun for.
TableFollowsReaders ==
  /\ OnePerNumber(table)
  /\ \A r \in table : r.run = start => reader[r.number] # "none"
  /\ \A i \in Numbers : reader[i] \in {"filed", "copied", "saved"} => Record(i, start, TRUE) \in table

\* What is copied or written comes from a table of this run or of an earlier
\* one.
RecordsOfRuns ==
  /\ \A r \in table : r.run <= start
  /\ \A i \in Numbers : OnePerNumber(copy[i]) /\ \A r \in copy[i] : r.run <= start
  /\ OnePerNumber(taskFile.records) /\ \A r \in taskFile.records : r.run <= start

\* The set of records has what EndsAreSaved asks of the file for task i.
HasEnd(records, i) ==
  /\ Record(i, start, TRUE) \in records \/ Cardinality(Ends) > SaveLimit
  /\ \A r \in records : r.number = i => r.run = start

\* Of an undisturbed run, one save at a time is under way, and its copy holds
\* what the file will have to.
CopyIsLatest ==
  ~disturbed =>
    /\ \A i, j \in Numbers : reader[i] = "copied" /\ reader[j] = "copied" => i = j
    /\ \A i, j \in Numbers :
         reader[i] = "copied" /\ reader[j] \in {"copied", "saved"} => HasEnd(copy[i], j)

\* The file has what the last copy has, and a copy what the table had.
TaskFileInv ==
  TaskFileTypeOK /\ TableFollowsReaders /\ RecordsOfRuns /\ CopyIsLatest /\ EndsAreSaved

(* A file that does not parse has no records.                              *)
LEMMA CutShortIsEmpty ==
  /\ CutShort \in [parses : BOOLEAN, records : SUBSET TaskRecords]
  /\ CutShort.records = {} /\ IsFiniteSet(CutShort.records)
  /\ OnePerNumber(CutShort.records)
  /\ \A r \in CutShort.records : r.run <= start
BY FS_EmptySet DEF CutShort, OnePerNumber

(* What is left out of a full copy makes the ends of this run too many.    *)
LEMMA LeftOut ==
  ASSUME TaskFileInv, NEW kept \in SUBSET {r \in table : r.over}, Cardinality(kept) <= SaveLimit,
         \A r \in {r \in table : r.over} \ kept :
            Cardinality(kept) = SaveLimit /\ \A q \in kept : Older(r, q),
         NEW j \in Numbers, reader[j] \in {"filed", "copied", "saved"}
  PROVE  HasEnd(kept, j)
<1> DEFINE e == Record(j, start, TRUE)
<1>1. /\ e \in table /\ e.over /\ e.run = start /\ e.number = j
      /\ IsFiniteSet(table) /\ start \in Nat /\ table \in SUBSET TaskRecords
      /\ OnePerNumber(table)
  BY DEF TaskFileInv, TableFollowsReaders, TaskFileTypeOK, Record
<1>2. \A r \in kept : r.number = j => r.run = start
  BY <1>1 DEF OnePerNumber
<1>3. CASE e \in kept
  BY <1>2, <1>3 DEF HasEnd
<1>4. CASE e \notin kept
  <2>1. Cardinality(kept) = SaveLimit /\ \A q \in kept : Older(e, q)
    BY <1>1, <1>4
  <2>2. \A q \in kept : q.run = start
    <3>1. e.run = start
      BY <1>1
    <3>2. start \in Nat
      BY <1>1
    <3>3. ~(start < start)
      BY <3>2
    <3>4. e.run = start /\ ~(start < start)
      BY <3>1, <3>3
    <3> HIDE DEF e
    <3>. QED
      BY <2>1, <3>4 DEF Older
  <2>3. kept \cup {e} \subseteq Ends
    BY <1>1, <2>2 DEF Ends
  <2>4. IsFiniteSet(Ends) /\ IsFiniteSet(kept)
    BY <1>1, FS_Subset DEF Ends
  <2>5. Cardinality(kept \cup {e}) = Cardinality(kept) + 1
    BY <1>4, <2>4, FS_AddElement
  <2>6. Cardinality(kept \cup {e}) <= Cardinality(Ends) /\ Cardinality(Ends) \in Nat
    BY <2>3, <2>4, FS_Subset, FS_CardinalityType
  <2>7. Cardinality(Ends) > SaveLimit
    BY <2>1, <2>5, <2>6, TaskFileAssumption
  <2>. QED
    BY <1>2, <2>7 DEF HasEnd
<1>. QED
  BY <1>3, <1>4

(* More ends of this run do not take away what a set of records has.       *)
LEMMA EndsGrow ==
  ASSUME TaskFileInv, start' = start, Ends \subseteq Ends', IsFiniteSet(table'),
         NEW records, NEW i \in Numbers, HasEnd(records, i)
  PROVE  HasEnd(records, i)'
<1>1. IsFiniteSet(Ends')
  BY FS_Subset DEF Ends
<1>2. IsFiniteSet(Ends)
  BY <1>1, FS_Subset
<1>3. Cardinality(Ends) \in Nat /\ Cardinality(Ends') \in Nat
  BY <1>1, <1>2, FS_CardinalityType
<1>4. Cardinality(Ends) <= Cardinality(Ends')
  BY <1>1, FS_Subset
<1>5. Cardinality(Ends) > SaveLimit => Cardinality(Ends') > SaveLimit
  BY <1>3, <1>4, TaskFileAssumption
<1>. QED
  BY <1>5 DEF HasEnd, Record

(* The table of a run gets a record in the place of the one of its number. *)
LEMMA TableGetsRecord ==
  ASSUME TaskFileInv, NEW i \in Numbers, NEW over \in BOOLEAN, start' = start,
         table' = Others(i) \cup {Record(i, start, over)},
         over \/ reader[i] = "none"
  PROVE  /\ table' \in SUBSET TaskRecords /\ IsFiniteSet(table')
         /\ OnePerNumber(table')
         /\ \A r \in table' : r.run <= start /\ (r = Record(i, start, over) \/ r \in table)
         /\ Ends \subseteq Ends'
         /\ \A r \in table : r.number # i => r \in table'
<1>1. /\ table \in SUBSET TaskRecords /\ IsFiniteSet(table) /\ start \in Nat
      /\ OnePerNumber(table) /\ \A r \in table : r.run <= start
      /\ \A r \in table : r.run = start => reader[r.number] # "none"
  BY DEF TaskFileInv, TaskFileTypeOK, TableFollowsReaders, RecordsOfRuns
<1>2. Record(i, start, over) \in TaskRecords /\ Record(i, start, over).number = i
      /\ Record(i, start, over).run = start /\ Record(i, start, over).over = over
  BY <1>1 DEF Record, TaskRecords
<1>3. IsFiniteSet(Others(i))
  BY <1>1, FS_Subset DEF Others
<1>4. IsFiniteSet(table')
  BY <1>3, FS_AddElement
<1>5. table' \in SUBSET TaskRecords
  BY <1>1, <1>2 DEF Others
<1>6. OnePerNumber(table')
  BY <1>1, <1>2 DEF OnePerNumber, Others
<1>7. Ends \subseteq Ends'
  <2> SUFFICES ASSUME NEW r \in Ends PROVE r \in Ends'
    OBVIOUS
  <2>1. r \in table /\ r.over /\ r.run = start /\ reader[r.number] # "none"
        /\ r \in TaskRecords
    BY <1>1 DEF Ends
  <2>2. CASE r.number # i
    BY <2>1, <2>2 DEF Ends, Others
  <2>3. CASE r.number = i
    <3>1. over = TRUE
      BY <2>1, <2>3
    <3>2. r = Record(i, start, over)
      BY <2>1, <2>3, <3>1 DEF Record, TaskRecords
    <3>. QED
      BY <2>1, <3>2 DEF Ends
  <2>. QED
    BY <2>2, <2>3
<1>. QED
  BY <1>1, <1>2, <1>4, <1>5, <1>6, <1>7 DEF Others

(* Every step of a reader, of a save and of the end of the program keeps   *)
(* this.                                                                   *)
LEMMA TaskFileKept == TaskFileInv /\ [TaskFileNext]_fileVars => TaskFileInv'
<1> SUFFICES ASSUME TaskFileInv, [TaskFileNext]_fileVars PROVE TaskFileInv'
  OBVIOUS
<1>1. /\ TaskFileTypeOK /\ TableFollowsReaders /\ RecordsOfRuns /\ CopyIsLatest
      /\ EndsAreSaved
  BY DEF TaskFileInv
<1>2. CASE UNCHANGED fileVars
  <2>1. /\ start' = start /\ table' = table /\ reader' = reader /\ copy' = copy
        /\ taskFile' = taskFile /\ disturbed' = disturbed
    BY <1>2 DEF fileVars
  <2>2. TaskFileTypeOK' /\ TableFollowsReaders' /\ RecordsOfRuns'
    BY <1>1, <2>1 DEF TaskFileTypeOK, TableFollowsReaders, RecordsOfRuns, OnePerNumber
  <2>3. CopyIsLatest'
    BY <1>1, <2>1 DEF CopyIsLatest, HasEnd, Ends
  <2>4. EndsAreSaved'
    BY <1>1, <2>1 DEF EndsAreSaved
  <2>. QED
    BY <2>2, <2>3, <2>4 DEF TaskFileInv
<1>3. ASSUME NEW i \in Numbers, NEW over \in BOOLEAN,
             start' = start, table' = Others(i) \cup {Record(i, start, over)},
             IF over THEN reader[i] = "running" ELSE reader[i] = "none",
             reader' = [reader EXCEPT ![i] = IF over THEN "filed" ELSE "running"],
             UNCHANGED <<copy, taskFile, disturbed>>
      PROVE  TaskFileInv'
  <2>1. /\ table' \in SUBSET TaskRecords /\ IsFiniteSet(table')
        /\ OnePerNumber(table')
        /\ \A r \in table' : r.run <= start /\ (r = Record(i, start, over) \/ r \in table)
        /\ Ends \subseteq Ends'
        /\ \A r \in table : r.number # i => r \in table'
    BY <1>3, TableGetsRecord
  <2>2. /\ \A j \in Numbers : reader'[j] = IF j = i THEN IF over THEN "filed" ELSE "running"
                                          ELSE reader[j]
        /\ reader' \in [Numbers -> {"none", "running", "filed", "copied", "saved"}]
    BY <1>1, <1>3 DEF TaskFileTypeOK
  <2>3. TaskFileTypeOK'
    BY <1>1, <1>3, <2>1, <2>2 DEF TaskFileTypeOK
  <2>4. TableFollowsReaders'
    <3>1. \A r \in table' : r.run = start => reader'[r.number] # "none"
      <4> SUFFICES ASSUME NEW r \in table', r.run = start PROVE reader'[r.number] # "none"
        OBVIOUS
      <4>1. r \in TaskRecords /\ r.number \in Numbers
        BY <2>1 DEF TaskRecords
      <4>2. CASE r \in table
        BY <1>1, <2>2, <4>1, <4>2 DEF TableFollowsReaders
      <4>3. CASE r = Record(i, start, over)
        BY <2>2, <4>3 DEF Record
      <4>. QED
        BY <2>1, <4>2, <4>3
    <3>2. \A j \in Numbers : reader'[j] \in {"filed", "copied", "saved"} => Record(j, start, TRUE) \in table'
      <4> SUFFICES ASSUME NEW j \in Numbers, reader'[j] \in {"filed", "copied", "saved"}
                   PROVE  Record(j, start, TRUE) \in table'
        OBVIOUS
      <4>1. CASE j = i
        BY <1>3, <2>2, <4>1
      <4>2. CASE j # i
        <5>1. Record(j, start, TRUE) \in table
          BY <1>1, <2>2, <4>2 DEF TableFollowsReaders
        <5>2. Record(j, start, TRUE).number = j
          BY DEF Record
        <5>. QED
          BY <2>1, <4>2, <5>1, <5>2
      <4>. QED
        BY <4>1, <4>2
    <3>. QED
      BY <1>3, <2>1, <3>1, <3>2 DEF TableFollowsReaders, Record
  <2>5. RecordsOfRuns'
    BY <1>1, <1>3, <2>1 DEF RecordsOfRuns
  <2>6. \A j \in Numbers : /\ reader'[j] = "copied" <=> reader[j] = "copied"
                           /\ reader'[j] = "saved" <=> reader[j] = "saved"
    BY <1>3, <2>2
  <2>7. \A records : \A j \in Numbers : HasEnd(records, j) => HasEnd(records, j)'
    BY <1>3, <2>1, EndsGrow
  <2>8. CopyIsLatest'
    <3> SUFFICES ASSUME ~disturbed' PROVE CopyIsLatest'
      BY DEF CopyIsLatest
    <3>1. \A j, k \in Numbers : reader'[j] = "copied" /\ reader'[k] = "copied" => j = k
      BY <1>1, <1>3, <2>6 DEF CopyIsLatest
    <3>2. ASSUME NEW j \in Numbers, NEW k \in Numbers, reader'[j] = "copied",
                 reader'[k] \in {"copied", "saved"}
          PROVE  HasEnd(copy[j], k)'
      <4>1. HasEnd(copy[j], k)
        BY <1>1, <1>3, <2>6, <3>2 DEF CopyIsLatest
      <4>. QED
        BY <1>3, <2>7, <4>1 DEF HasEnd
    <3>. QED
      BY <3>1, <3>2 DEF CopyIsLatest
  <2>9. EndsAreSaved'
    <3> SUFFICES ASSUME ~disturbed', \A j \in Numbers : reader'[j] # "copied",
                        NEW j \in Numbers, reader'[j] = "saved"
                 PROVE  HasEnd(taskFile.records, j)'
      BY DEF EndsAreSaved, HasEnd, Ends
    <3>1. HasEnd(taskFile.records, j)
      BY <1>1, <1>3, <2>6 DEF EndsAreSaved, HasEnd, Ends
    <3>. QED
      BY <1>3, <2>7, <3>1 DEF HasEnd
  <2>. QED
    BY <2>3, <2>4, <2>5, <2>8, <2>9 DEF TaskFileInv
<1>4. CASE LaunchTask
  <2>1. PICK i \in Numbers \ Launched :
          /\ table' = Others(i) \cup {Record(i, start, FALSE)}
          /\ reader' = [reader EXCEPT ![i] = "running"]
    BY <1>4 DEF LaunchTask
  <2>2. reader[i] = "none" /\ i \in Numbers
    BY <2>1 DEF Launched
  <2>. QED
    BY <1>3, <1>4, <2>1, <2>2 DEF LaunchTask
<1>5. ASSUME NEW i \in Numbers, FileEnd(i) PROVE TaskFileInv'
  BY <1>3, <1>5 DEF FileEnd
<1>6. ASSUME NEW i \in Numbers, CopyRecords(i) PROVE TaskFileInv'
  <2>1. PICK kept \in SUBSET {r \in table : r.over} :
          /\ Cardinality(kept) <= SaveLimit
          /\ \A r \in {r \in table : r.over} \ kept :
               Cardinality(kept) = SaveLimit /\ \A q \in kept : Older(r, q)
          /\ copy' = [copy EXCEPT ![i] = kept]
    BY <1>6 DEF CopyRecords
  <2>2. /\ reader[i] = "filed" /\ reader' = [reader EXCEPT ![i] = "copied"]
        /\ disturbed' = (disturbed \/ \E j \in Numbers : reader[j] = "copied")
        /\ UNCHANGED <<start, table, taskFile>>
    BY <1>6 DEF CopyRecords
  <2>3. /\ \A j \in Numbers : copy'[j] = IF j = i THEN kept ELSE copy[j]
        /\ \A j \in Numbers : reader'[j] = IF j = i THEN "copied" ELSE reader[j]
    BY <1>1, <2>1, <2>2 DEF TaskFileTypeOK
  <2>4. kept \in SUBSET TaskRecords /\ IsFiniteSet(kept)
    BY <1>1, FS_Subset DEF TaskFileTypeOK
  <2>5. TaskFileTypeOK'
    <3>1. copy' \in [Numbers -> SUBSET TaskRecords]
      BY <1>1, <2>1, <2>4 DEF TaskFileTypeOK
    <3>2. reader' \in [Numbers -> {"none", "running", "filed", "copied", "saved"}]
      BY <1>1, <2>2 DEF TaskFileTypeOK
    <3>3. \A j \in Numbers : IsFiniteSet(copy'[j])
      BY <1>1, <2>3, <2>4 DEF TaskFileTypeOK
    <3>4. disturbed' \in BOOLEAN
      BY <1>1, <2>2 DEF TaskFileTypeOK
    <3>. QED
      BY <1>1, <2>2, <3>1, <3>2, <3>3, <3>4 DEF TaskFileTypeOK
  <2>6. TableFollowsReaders'
    <3>1. \A j \in Numbers : /\ reader'[j] = "none" <=> reader[j] = "none"
                             /\ reader'[j] \in {"filed", "copied", "saved"}
                                  <=> reader[j] \in {"filed", "copied", "saved"}
      BY <2>2, <2>3
    <3>2. \A r \in table : r.number \in Numbers
      BY <1>1 DEF TaskFileTypeOK, TaskRecords
    <3>. QED
      BY <1>1, <2>2, <3>1, <3>2 DEF TableFollowsReaders, OnePerNumber
  <2>7. RecordsOfRuns'
    <3>1. OnePerNumber(kept) /\ \A r \in kept : r.run <= start
      BY <1>1 DEF TableFollowsReaders, RecordsOfRuns, OnePerNumber
    <3>. QED
      BY <1>1, <2>2, <2>3, <3>1 DEF RecordsOfRuns
  <2>8. CopyIsLatest'
    <3> SUFFICES ASSUME ~disturbed' PROVE CopyIsLatest'
      BY DEF CopyIsLatest
    <3>1. \A j \in Numbers : reader'[j] = "copied" <=> j = i
      BY <2>2, <2>3
    <3>2. ASSUME NEW k \in Numbers, reader'[k] \in {"copied", "saved"}
          PROVE  HasEnd(copy[i], k)'
      <4>1. reader[k] \in {"filed", "copied", "saved"}
        BY <2>2, <2>3, <3>2
      <4>2. HasEnd(kept, k)
        BY <2>1, <4>1, LeftOut
      <4>. QED
        BY <2>2, <2>3, <4>2 DEF HasEnd, Ends
    <3>. QED
      BY <3>1, <3>2 DEF CopyIsLatest
  <2>9. EndsAreSaved'
    BY <2>3 DEF EndsAreSaved
  <2>. QED
    BY <2>5, <2>6, <2>7, <2>8, <2>9 DEF TaskFileInv
<1>7. ASSUME NEW i \in Numbers, WriteRecords(i) PROVE TaskFileInv'
  <2>1. /\ reader[i] = "copied" /\ reader' = [reader EXCEPT ![i] = "saved"]
        /\ copy' = [copy EXCEPT ![i] = {}] /\ UNCHANGED <<start, table>>
    BY <1>7 DEF WriteRecords
  <2>2. \/ /\ taskFile' = [parses |-> TRUE, records |-> copy[i]]
           /\ UNCHANGED disturbed
        \/ /\ taskFile' \in {taskFile, CutShort}
           /\ disturbed' = TRUE
    BY <1>7 DEF WriteRecords
  <2>3. /\ \A j \in Numbers : copy'[j] = IF j = i THEN {} ELSE copy[j]
        /\ \A j \in Numbers : reader'[j] = IF j = i THEN "saved" ELSE reader[j]
    BY <1>1, <2>1 DEF TaskFileTypeOK
  <2>4. IsFiniteSet({})
    BY FS_EmptySet
  <2>5. /\ taskFile' \in [parses : BOOLEAN, records : SUBSET TaskRecords]
        /\ IsFiniteSet(taskFile'.records) /\ OnePerNumber(taskFile'.records)
        /\ \A r \in taskFile'.records : r.run <= start
        /\ disturbed' \in BOOLEAN
    <3>1. CASE taskFile' = [parses |-> TRUE, records |-> copy[i]] /\ UNCHANGED disturbed
      BY <1>1, <3>1 DEF TaskFileTypeOK, RecordsOfRuns
    <3>2. CASE taskFile' = taskFile /\ disturbed' = TRUE
      BY <1>1, <3>2 DEF TaskFileTypeOK, RecordsOfRuns
    <3>3. CASE taskFile' = CutShort /\ disturbed' = TRUE
      BY <3>3, CutShortIsEmpty
    <3>. QED
      BY <2>2, <3>1, <3>2, <3>3
  <2>6. TaskFileTypeOK'
    <3>1. copy' \in [Numbers -> SUBSET TaskRecords]
      BY <1>1, <2>1 DEF TaskFileTypeOK
    <3>2. reader' \in [Numbers -> {"none", "running", "filed", "copied", "saved"}]
      BY <1>1, <2>1 DEF TaskFileTypeOK
    <3>3. \A j \in Numbers : IsFiniteSet(copy'[j])
      BY <1>1, <2>3, <2>4 DEF TaskFileTypeOK
    <3>. QED
      BY <1>1, <2>1, <2>5, <3>1, <3>2, <3>3 DEF TaskFileTypeOK
  <2>7. TableFollowsReaders'
    <3>1. \A j \in Numbers : /\ reader'[j] = "none" <=> reader[j] = "none"
                             /\ reader'[j] \in {"filed", "copied", "saved"}
                                  <=> reader[j] \in {"filed", "copied", "saved"}
      BY <2>1, <2>3
    <3>2. \A r \in table : r.number \in Numbers
      BY <1>1 DEF TaskFileTypeOK, TaskRecords
    <3>. QED
      BY <1>1, <2>1, <3>1, <3>2 DEF TableFollowsReaders, OnePerNumber
  <2>8. RecordsOfRuns'
    BY <1>1, <2>1, <2>3, <2>5 DEF RecordsOfRuns, OnePerNumber
  <2>9. CASE disturbed'
    BY <2>6, <2>7, <2>8, <2>9 DEF TaskFileInv, CopyIsLatest, EndsAreSaved
  <2>10. CASE ~disturbed'
    <3>1. ~disturbed /\ taskFile' = [parses |-> TRUE, records |-> copy[i]]
      BY <2>2, <2>10
    <3>2. \A j \in Numbers : reader'[j] # "copied"
      BY <1>1, <2>1, <2>3, <3>1 DEF CopyIsLatest
    <3>3. \A j \in Numbers : reader'[j] = "saved" => HasEnd(copy[i], j)
      BY <1>1, <2>1, <2>3, <3>1 DEF CopyIsLatest
    <3>4. taskFile'.records = copy[i]
      BY <3>1
    <3>5. EndsAreSaved'
      BY <2>1, <3>3, <3>4 DEF EndsAreSaved, HasEnd, Ends
    <3>6. CopyIsLatest'
      BY <3>2 DEF CopyIsLatest
    <3>. QED
      BY <2>6, <2>7, <2>8, <3>5, <3>6 DEF TaskFileInv
  <2>. QED
    BY <2>9, <2>10
<1>8. CASE TaskFileRestart
  <2>1. /\ start' = start + 1 /\ taskFile' \in {taskFile, CutShort}
        /\ table' = taskFile'.records /\ reader' = FreshReaders
        /\ copy' = NoCopies /\ disturbed' = FALSE
    BY <1>8 DEF TaskFileRestart
  <2>2. IsFiniteSet({})
    BY FS_EmptySet
  <2>3. /\ taskFile' \in [parses : BOOLEAN, records : SUBSET TaskRecords]
        /\ IsFiniteSet(taskFile'.records) /\ OnePerNumber(taskFile'.records)
        /\ \A r \in taskFile'.records : r.run <= start
    <3>1. CASE taskFile' = taskFile
      BY <1>1, <3>1 DEF TaskFileTypeOK, RecordsOfRuns
    <3>2. CASE taskFile' = CutShort
      BY <3>2, CutShortIsEmpty
    <3>. QED
      BY <2>1, <3>1, <3>2
  <2>4. start \in Nat /\ start' \in Nat
    BY <1>1, <2>1 DEF TaskFileTypeOK
  <2>5. \A r \in taskFile'.records : r.run \in Nat /\ r.run <= start' /\ r.run # start'
    BY <2>1, <2>3, <2>4 DEF TaskRecords
  <2>6. \A j \in Numbers : reader'[j] = "none" /\ copy'[j] = {}
    BY <2>1 DEF FreshReaders, NoCopies
  <2>7. TaskFileTypeOK'
    BY <2>1, <2>2, <2>3, <2>4, <2>6 DEF TaskFileTypeOK, FreshReaders, NoCopies
  <2>. QED
    BY <2>1, <2>3, <2>5, <2>6, <2>7 DEF TaskFileInv, TableFollowsReaders, RecordsOfRuns,
       CopyIsLatest, EndsAreSaved, OnePerNumber
<1>. QED
  BY <1>2, <1>4, <1>5, <1>6, <1>7, <1>8 DEF TaskFileNext

(* ProcessSupervisor.save_registry: while no save has overlapped another   *)
(* or failed, the end of every task whose reader has saved is in           *)
(* tasks.json, up to the limit, and no other task under its number: for    *)
(* any number of tasks, of runs, and any limit.                            *)
THEOREM EndsInTaskFile == TaskFileSpec => []EndsAreSaved
<1>1. TaskFileInit => TaskFileInv
  <2> SUFFICES ASSUME TaskFileInit PROVE TaskFileInv
    OBVIOUS
  <2>1. /\ start = 1 /\ table = {} /\ taskFile = [parses |-> TRUE, records |-> {}]
        /\ reader = FreshReaders /\ copy = NoCopies /\ disturbed = FALSE
    BY DEF TaskFileInit
  <2>2. \A i \in Numbers : reader[i] = "none" /\ copy[i] = {}
    BY <2>1 DEF FreshReaders, NoCopies
  <2>3. taskFile.records = {} /\ IsFiniteSet({})
    BY <2>1, FS_EmptySet
  <2>4. TaskFileTypeOK
    BY <2>1, <2>2, <2>3 DEF TaskFileTypeOK, FreshReaders, NoCopies
  <2>. QED
    BY <2>1, <2>2, <2>3, <2>4 DEF TaskFileInv, TableFollowsReaders, RecordsOfRuns,
       CopyIsLatest, EndsAreSaved, OnePerNumber
<1>2. TaskFileInv => EndsAreSaved
  BY DEF TaskFileInv
<1>. QED
  BY <1>1, <1>2, TaskFileKept, PTL DEF TaskFileSpec

-----------------------------------------------------------------------------
(* Retrieval: the index is coherent.                                       *)

\* What the index holds of a file.
Entries == [path : Paths, text : Texts]

\* What the vectors are of.
Embeddings == [of : Texts \cup {"none"}, made : BOOLEAN]

\* Every variable has its type.
RetrievalTypeOK ==
  /\ source \in [Paths -> Texts \cup {"none"}]
  /\ indexed \in Seq(Entries)
  /\ vectors \in [Paths -> Embeddings]
  /\ embedDb \in [Paths -> Embeddings]
  /\ toIndex \in SUBSET Entries
  /\ answered \in SUBSET Entries

\* What is promised is inductive with the types.
RetrievalInv == RetrievalTypeOK /\ IndexIsCoherent

(* After Put, everything in the index is the new entry or an older one of  *)
(* another file.                                                           *)
LEMMA PutEntries ==
  ASSUME NEW files \in Seq(Entries), NEW e \in Entries
  PROVE  /\ Put(files, e) \in Seq(Entries)
         /\ \A d \in ToSet(Put(files, e)) : d = e \/ (d \in ToSet(files) /\ d.path # e.path)
<1> DEFINE known == \E i \in 1..Len(files) : files[i].path = e.path
           there == [i \in 1..Len(files) |-> IF files[i].path = e.path THEN e ELSE files[i]]
           all == IF known THEN there ELSE Append(files, e)
           new(d) == d = e \/ (d \in ToSet(files) /\ d.path # e.path)
<1>1. Len(files) \in Nat /\ DOMAIN files = 1..Len(files)
      /\ \A i \in 1..Len(files) : files[i] \in Entries
  OBVIOUS
<1>2. there \in Seq(Entries) /\ DOMAIN there = 1..Len(files)
      /\ \A i \in DOMAIN there : there[i] = IF files[i].path = e.path THEN e ELSE files[i]
  <2>1. \A i \in 1..Len(files) : (IF files[i].path = e.path THEN e ELSE files[i]) \in Entries
    BY <1>1
  <2>. QED
    BY <1>1, <2>1, IsASeq
<1>3. all \in Seq(Entries)
  BY <1>2
<1>4. \A i \in DOMAIN all : new(all[i])
  <2>1. CASE known
    BY <1>1, <1>2, <2>1 DEF ToSet
  <2>2. CASE ~known
    <3>1. DOMAIN all = 1..(Len(files) + 1)
      BY <2>2, <1>1
    <3>2. all[Len(files) + 1] = e /\ \A i \in 1..Len(files) : all[i] = files[i]
      BY <2>2, <1>1
    <3>. QED
      BY <1>1, <2>2, <3>1, <3>2 DEF ToSet
  <2>. QED
    BY <2>1, <2>2
<1>5. CASE Len(all) > MaxFiles
  <2>1. Put(files, e) = Tail(all)
    BY <1>5 DEF Put
  <2>2. Len(all) \in Nat /\ Len(all) # 0 /\ DOMAIN all = 1..Len(all)
    BY <1>3, <1>5, RetrievalAssumption
  <2> HIDE DEF all, new
  <2>3. /\ Tail(all) \in Seq(Entries) /\ DOMAIN Tail(all) = 1..(Len(all) - 1)
        /\ \A i \in 1..(Len(all) - 1) : Tail(all)[i] = all[i + 1]
    BY <1>3, <2>2
  <2>4. \A i \in DOMAIN Tail(all) : new(Tail(all)[i])
    BY <1>4, <2>2, <2>3
  <2>5. \A d \in ToSet(Tail(all)) : new(d)
    BY <2>4 DEF ToSet
  <2>. QED
    BY <2>1, <2>3, <2>5 DEF new
<1>6. CASE ~(Len(all) > MaxFiles)
  <2>1. Put(files, e) = all
    BY <1>6 DEF Put
  <2> HIDE DEF all, new
  <2>2. \A d \in ToSet(all) : new(d)
    BY <1>4 DEF ToSet
  <2>. QED
    BY <1>3, <2>1, <2>2 DEF new
<1>. QED
  BY <1>5, <1>6

(* Indexing a file, removing it, embedding it, answering and losing the    *)
(* index keep this.                                                        *)
LEMMA RetrievalKept == RetrievalInv /\ [RetrievalNext]_indexVars => RetrievalInv'
<1> SUFFICES ASSUME RetrievalInv, [RetrievalNext]_indexVars PROVE RetrievalInv'
  OBVIOUS
<1>1. RetrievalTypeOK /\ IndexIsCoherent
  BY DEF RetrievalInv
<1>2. /\ \A d \in ToSet(indexed) : d \in Entries
      /\ ToSet(<<>>) = {}
  BY <1>1 DEF RetrievalTypeOK, ToSet
<1>3. CASE UNCHANGED indexVars
  BY <1>1, <1>3 DEF indexVars, RetrievalInv, RetrievalTypeOK, IndexIsCoherent
<1>4. CASE BuildIndex
  <2>1. PICK read \in SUBSET {f \in Paths : source[f] # "none"} :
          toIndex' = {Entry(f, source[f]) : f \in read}
    BY <1>4 DEF BuildIndex
  <2>2. \A f \in read : Entry(f, source[f]) \in Entries
    BY <1>1, <2>1 DEF RetrievalTypeOK, Entry, Entries
  <2>3. toIndex' \in SUBSET Entries
    BY <2>1, <2>2
  <2>. QED
    BY <1>1, <1>4, <2>3 DEF BuildIndex, RetrievalInv, RetrievalTypeOK, IndexIsCoherent
<1>5. CASE IndexFile
  <2>1. PICK e \in toIndex :
          /\ toIndex' = toIndex \ {e} /\ indexed' = Put(indexed, e) /\ answered' = {}
          /\ UNCHANGED source
          /\ \/ /\ e.text = "blank"
                /\ vectors' = [vectors EXCEPT ![e.path] = NoVectors]
                /\ UNCHANGED embedDb
             \/ /\ Embedded(e)
                /\ vectors' = [vectors EXCEPT ![e.path] = embedDb[e.path]]
                /\ UNCHANGED embedDb
             \/ \E made \in BOOLEAN :
                  /\ vectors' = [vectors EXCEPT ![e.path] = [of |-> e.text, made |-> made]]
                  /\ embedDb' = [embedDb EXCEPT ![e.path] = [of |-> e.text, made |-> made]]
    BY <1>5 DEF IndexFile
  <2>2. e \in Entries /\ e.path \in Paths /\ e.text \in Texts
    BY <1>1 DEF RetrievalTypeOK, Entries
  <2>3. /\ indexed' \in Seq(Entries)
        /\ \A d \in ToSet(indexed') : d = e \/ (d \in ToSet(indexed) /\ d.path # e.path)
    BY <1>1, <2>1, <2>2, PutEntries DEF RetrievalTypeOK
  <2>4. PICK v \in Embeddings : /\ vectors' = [vectors EXCEPT ![e.path] = v]
                                /\ v.of \in {e.text, "none"}
    <3>1. CASE vectors' = [vectors EXCEPT ![e.path] = NoVectors]
      <4>1. NoVectors \in Embeddings /\ NoVectors.of = "none"
        BY DEF NoVectors, Embeddings
      <4>. QED
        BY <3>1, <4>1
    <3>2. CASE Embedded(e) /\ vectors' = [vectors EXCEPT ![e.path] = embedDb[e.path]]
      <4>1. embedDb[e.path] \in Embeddings /\ embedDb[e.path].of = e.text
        BY <1>1, <2>2, <3>2 DEF Embedded, RetrievalTypeOK
      <4>. QED
        BY <3>2, <4>1
    <3>3. ASSUME NEW made \in BOOLEAN,
                 vectors' = [vectors EXCEPT ![e.path] = [of |-> e.text, made |-> made]]
          PROVE  \E v \in Embeddings : /\ vectors' = [vectors EXCEPT ![e.path] = v]
                                       /\ v.of \in {e.text, "none"}
      <4>1. [of |-> e.text, made |-> made] \in Embeddings
        BY <2>2 DEF Embeddings
      <4>. QED
        BY <3>3, <4>1
    <3>. QED
      BY <2>1, <3>1, <3>2, <3>3
  <2>5. \A f \in Paths : vectors'[f] = IF f = e.path THEN v ELSE vectors[f]
    BY <1>1, <2>4 DEF RetrievalTypeOK
  <2>6. IndexIsCoherent'
    <3>1. ASSUME NEW d \in ToSet(indexed') PROVE vectors'[d.path].of \in {d.text, "none"}
      <4>1. CASE d = e
        BY <2>2, <2>4, <2>5, <4>1
      <4>2. CASE d \in ToSet(indexed) /\ d.path # e.path
        BY <1>1, <1>2, <2>5, <4>2 DEF IndexIsCoherent, Entries
      <4>. QED
        BY <2>3, <4>1, <4>2
    <3>. QED
      BY <2>1, <3>1 DEF IndexIsCoherent
  <2>7. embedDb' \in [Paths -> Embeddings]
    <3>1. CASE UNCHANGED embedDb
      BY <1>1, <3>1 DEF RetrievalTypeOK
    <3>2. ASSUME NEW made \in BOOLEAN,
                 embedDb' = [embedDb EXCEPT ![e.path] = [of |-> e.text, made |-> made]]
          PROVE  embedDb' \in [Paths -> Embeddings]
      <4>1. [of |-> e.text, made |-> made] \in Embeddings
        BY <2>2 DEF Embeddings
      <4>. QED
        BY <1>1, <3>2, <4>1 DEF RetrievalTypeOK
    <3>. QED
      BY <2>1, <3>1, <3>2
  <2>8. vectors' \in [Paths -> Embeddings]
    BY <1>1, <2>4 DEF RetrievalTypeOK
  <2>. QED
    BY <1>1, <2>1, <2>3, <2>6, <2>7, <2>8 DEF RetrievalInv, RetrievalTypeOK
<1>6. ASSUME NEW f \in Paths, NEW text \in Texts, IndexElsewhere(f, text) PROVE RetrievalInv'
  <2>1. PICK made \in BOOLEAN : embedDb' = [embedDb EXCEPT ![f] = [of |-> text, made |-> made]]
    BY <1>6 DEF IndexElsewhere
  <2>2. [of |-> text, made |-> made] \in Embeddings
    BY DEF Embeddings
  <2>3. embedDb' \in [Paths -> Embeddings]
    BY <1>1, <2>1, <2>2 DEF RetrievalTypeOK
  <2>. QED
    BY <1>1, <1>6, <2>3 DEF IndexElsewhere, RetrievalInv, RetrievalTypeOK, IndexIsCoherent
<1>7. CASE QueryIndex
  <2>1. answered' \in {ToSet(indexed), answered} /\ UNCHANGED <<source, indexed, vectors, embedDb, toIndex>>
    BY <1>7 DEF QueryIndex
  <2>. QED
    BY <1>1, <1>2, <2>1 DEF RetrievalInv, RetrievalTypeOK, IndexIsCoherent
<1>8. CASE ClearIndex
  <2>1. indexed' = <<>> /\ answered' = {} /\ UNCHANGED <<source, vectors, embedDb, toIndex>>
    BY <1>8 DEF ClearIndex
  <2>. QED
    BY <1>1, <1>2, <2>1 DEF RetrievalInv, RetrievalTypeOK, IndexIsCoherent
<1>9. CASE SourceChanges
  BY <1>1, <1>9 DEF SourceChanges, RetrievalInv, RetrievalTypeOK, IndexIsCoherent
<1>10. CASE IndexLost
  <2>1. NoVectors \in Embeddings
    BY DEF NoVectors, Embeddings
  <2>2. /\ indexed' = <<>> /\ answered' = {} /\ toIndex' = {} /\ UNCHANGED <<source, embedDb>>
        /\ vectors' = [f \in Paths |-> NoVectors]
    BY <1>10 DEF IndexLost
  <2>. QED
    BY <1>1, <1>2, <2>1, <2>2 DEF RetrievalInv, RetrievalTypeOK, IndexIsCoherent
<1>. QED
  BY <1>3, <1>4, <1>5, <1>6, <1>7, <1>8, <1>9, <1>10 DEF RetrievalNext

(* SemanticRAG.add, RAG.add, RAG.query: every embedding is of the text     *)
(* that is indexed under its name, and a cached answer was given from the  *)
(* files that are there now: for any files, texts, and limit of the index, *)
(* in whatever order they change and are indexed.                          *)
THEOREM IndexCoherent == RetrievalSpec => []IndexIsCoherent
<1>1. RetrievalInit => RetrievalInv
  BY DEF RetrievalInit, RetrievalInv, RetrievalTypeOK, IndexIsCoherent, ToSet, NoVectors, Embeddings
<1>2. RetrievalInv => IndexIsCoherent
  BY DEF RetrievalInv
<1>. QED
  BY <1>1, <1>2, RetrievalKept, PTL DEF RetrievalSpec

-----------------------------------------------------------------------------
(* Trail: the trail keeps the last records, and their order.               *)

\* The number of the elements of S above i.
AboveIn(S, i) == Cardinality({j \in S : j > i})

(* Of a finite set of numbers, one has as many above it as one says.       *)
LEMMA Ranks ==
  ASSUME NEW S \in SUBSET Int, IsFiniteSet(S)
  PROVE  /\ \A n \in 1..Cardinality(S) : \E i \in S : AboveIn(S, i) = n - 1
         /\ \A i, j \in S : i < j => AboveIn(S, j) < AboveIn(S, i)
         /\ \A i \in S : AboveIn(S, i) \in Nat /\ AboveIn(S, i) < Cardinality(S)
<1> DEFINE Up(i) == {j \in S : j > i}
           card == Cardinality(S)
<1>1. card \in Nat
  BY FS_CardinalityType
<1> HIDE DEF card
<1>2. ASSUME NEW i \in S PROVE IsFiniteSet(Up(i)) /\ Cardinality(Up(i)) \in Nat /\ Cardinality(Up(i)) < card
  <2>1. Up(i) \in SUBSET S /\ Up(i) # S
    OBVIOUS
  <2> HIDE DEF Up
  <2>2. IsFiniteSet(Up(i)) /\ Cardinality(Up(i)) <= card /\ Cardinality(Up(i)) # card
    BY <2>1, FS_Subset DEF card
  <2>3. Cardinality(Up(i)) \in Nat
    BY <2>2, FS_CardinalityType
  <2>4. QED
    BY <1>1, <2>2, <2>3
<1>3. ASSUME NEW i \in S, NEW j \in S, i < j PROVE Cardinality(Up(j)) < Cardinality(Up(i))
  <2>1. Up(j) \in SUBSET Up(i) /\ j \in Up(i) /\ j \notin Up(j)
    <3>1. i \in Int /\ j \in Int /\ \A k \in S : k \in Int
      OBVIOUS
    <3>2. \A k \in Up(j) : k \in Up(i)
      BY <1>3, <3>1
    <3>3. j \in Up(i) /\ j \notin Up(j)
      BY <1>3, <3>1
    <3> HIDE DEF Up
    <3>4. QED
      BY <3>2, <3>3
  <2> HIDE DEF Up
  <2>2. IsFiniteSet(Up(i)) /\ Cardinality(Up(i)) \in Nat /\ Cardinality(Up(j)) \in Nat
    BY <1>2
  <2>3. Cardinality(Up(j)) <= Cardinality(Up(i)) /\ (Cardinality(Up(i)) = Cardinality(Up(j)) => Up(i) = Up(j))
    BY <2>1, <2>2, FS_Subset
  <2>4. QED
    BY <2>1, <2>2, <2>3
<1>4. ASSUME NEW n \in 1..card PROVE \E i \in S : Cardinality(Up(i)) = n - 1
  <2> DEFINE T == 0..(card - 1)
             rank == [i \in S |-> Cardinality(Up(i))]
  <2> HIDE DEF Up
  <2>1. IsFiniteSet(T) /\ Cardinality(T) = card
    <3>1. 0 \in Int /\ card - 1 \in Int /\ ~(0 > card - 1) /\ (card - 1) - 0 + 1 = card
      BY <1>1, <1>4
    <3>2. QED
      BY <3>1, FS_Interval
  <2>2. rank \in [S -> T]
    BY <1>1, <1>2
  <2>3. \A i, j \in S : rank[i] = rank[j] => i = j
    <3> SUFFICES ASSUME NEW i \in S, NEW j \in S, i # j PROVE rank[i] # rank[j]
      OBVIOUS
    <3>1. i \in Int /\ j \in Int
      OBVIOUS
    <3>2. i < j \/ j < i
      BY <3>1
    <3>3. QED
      BY <1>2, <1>3, <3>2
  <2>4. rank \in Injection(S, T)
    BY <2>2, <2>3 DEF Injection, IsInjective
  <2> HIDE DEF T, rank
  <2>5. rank \in Surjection(S, T)
    BY <2>1, <2>4, FS_Injection DEF card
  <2>6. n - 1 \in T
    BY <1>1, <1>4 DEF T
  <2>7. \E i \in S : rank[i] = n - 1
    BY <2>5, <2>6 DEF Surjection
  <2>8. QED
    BY <2>7 DEF rank
<1>5. QED
  BY <1>2, <1>3, <1>4 DEF AboveIn, card

-----------------------------------------------------------------------------

\* The records.
Records == [sid : Nat, event : EventNames \cup {"none"}, number : Nat]

\* Where a program is in log_event.
LoggerStates == [sid : Nat, at : {"idle", "check", "rename", "prune", "open", "write"},
                 event : EventNames \cup {"none"}, file : Nat]

\* The file that is written to now is the last one; those put aside are others,
\* the later the higher.
FilesOK ==
  /\ filed \in Seq(Seq(Records)) /\ second \in Nat /\ trail \in {0, Len(filed)}
  /\ DOMAIN rotated \in SUBSET (0..second)
  /\ rotated = [t \in DOMAIN rotated |-> rotated[t]]
  /\ \A t \in DOMAIN rotated : rotated[t] \in 1..Len(filed) /\ rotated[t] # trail
  /\ \A t, u \in DOMAIN rotated : t < u => rotated[t] < rotated[u]

\* No two programs write for one session.
LoggersOK ==
  /\ appended \in Seq(Nat)
  /\ logger \in [Loggers -> LoggerStates]
  /\ \A p \in Loggers : logger[p].sid \in 1..Len(appended)
  /\ \A p, q \in Loggers : p # q => logger[p].sid # logger[q].sid

\* Every record is one that its session has written, and all of those are
\* somewhere.
RecordsWritten ==
  /\ \A i \in 1..Len(filed) : \A k \in 1..Len(filed[i]) :
       /\ filed[i][k].sid \in 1..Len(appended)
       /\ filed[i][k].number \in 1..appended[filed[i][k].sid]
  /\ \A s \in 1..Len(appended) : \A n \in 1..appended[s] :
       \E i \in 1..Len(filed) : \E k \in 1..Len(filed[i]) :
         filed[i][k].sid = s /\ filed[i][k].number = n

\* A session's records are in the order of the files and lines.
RecordsInOrder ==
  \A i, j \in 1..Len(filed) : \A k \in 1..Len(filed[i]) : \A l \in 1..Len(filed[j]) :
    (filed[i][k].sid = filed[j][l].sid /\ (i < j \/ (i = j /\ k < l)))
      => filed[i][k].number < filed[j][l].number

\* A program that is about to write has nothing in later files than the one it
\* has opened.
OpenIsLast ==
  \A p \in Loggers : logger[p].at = "write" =>
    /\ logger[p].file \in 1..Len(filed)
    /\ \A i \in 1..Len(filed) : \A k \in 1..Len(filed[i]) :
         filed[i][k].sid = logger[p].sid => i <= logger[p].file

\* The files that can still be read.
Readable == {rotated[t] : t \in DOMAIN rotated} \cup ({trail} \ {0})

\* Files are lost from the oldest on, and only when enough have been put aside.
LatestReadable ==
  ~lapse => /\ \A i \in Readable : \A j \in i..Len(filed) : j \in Readable
            /\ Readable = 1..Len(filed) \/ Cardinality(DOMAIN rotated) >= MaxKeep

\* What has been shown of any session is in order.
ToldInOrder == \A s \in Nat : ShownInOrder(s)

\* What the order and the completeness of the trail rest on.
TrailInv ==
  /\ FilesOK /\ LoggersOK /\ RecordsWritten /\ RecordsInOrder /\ OpenIsLast
  /\ LatestReadable /\ ToldInOrder

-----------------------------------------------------------------------------

(* What a file can be seen to have.                                        *)
LEMMA FilesAreRecords ==
  ASSUME FilesOK
  PROVE  /\ Len(filed) \in Nat /\ DOMAIN filed = 1..Len(filed)
         /\ \A i \in 1..Len(filed) : /\ filed[i] \in Seq(Records) /\ Len(filed[i]) \in Nat
                                     /\ DOMAIN filed[i] = 1..Len(filed[i])
                                     /\ \A k \in 1..Len(filed[i]) : filed[i][k] \in Records
<1>1. Len(filed) \in Nat /\ DOMAIN filed = 1..Len(filed) /\ \A i \in 1..Len(filed) : filed[i] \in Seq(Records)
  BY DEF FilesOK
<1>2. QED
  BY <1>1

(* The names' files are the readable ones.                                 *)
LEMMA NamesAndFiles ==
  ASSUME FilesOK
  PROVE  /\ \A name \in FileNames : \E i \in Readable : FileOf(name) = filed[i]
         /\ \A i \in Readable : \E name \in FileNames : FileOf(name) = filed[i]
         /\ Readable \subseteq 1..Len(filed)
<1>1. /\ \A t \in DOMAIN rotated : rotated[t] \in 1..Len(filed) /\ t \in 0..second
      /\ trail \in {0, Len(filed)} /\ second \in Nat /\ Len(filed) \in Nat
  BY FilesAreRecords DEF FilesOK
<1>2. second + 1 \notin DOMAIN rotated
  BY <1>1
<1>3. \A name \in FileNames : \E i \in Readable : FileOf(name) = filed[i]
  BY <1>1, <1>2 DEF FileNames, FileOf, Readable
<1>4. \A i \in Readable : \E name \in FileNames : FileOf(name) = filed[i]
  BY <1>1, <1>2 DEF FileNames, FileOf, Readable
<1>5. Readable \subseteq 1..Len(filed)
  BY <1>1 DEF Readable
<1>6. QED
  BY <1>3, <1>4, <1>5

(* Files of later names are later.                                         *)
LEMMA NamesInOrder ==
  ASSUME FilesOK
  PROVE  \A name, other \in FileNames : name < other =>
           \E i, j \in Readable : i < j /\ FileOf(name) = filed[i] /\ FileOf(other) = filed[j]
<1> SUFFICES ASSUME NEW name \in FileNames, NEW other \in FileNames, name < other
             PROVE  \E i, j \in Readable : i < j /\ FileOf(name) = filed[i] /\ FileOf(other) = filed[j]
  OBVIOUS
<1>1. /\ \A t \in DOMAIN rotated : rotated[t] \in 1..Len(filed) /\ t \in 0..second /\ rotated[t] # trail
      /\ trail \in {0, Len(filed)} /\ second \in Nat /\ Len(filed) \in Nat
      /\ \A t, u \in DOMAIN rotated : t < u => rotated[t] < rotated[u]
  BY FilesAreRecords DEF FilesOK
<1>2. name \in DOMAIN rotated
  BY <1>1 DEF FileNames
<1>3. CASE other \in DOMAIN rotated
  BY <1>1, <1>2, <1>3 DEF FileOf, Readable
<1>4. CASE other \notin DOMAIN rotated
  <2>1. trail # 0 /\ trail = Len(filed) /\ rotated[name] < trail
    BY <1>1, <1>2, <1>4 DEF FileNames
  <2>2. FileOf(other) = filed[trail] /\ FileOf(name) = filed[rotated[name]]
    BY <1>2, <1>4 DEF FileOf
  <2>3. QED
    BY <1>2, <2>1, <2>2 DEF Readable
<1>5. QED
  BY <1>3, <1>4

(* The places that can still be read.                                      *)
LEMMA PlacesThere ==
  ASSUME NEW sid
  PROVE  \A place : place \in StillThere(sid) <=>
           \E name \in FileNames : \E k \in RecordsOf(sid, FileOf(name)) : place = <<name, k>>
BY DEF StillThere

(* The files being in the order of their names, this is all that is        *)
(* promised.                                                               *)
LEMMA KeptFollows == TrailInv => TrailKept
<1> SUFFICES ASSUME TrailInv, NEW sid \in DOMAIN appended
             PROVE  (~lapse => LastRecordsThere(sid)) /\ ShownInOrder(sid)
  BY DEF TrailKept
<1>1. FilesOK /\ LoggersOK /\ RecordsWritten /\ RecordsInOrder /\ LatestReadable /\ ToldInOrder
  BY DEF TrailInv
<1>2. /\ sid \in 1..Len(appended) /\ appended[sid] \in Nat /\ Len(appended) \in Nat /\ sid \in Nat
      /\ Len(filed) \in Nat
  BY <1>1, FilesAreRecords DEF LoggersOK
<1>3. ShownInOrder(sid)
  BY <1>1, <1>2 DEF ToldInOrder
<1> DEFINE left == StillThere(sid)
           numbers == {NumberAt(place) : place \in left}
<1>4. \A name \in FileNames : \A k \in RecordsOf(sid, FileOf(name)) :
        NumberAt(<<name, k>>) = FileOf(name)[k].number
  BY DEF NumberAt
<1>5. Readable \subseteq 1..Len(filed)
  BY <1>1, NamesAndFiles
<1>6. \A n : n \in numbers <=> \E i \in Readable : \E k \in 1..Len(filed[i]) :
               filed[i][k].sid = sid /\ n = filed[i][k].number
  <2>1. ASSUME NEW n \in numbers
        PROVE  \E i \in Readable : \E k \in 1..Len(filed[i]) :
                 filed[i][k].sid = sid /\ n = filed[i][k].number
    <3>1. PICK name \in FileNames : \E k \in RecordsOf(sid, FileOf(name)) : n = NumberAt(<<name, k>>)
      BY PlacesThere
    <3>2. PICK k \in RecordsOf(sid, FileOf(name)) : n = NumberAt(<<name, k>>)
      BY <3>1
    <3>3. PICK i \in Readable : FileOf(name) = filed[i]
      BY <1>1, NamesAndFiles
    <3>4. k \in 1..Len(filed[i]) /\ filed[i][k].sid = sid
      BY <1>1, <1>5, <3>3, FilesAreRecords DEF RecordsOf
    <3>5. QED
      BY <1>4, <3>2, <3>3, <3>4
  <2>2. ASSUME NEW i \in Readable, NEW k \in 1..Len(filed[i]), filed[i][k].sid = sid
        PROVE  filed[i][k].number \in numbers
    <3>1. PICK name \in FileNames : FileOf(name) = filed[i]
      BY <1>1, NamesAndFiles
    <3>2. k \in RecordsOf(sid, FileOf(name))
      BY <1>1, <1>5, <2>2, <3>1, FilesAreRecords DEF RecordsOf
    <3>3. <<name, k>> \in left /\ NumberAt(<<name, k>>) = filed[i][k].number
      BY <1>4, <3>1, <3>2, PlacesThere
    <3>4. QED
      BY <3>3
  <2>3. QED
    BY <2>1, <2>2
<1> HIDE DEF numbers
<1>7. \A m \in 1..appended[sid] :
        \E j \in 1..Len(filed) : \E l \in 1..Len(filed[j]) : filed[j][l].sid = sid /\ filed[j][l].number = m
  BY <1>1, <1>2 DEF RecordsWritten
<1>8. ASSUME NEW place \in left, NEW other \in left, Above(place, other)
      PROVE  NumberAt(place) < NumberAt(other)
  <2>1. PICK name \in FileNames : \E k \in RecordsOf(sid, FileOf(name)) : place = <<name, k>>
    BY PlacesThere
  <2>2. PICK k \in RecordsOf(sid, FileOf(name)) : place = <<name, k>>
    BY <2>1
  <2>3. PICK later \in FileNames : \E l \in RecordsOf(sid, FileOf(later)) : other = <<later, l>>
    BY PlacesThere
  <2>4. PICK l \in RecordsOf(sid, FileOf(later)) : other = <<later, l>>
    BY <2>3
  <2>5. PICK i \in Readable, j \in Readable :
          FileOf(name) = filed[i] /\ FileOf(later) = filed[j] /\ (i < j \/ (i = j /\ k < l))
    <3>1. CASE name < later
      BY <1>1, <3>1, NamesInOrder
    <3>2. CASE name = later /\ k < l
      BY <1>1, <3>2, NamesAndFiles
    <3>3. QED
      BY <1>8, <2>2, <2>4, <3>1, <3>2 DEF Above
  <2>6. /\ i \in 1..Len(filed) /\ k \in 1..Len(filed[i]) /\ filed[i][k].sid = sid
        /\ j \in 1..Len(filed) /\ l \in 1..Len(filed[j]) /\ filed[j][l].sid = sid
    BY <1>1, <1>5, <2>2, <2>4, <2>5, FilesAreRecords DEF RecordsOf
  <2>7. filed[i][k].number < filed[j][l].number
    BY <1>1, <2>5, <2>6 DEF RecordsInOrder
  <2>8. QED
    BY <1>4, <2>2, <2>4, <2>5, <2>7
<1>9. ASSUME ~lapse, NEW n \in numbers PROVE n \in 1..appended[sid] /\ n..appended[sid] \subseteq numbers
  <2>1. PICK i \in Readable : \E k \in 1..Len(filed[i]) : filed[i][k].sid = sid /\ n = filed[i][k].number
    BY <1>6
  <2>2. PICK k \in 1..Len(filed[i]) : filed[i][k].sid = sid /\ n = filed[i][k].number
    BY <2>1
  <2>3. n \in 1..appended[sid]
    BY <1>1, <1>5, <2>2 DEF RecordsWritten
  <2>4. ASSUME NEW m \in n..appended[sid] PROVE m \in numbers
    <3>1. m \in 1..appended[sid]
      BY <1>2, <2>3
    <3>2. PICK j \in 1..Len(filed) : \E l \in 1..Len(filed[j]) : filed[j][l].sid = sid /\ filed[j][l].number = m
      BY <1>7, <3>1
    <3>3. PICK l \in 1..Len(filed[j]) : filed[j][l].sid = sid /\ filed[j][l].number = m
      BY <3>2
    <3>4. ~(j < i)
      <4>1. j < i => m < n
        BY <1>1, <1>5, <2>2, <3>3 DEF RecordsInOrder
      <4>2. QED
        BY <1>2, <2>3, <4>1
    <3>5. j \in Readable
      <4>1. i \in Nat /\ j \in i..Len(filed)
        BY <1>2, <1>5, <3>4
      <4>2. QED
        BY <1>1, <1>9, <4>1 DEF LatestReadable
    <3>6. QED
      BY <1>6, <3>3, <3>5
  <2>5. QED
    BY <2>3, <2>4
<1>10. ASSUME ~lapse PROVE numbers = 1..appended[sid] \/ Cardinality(DOMAIN rotated) >= MaxKeep
  <2>1. CASE Readable = 1..Len(filed)
    <3>1. \A m \in 1..appended[sid] : m \in numbers
      BY <1>6, <1>7, <2>1
    <3>2. QED
      BY <1>9, <1>10, <3>1
  <2>2. QED
    BY <1>1, <1>10, <2>1 DEF LatestReadable
<1>11. QED
  BY <1>3, <1>8, <1>9, <1>10 DEF LastRecordsThere, numbers

-----------------------------------------------------------------------------

(* Who is shown nothing is shown it in order.                              *)
LEMMA NothingTold == told' = <<>> => ToldInOrder'
BY DEF ToldInOrder, ShownInOrder, RecordsOf

(* A step that leaves the records alone and has nobody open a file.        *)
LEMMA LoggerSteps ==
  ASSUME TrailInv, UNCHANGED <<filed, appended>>, told' = <<>>,
         logger' \in [Loggers -> LoggerStates],
         \A q \in Loggers : /\ logger'[q].sid = logger[q].sid
                            /\ logger'[q].at = "write" =>
                                 logger[q].at = "write" /\ logger'[q].file = logger[q].file
  PROVE  LoggersOK' /\ RecordsWritten' /\ RecordsInOrder' /\ OpenIsLast' /\ ToldInOrder'
<1>1. LoggersOK' /\ OpenIsLast'
  BY DEF TrailInv, LoggersOK, OpenIsLast
<1>2. RecordsWritten' /\ RecordsInOrder'
  BY DEF TrailInv, RecordsWritten, RecordsInOrder
<1>3. QED
  BY <1>1, <1>2, NothingTold

(* A program that goes on to any place but that of the write.              *)
LEMMA GoesOn ==
  ASSUME TrailInv, NEW p \in Loggers,
         NEW place \in {"idle", "check", "rename", "prune", "open"}, Goes(p, place)
  PROVE  /\ logger' \in [Loggers -> LoggerStates]
         /\ \A q \in Loggers : /\ logger'[q].sid = logger[q].sid
                               /\ logger'[q].at = "write" =>
                                    logger[q].at = "write" /\ logger'[q].file = logger[q].file
<1>1. logger \in [Loggers -> LoggerStates]
  BY DEF TrailInv, LoggersOK
<1>2. /\ logger' = [logger EXCEPT ![p] = [logger[p] EXCEPT !.at = place]]
      /\ [logger[p] EXCEPT !.at = place] \in LoggerStates
      /\ [logger[p] EXCEPT !.at = place].sid = logger[p].sid
      /\ [logger[p] EXCEPT !.at = place].at = place
  BY <1>1 DEF Goes, LoggerStates
<1>3. QED
  BY <1>1, <1>2

(* A program begins to log, or looks at the length.                        *)
LEMMA LogEventKept ==
  ASSUME TrailInv, NEW p \in Loggers, LogEvent(p) \/ CheckLength(p) PROVE TrailInv'
<1>1. UNCHANGED <<trail, filed, rotated, second, appended, lapse>> /\ told' = <<>>
  BY DEF LogEvent, CheckLength, trailFiles, ShowsNothing
<1>2. FilesOK' /\ LatestReadable'
  BY <1>1 DEF TrailInv, FilesOK, LatestReadable, Readable
<1>3. /\ logger' \in [Loggers -> LoggerStates]
      /\ \A q \in Loggers : /\ logger'[q].sid = logger[q].sid
                            /\ logger'[q].at = "write" =>
                                 logger[q].at = "write" /\ logger'[q].file = logger[q].file
  <2>1. CASE LogEvent(p)
    <3>1. logger \in [Loggers -> LoggerStates]
      BY DEF TrailInv, LoggersOK
    <3>2. PICK e \in EventNames : logger' = [logger EXCEPT ![p].at = "check", ![p].event = e]
      BY <2>1 DEF LogEvent
    <3> DEFINE new == [logger[p] EXCEPT !.at = "check", !.event = e]
    <3>3. /\ logger' = [logger EXCEPT ![p] = new] /\ new \in LoggerStates
          /\ new.sid = logger[p].sid /\ new.at = "check"
      BY <3>1, <3>2 DEF LoggerStates
    <3> HIDE DEF new
    <3>4. QED
      BY <3>1, <3>3
  <2>2. CASE CheckLength(p)
    <3>1. \E place \in {"rename", "open"} : Goes(p, place)
      BY <2>2 DEF CheckLength
    <3>2. QED
      BY <3>1, GoesOn
  <2>3. QED
    BY <2>1, <2>2
<1>4. QED
  BY <1>1, <1>2, <1>3, LoggerSteps DEF TrailInv

(* Sets of names are finite.                                               *)
LEMMA NamesAreFinite ==
  ASSUME FilesOK
  PROVE  /\ DOMAIN rotated \in SUBSET Int /\ IsFiniteSet(DOMAIN rotated)
         /\ Cardinality(DOMAIN rotated) \in Nat
<1>1. second \in Nat /\ DOMAIN rotated \in SUBSET (0..second)
  BY DEF FilesOK
<1>2. IsFiniteSet(0..second)
  BY <1>1, FS_Interval
<1>3. IsFiniteSet(DOMAIN rotated)
  BY <1>1, <1>2, FS_Subset
<1>4. QED
  BY <1>1, <1>3, FS_CardinalityType

(* The file is put aside under a new name: it was the last, and what is    *)
(* there already is older.                                                 *)
LEMMA RenameKept ==
  ASSUME TrailInv, NEW p \in Loggers, RenameTrail(p) PROVE TrailInv'
<1>1. FilesOK /\ LatestReadable
  BY DEF TrailInv
<1>2. UNCHANGED <<filed, second, appended>> /\ told' = <<>>
  BY DEF RenameTrail, ShowsNothing
<1>3. \E place \in {"open", "prune"} : Goes(p, place)
  BY DEF RenameTrail
<1>4. LoggersOK' /\ RecordsWritten' /\ RecordsInOrder' /\ OpenIsLast' /\ ToldInOrder'
  BY <1>2, <1>3, GoesOn, LoggerSteps
<1>5. CASE trail = 0
  <2>1. UNCHANGED <<trail, rotated, lapse>>
    BY <1>5 DEF RenameTrail
  <2>2. FilesOK' /\ LatestReadable'
    BY <1>1, <1>2, <2>1 DEF FilesOK, LatestReadable, Readable
  <2>3. QED
    BY <1>4, <2>2 DEF TrailInv
<1>6. CASE trail # 0
  <2>1. /\ trail' = 0
        /\ rotated' = [t \in DOMAIN rotated \cup {second} |-> IF t = second THEN trail ELSE rotated[t]]
        /\ lapse' = (lapse \/ second \in DOMAIN rotated)
    BY <1>6 DEF RenameTrail
  <2>2. /\ trail = Len(filed) /\ trail \in 1..Len(filed) /\ second \in Nat /\ Len(filed) \in Nat
        /\ \A t \in DOMAIN rotated : t \in 0..second /\ rotated[t] \in 1..Len(filed) /\ rotated[t] < trail
        /\ \A t, u \in DOMAIN rotated : t < u => rotated[t] < rotated[u]
    BY <1>1, <1>6, FilesAreRecords DEF FilesOK
  <2>3. /\ DOMAIN rotated' = DOMAIN rotated \cup {second}
        /\ rotated'[second] = trail /\ \A t \in DOMAIN rotated : t # second => rotated'[t] = rotated[t]
        /\ rotated' = [t \in DOMAIN rotated' |-> rotated'[t]]
    BY <2>1
  <2>4. FilesOK'
    <3>1. filed' \in Seq(Seq(Records)) /\ second' \in Nat /\ trail' \in {0, Len(filed')}
      BY <1>1, <1>2, <2>1 DEF FilesOK
    <3>2. DOMAIN rotated' \in SUBSET (0..second')
      BY <1>2, <2>2, <2>3
    <3>3. \A t \in DOMAIN rotated' : rotated'[t] \in 1..Len(filed') /\ rotated'[t] # trail'
      BY <1>2, <2>1, <2>2, <2>3
    <3>4. ASSUME NEW t \in DOMAIN rotated', NEW u \in DOMAIN rotated', t < u
          PROVE  rotated'[t] < rotated'[u]
      <4>1. t # second /\ t \in DOMAIN rotated
        BY <2>2, <2>3, <3>4
      <4>2. QED
        BY <2>2, <2>3, <3>4, <4>1
    <3>5. QED
      BY <2>3, <3>1, <3>2, <3>3, <3>4 DEF FilesOK
  <2>5. LatestReadable'
    <3> SUFFICES ASSUME ~lapse' PROVE
          /\ \A i \in Readable' : \A j \in i..Len(filed') : j \in Readable'
          /\ Readable' = 1..Len(filed') \/ Cardinality(DOMAIN rotated') >= MaxKeep
      BY DEF LatestReadable
    <3>1. ~lapse /\ second \notin DOMAIN rotated
      BY <2>1
    <3>2. Readable' = Readable
      <4>1. \A i : i \in Readable' <=> \E t \in DOMAIN rotated' : i = rotated'[t]
        BY <2>1 DEF Readable
      <4>2. \A i : i \in Readable <=> i = trail \/ \E t \in DOMAIN rotated : i = rotated[t]
        BY <2>2 DEF Readable
      <4>3. \A t \in DOMAIN rotated : t # second
        BY <3>1
      <4>4. \A i : i \in Readable' <=> i \in Readable
        BY <2>3, <4>1, <4>2, <4>3
      <4>5. QED
        BY <4>4
    <3>3. Cardinality(DOMAIN rotated) <= Cardinality(DOMAIN rotated')
      <4>1. IsFiniteSet(DOMAIN rotated')
        BY <1>1, <2>3, NamesAreFinite, FS_AddElement
      <4>2. DOMAIN rotated \in SUBSET DOMAIN rotated'
        BY <2>3
      <4>3. QED
        BY <4>1, <4>2, FS_Subset
    <3>4. Cardinality(DOMAIN rotated) \in Nat /\ Cardinality(DOMAIN rotated') \in Nat /\ MaxKeep \in Nat
      <4>1. Cardinality(DOMAIN rotated) \in Nat
        BY <1>1, NamesAreFinite
      <4>2. IsFiniteSet(DOMAIN rotated')
        BY <1>1, <2>3, NamesAreFinite, FS_AddElement
      <4>3. QED
        BY <4>1, <4>2, FS_CardinalityType, TrailAssumption
    <3>5. QED
      BY <1>1, <1>2, <3>1, <3>2, <3>3, <3>4 DEF LatestReadable
  <2>6. QED
    BY <1>4, <2>4, <2>5 DEF TrailInv
<1>7. QED
  BY <1>5, <1>6

(* What is removed are the oldest, and when any is, enough are left.       *)
LEMMA SurplusGoes ==
  ASSUME NEW S \in SUBSET Int, IsFiniteSet(S)
  PROVE  /\ \A t \in S \ Surplus(S) : \A u \in S : t < u => u \in S \ Surplus(S)
         /\ Surplus(S) # {} => Cardinality(S \ Surplus(S)) >= MaxKeep
<1>1. MaxKeep \in Nat /\ MaxKeep >= 1
  BY TrailAssumption
<1>2. \A t \in S : t \in Surplus(S) <=> AboveIn(S, t) >= MaxKeep
  BY DEF Surplus, AboveIn
<1>3. /\ \A i, j \in S : i < j => AboveIn(S, j) < AboveIn(S, i)
      /\ \A i \in S : AboveIn(S, i) \in Nat /\ AboveIn(S, i) < Cardinality(S)
      /\ Cardinality(S) \in Nat
  BY Ranks, FS_CardinalityType
<1>4. ASSUME NEW t \in S \ Surplus(S), NEW u \in S, t < u PROVE u \in S \ Surplus(S)
  BY <1>1, <1>2, <1>3, <1>4
<1>5. ASSUME Surplus(S) # {} PROVE Cardinality(S \ Surplus(S)) >= MaxKeep
  <2>1. PICK t \in S : AboveIn(S, t) >= MaxKeep
    BY <1>2, <1>5 DEF Surplus
  <2>2. MaxKeep + 1 \in 1..Cardinality(S)
    BY <1>1, <1>3, <2>1
  <2>3. PICK last \in S : AboveIn(S, last) = MaxKeep
    <3>1. \E i \in S : AboveIn(S, i) = (MaxKeep + 1) - 1
      BY <2>2, Ranks
    <3>2. (MaxKeep + 1) - 1 = MaxKeep
      BY <1>1
    <3>3. QED
      BY <3>1, <3>2
  <2> DEFINE above == {u \in S : u > last}
  <2>4. above \in SUBSET (S \ Surplus(S))
    <3> SUFFICES ASSUME NEW u \in S, u > last PROVE u \notin Surplus(S)
      OBVIOUS
    <3>1. u \in Int /\ last \in Int
      OBVIOUS
    <3>2. AboveIn(S, u) < MaxKeep
      BY <1>3, <2>3, <3>1
    <3>3. QED
      BY <1>1, <1>2, <1>3, <3>2
  <2>5. IsFiniteSet(S \ Surplus(S))
    BY FS_Subset
  <2>6. Cardinality(above) = MaxKeep
    BY <2>3 DEF AboveIn
  <2> HIDE DEF above
  <2>7. Cardinality(above) <= Cardinality(S \ Surplus(S)) /\ Cardinality(S \ Surplus(S)) \in Nat
    BY <2>4, <2>5, FS_Subset, FS_CardinalityType
  <2>8. QED
    BY <1>1, <2>6, <2>7
<1>6. QED
  BY <1>4, <1>5

(* So the latest files stay readable.                                      *)
LEMMA PruneKept ==
  ASSUME TrailInv, NEW p \in Loggers, PruneRotated(p) PROVE TrailInv'
<1>1. FilesOK /\ LatestReadable
  BY DEF TrailInv
<1>2. UNCHANGED <<trail, filed, second, appended, lapse>> /\ told' = <<>> /\ Goes(p, "open")
  BY DEF PruneRotated, ShowsNothing
<1>3. LoggersOK' /\ RecordsWritten' /\ RecordsInOrder' /\ OpenIsLast' /\ ToldInOrder'
  BY <1>2, GoesOn, LoggerSteps
<1> DEFINE names == DOMAIN rotated
           kept == names \ Surplus(names)
<1>4. /\ rotated' = [t \in kept |-> rotated[t]] /\ DOMAIN rotated' = kept
      /\ kept \subseteq names /\ \A t \in kept : rotated'[t] = rotated[t]
  BY DEF PruneRotated
<1>5. /\ \A t \in kept : \A u \in names : t < u => u \in kept
      /\ Surplus(names) # {} => Cardinality(kept) >= MaxKeep
      /\ names \in SUBSET Int
  BY <1>1, NamesAreFinite, SurplusGoes
<1> HIDE DEF kept
<1>6. FilesOK'
  <2>1. \A t \in kept : t \in DOMAIN rotated
    BY <1>4
  <2>2. /\ rotated' = [t \in DOMAIN rotated' |-> rotated'[t]]
        /\ DOMAIN rotated' \in SUBSET (0..second')
    BY <1>1, <1>2, <1>4, <2>1 DEF FilesOK
  <2>3. \A t \in DOMAIN rotated' : rotated'[t] \in 1..Len(filed') /\ rotated'[t] # trail'
    BY <1>1, <1>2, <1>4, <2>1 DEF FilesOK
  <2>4. \A t, u \in DOMAIN rotated' : t < u => rotated'[t] < rotated'[u]
    BY <1>1, <1>4, <2>1 DEF FilesOK
  <2>5. QED
    BY <1>1, <1>2, <2>2, <2>3, <2>4 DEF FilesOK
<1>7. LatestReadable'
  <2> SUFFICES ASSUME ~lapse PROVE
        /\ \A i \in Readable' : \A j \in i..Len(filed) : j \in Readable'
        /\ Readable' = 1..Len(filed) \/ Cardinality(DOMAIN rotated') >= MaxKeep
    BY <1>2 DEF LatestReadable
  <2>1. /\ \A i \in Readable : \A j \in i..Len(filed) : j \in Readable
        /\ Readable = 1..Len(filed) \/ Cardinality(names) >= MaxKeep
    BY <1>1 DEF LatestReadable
  <2>2. ASSUME NEW i \in Readable', NEW j \in i..Len(filed) PROVE j \in Readable'
    <3>1. i \in Readable
      BY <1>2, <1>4, <2>2 DEF Readable
    <3>2. j \in Readable
      BY <2>1, <3>1
    <3>3. CASE j = trail
      BY <1>1, <1>2, <3>2, <3>3, NamesAndFiles DEF Readable
    <3>4. CASE j # trail
      <4>1. PICK u \in names : j = rotated[u]
        BY <3>2, <3>4 DEF Readable
      <4>2. i # trail
        <5>1. Len(filed) \in Nat /\ trail \in {0, Len(filed)} /\ i \in 1..Len(filed)
          BY <1>1, <3>1, NamesAndFiles, FilesAreRecords DEF FilesOK
        <5>2. QED
          BY <2>2, <3>4, <5>1
      <4>3. PICK t \in kept : i = rotated[t]
        BY <1>2, <1>4, <4>2 DEF Readable
      <4>4. ~(u < t)
        <5>1. u < t => rotated[u] < rotated[t]
          BY <1>1, <1>4 DEF FilesOK
        <5>2. i \in Int /\ j \in Int /\ i <= j
          BY <1>1, <2>2, <3>1, NamesAndFiles, FilesAreRecords
        <5>3. QED
          BY <4>1, <4>3, <5>1, <5>2
      <4>5. u \in kept
        <5>1. u \in Int /\ t \in Int
          BY <1>4, <1>5
        <5>2. u = t \/ t < u
          BY <4>4, <5>1
        <5>3. QED
          BY <1>5, <5>2
      <4>6. QED
        BY <1>4, <4>1, <4>5 DEF Readable
    <3>5. QED
      BY <3>3, <3>4
  <2>3. Readable' = 1..Len(filed) \/ Cardinality(DOMAIN rotated') >= MaxKeep
    <3>1. CASE Surplus(names) = {}
      <4>1. DOMAIN rotated' = names /\ \A t \in names : rotated'[t] = rotated[t]
        BY <1>4, <3>1 DEF kept
      <4>2. Readable' = Readable
        BY <1>2, <4>1 DEF Readable
      <4>3. QED
        BY <2>1, <4>1, <4>2
    <3>2. CASE Surplus(names) # {}
      BY <1>4, <1>5, <3>2
    <3>3. QED
      BY <3>1, <3>2
  <2>4. QED
    BY <2>2, <2>3
<1>8. QED
  BY <1>3, <1>6, <1>7 DEF TrailInv

(* The trail is opened, and made if it is not there.                       *)
LEMMA OpenKept ==
  ASSUME TrailInv, NEW p \in Loggers, OpenTrail(p) PROVE TrailInv'
<1>1. FilesOK /\ LoggersOK /\ RecordsWritten /\ RecordsInOrder /\ OpenIsLast /\ LatestReadable
  BY DEF TrailInv
<1>2. /\ UNCHANGED <<rotated, second, appended, lapse>> /\ told' = <<>>
      /\ logger' = [logger EXCEPT ![p].at = "write", ![p].file = trail']
  BY DEF OpenTrail, ShowsNothing
<1>3. PICK n \in Nat : n = Len(filed)
  BY <1>1, FilesAreRecords
<1>4. /\ filed' \in Seq(Seq(Records)) /\ trail' = Len(filed') /\ trail' \in 1..Len(filed')
      /\ \/ trail = 0 /\ Len(filed') = n + 1 /\ filed'[n + 1] = <<>> /\ Len(filed'[n + 1]) = 0
         \/ trail = trail' /\ Len(filed') = n
      /\ \A i \in 1..n : filed'[i] = filed[i]
  <2>1. filed \in Seq(Seq(Records)) /\ trail \in {0, n}
    BY <1>1, <1>3 DEF FilesOK
  <2>2. CASE trail = 0
    <3>1. trail' = n + 1 /\ filed' = Append(filed, <<>>)
      BY <1>3, <2>2 DEF OpenTrail
    <3>2. <<>> \in Seq(Records) /\ Len(<<>>) = 0
      OBVIOUS
    <3>3. QED
      BY <1>3, <2>1, <2>2, <3>1, <3>2, AppendProperties
  <2>3. CASE trail # 0
    BY <1>3, <2>1, <2>3 DEF OpenTrail
  <2>4. QED
    BY <2>2, <2>3
<1>5. /\ \A i \in 1..Len(filed') : \A k \in 1..Len(filed'[i]) : i \in 1..n /\ filed'[i] = filed[i]
      /\ n <= Len(filed') /\ Len(filed') \in Nat
  <2>1. Len(filed') \in {n, n + 1} /\ (Len(filed') = n + 1 => Len(filed'[n + 1]) = 0)
    BY <1>4
  <2>2. ASSUME NEW i \in 1..Len(filed'), NEW k \in 1..Len(filed'[i])
        PROVE  i \in 1..n /\ filed'[i] = filed[i]
    <3>1. i # n + 1 \/ Len(filed') = n
      <4> SUFFICES ASSUME i = n + 1, Len(filed') = n + 1 PROVE FALSE
        BY <2>1
      <4>1. k \in 1..0
        BY <2>1
      <4>2. QED
        BY <4>1
    <3>2. i \in 1..n
      BY <2>1, <3>1
    <3>3. QED
      BY <1>4, <3>2
  <2>3. QED
    BY <2>1, <2>2
<1>6. FilesOK'
  <2>1. \A t \in DOMAIN rotated : rotated[t] \in 1..n /\ rotated[t] # trail
    BY <1>1, <1>3 DEF FilesOK
  <2>2. \A t \in DOMAIN rotated : rotated[t] \in 1..Len(filed') /\ rotated[t] # trail'
    BY <1>4, <2>1
  <2>3. QED
    BY <1>1, <1>2, <1>4, <2>2 DEF FilesOK
<1>7. /\ logger' \in [Loggers -> LoggerStates]
      /\ logger'[p].sid = logger[p].sid /\ logger'[p].file = trail'
      /\ \A q \in Loggers : q # p => logger'[q] = logger[q]
  <2>1. logger \in [Loggers -> LoggerStates]
    BY <1>1 DEF LoggersOK
  <2> DEFINE new == [logger[p] EXCEPT !.at = "write", !.file = trail']
  <2>2. logger' = [logger EXCEPT ![p] = new] /\ new \in LoggerStates /\ new.sid = logger[p].sid /\ new.file = trail'
    BY <1>2, <1>4, <1>5, <2>1 DEF LoggerStates
  <2> HIDE DEF new
  <2>3. QED
    BY <2>1, <2>2
<1>8. LoggersOK'
  <2>1. \A q \in Loggers : logger'[q].sid = logger[q].sid
    BY <1>7
  <2>2. QED
    BY <1>1, <1>2, <1>7, <2>1 DEF LoggersOK
<1>9. RecordsWritten'
  <2>1. \A i \in 1..Len(filed') : \A k \in 1..Len(filed'[i]) :
          filed'[i][k].sid \in 1..Len(appended) /\ filed'[i][k].number \in 1..appended[filed'[i][k].sid]
    BY <1>1, <1>3, <1>5 DEF RecordsWritten
  <2>2. ASSUME NEW s \in 1..Len(appended), NEW m \in 1..appended[s]
        PROVE  \E i \in 1..Len(filed') : \E k \in 1..Len(filed'[i]) :
                 filed'[i][k].sid = s /\ filed'[i][k].number = m
    <3>1. PICK i \in 1..n : \E k \in 1..Len(filed[i]) : filed[i][k].sid = s /\ filed[i][k].number = m
      BY SMTT(30), <1>1, <1>3 DEF RecordsWritten
    <3>2. i \in 1..Len(filed') /\ filed'[i] = filed[i]
      BY <1>4, <1>5
    <3>3. QED
      BY <3>1, <3>2
  <2>3. QED
    BY <1>2, <2>1, <2>2 DEF RecordsWritten
<1>10. RecordsInOrder'
  BY <1>1, <1>3, <1>5 DEF RecordsInOrder
<1>11. OpenIsLast'
  <2> SUFFICES ASSUME NEW q \in Loggers, logger'[q].at = "write"
               PROVE  /\ logger'[q].file \in 1..Len(filed')
                      /\ \A i \in 1..Len(filed') : \A k \in 1..Len(filed'[i]) :
                           filed'[i][k].sid = logger'[q].sid => i <= logger'[q].file
    BY DEF OpenIsLast
  <2>1. CASE q = p
    BY <1>4, <1>7, <2>1
  <2>2. CASE q # p
    <3>1. logger'[q] = logger[q] /\ logger[q].file \in 1..n
      BY <1>1, <1>3, <1>7, <2>2 DEF OpenIsLast
    <3>2. \A i \in 1..Len(filed') : \A k \in 1..Len(filed'[i]) :
            filed'[i][k].sid = logger[q].sid => i <= logger[q].file
      BY <1>1, <1>3, <1>5, <3>1 DEF OpenIsLast
    <3>3. QED
      BY SMTT(30), <1>5, <3>1, <3>2
  <2>3. QED
    BY <2>1, <2>2
<1>12. LatestReadable'
  <2> SUFFICES ASSUME ~lapse PROVE
        /\ \A i \in Readable' : \A j \in i..Len(filed') : j \in Readable'
        /\ Readable' = 1..Len(filed') \/ Cardinality(DOMAIN rotated) >= MaxKeep
    BY <1>2 DEF LatestReadable
  <2>1. /\ \A i \in Readable : \A j \in i..n : j \in Readable
        /\ Readable = 1..n \/ Cardinality(DOMAIN rotated) >= MaxKeep
        /\ Readable \subseteq 1..n
    BY <1>1, <1>3, NamesAndFiles DEF LatestReadable
  <2>2. CASE trail = trail' /\ Len(filed') = n
    <3>1. Readable' = Readable
      BY <1>2, <2>2 DEF Readable
    <3>2. QED
      BY <2>1, <2>2, <3>1
  <2>3. CASE trail = 0 /\ Len(filed') = n + 1
    <3>1. \A i : i \in Readable' <=> i \in Readable \/ i = n + 1
      BY <1>2, <1>4, <2>3 DEF Readable
    <3>2. ASSUME NEW i \in Readable', NEW j \in i..(n + 1) PROVE j \in Readable'
      <4>1. i \in 1..(n + 1)
        <5>1. CASE i = n + 1
          BY <5>1
        <5>2. CASE i \in Readable
          <6>1. i \in 1..n
            BY <2>1, <5>2
          <6>2. QED
            BY <6>1
        <5>3. QED
          BY <3>1, <5>1, <5>2
      <4>2. CASE j = n + 1
        BY <3>1, <4>2
      <4>3. CASE j # n + 1
        <5>1. i \in Readable /\ j \in i..n
          BY <3>1, <4>1, <4>3
        <5>2. QED
          BY <2>1, <3>1, <5>1
      <4>4. QED
        BY <4>2, <4>3
    <3>3. ASSUME Readable = 1..n PROVE Readable' = 1..(n + 1)
      <4>1. \A i : i \in Readable' <=> i \in 1..n \/ i = n + 1
        BY <3>1, <3>3
      <4>2. \A i : i \in 1..(n + 1) <=> i \in 1..n \/ i = n + 1
        OBVIOUS
      <4>3. QED
        BY <4>1, <4>2
    <3>4. QED
      BY <2>1, <2>3, <3>2, <3>3
  <2>4. QED
    BY <1>4, <2>2, <2>3
<1>13. QED
  BY <1>2, <1>6, <1>8, <1>9, <1>10, <1>11, <1>12, NothingTold DEF TrailInv

(* A program ends, the next one has a new session; or time passes.         *)
LEMMA SessionKept ==
  ASSUME TrailInv, NEW p \in Loggers, StartSession(p) PROVE TrailInv'
<1>1. FilesOK /\ LoggersOK /\ RecordsWritten /\ RecordsInOrder /\ OpenIsLast /\ LatestReadable
  BY DEF TrailInv
<1>2. /\ UNCHANGED <<trail, filed, rotated, second, lapse>> /\ told' = <<>>
      /\ appended' = Append(appended, 0)
      /\ logger' = [logger EXCEPT ![p] = NewLogger(Len(appended'))]
  BY DEF StartSession, trailFiles, ShowsNothing
<1>3. PICK n \in Nat : n = Len(appended)
  BY <1>1 DEF LoggersOK
<1>4. /\ appended' \in Seq(Nat) /\ Len(appended') = n + 1
      /\ \A s \in 1..n : appended'[s] = appended[s]
      /\ appended'[n + 1] = 0
  BY <1>1, <1>2, <1>3 DEF LoggersOK
<1>5. FilesOK' /\ LatestReadable' /\ RecordsInOrder'
  BY <1>1, <1>2 DEF FilesOK, LatestReadable, Readable, RecordsInOrder
<1>6. RecordsWritten'
  <2>1. \A i \in 1..Len(filed) : \A k \in 1..Len(filed[i]) :
          /\ filed[i][k].sid \in 1..Len(appended')
          /\ filed[i][k].number \in 1..appended'[filed[i][k].sid]
    BY <1>1, <1>3, <1>4 DEF RecordsWritten
  <2>2. \A s \in 1..Len(appended') : \A m \in 1..appended'[s] : s \in 1..n /\ m \in 1..appended[s]
    BY <1>4
  <2>3. \A s \in 1..Len(appended') : \A m \in 1..appended'[s] :
          \E i \in 1..Len(filed) : \E k \in 1..Len(filed[i]) :
            filed[i][k].sid = s /\ filed[i][k].number = m
    BY <1>1, <1>3, <2>2 DEF RecordsWritten
  <2>4. filed' = filed
    BY <1>2
  <2>5. \A i \in 1..Len(filed') : \A k \in 1..Len(filed'[i]) :
          /\ filed'[i][k].sid \in 1..Len(appended')
          /\ filed'[i][k].number \in 1..appended'[filed'[i][k].sid]
    BY <2>1, <2>4
  <2>6. \A s \in 1..Len(appended') : \A m \in 1..appended'[s] :
          \E i \in 1..Len(filed') : \E k \in 1..Len(filed'[i]) :
            filed'[i][k].sid = s /\ filed'[i][k].number = m
    <3> SUFFICES ASSUME NEW s \in 1..Len(appended'), NEW m \in 1..appended'[s]
                 PROVE  \E i \in 1..Len(filed') : \E k \in 1..Len(filed'[i]) :
                          filed'[i][k].sid = s /\ filed'[i][k].number = m
      OBVIOUS
    <3>1. PICK i \in 1..Len(filed) : \E k \in 1..Len(filed[i]) :
            filed[i][k].sid = s /\ filed[i][k].number = m
      BY <2>3
    <3>2. PICK k \in 1..Len(filed[i]) : filed[i][k].sid = s /\ filed[i][k].number = m
      BY <3>1
    <3>3. QED
      BY <2>4, <3>2
  <2>7. QED
    BY <2>5, <2>6 DEF RecordsWritten
<1>7. /\ logger' \in [Loggers -> LoggerStates]
      /\ logger'[p].sid = n + 1 /\ logger'[p].at = "idle"
      /\ \A q \in Loggers : q # p => logger'[q] = logger[q]
  <2>1. NewLogger(n + 1) \in LoggerStates /\ NewLogger(n + 1).sid = n + 1 /\ NewLogger(n + 1).at = "idle"
    BY DEF NewLogger, LoggerStates
  <2>2. QED
    BY <1>1, <1>2, <1>4, <2>1 DEF LoggersOK
<1>8. LoggersOK'
  <2>1. \A q \in Loggers : logger[q].sid \in 1..n
    BY <1>1, <1>3 DEF LoggersOK
  <2>2. \A q \in Loggers : logger'[q].sid \in 1..(n + 1)
    BY <1>7, <2>1
  <2>3. \A q, r \in Loggers : q # r => logger'[q].sid # logger'[r].sid
    BY <1>1, <1>7, <2>1 DEF LoggersOK
  <2>4. QED
    BY <1>4, <1>7, <2>2, <2>3 DEF LoggersOK
<1>9. OpenIsLast'
  BY <1>1, <1>2, <1>7 DEF OpenIsLast
<1>10. QED
  BY <1>2, <1>5, <1>6, <1>8, <1>9, NothingTold DEF TrailInv

(* Time passes.                                                            *)
LEMMA SecondKept ==
  ASSUME TrailInv, SecondPasses PROVE TrailInv'
<1>1. FilesOK /\ LoggersOK /\ RecordsWritten /\ RecordsInOrder /\ OpenIsLast /\ LatestReadable
  BY DEF TrailInv
<1>2. /\ UNCHANGED <<trail, filed, rotated, logger, appended, lapse>> /\ told' = <<>>
      /\ second' = second + 1 /\ second \in Nat
  BY <1>1 DEF SecondPasses, trailFiles, ShowsNothing, FilesOK
<1>3. DOMAIN rotated' \in SUBSET (0..second')
  BY <1>1, <1>2 DEF FilesOK
<1>4. FilesOK'
  BY <1>1, <1>2, <1>3 DEF FilesOK
<1>5. LoggersOK' /\ RecordsWritten' /\ RecordsInOrder' /\ OpenIsLast' /\ LatestReadable'
  BY <1>1, <1>2 DEF LoggersOK, RecordsWritten, RecordsInOrder, OpenIsLast, LatestReadable, Readable
<1>6. QED
  BY <1>2, <1>4, <1>5, NothingTold DEF TrailInv

(* A record is written, to the file that was opened.                       *)
LEMMA AppendKept ==
  ASSUME TrailInv, NEW p \in Loggers, AppendRecord(p) PROVE TrailInv'
<1>1. FilesOK /\ LoggersOK /\ RecordsWritten /\ RecordsInOrder /\ OpenIsLast /\ LatestReadable
  BY DEF TrailInv
<1> DEFINE s == logger[p].sid
           f == logger[p].file
<1>2. /\ UNCHANGED <<trail, rotated, second>> /\ told' = <<>> /\ logger[p].at = "write"
      /\ logger' = [logger EXCEPT ![p] = NewLogger(s)]
  BY DEF AppendRecord, ShowsNothing
<1>3. /\ f \in 1..Len(filed) /\ s \in 1..Len(appended) /\ s \in Nat
      /\ \A i \in 1..Len(filed) : \A k \in 1..Len(filed[i]) : filed[i][k].sid = s => i <= f
      /\ logger[p].event \in EventNames \cup {"none"}
  BY <1>1, <1>2 DEF OpenIsLast, LoggersOK, LoggerStates
<1>4. /\ logger' \in [Loggers -> LoggerStates]
      /\ logger'[p].sid = s /\ logger'[p].at = "idle"
      /\ \A q \in Loggers : q # p => logger'[q] = logger[q]
  <2>1. NewLogger(s) \in LoggerStates /\ NewLogger(s).sid = s /\ NewLogger(s).at = "idle"
    BY <1>3 DEF NewLogger, LoggerStates
  <2>2. QED
    BY <1>1, <1>2, <2>1 DEF LoggersOK
<1>5. CASE lapse' = TRUE /\ UNCHANGED <<filed, appended>>
  <2>1. LoggersOK' /\ RecordsWritten' /\ RecordsInOrder' /\ OpenIsLast' /\ ToldInOrder'
    <3>1. \A q \in Loggers : /\ logger'[q].sid = logger[q].sid
                             /\ logger'[q].at = "write" =>
                                  logger[q].at = "write" /\ logger'[q].file = logger[q].file
      BY <1>4
    <3>2. QED
      BY <1>2, <1>4, <1>5, <3>1, LoggerSteps
  <2>2. FilesOK' /\ LatestReadable'
    BY <1>1, <1>2, <1>5 DEF FilesOK, LatestReadable
  <2>3. QED
    BY <2>1, <2>2 DEF TrailInv
<1> DEFINE record == [sid |-> s, event |-> logger[p].event, number |-> appended[s] + 1]
<1>6. CASE /\ filed' = [filed EXCEPT ![f] = Append(@, record)]
           /\ appended' = [appended EXCEPT ![s] = @ + 1]
           /\ lapse' = lapse
  <2>1. PICK n \in Nat : n = Len(filed)
    BY <1>1, FilesAreRecords
  <2>2. PICK l \in Nat : l = Len(filed[f]) + 1
    BY <1>1, <1>3, FilesAreRecords
  <2>3. appended[s] \in Nat /\ appended[s] + 1 \in Nat
    BY <1>1, <1>3 DEF LoggersOK
  <2>4. record \in Records /\ record.sid = s /\ record.number = appended[s] + 1
    BY <1>3, <2>3 DEF Records
  <2>5. PICK file \in 1..n : file = f
    BY <1>3, <2>1
  <2>6. PICK sid \in 1..Len(appended) : sid = s
    BY <1>3
  <2> HIDE DEF record, s, f
  <2>7. /\ Append(filed[file], record) \in Seq(Records) /\ Len(Append(filed[file], record)) = l
        /\ Append(filed[file], record)[l] = record
        /\ \A k \in 1..(l - 1) : Append(filed[file], record)[k] = filed[file][k]
    <3>1. filed[file] \in Seq(Records) /\ Len(filed[file]) = l - 1
      BY <1>1, <2>1, <2>2, <2>5, FilesAreRecords
    <3>2. QED
      BY <2>4, <3>1, AppendProperties
  <2>8. /\ filed' \in Seq(Seq(Records)) /\ Len(filed') = n
        /\ filed'[file] = Append(filed[file], record)
        /\ \A i \in 1..n : i # file => filed'[i] = filed[i]
    <3>1. filed \in Seq(Seq(Records))
      BY <1>1 DEF FilesOK
    <3>2. filed' = [filed EXCEPT ![file] = Append(filed[file], record)]
      BY <1>6, <2>5
    <3> DEFINE new == Append(filed[file], record)
    <3> HIDE DEF new
    <3>3. filed' = [filed EXCEPT ![file] = new] /\ new \in Seq(Records)
      BY <2>7, <3>2 DEF new
    <3>4. /\ filed' \in Seq(Seq(Records)) /\ Len(filed') = n /\ filed'[file] = new
          /\ \A i \in 1..n : i # file => filed'[i] = filed[i]
      BY <2>1, <2>5, <3>1, <3>3, ExceptSeq
    <3>5. QED
      BY <3>4 DEF new
  <2>9. \A i \in 1..n : \A k \in 1..Len(filed'[i]) :
          \/ i = file /\ k = l /\ filed'[i][k] = record
          \/ k \in 1..Len(filed[i]) /\ filed'[i][k] = filed[i][k] /\ (i = file => k < l)
    <3> SUFFICES ASSUME NEW i \in 1..n, NEW k \in 1..Len(filed'[i])
                 PROVE  \/ i = file /\ k = l /\ filed'[i][k] = record
                        \/ k \in 1..Len(filed[i]) /\ filed'[i][k] = filed[i][k] /\ (i = file => k < l)
      OBVIOUS
    <3>1. CASE i # file
      BY <2>8, <3>1
    <3>2. CASE i = file
      <4>1. k \in 1..l /\ filed'[file] = Append(filed[file], record) /\ Len(filed[file]) = l - 1
        BY <2>2, <2>5, <2>7, <2>8, <3>2
      <4>2. CASE k = l
        BY <2>7, <3>2, <4>1, <4>2
      <4>3. CASE k # l
        <5>1. k \in 1..(l - 1) /\ k < l
          BY <4>1, <4>3
        <5>2. QED
          BY <2>7, <3>2, <4>1, <5>1
      <4>4. QED
        BY <4>2, <4>3
    <3>3. QED
      BY <3>1, <3>2
  <2>10. \A i \in 1..n : \A k \in 1..Len(filed[i]) : k \in 1..Len(filed'[i]) /\ filed'[i][k] = filed[i][k]
    <3> SUFFICES ASSUME NEW i \in 1..n, NEW k \in 1..Len(filed[i])
                 PROVE  k \in 1..Len(filed'[i]) /\ filed'[i][k] = filed[i][k]
      OBVIOUS
    <3>1. CASE i = file
      <4>1. Len(filed[file]) = l - 1 /\ filed'[file] = Append(filed[file], record)
        BY <2>2, <2>5, <2>8
      <4>2. k \in 1..(l - 1)
        BY <3>1, <4>1
      <4>3. Len(filed'[file]) = l /\ filed'[file][k] = filed[file][k]
        BY <2>7, <4>1, <4>2
      <4>4. QED
        BY <3>1, <4>2, <4>3
    <3>2. CASE i # file
      BY <2>8, <3>2
    <3>3. QED
      BY <3>1, <3>2
  <2>11. /\ appended' \in Seq(Nat) /\ Len(appended') = Len(appended) /\ appended'[sid] = appended[sid] + 1
         /\ \A r \in 1..Len(appended) : r # sid => appended'[r] = appended[r]
         /\ Len(appended) \in Nat /\ appended[sid] \in Nat
    BY <1>1, <1>6, <2>3, <2>6 DEF LoggersOK
  <2>12. FilesOK'
    BY <1>1, <1>2, <2>1, <2>8 DEF FilesOK
  <2>13. LoggersOK'
    <3>1. \A q \in Loggers : logger'[q].sid = logger[q].sid
      BY <1>4 DEF s
    <3>2. QED
      BY ZenonT(60), <1>1, <1>4, <2>11, <3>1 DEF LoggersOK
  <2>14. RecordsWritten'
    <3>1. ASSUME NEW i \in 1..n, NEW k \in 1..Len(filed'[i])
          PROVE  /\ filed'[i][k].sid \in 1..Len(appended')
                 /\ filed'[i][k].number \in 1..appended'[filed'[i][k].sid]
      <4>1. CASE filed'[i][k] = record
        BY <2>4, <2>6, <2>11, <4>1
      <4>2. CASE filed'[i][k] # record
        <5>1. k \in 1..Len(filed[i]) /\ filed'[i][k] = filed[i][k]
          BY <2>9, <4>2
        <5>2. /\ filed[i][k].sid \in 1..Len(appended)
              /\ filed[i][k].number \in 1..appended[filed[i][k].sid]
          BY <1>1, <2>1, <5>1 DEF RecordsWritten
        <5>3. PICK t \in 1..Len(appended) : t = filed[i][k].sid
          BY <5>2
        <5>4. appended'[t] \in {appended[t], appended[t] + 1} /\ appended[t] \in Nat
          <6>1. appended[t] \in Nat
            BY <1>1 DEF LoggersOK
          <6>2. CASE t = sid
            BY <2>11, <6>1, <6>2
          <6>3. CASE t # sid
            BY <2>11, <6>1, <6>3
          <6>4. QED
            BY <6>1, <6>2, <6>3
        <5>5. filed[i][k].number \in 1..appended'[t]
          BY SMTT(30), <5>2, <5>3, <5>4
        <5>6. QED
          BY <2>11, <5>1, <5>3, <5>5
      <4>3. QED
        BY <4>1, <4>2
    <3>2. ASSUME NEW r \in 1..Len(appended), NEW m \in 1..appended'[r]
          PROVE  \E i \in 1..n : \E k \in 1..Len(filed'[i]) :
                   filed'[i][k].sid = r /\ filed'[i][k].number = m
      <4>1. CASE r = sid /\ m = appended[sid] + 1
        <5>1. file \in 1..n /\ l \in 1..Len(filed'[file]) /\ filed'[file][l] = record
          BY <2>2, <2>5, <2>7, <2>8
        <5>2. QED
          BY <2>4, <2>6, <4>1, <5>1
      <4>2. CASE ~(r = sid /\ m = appended[sid] + 1)
        <5>1. m \in 1..appended[r]
          <6>1. CASE r = sid
            BY <2>11, <4>2, <6>1
          <6>2. CASE r # sid
            BY <2>11, <6>2
          <6>3. QED
            BY <6>1, <6>2
        <5>2. PICK i \in 1..n : \E k \in 1..Len(filed[i]) : filed[i][k].sid = r /\ filed[i][k].number = m
          BY <1>1, <2>1, <5>1 DEF RecordsWritten
        <5>3. QED
          BY <2>10, <5>2
      <4>3. QED
        BY <4>1, <4>2
    <3>3. \A i \in 1..Len(filed') : \A k \in 1..Len(filed'[i]) :
            /\ filed'[i][k].sid \in 1..Len(appended')
            /\ filed'[i][k].number \in 1..appended'[filed'[i][k].sid]
      BY <2>8, <3>1
    <3>4. \A r \in 1..Len(appended') : \A m \in 1..appended'[r] :
            \E i \in 1..Len(filed') : \E k \in 1..Len(filed'[i]) :
              filed'[i][k].sid = r /\ filed'[i][k].number = m
      BY SMTT(30), <2>8, <2>11, <3>2
    <3>5. QED
      BY <3>3, <3>4 DEF RecordsWritten
  <2>15. RecordsInOrder'
    <3> SUFFICES ASSUME NEW i \in 1..n, NEW j \in 1..n, NEW k \in 1..Len(filed'[i]), NEW m \in 1..Len(filed'[j]),
                        filed'[i][k].sid = filed'[j][m].sid, i < j \/ (i = j /\ k < m)
                 PROVE  filed'[i][k].number < filed'[j][m].number
      BY <2>8 DEF RecordsInOrder
    <3>1. CASE k \in 1..Len(filed[i]) /\ filed'[i][k] = filed[i][k]
      <4>1. CASE m \in 1..Len(filed[j]) /\ filed'[j][m] = filed[j][m]
        BY <1>1, <2>1, <3>1, <4>1 DEF RecordsInOrder
      <4>2. CASE filed'[j][m] = record
        <5>1. filed[i][k].sid = sid
          BY <2>4, <2>6, <3>1, <4>2
        <5>2. filed[i][k].number \in 1..appended[filed[i][k].sid]
          BY <1>1, <2>1, <3>1 DEF RecordsWritten
        <5>3. filed[i][k].number \in 1..appended[sid]
          BY <5>1, <5>2
        <5>4. filed[i][k].number < appended[sid] + 1
          BY SMTT(30), <2>11, <5>3
        <5>5. filed'[i][k].number = filed[i][k].number /\ filed'[j][m].number = appended[sid] + 1
          BY <2>4, <2>6, <3>1, <4>2
        <5>6. QED
          BY <5>4, <5>5
      <4>3. QED
        BY <2>9, <4>1, <4>2
    <3>2. CASE i = file /\ k = l /\ filed'[i][k] = record
      <4>1. filed'[j][m].sid = s
        BY <2>4, <3>2
      <4>2. CASE m \in 1..Len(filed[j]) /\ filed'[j][m] = filed[j][m] /\ (j = file => m < l)
        <5>1. j <= file
          BY <1>3, <2>1, <2>5, <4>1, <4>2
        <5>2. l \in Nat /\ m \in Nat /\ k \in Nat
          BY <3>2
        <5>3. QED
          BY <3>2, <4>2, <5>1, <5>2
      <4>3. CASE j = file /\ m = l
        BY <3>2, <4>3
      <4>4. QED
        BY <2>9, <4>2, <4>3
    <3>3. QED
      BY <2>9, <3>1, <3>2
  <2>16. OpenIsLast'
    <3> SUFFICES ASSUME NEW q \in Loggers, logger'[q].at = "write"
                 PROVE  /\ logger'[q].file \in 1..n
                        /\ \A i \in 1..n : \A k \in 1..Len(filed'[i]) :
                             filed'[i][k].sid = logger'[q].sid => i <= logger'[q].file
      BY <2>8 DEF OpenIsLast
    <3>1. q # p /\ logger'[q] = logger[q] /\ logger[q].sid # s
      BY <1>1, <1>4 DEF LoggersOK, s
    <3>2. /\ logger[q].file \in 1..n
          /\ \A i \in 1..n : \A k \in 1..Len(filed[i]) : filed[i][k].sid = logger[q].sid => i <= logger[q].file
      BY <1>1, <2>1, <3>1 DEF OpenIsLast
    <3>3. QED
      BY <2>4, <2>9, <3>1, <3>2
  <2>17. LatestReadable'
    <3>1. Readable' = Readable /\ Len(filed') = Len(filed) /\ rotated' = rotated /\ lapse' = lapse
      BY <1>2, <1>6, <2>1, <2>8 DEF Readable
    <3>2. QED
      BY <1>1, <3>1 DEF LatestReadable
  <2>18. QED
    BY <1>2, <2>12, <2>13, <2>14, <2>15, <2>16, <2>17, NothingTold DEF TrailInv
<1>7. QED
  BY <1>5, <1>6 DEF AppendRecord

-----------------------------------------------------------------------------

(* The records of the file that is written to.                             *)
LEMMA LogIsInOrder ==
  ASSUME TrailInv
  PROVE  /\ LogRecords \in Seq(Records) /\ Len(LogRecords) \in Nat
         /\ \A i, j \in 1..Len(LogRecords) :
              (LogRecords[i].sid = LogRecords[j].sid /\ i < j) => LogRecords[i].number < LogRecords[j].number
<1>1. FilesOK /\ RecordsInOrder
  BY DEF TrailInv
<1>2. CASE trail = 0
  <2>1. LogRecords = <<>>
    BY <1>2 DEF LogRecords
  <2>2. QED
    BY <2>1
<1>3. CASE trail # 0
  <2>1. trail \in 1..Len(filed) /\ LogRecords = filed[trail]
    BY <1>1, <1>3, FilesAreRecords DEF FilesOK, LogRecords
  <2>2. LogRecords \in Seq(Records) /\ Len(LogRecords) \in Nat
    BY <1>1, <2>1, FilesAreRecords
  <2>3. ASSUME NEW i \in 1..Len(LogRecords), NEW j \in 1..Len(LogRecords),
               LogRecords[i].sid = LogRecords[j].sid, i < j
        PROVE  LogRecords[i].number < LogRecords[j].number
    BY <1>1, <2>1, <2>3 DEF RecordsInOrder
  <2>4. QED
    BY <2>2, <2>3
<1>4. QED
  BY <1>2, <1>3

(* The last records are some of those, in the same order.                  *)
LEMMA LastAreInOrder ==
  ASSUME TrailInv, NEW limit \in Int
  PROVE  /\ DOMAIN LastRecords(limit) = 1..Len(LastRecords(limit)) /\ Len(LastRecords(limit)) \in Nat
         /\ \A i, j \in 1..Len(LastRecords(limit)) :
              (LastRecords(limit)[i].sid = LastRecords(limit)[j].sid /\ i < j)
                => LastRecords(limit)[i].number < LastRecords(limit)[j].number
<1>1. PICK n \in Nat : n = Len(LogRecords)
  BY LogIsInOrder
<1> DEFINE first == IF limit > 0 THEN n - limit ELSE -limit
           from == (IF first < 0 THEN 0 ELSE first) + 1
<1>2. from \in 1..(from + 0) /\ from \in Nat /\ from >= 1 /\ LastRecords(limit) = SubSeq(LogRecords, from, n)
  BY <1>1 DEF LastRecords
<1> HIDE DEF from
<1>3. /\ Len(SubSeq(LogRecords, from, n)) \in Nat
      /\ DOMAIN SubSeq(LogRecords, from, n) = 1..Len(SubSeq(LogRecords, from, n))
      /\ Len(SubSeq(LogRecords, from, n)) = IF from <= n THEN n - from + 1 ELSE 0
      /\ \A i \in 1..Len(SubSeq(LogRecords, from, n)) :
           /\ SubSeq(LogRecords, from, n)[i] = LogRecords[from + i - 1]
           /\ from + i - 1 \in 1..n
  <2>1. LogRecords \in Seq(Records) /\ n = Len(LogRecords)
    BY <1>1, LogIsInOrder
  <2>2. CASE from <= n
    <3>1. from \in 1..(n + 1) /\ n \in (from - 1)..n
      BY <1>2, <2>2
    <3>2. /\ SubSeq(LogRecords, from, n) \in Seq(Records)
          /\ Len(SubSeq(LogRecords, from, n)) = n - from + 1
          /\ \A i \in 1..(n - from + 1) : SubSeq(LogRecords, from, n)[i] = LogRecords[from + i - 1]
      <4>1. \A i \in from..n : LogRecords[i] \in Records
        BY <1>2, <2>1
      <4>2. from \in Int /\ n \in Int
        BY <1>2
      <4>3. QED
        BY <2>2, <4>1, <4>2, SubSeqProperties
    <3>3. QED
      BY <1>2, <2>2, <3>2
  <2>3. CASE ~(from <= n)
    <3>1. SubSeq(LogRecords, from, n) = <<>>
      BY <1>2, <2>1, <2>3, SubSeqEmpty
    <3>2. QED
      BY <2>3, <3>1
  <2>4. QED
    BY <2>2, <2>3
<1>4. QED
  BY <1>2, <1>3, <1>1, LogIsInOrder

(* A query gives a session's records, the newest first.                    *)
LEMMA QueryIsInOrder ==
  ASSUME TrailInv, NEW event, NEW sid
  PROVE  \A i, j \in DOMAIN Query(event, sid) :
           /\ Query(event, sid)[i].sid = sid
           /\ i < j => Query(event, sid)[i].number > Query(event, sid)[j].number
<1> DEFINE places == {i \in DOMAIN LogRecords : LogRecords[i].event = event /\ LogRecords[i].sid = sid}
           found == Cardinality(places)
           Newest(n) == CHOOSE i \in places : AboveIn(places, i) = n - 1
           shown == IF found < QueryLimit THEN found ELSE QueryLimit
<1>1. PICK n \in Nat : n = Len(LogRecords)
  BY LogIsInOrder
<1>2. DOMAIN LogRecords = 1..n
  BY <1>1, LogIsInOrder
<1>3. /\ places \in SUBSET Int /\ places \in SUBSET (1..n)
      /\ \A i \in places : LogRecords[i].sid = sid
  BY <1>2
<1>4. IsFiniteSet(places) /\ found \in Nat
  <2>1. IsFiniteSet(1..n)
    BY FS_Interval
  <2> HIDE DEF places
  <2>2. QED
    BY <1>3, <2>1, FS_Subset, FS_CardinalityType
<1>5. Query(event, sid) = [k \in 1..shown |-> LogRecords[Newest(k)]]
  BY DEF Query, AboveIn
<1>6. shown \in Nat /\ shown <= found
  BY <1>4, TrailAssumption
<1> HIDE DEF places, shown, found
<1>7. \A k \in 1..found : Newest(k) \in places /\ AboveIn(places, Newest(k)) = k - 1
  BY <1>3, <1>4, Ranks DEF found
<1>8. ASSUME NEW i \in 1..shown, NEW j \in 1..shown
      PROVE  /\ LogRecords[Newest(i)].sid = sid
             /\ i < j => LogRecords[Newest(i)].number > LogRecords[Newest(j)].number
  <2>1. PICK x \in places : x = Newest(i) /\ AboveIn(places, x) = i - 1
    BY <1>4, <1>6, <1>7
  <2>2. PICK y \in places : y = Newest(j) /\ AboveIn(places, y) = j - 1
    BY <1>4, <1>6, <1>7
  <2> HIDE DEF Newest
  <2>3. /\ x \in 1..n /\ y \in 1..n
        /\ LogRecords[x].sid = sid /\ LogRecords[y].sid = sid
    BY <1>3
  <2>4. i < j => y < x
    <3>1. x < y => AboveIn(places, y) < AboveIn(places, x)
      BY <1>3, <1>4, Ranks
    <3>2. x = y => i - 1 = j - 1
      BY <2>1, <2>2
    <3>3. QED
      BY <1>6, <2>1, <2>2, <2>3, <3>1, <3>2
  <2>5. y < x => LogRecords[y].number < LogRecords[x].number
    BY <1>1, <2>3, LogIsInOrder
  <2>6. LogRecords[x].number \in Nat /\ LogRecords[y].number \in Nat
    <3>1. LogRecords[x] \in Records /\ LogRecords[y] \in Records
      BY <1>1, <2>3, LogIsInOrder
    <3>2. \A r \in Records : r.number \in Nat
      BY DEF Records
    <3>3. QED
      BY <3>1, <3>2
  <2>7. QED
    BY <2>1, <2>2, <2>3, <2>4, <2>5, <2>6
<1> HIDE DEF Newest
<1>9. QED
  BY <1>5, <1>8

(* What is read leaves everything as it is.                                *)
LEMMA ReadsKeep ==
  ASSUME TrailInv, Reads, ToldInOrder' PROVE TrailInv'
<1>1. UNCHANGED <<trail, filed, rotated, second, logger, appended, lapse>>
  BY DEF Reads, trailFiles
<1>2. FilesOK' /\ LoggersOK' /\ RecordsWritten'
  BY <1>1 DEF TrailInv, FilesOK, LoggersOK, RecordsWritten
<1>3. RecordsInOrder' /\ OpenIsLast' /\ LatestReadable'
  BY <1>1 DEF TrailInv, RecordsInOrder, OpenIsLast, LatestReadable, Readable
<1>4. QED
  BY <1>2, <1>3 DEF TrailInv

(* /audit shows records as they are in the file.                           *)
LEMMA ReadersKept ==
  ASSUME TrailInv, Replay \/ Explain \/ Export PROVE TrailInv'
<1>1. Reads
  BY DEF Replay, Explain, Export
<1>2. CASE told' = LogRecords
  <2>1. DOMAIN LogRecords = 1..Len(LogRecords)
    BY LogIsInOrder
  <2>2. ToldInOrder'
    BY <1>2, <2>1, LogIsInOrder DEF ToldInOrder, ShownInOrder, RecordsOf
  <2>3. QED
    BY <1>1, <2>2, ReadsKeep
<1>3. CASE \E limit \in TailLengths : told' = LastRecords(limit)
  <2>1. PICK limit \in Int : told' = LastRecords(limit)
    BY <1>3, TrailAssumption
  <2>2. ToldInOrder'
    <3>1. /\ DOMAIN LastRecords(limit) = 1..Len(LastRecords(limit))
          /\ \A i, j \in 1..Len(LastRecords(limit)) :
               (LastRecords(limit)[i].sid = LastRecords(limit)[j].sid /\ i < j)
                 => LastRecords(limit)[i].number < LastRecords(limit)[j].number
      BY LastAreInOrder
    <3>2. \A i, j \in DOMAIN told' :
            (told'[i].sid = told'[j].sid /\ i < j) => told'[i].number < told'[j].number
      BY <2>1, <3>1
    <3>3. QED
      BY <3>2 DEF ToldInOrder, ShownInOrder, RecordsOf
  <2>3. QED
    BY <1>1, <2>2, ReadsKeep
<1>4. QED
  BY <1>2, <1>3 DEF Replay, Explain, Export

(* /trust shows what one query gives.                                      *)
LEMMA TrustKept ==
  ASSUME TrailInv, NEW p \in Loggers, Trust(p) PROVE TrailInv'
<1>1. PICK e \in EventNames : told' = Query(e, logger[p].sid)
  BY DEF Trust, SessionRecords
<1>2. ASSUME NEW s \in Nat
      PROVE  \A i, j \in RecordsOf(s, told') : i < j => told'[i].number > told'[j].number
  BY <1>1, QueryIsInOrder DEF RecordsOf
<1>3. ToldInOrder'
  BY <1>2 DEF ToldInOrder, ShownInOrder
<1>4. QED
  BY <1>3, ReadsKeep DEF Trust

-----------------------------------------------------------------------------

(* At first every program has a session of its own.                        *)
LEMMA TrailStarts == TrailInit => TrailInv
<1> SUFFICES ASSUME TrailInit PROVE TrailInv
  OBVIOUS
<1>1. PICK n \in Nat : n = Cardinality(Loggers)
  BY TrailAssumption, FS_CardinalityType
<1>2. \E f \in [Loggers -> 1..n] : \A p, q \in Loggers : p # q => f[p] # f[q]
  <2>1. IsFiniteSet(1..n) /\ Cardinality(1..n) = n
    <3>1. 1 \in Int /\ n \in Int /\ (1 > n => n = 0) /\ n - 1 + 1 = n
      OBVIOUS
    <3>2. QED
      BY <3>1, FS_Interval
  <2>2. ExistsBijection(Loggers, 1..n)
    BY <1>1, <2>1, TrailAssumption, FS_SameCardinalityBij
  <2>3. PICK f : f \in Bijection(Loggers, 1..n)
    BY <2>2 DEF ExistsBijection
  <2>4. QED
    BY <2>3 DEF Bijection, Injection, IsInjective
<1>3. PICK f \in [Loggers -> 1..n] :
        /\ \A p, q \in Loggers : p # q => f[p] # f[q]
        /\ logger = [p \in Loggers |-> NewLogger(f[p])]
  BY <1>1, <1>2 DEF TrailInit
<1>4. /\ trail = 0 /\ filed = <<>> /\ rotated = [t \in {} |-> 0] /\ second = 0
      /\ appended = [i \in 1..n |-> 0] /\ told = <<>>
  BY <1>1 DEF TrailInit
<1>5. appended \in Seq(Nat) /\ Len(appended) = n /\ \A i \in 1..n : appended[i] = 0
  BY <1>4
<1>6. Len(filed) = 0 /\ DOMAIN rotated = {}
  BY <1>4
<1>7. FilesOK
  BY <1>4, <1>6 DEF FilesOK
<1>8. LoggersOK
  <2>1. \A p \in Loggers : logger[p] = NewLogger(f[p]) /\ logger[p].sid = f[p] /\ NewLogger(f[p]) \in LoggerStates
    BY <1>3 DEF NewLogger, LoggerStates
  <2>2. QED
    BY <1>3, <1>5, <2>1 DEF LoggersOK
<1>9. RecordsWritten
  <2>1. \A i \in 1..Len(filed) : FALSE
    BY <1>6
  <2>2. \A s \in 1..Len(appended) : \A m \in 1..appended[s] : FALSE
    BY <1>5
  <2>3. QED
    BY <2>1, <2>2 DEF RecordsWritten
<1>10. RecordsInOrder
  BY <1>6 DEF RecordsInOrder
<1>11. OpenIsLast
  BY <1>3 DEF OpenIsLast, NewLogger
<1>12. LatestReadable
  <2>1. Readable = {} /\ 1..Len(filed) = {}
    BY <1>4, <1>6 DEF Readable
  <2>2. QED
    BY <2>1 DEF LatestReadable
<1>13. ToldInOrder
  BY <1>4 DEF ToldInOrder, ShownInOrder, RecordsOf
<1>14. QED
  BY <1>7, <1>8, <1>9, <1>10, <1>11, <1>12, <1>13 DEF TrailInv

(* Every step keeps this: of a program that logs, of a new session, of     *)
(* time and of the readers.                                                *)
LEMMA TrailGoesOn == TrailInv /\ [TrailNext]_trailVars => TrailInv'
<1> SUFFICES ASSUME TrailInv, [TrailNext]_trailVars PROVE TrailInv'
  OBVIOUS
<1>1. ASSUME NEW p \in Loggers, LogEvent(p) \/ CheckLength(p) PROVE TrailInv'
  BY <1>1, LogEventKept
<1>2. ASSUME NEW p \in Loggers, RenameTrail(p) PROVE TrailInv'
  BY <1>2, RenameKept
<1>3. ASSUME NEW p \in Loggers, PruneRotated(p) PROVE TrailInv'
  BY <1>3, PruneKept
<1>4. ASSUME NEW p \in Loggers, OpenTrail(p) PROVE TrailInv'
  BY <1>4, OpenKept
<1>5. ASSUME NEW p \in Loggers, AppendRecord(p) PROVE TrailInv'
  BY <1>5, AppendKept
<1>6. ASSUME NEW p \in Loggers, StartSession(p) PROVE TrailInv'
  BY <1>6, SessionKept
<1>7. ASSUME NEW p \in Loggers, Trust(p) PROVE TrailInv'
  BY <1>7, TrustKept
<1>8. ASSUME SecondPasses PROVE TrailInv'
  BY <1>8, SecondKept
<1>9. ASSUME Replay \/ Explain \/ Export PROVE TrailInv'
  BY <1>9, ReadersKept
<1>10. ASSUME UNCHANGED trailVars PROVE TrailInv'
  <2>1. UNCHANGED <<trail, filed, rotated, second, logger, appended, told, lapse>>
    BY <1>10 DEF trailVars, trailFiles
  <2>2. Reads /\ ToldInOrder'
    BY <2>1 DEF Reads, trailFiles, TrailInv, ToldInOrder, ShownInOrder, RecordsOf
  <2>3. QED
    BY <2>2, ReadsKeep
<1>11. QED
  BY <1>1, <1>2, <1>3, <1>4, <1>5, <1>6, <1>7, <1>8, <1>9, <1>10 DEF TrailNext

(* log_event, _rotate_if_needed, query, /audit, /trust: of every session   *)
(* the last records can be read, in order and without a gap, all of them   *)
(* until _MAX_KEEP files have been put aside, unless a write failed or two *)
(* files got one name; and what is shown of a session is in order: for any *)
(* number of programs, sessions, records and files.                        *)
THEOREM TrailStays == TrailSpec => []TrailKept
<1>1. TrailSpec => []TrailInv
  BY TrailStarts, TrailGoesOn, PTL DEF TrailSpec
<1>2. QED
  BY <1>1, KeptFollows, PTL
=============================================================================
