-------------------------- MODULE PersistenceProofs --------------------------
(***************************************************************************)
(* Proofs about StatePersistence, for every number of accounts, every      *)
(* assignment of ids, shared ones included, and every range of values.     *)
(***************************************************************************)
EXTENDS StatePersistence, FiniteSetTheorems, WellFoundedInduction, TLAPS

(* The inductive invariant.  What is on its way to the disk is the whole    *)
(* snapshot, from the write to the publication; a temporary file is whole   *)
(* when it is renamed; and what was published last is what the disk holds,  *)
(* unless a newer snapshot has just been renamed over it.                   *)
Whole == [Ids -> Values]

SaveInProgress ==
  /\ saver.pc \in {"write", "rename", "publish"} => saver.snap \in Whole
  /\ saver.pc = "rename" => tmp = saver.snap
  /\ saver.pc = "publish" => disk = saver.snap

PublishedIsOnDisk ==
  /\ lastSaved \in Whole \cup {<<>>}
  /\ proc # "down" /\ saver.pc # "publish" => lastSaved = <<>> \/ disk = lastSaved

IInv == TypeOK /\ StateFileWhole /\ SaveInProgress /\ PublishedIsOnDisk

-----------------------------------------------------------------------------
(* Of several accounts with one id there is a last one.                    *)

Descending == {p \in Nat \X Nat : p[1] < p[2]}

LEMMA DescendingWellFounded == IsWellFoundedOn(Descending, Nat)
  BY NatLessThanWellFounded DEF OpToRel, Descending

\* The distance from N has a least value in every set of accounts.
LEMMA LastAccount ==
  ASSUME NEW S \in SUBSET Idx, S # {}
  PROVE  \E i \in S : \A j \in S : j <= i
  <1>. DEFINE T == {N - i : i \in S}
  <1>1. T \subseteq Nat /\ T # {}
    BY PersistenceAssumption DEF Idx
  <1>2. PICK t \in T : \A u \in T : ~ (<<u, t>> \in Descending)
    <2>. HIDE DEF T
    <2>. QED BY <1>1, DescendingWellFounded, WFMin
  <1>3. PICK i \in S : t = N - i
    BY <1>2
  <1>4. ASSUME NEW j \in S PROVE j <= i
    <2>1. N - j \in T /\ ~ (<<N - j, t>> \in Descending)
      BY <1>2
    <2>2. N - j \in Nat /\ t \in Nat /\ i \in Nat /\ j \in Nat
      BY <1>1, <2>1, <1>3, PersistenceAssumption DEF Idx
    <2>. QED BY <2>1, <2>2, <1>3, PersistenceAssumption DEF Descending
  <1>. QED BY <1>3, <1>4

LastWithId(id, i) == IdOf[i] = id /\ \A j \in Idx : IdOf[j] = id => j <= i

LEMMA EachIdHasALast ==
  ASSUME NEW id \in Ids
  PROVE  \E i \in Idx : LastWithId(id, i)
  <1>. DEFINE S == {i \in Idx : IdOf[i] = id}
  <1>1. S \in SUBSET Idx /\ S # {}
    BY DEF Ids
  <1>2. PICK i \in S : \A j \in S : j <= i
    <2>. HIDE DEF S
    <2>. QED BY <1>1, LastAccount
  <1>. QED BY <1>2 DEF LastWithId

\* The snapshot of the statistics is a whole document, and it has for each id
\* the statistics of an account with that id.
LEMMA MapOfIsWhole ==
  ASSUME NEW s \in [Idx -> Values]
  PROVE  /\ MapOf(s) \in Whole
         /\ \A id \in Ids : \E i \in Idx : IdOf[i] = id /\ MapOf(s)[id] = s[i]
  <1>. DEFINE Chosen(id) == CHOOSE i \in Idx : LastWithId(id, i)
  <1>1. \A id \in Ids : Chosen(id) \in Idx /\ IdOf[Chosen(id)] = id
    <2>. TAKE id \in Ids
    <2>1. LastWithId(id, Chosen(id)) /\ Chosen(id) \in Idx
      BY EachIdHasALast
    <2>. QED BY <2>1 DEF LastWithId
  <1>2. MapOf(s) = [id \in Ids |-> s[Chosen(id)]]
    BY DEF MapOf, LastWithId
  <1>. HIDE DEF Chosen
  <1>. QED BY <1>1, <1>2 DEF Whole

LEMMA SnapshotTypes == Whole \subseteq Snapshots /\ <<>> \in Snapshots /\ Whole \subseteq Files
  <1>1. Whole \subseteq Snapshots
    BY DEF Whole, Snapshots
  <1>2. <<>> \in [{} -> Values]
    OBVIOUS
  <1>3. <<>> \in Snapshots
    BY <1>2 DEF Snapshots
  <1>. QED BY <1>1, <1>3 DEF Whole, Files

LEMMA WholeIsNoMark == ASSUME NEW d \in Whole PROVE d # Torn /\ d # NoFile
  BY FilesAssumption DEF Whole

-----------------------------------------------------------------------------
(* The invariant.                                                          *)

LEMMA InitIInv == Init => IInv
  <1>. SUFFICES ASSUME Init PROVE IInv
    OBVIOUS
  <1>1. NoFile \in Files /\ NoFile # Torn
    BY FilesAssumption DEF Files
  <1>2. Waiting \in Savers
    BY SnapshotTypes DEF Waiting, Savers
  <1>3. stats \in [Idx -> Values]
    BY PersistenceAssumption DEF Init, Values
  <1>4. TypeOK
    BY <1>1, <1>2, <1>3, SnapshotTypes DEF Init, TypeOK
  <1>. QED BY <1>1, <1>4 DEF Init, IInv, StateFileWhole, SaveInProgress, PublishedIsOnDisk, Waiting

\* What SaveState returns to is well typed and has nothing in progress.
LEMMA ReturnType ==
  ASSUME IInv, Return
  PROVE  saver' \in Savers /\ saver'.pc \in {"wait", "gone"}
  <1>1. Waiting \in Savers
    BY SnapshotTypes DEF Waiting, Savers
  <1>. QED BY <1>1 DEF Return, Waiting, Savers

LEMMA ReportStep ==
  ASSUME IInv, NEW i \in Idx, Report(i)
  PROVE  IInv'
  BY DEF Report, IInv, TypeOK, StateFileWhole, SaveInProgress, PublishedIsOnDisk

LEMMA WaitStep ==
  ASSUME IInv, OnTick \/ OnDone
  PROVE  IInv'
  <1>1. saver' \in Savers /\ saver'.pc \in {"snapshot", "gone"}
    BY DEF OnTick, OnDone, IInv, TypeOK, Savers
  <1>2. saver.pc = "wait" /\ UNCHANGED <<proc, stats, lastSaved, disk, tmp>>
    BY DEF OnTick, OnDone, SaverAt
  <1>. QED BY <1>1, <1>2 DEF IInv, TypeOK, StateFileWhole, SaveInProgress, PublishedIsOnDisk

LEMMA TakeSnapshotStep ==
  ASSUME IInv, TakeSnapshot
  PROVE  IInv'
  <1>1. MapOf(stats) \in Whole /\ MapOf(stats) \in Snapshots
    BY MapOfIsWhole, SnapshotTypes DEF IInv, TypeOK
  <1>2. saver' \in Savers /\ saver'.pc = "write" /\ saver'.snap \in Whole
    BY <1>1 DEF TakeSnapshot, IInv, TypeOK, Savers
  <1>3. saver.pc = "snapshot" /\ UNCHANGED <<proc, stats, lastSaved, disk, tmp>>
    BY DEF TakeSnapshot, SaverAt
  <1>. QED BY <1>2, <1>3 DEF IInv, TypeOK, StateFileWhole, SaveInProgress, PublishedIsOnDisk

LEMMA WriteOkStep ==
  ASSUME IInv, WriteOk
  PROVE  IInv'
  <1>1. saver.pc = "write" /\ saver.snap \in Whole /\ tmp' = saver.snap /\ tmp' \in Files
    BY SnapshotTypes DEF WriteOk, SaverAt, IInv, SaveInProgress
  <1>2. saver' \in Savers /\ saver'.pc = "rename" /\ saver'.snap = saver.snap
    BY DEF WriteOk, IInv, TypeOK, Savers
  <1>3. UNCHANGED <<proc, stats, lastSaved, disk>>
    BY DEF WriteOk
  <1>. QED BY <1>1, <1>2, <1>3
       DEF IInv, TypeOK, StateFileWhole, SaveInProgress, PublishedIsOnDisk

LEMMA WriteFailStep ==
  ASSUME IInv, WriteFail
  PROVE  IInv'
  <1>1. saver' \in Savers /\ saver'.pc \in {"wait", "gone"}
    BY ReturnType DEF WriteFail
  <1>2. saver.pc = "write" /\ tmp' \in Files /\ UNCHANGED <<proc, stats, lastSaved, disk>>
    BY DEF WriteFail, SaverAt, IInv, TypeOK, Files
  <1>. QED BY <1>1, <1>2 DEF IInv, TypeOK, StateFileWhole, SaveInProgress, PublishedIsOnDisk

\* The only step that changes the document: what it renames is whole.
LEMMA RenameOkStep ==
  ASSUME IInv, RenameOk
  PROVE  IInv'
  <1>1. saver.pc = "rename" /\ disk' = saver.snap /\ disk' \in Whole
    BY DEF RenameOk, SaverAt, IInv, SaveInProgress
  <1>2. disk' \in Files /\ disk' # Torn /\ tmp' \in Files
    BY <1>1, SnapshotTypes, WholeIsNoMark DEF RenameOk, Files
  <1>3. saver' \in Savers /\ saver'.pc = "publish" /\ saver'.snap = saver.snap
    BY DEF RenameOk, IInv, TypeOK, Savers
  <1>4. UNCHANGED <<proc, stats, lastSaved>>
    BY DEF RenameOk
  <1>. QED BY <1>1, <1>2, <1>3, <1>4
       DEF IInv, TypeOK, StateFileWhole, SaveInProgress, PublishedIsOnDisk

LEMMA RenameFailStep ==
  ASSUME IInv, RenameFail
  PROVE  IInv'
  <1>1. saver.pc = "rename" /\ UNCHANGED <<proc, stats, lastSaved, disk>>
    BY DEF RenameFail, SaverAt
  <1>2. CASE saver.attempt < 3
    <2>1. saver' = [saver EXCEPT !.attempt = @ + 1] /\ tmp' = tmp
      BY <1>2 DEF RenameFail
    <2>2. saver' \in Savers /\ saver'.pc = "rename" /\ saver'.snap = saver.snap
      BY <1>1, <1>2, <2>1 DEF IInv, TypeOK, Savers
    <2>. QED BY <1>1, <2>1, <2>2
         DEF IInv, TypeOK, StateFileWhole, SaveInProgress, PublishedIsOnDisk
  <1>3. CASE ~ (saver.attempt < 3)
    <2>1. saver' \in Savers /\ saver'.pc \in {"wait", "gone"}
      BY <1>3, ReturnType DEF RenameFail
    <2>2. tmp' \in Files
      BY <1>3 DEF RenameFail, IInv, TypeOK, Files
    <2>. QED BY <1>1, <2>1, <2>2
         DEF IInv, TypeOK, StateFileWhole, SaveInProgress, PublishedIsOnDisk
  <1>. QED BY <1>2, <1>3

\* What is published is what has just been renamed.
LEMMA PublishStep ==
  ASSUME IInv, Publish
  PROVE  IInv'
  <1>1. saver' \in Savers /\ saver'.pc \in {"wait", "gone"}
    BY ReturnType DEF Publish
  <1>2. lastSaved' = disk /\ lastSaved' \in Whole
    BY DEF Publish, SaverAt, IInv, SaveInProgress
  <1>3. lastSaved' \in Snapshots /\ UNCHANGED <<proc, stats, disk, tmp>>
    BY <1>2, SnapshotTypes DEF Publish
  <1>. QED BY <1>1, <1>2, <1>3
       DEF IInv, TypeOK, StateFileWhole, SaveInProgress, PublishedIsOnDisk

LEMMA StopStep ==
  ASSUME IInv, Stop
  PROVE  IInv'
  BY DEF Stop, IInv, TypeOK, StateFileWhole, SaveInProgress, PublishedIsOnDisk

LEMMA DieStep ==
  ASSUME IInv, Die
  PROVE  IInv'
  <1>1. tmp' \in Files /\ (saver.pc # "write" => tmp' = tmp)
    BY DEF Die, IInv, TypeOK, Files
  <1>2. proc' = "down" /\ UNCHANGED <<stats, lastSaved, saver, disk>>
    BY DEF Die
  <1>. QED BY <1>1, <1>2 DEF IInv, TypeOK, StateFileWhole, SaveInProgress, PublishedIsOnDisk

LEMMA RestartStep ==
  ASSUME IInv, Restart
  PROVE  IInv'
  <1>1. stats' \in [Idx -> Values]
    BY PersistenceAssumption DEF Restart, FreshMemory, Values
  <1>2. saver' \in Savers /\ saver'.pc = "wait"
    BY SnapshotTypes DEF Restart, FreshMemory, Waiting, Savers
  <1>3. lastSaved' = <<>> /\ lastSaved' \in Snapshots /\ proc' = "up"
    BY SnapshotTypes DEF Restart, FreshMemory
  <1>4. UNCHANGED <<disk, tmp>>
    BY DEF Restart
  <1>. QED BY <1>1, <1>2, <1>3, <1>4
       DEF IInv, TypeOK, StateFileWhole, SaveInProgress, PublishedIsOnDisk

LEMMA NextIInv == IInv /\ [Next]_vars => IInv'
  <1>. SUFFICES ASSUME IInv, [Next]_vars PROVE IInv'
    OBVIOUS
  <1>1. CASE \E i \in Idx : Report(i)
    BY <1>1, ReportStep
  <1>2. CASE Saver
    BY <1>2, WaitStep, TakeSnapshotStep, WriteOkStep, WriteFailStep, RenameOkStep,
       RenameFailStep, PublishStep DEF Saver
  <1>3. CASE Stop
    BY <1>3, StopStep
  <1>4. CASE Exit \/ Crash
    BY <1>4, DieStep DEF Exit, Crash
  <1>5. CASE Restart
    BY <1>5, RestartStep
  <1>6. CASE UNCHANGED vars
    BY <1>6 DEF vars, IInv, TypeOK, StateFileWhole, SaveInProgress, PublishedIsOnDisk
  <1>. QED BY <1>1, <1>2, <1>3, <1>4, <1>5, <1>6 DEF Next

THEOREM InvariantHolds == Spec => []IInv
  BY InitIInv, NextIInv, PTL DEF Spec

\* Every state has the types that SaveState and the process rely on.
THEOREM PersistenceTypes == Spec => []TypeOK
  <1>1. IInv => TypeOK
    BY DEF IInv
  <1>. QED BY <1>1, InvariantHolds, PTL

\* However failing writes, failing renames, stops and crashes interrupt SaveState,
\* state.json is never a part of a document.
THEOREM NeverTorn == Spec => []StateFileWhole
  <1>1. IInv => StateFileWhole
    BY DEF IInv
  <1>. QED BY <1>1, InvariantHolds, PTL

\* A saver at rest that finds nothing to save has lost no report: the document
\* holds the statistics in memory, those that came in during the last save too.
THEOREM NothingUnsavedLooksSaved == Spec => []CleanMeansSaved
  <1>1. IInv => CleanMeansSaved
    <2>. SUFFICES ASSUME IInv, proc # "down", saver.pc = "wait", ~Dirty
                  PROVE  disk = MapOf(stats)
      BY DEF CleanMeansSaved
    <2>1. lastSaved # <<>>
      <3>1. Cardinality(DOMAIN lastSaved) = N
        BY DEF Dirty
      <3>2. DOMAIN <<>> = {} /\ Cardinality({}) = 0
        BY FS_EmptySet
      <3>. QED BY <3>1, <3>2, PersistenceAssumption
    <2>2. lastSaved \in Whole /\ disk = lastSaved
      BY <2>1 DEF IInv, PublishedIsOnDisk
    <2>3. \A i \in Idx : lastSaved[IdOf[i]] = stats[i]
      <3>. TAKE i \in Idx
      <3>1. IdOf[i] \in DOMAIN lastSaved
        BY <2>2 DEF Whole, Ids
      <3>. QED BY <3>1 DEF Dirty
    <2>4. \A id \in Ids : lastSaved[id] = MapOf(stats)[id]
      BY <2>3, MapOfIsWhole DEF IInv, TypeOK
    <2>5. MapOf(stats) \in Whole
      BY MapOfIsWhole DEF IInv, TypeOK
    <2>. QED BY <2>2, <2>4, <2>5 DEF Whole
  <1>. QED BY <1>1, InvariantHolds, PTL
=============================================================================
