-------------------------- MODULE StatePersistence --------------------------
(***************************************************************************)
(* How the failure statistics reach state.json: the goroutine of           *)
(* SaveStatePeriodically (internal/accountmanager/manager.go), SaveState   *)
(* (state.go), and the life of the process around them (cmd/kiro-gateway). *)
(*                                                                         *)
(* SaveState takes its snapshot under m.mu, writes it to a temporary file  *)
(* and renames that without a lock, and publishes the snapshot under m.mu  *)
(* again.  Reports of requests, disk errors, a stop signal and a crash may *)
(* come between any two of these steps.                                    *)
(***************************************************************************)
EXTENDS Naturals, FiniteSets

CONSTANTS
  N,          \* number of accounts
  IdOf,       \* their ids
  MaxStats,   \* the values 0 .. MaxStats stand for AccountStats; 0 is the zero one
  NoFile,     \* the content of a file that does not exist
  Torn        \* the content of a file that was written in part

Idx == 0 .. N - 1
Ids == {IdOf[i] : i \in Idx}
Values == 0 .. MaxStats

ASSUME PersistenceAssumption ==
  /\ N \in Nat \ {0}
  /\ IdOf \in [Idx -> Ids]
  /\ MaxStats \in Nat \ {0}

Snapshots == UNION {[S -> Values] : S \in SUBSET Ids}
Files == [Ids -> Values] \cup {NoFile, Torn}

ASSUME FilesAssumption == NoFile # Torn /\ {NoFile, Torn} \cap [Ids -> Values] = {}

VARIABLES
  proc,       \* "up", "stopping" (the signal context is cancelled) or "down"
  stats,      \* the statistics of each account, in memory
  lastSaved,  \* m.lastSaved, a map from ids
  saver,      \* the goroutine: its pc, local snapshot and rename attempt
  disk,       \* state.json
  tmp         \* state.json.tmp

vars == <<proc, stats, lastSaved, saver, disk, tmp>>

Waiting == [pc |-> "wait", final |-> FALSE, snap |-> <<>>, attempt |-> 1]

Savers ==
  [pc : {"wait", "snapshot", "write", "rename", "publish", "gone"},
   final : BOOLEAN,           \* the save of the ctx.Done branch
   snap : Snapshots,
   attempt : 1 .. 3]

TypeOK ==
  /\ proc \in {"up", "stopping", "down"}
  /\ stats \in [Idx -> Values]
  /\ lastSaved \in Snapshots
  /\ saver \in Savers
  /\ disk \in Files /\ tmp \in Files

\* A process as NewManager, LoadCredentials and Initialize leave it: main calls
\* no LoadState, so whatever state.json says, the statistics are zero.
FreshMemory ==
  /\ stats' = [i \in Idx |-> 0]
  /\ lastSaved' = <<>>
  /\ saver' = Waiting

Init ==
  /\ proc = "up"
  /\ stats = [i \in Idx |-> 0]
  /\ lastSaved = <<>>
  /\ saver = Waiting
  /\ disk = NoFile /\ tmp = NoFile

-----------------------------------------------------------------------------
\* The map SaveState builds: of accounts that share an id the last one stays.
MapOf(s) ==
  [id \in Ids |-> s[CHOOSE i \in Idx : IdOf[i] = id /\ \A j \in Idx : IdOf[j] = id => j <= i]]

\* hasStateChanged
Dirty ==
  \/ \E i \in Idx :
       IF IdOf[i] \in DOMAIN lastSaved
       THEN lastSaved[IdOf[i]] # stats[i]
       ELSE stats[i] # 0
  \/ Cardinality(DOMAIN lastSaved) # N

\* A request reports a success or a failure.
Report(i) ==
  /\ proc # "down"
  /\ \E v \in Values \ {stats[i]} : stats' = [stats EXCEPT ![i] = v]
  /\ UNCHANGED <<proc, lastSaved, saver, disk, tmp>>

-----------------------------------------------------------------------------
SaverAt(pc) == proc # "down" /\ saver.pc = pc

\* The end of SaveState: back to the loop, or out of the goroutine.
Return == saver' = [Waiting EXCEPT !.pc = IF saver.final THEN "gone" ELSE "wait"]

\* case <-ticker.C.  A clean state makes it a step without effect.
OnTick ==
  /\ SaverAt("wait") /\ Dirty
  /\ saver' = [saver EXCEPT !.pc = "snapshot"]
  /\ UNCHANGED <<proc, stats, lastSaved, disk, tmp>>

\* case <-ctx.Done().  The select may also take the tick when both are ready.
OnDone ==
  /\ SaverAt("wait") /\ proc = "stopping"
  /\ saver' = IF Dirty THEN [saver EXCEPT !.pc = "snapshot", !.final = TRUE]
                       ELSE [saver EXCEPT !.pc = "gone"]
  /\ UNCHANGED <<proc, stats, lastSaved, disk, tmp>>

TakeSnapshot ==
  /\ SaverAt("snapshot")
  /\ saver' = [saver EXCEPT !.pc = "write", !.snap = MapOf(stats)]
  /\ UNCHANGED <<proc, stats, lastSaved, disk, tmp>>

WriteOk ==
  /\ SaverAt("write")
  /\ tmp' = saver.snap
  /\ saver' = [saver EXCEPT !.pc = "rename"]
  /\ UNCHANGED <<proc, stats, lastSaved, disk>>

\* Fault: the error of os.WriteFile is ignored.
WriteFailIgnored ==
  /\ SaverAt("write")
  /\ tmp' \in {tmp, Torn}
  /\ saver' = [saver EXCEPT !.pc = "rename"]
  /\ UNCHANGED <<proc, stats, lastSaved, disk>>

\* os.WriteFile fails: before it has truncated the file, or half way.
WriteFail ==
  /\ SaverAt("write")
  /\ tmp' \in {tmp, Torn}
  /\ Return
  /\ UNCHANGED <<proc, stats, lastSaved, disk>>

\* A rename that succeeds replaces the file at once.
RenameOk ==
  /\ SaverAt("rename")
  /\ disk' = tmp /\ tmp' = NoFile
  /\ saver' = [saver EXCEPT !.pc = "publish"]
  /\ UNCHANGED <<proc, stats, lastSaved>>

\* Fault: the rename is tried without end.
RenameFailEndless ==
  /\ SaverAt("rename")
  /\ saver' = [saver EXCEPT !.attempt = @ + 1]
  /\ UNCHANGED <<proc, stats, lastSaved, disk, tmp>>

\* renameWithRetry: three attempts, then the temporary file is removed.
RenameFail ==
  /\ SaverAt("rename")
  /\ IF saver.attempt < 3
     THEN saver' = [saver EXCEPT !.attempt = @ + 1] /\ UNCHANGED tmp
     ELSE Return /\ tmp' \in {tmp, NoFile}
  /\ UNCHANGED <<proc, stats, lastSaved, disk>>

\* Fault: what is published is the memory of now, not what was written.
PublishCurrent ==
  /\ SaverAt("publish")
  /\ lastSaved' = MapOf(stats)
  /\ Return
  /\ UNCHANGED <<proc, stats, disk, tmp>>

\* Fault: nothing is published, so each tick finds a change.
PublishNothing ==
  /\ SaverAt("publish")
  /\ Return
  /\ UNCHANGED <<proc, stats, lastSaved, disk, tmp>>

Publish ==
  /\ SaverAt("publish")
  /\ lastSaved' = saver.snap
  /\ Return
  /\ UNCHANGED <<proc, stats, disk, tmp>>

-----------------------------------------------------------------------------
\* SIGINT or SIGTERM cancels the context of main, and with it the saver's.
Stop ==
  /\ proc = "up"
  /\ proc' = "stopping"
  /\ UNCHANGED <<stats, lastSaved, saver, disk, tmp>>

\* The process is gone.  A write under way leaves a torn temporary file.
Die ==
  /\ proc' = "down"
  /\ tmp' \in IF saver.pc = "write" THEN {tmp, Torn} ELSE {tmp}
  /\ UNCHANGED <<stats, lastSaved, saver, disk>>

\* Server.Start returns as soon as the context is cancelled, and main with it:
\* neither waits for the saver or for Shutdown.
Exit == proc = "stopping" /\ Die

Crash == proc \in {"up", "stopping"} /\ Die

Restart ==
  /\ proc = "down"
  /\ proc' = "up"
  /\ FreshMemory
  /\ UNCHANGED <<disk, tmp>>

Saver ==
  \/ OnTick \/ OnDone \/ TakeSnapshot
  \/ WriteOk \/ WriteFail \/ RenameOk \/ RenameFail \/ Publish

Next ==
  \/ \E i \in Idx : Report(i)
  \/ Saver
  \/ Stop \/ Exit \/ Crash \/ Restart

Spec == Init /\ [][Next]_vars

\* The goroutine keeps running, and a disk that is tried again and again does
\* not fail every time.
Fairness == WF_vars(Saver) /\ SF_vars(WriteOk) /\ SF_vars(RenameOk)

FairSpec == Spec /\ Fairness

-----------------------------------------------------------------------------
(* Properties.                                                             *)

\* Whatever disk errors and crashes interrupt a save, state.json is always a
\* complete document: only a complete temporary file is ever renamed over it.
StateFileWhole == disk # Torn

\* When the saver rests and sees no change, state.json holds what memory holds:
\* a report that came in during a save is not mistaken for a saved one.
CleanMeansSaved ==
  (proc # "down" /\ saver.pc = "wait" /\ ~Dirty) => disk = MapOf(stats)

\* If the process stays up and the reports cease, memory reaches the disk and
\* the saver comes to rest: failed writes and renames are tried again.
QuietStateGetsSaved ==
  (<>[](proc = "up") /\ <>[][~\E i \in Idx : Report(i)]_vars)
    => <>[](disk = MapOf(stats) /\ ~Dirty)

\* "Guarda el estado final al ser cancelado si esta dirty" (manager.go): an
\* orderly exit leaves the statistics of the process in state.json.
FinalStateIsSaved ==
  [][Exit /\ (\E i \in Idx : stats[i] # 0) => disk = MapOf(stats)]_vars
=============================================================================
