------------------------------ MODULE Evidence ------------------------------
(***************************************************************************)
(* The evidence of runs that share a directory (internal/runtime/          *)
(* evidence.go, the end of run.go): each run records what its event stream *)
(* carries, closes the record, and writes a bundle into a temporary        *)
(* directory that it renames into place.  The bundle of version 1 is not   *)
(* synced, the one of version 2 (M3) is.  A run can fail or be killed at   *)
(* every file, and the power can fail.                                     *)
(***************************************************************************)
EXTENDS Naturals, FiniteSets

CONSTANTS
  Runs,        \* runs given the same evidence.directory
  Version,     \* [Runs -> {1, 2}], version of the manifest
  Files,       \* files of a bundle besides its manifest
  None,
  MaxRecords,  \* maxEvidenceEvents
  MaxObserved, \* bound: events a run's stream carries
  MaxFaults    \* bound: failed writes, kills and power failures

ASSUME EvidenceAssumption ==
  /\ Version \in [Runs -> {1, 2}]
  /\ None \notin Runs \cup {"bundle", "incomplete"}
  /\ None \notin [run : Runs, files : SUBSET (Files \cup {"manifest"}), whole : BOOLEAN]
  /\ "manifest" \notin Files
  /\ MaxRecords \in Nat \ {0}
  /\ MaxObserved \in Nat /\ MaxFaults \in Nat

VARIABLES
  pc,        \* where a run is
  records,   \* length of evidenceWriter.records
  observed,  \* history: events the stream carried
  closed,    \* evidenceWriter.closed
  overflow,  \* evidenceWriter.overflow
  finished,  \* the last record is run.finish
  temp,      \* [Runs -> the files of its temporary directory, or None]
  durable,   \* [Runs -> files of its bundle that are on the disk]
  dir,       \* the evidence directory: a run's bundle, or None
  settled,   \* its entry in the parent is on the disk
  answer,    \* what the run returns of its evidence
  faults,
  outage     \* history: the power has failed

log    == <<records, observed, closed, overflow, finished>>
onDisk == <<temp, durable, dir, settled>>
vars   == <<pc, log, onDisk, answer, faults, outage>>

-----------------------------------------------------------------------------

Manifest == "manifest"
All      == Files \cup {Manifest}
Active   == {"running", "finish", "collect", "target", "write", "rename", "settle"}
Bundles  == [run : Runs, files : SUBSET All, whole : BOOLEAN]

TypeOK ==
  /\ pc \in [Runs -> Active \cup {"idle", "ended", "killed"}]
  /\ records \in [Runs -> 0..MaxRecords] /\ observed \in [Runs -> 0..MaxObserved]
  /\ closed \in [Runs -> BOOLEAN] /\ overflow \in [Runs -> BOOLEAN]
  /\ finished \in [Runs -> BOOLEAN]
  /\ temp \in [Runs -> (SUBSET All) \cup {None}]
  /\ durable \in [Runs -> SUBSET All]
  /\ dir \in Bundles \cup {None}
  /\ settled \in BOOLEAN
  /\ answer \in [Runs -> {None, "bundle", "incomplete"}]
  /\ faults \in 0..MaxFaults /\ outage \in BOOLEAN

Init ==
  /\ pc = [r \in Runs |-> "idle"]
  /\ records = [r \in Runs |-> 0] /\ observed = [r \in Runs |-> 0]
  /\ closed = [r \in Runs |-> FALSE] /\ overflow = [r \in Runs |-> FALSE]
  /\ finished = [r \in Runs |-> FALSE]
  /\ temp = [r \in Runs |-> None] /\ durable = [r \in Runs |-> {}]
  /\ dir = None /\ settled = FALSE
  /\ answer = [r \in Runs |-> None]
  /\ faults = 0 /\ outage = FALSE

Fault == faults < MaxFaults /\ faults' = faults + 1

-----------------------------------------------------------------------------
(* The record of the event stream.                                         *)

(* Mutant: a record that does not fit is dropped without a trace.          *)
BugAppend(r) ==
  /\ records' = [records EXCEPT ![r] = IF @ < MaxRecords THEN @ + 1 ELSE @]
  /\ UNCHANGED overflow

(* appendLocked.                                                           *)
Append(r) ==
  IF records[r] < MaxRecords
  THEN records' = [records EXCEPT ![r] = @ + 1] /\ UNCHANGED overflow
  ELSE overflow' = [overflow EXCEPT ![r] = TRUE] /\ UNCHANGED records

(* BeforeRunCallback records run.start; a runner that fails before it      *)
(* leaves the writer open.                                                 *)
Start(r) ==
  /\ pc[r] = "idle"
  /\ \/ pc' = [pc EXCEPT ![r] = "running"] /\ Append(r) /\ UNCHANGED faults
     \/ pc' = [pc EXCEPT ![r] = "finish"] /\ Fault /\ UNCHANGED <<records, overflow>>
  /\ UNCHANGED <<observed, closed, finished, onDisk, answer, outage>>

(* OnEventCallback.                                                        *)
Observe(r) ==
  /\ pc[r] = "running"
  /\ observed[r] < MaxObserved
  /\ observed' = [observed EXCEPT ![r] = @ + 1]
  /\ Append(r)
  /\ UNCHANGED <<pc, closed, finished, onDisk, answer, faults, outage>>

(* AfterRunCallback, when the iterator is exhausted.                       *)
AfterRun(r) ==
  /\ pc[r] = "running"
  /\ closed' = [closed EXCEPT ![r] = TRUE]
  /\ pc' = [pc EXCEPT ![r] = "finish"]
  /\ UNCHANGED <<records, observed, overflow, finished, onDisk, answer, faults, outage>>

(* Mutant: a failed run leaves its temporary directory.                    *)
BugIncomplete(r) ==
  /\ pc' = [pc EXCEPT ![r] = "ended"]
  /\ answer' = [answer EXCEPT ![r] = "incomplete"]
  /\ UNCHANGED temp

(* ErrEvidence: the deferred RemoveAll, and the result is incomplete.      *)
Incomplete(r) ==
  /\ pc' = [pc EXCEPT ![r] = "ended"]
  /\ answer' = [answer EXCEPT ![r] = "incomplete"]
  /\ temp' = [temp EXCEPT ![r] = None]

(* finish: an open or overflowing record is refused; run.finish is the     *)
(* last record, and may be the one that does not fit.                      *)
Finish(r) ==
  /\ pc[r] = "finish"
  /\ IF ~closed[r] \/ overflow[r]
     THEN Incomplete(r) /\ UNCHANGED <<records, overflow, finished>>
     ELSE /\ finished' = [finished EXCEPT ![r] = records[r] < MaxRecords]
          /\ Append(r)
          /\ pc' = [pc EXCEPT ![r] = "collect"]
          /\ UNCHANGED <<temp, answer>>
  /\ UNCHANGED <<observed, closed, durable, dir, settled, faults, outage>>

-----------------------------------------------------------------------------
(* The bundle.                                                             *)

(* jsonLines, Snapshot and the manifest are made in memory; each can be    *)
(* refused for what it holds or for its size.                              *)
Collect(r) ==
  /\ pc[r] = "collect"
  /\ \/ pc' = [pc EXCEPT ![r] = "target"] /\ UNCHANGED <<temp, answer, faults>>
     \/ Incomplete(r) /\ Fault
  /\ UNCHANGED <<log, durable, dir, settled, outage>>

(* Mutant: the run waits until the directory is free.                      *)
BugCheckTarget(r) ==
  /\ pc[r] = "target" /\ dir = None
  /\ temp' = [temp EXCEPT ![r] = {}]
  /\ pc' = [pc EXCEPT ![r] = "write"]
  /\ UNCHANGED <<answer, faults, log, durable, dir, settled, outage>>

(* Stat, then MkdirTemp.                                                   *)
CheckTarget(r) ==
  /\ pc[r] = "target"
  /\ \/ /\ dir = None
        /\ temp' = [temp EXCEPT ![r] = {}]
        /\ pc' = [pc EXCEPT ![r] = "write"]
        /\ UNCHANGED <<answer, faults>>
     \/ dir # None /\ Incomplete(r) /\ UNCHANGED faults
     \/ dir = None /\ Incomplete(r) /\ Fault
  /\ UNCHANGED <<log, durable, dir, settled, outage>>

(* Mutant: the files are not synced one by one.                            *)
BugSynced(r, f) == {}

(* writeEvidenceFile syncs the file and its directory, os.WriteFile of the *)
(* version 1 nothing.                                                      *)
Synced(r, f) == IF Version[r] = 2 THEN {f} ELSE {}

(* The files in turn, the manifest last.                                   *)
WriteFile(r, f) ==
  /\ pc[r] = "write"
  /\ f \notin temp[r] /\ (f = Manifest => Files \subseteq temp[r])
  /\ \/ /\ temp' = [temp EXCEPT ![r] = @ \cup {f}]
        /\ durable' = [durable EXCEPT ![r] = @ \cup Synced(r, f)]
        /\ pc' = [pc EXCEPT ![r] = IF f = Manifest THEN "rename" ELSE "write"]
        /\ UNCHANGED <<answer, faults>>
     \/ Incomplete(r) /\ Fault /\ UNCHANGED durable
  /\ UNCHANGED <<log, dir, settled, outage>>

(* rename(2) does not replace a directory that is not empty.  The bundle is*)
(* whole when the record in it has lost no event.                          *)
Rename(r) ==
  /\ pc[r] = "rename"
  /\ \/ /\ dir = None
        /\ dir' = [run |-> r, files |-> temp[r], whole |-> records[r] >= 1 + observed[r]]
        /\ temp' = [temp EXCEPT ![r] = None]
        /\ settled' = FALSE
        /\ pc' = [pc EXCEPT ![r] = "settle"]
        /\ UNCHANGED <<answer, faults>>
     \/ dir # None /\ Incomplete(r) /\ UNCHANGED <<dir, settled, faults>>
     \/ dir = None /\ Incomplete(r) /\ Fault /\ UNCHANGED <<dir, settled>>
  /\ UNCHANGED <<log, durable, outage>>

(* Mutant: the parent is not synced.                                       *)
BugSettle(r) ==
  /\ pc[r] = "settle"
  /\ pc' = [pc EXCEPT ![r] = "ended"] /\ answer' = [answer EXCEPT ![r] = "bundle"]
  /\ UNCHANGED <<log, temp, durable, dir, settled, faults, outage>>

(* The parent is synced, in version 2 only; the bundle is in its place     *)
(* even when that fails.                                                   *)
Settle(r) ==
  /\ pc[r] = "settle"
  /\ \/ /\ pc' = [pc EXCEPT ![r] = "ended"]
        /\ answer' = [answer EXCEPT ![r] = "bundle"]
        /\ settled' = (settled \/ Version[r] = 2)
        /\ UNCHANGED <<temp, faults>>
     \/ Version[r] = 2 /\ Incomplete(r) /\ Fault /\ UNCHANGED settled
  /\ UNCHANGED <<log, durable, dir, outage>>

-----------------------------------------------------------------------------
(* External: the process is killed; the power fails, and what was not      *)
(* synced may be gone.                                                     *)

Kill(r) ==
  /\ pc[r] \in Active
  /\ pc' = [pc EXCEPT ![r] = "killed"]
  /\ Fault
  /\ UNCHANGED <<log, onDisk, answer, outage>>

PowerFails ==
  /\ Fault
  /\ pc' = [r \in Runs |-> IF pc[r] \in Active THEN "killed" ELSE pc[r]]
  /\ \/ /\ dir # None /\ ~settled          \* the rename is undone
        /\ dir' = None
        /\ temp' = [temp EXCEPT ![dir.run] = dir.files]
     \/ /\ dir # None
        /\ \E S \in SUBSET dir.files :
             durable[dir.run] \subseteq S /\ dir' = [dir EXCEPT !.files = S]
        /\ UNCHANGED temp
     \/ dir = None /\ UNCHANGED <<dir, temp>>
  /\ settled' = (dir' # None)
  /\ outage' = TRUE
  /\ UNCHANGED <<log, durable, answer>>

Step(r) ==
  \/ Start(r) \/ AfterRun(r) \/ Finish(r) \/ Collect(r) \/ CheckTarget(r)
  \/ (\E f \in All : WriteFile(r, f)) \/ Rename(r) \/ Settle(r)

Next ==
  \/ \E r \in Runs : Observe(r) \/ Step(r) \/ Kill(r)
  \/ PowerFails

Spec == Init /\ [][Next]_vars

(* A run whose stream has ended writes its evidence without waiting for    *)
(* anything; the stream itself ends within the run's bounds.               *)
FairSpec == Spec /\ \A r \in Runs : WF_vars(Step(r))

-----------------------------------------------------------------------------
(* Properties.                                                             *)

(* Whoever finds a bundle finds all of it, however many runs were killed at*)
(* whatever file: the manifest is last and the rename is atomic.  After a  *)
(* power failure this is true of the synced bundle of version 2.           *)
BundleIsComplete ==
  dir # None /\ (Version[dir.run] = 2 \/ ~outage) => dir.files = All

(* A bundle never holds a record with a gap: a run whose stream carried    *)
(* more events than fit leaves no bundle.                                  *)
RecordHasNoGap == dir # None => dir.whole

(* A run that returns, whether its evidence failed or not, leaves nothing  *)
(* beside the evidence directory.                                          *)
LeavesNothingBehind ==
  ~outage => \A r \in Runs : pc[r] = "ended" => temp[r] = None

(* The directory keeps the contract of EvidenceBundle: two runs that both  *)
(* saw no directory there do not overwrite each other, and a reported      *)
(* bundle of version 2 survives a power failure.                           *)
Directory == INSTANCE EvidenceBundle
  WITH dir      <- IF dir = None THEN None ELSE dir.run,
       reported <- {r \in Runs : answer[r] = "bundle"},
       Unsynced <- {r \in Runs : Version[r] = 1}
KeepsFirstBundle == Directory!Spec

(* Every run ends with an answer or is killed.                             *)
Answers == \A r \in Runs : pc[r] = "running" ~> pc[r] \in {"ended", "killed"}

-----------------------------------------------------------------------------
(* A claim of the documents that the code does not keep.                   *)

(* ADR 004: the record of a bundle has run.start, the events and run.finish*)
RecordIsFinished == dir # None => finished[dir.run]
=============================================================================
