--------------------------- MODULE EvidenceProofs ---------------------------
(***************************************************************************)
(* Proofs about Evidence for any number of runs, files, records and events,*)
(* and for any number of failed writes, kills and power failures.          *)
(***************************************************************************)
EXTENDS Evidence, TLAPS

Recorded == {"collect", "target", "write", "rename"}

(* As long as nothing was dropped there is a record for the start of the   *)
(* run and for every event; behind finish this is so of every run.         *)
Complete(r) == records[r] >= 1 + observed[r]
LogHeld(r) ==
  /\ pc[r] = "idle" => records[r] = 0 /\ observed[r] = 0 /\ ~closed[r] /\ ~overflow[r]
  /\ pc[r] = "running" => ~closed[r] /\ (overflow[r] \/ Complete(r))
  /\ pc[r] = "finish" /\ closed[r] /\ ~overflow[r] => Complete(r)
  /\ pc[r] \in Recorded => Complete(r)

(* The manifest comes last, and what a run of version 2 has written is     *)
(* synced.                                                                 *)
TempHeld(r) ==
  /\ pc[r] \in {"write", "rename"} => temp[r] \in SUBSET All /\ (Version[r] = 2 => temp[r] \subseteq durable[r])
  /\ pc[r] = "rename" => temp[r] = All
  /\ pc[r] = "settle" => dir # None /\ dir.run = r /\ temp[r] = None
  /\ ~outage /\ pc[r] = "ended" => temp[r] = None

(* A run that has answered has ended, and a bundle it reported is on the   *)
(* disk, its entry in the parent too.                                      *)
AnswerHeld(r) == answer[r] = "bundle" => pc[r] = "ended"

DirHeld ==
  dir # None =>
    /\ dir.whole
    /\ ~outage => dir.files = All
    /\ Version[dir.run] = 2 =>
         /\ dir.files = All /\ All \subseteq durable[dir.run]
         /\ answer[dir.run] = "bundle" => settled

IInv ==
  /\ TypeOK /\ DirHeld
  /\ \A r \in Runs : LogHeld(r) /\ TempHeld(r) /\ AnswerHeld(r)

-----------------------------------------------------------------------------

LEMMA InitIInv == Init => IInv
<1> SUFFICES ASSUME Init PROVE IInv
  OBVIOUS
<1>1. TypeOK
  <2>1. /\ records \in [Runs -> 0..MaxRecords] /\ observed \in [Runs -> 0..MaxObserved]
        /\ faults \in 0..MaxFaults
    BY EvidenceAssumption DEF Init
  <2>2. /\ closed \in [Runs -> BOOLEAN] /\ overflow \in [Runs -> BOOLEAN]
        /\ finished \in [Runs -> BOOLEAN] /\ settled \in BOOLEAN /\ outage \in BOOLEAN
    BY DEF Init
  <2>3. /\ temp \in [Runs -> (SUBSET All) \cup {None}] /\ durable \in [Runs -> SUBSET All]
        /\ answer \in [Runs -> {None, "bundle", "incomplete"}] /\ dir \in Bundles \cup {None}
        /\ pc \in [Runs -> Active \cup {"idle", "ended", "killed"}]
    BY DEF Init
  <2> QED
    BY <2>1, <2>2, <2>3 DEF TypeOK
<1>2. DirHeld
  BY DEF Init, DirHeld
<1>3. ASSUME NEW r \in Runs PROVE LogHeld(r) /\ TempHeld(r) /\ AnswerHeld(r)
  BY EvidenceAssumption DEF Init, LogHeld, TempHeld, AnswerHeld, Recorded
<1> QED
  BY <1>1, <1>2, <1>3 DEF IInv

(* What the actions of a run do to its record.                             *)
LEMMA AppendType ==
  ASSUME TypeOK, NEW r \in Runs, Append(r)
  PROVE  /\ records' \in [Runs -> 0..MaxRecords] /\ overflow' \in [Runs -> BOOLEAN]
         /\ \A q \in Runs \ {r} : records'[q] = records[q] /\ overflow'[q] = overflow[q]
         /\ records'[r] >= records[r]
         /\ ~overflow'[r] => records'[r] = records[r] + 1 /\ ~overflow[r]
         /\ records[r] < MaxRecords => records'[r] = records[r] + 1 /\ overflow'[r] = overflow[r]
<1>1. records \in [Runs -> 0..MaxRecords] /\ overflow \in [Runs -> BOOLEAN] /\ MaxRecords \in Nat
  BY EvidenceAssumption DEF TypeOK
<1>2. CASE records[r] < MaxRecords
  <2>1. records' = [records EXCEPT ![r] = @ + 1] /\ overflow' = overflow
    BY <1>2 DEF Append
  <2> QED
    BY <1>1, <1>2, <2>1
<1>3. CASE ~(records[r] < MaxRecords)
  <2>1. overflow' = [overflow EXCEPT ![r] = TRUE] /\ records' = records
    BY <1>3 DEF Append
  <2>2. overflow' \in [Runs -> BOOLEAN] /\ overflow'[r] /\ \A q \in Runs \ {r} : overflow'[q] = overflow[q]
    BY <1>1, <2>1
  <2>3. records' \in [Runs -> 0..MaxRecords] /\ records'[r] >= records[r]
    BY <1>1, <2>1
  <2>4. \A q \in Runs \ {r} : records'[q] = records[q]
    BY <2>1
  <2> QED
    BY <1>3, <2>2, <2>3, <2>4
<1> QED
  BY <1>2, <1>3

LEMMA FaultCounted == ASSUME TypeOK, Fault PROVE faults' \in 0..MaxFaults
BY EvidenceAssumption DEF TypeOK, Fault

LEMMA StartIInv ==
  ASSUME IInv, NEW r \in Runs, Start(r)
  PROVE  IInv'
<1>1. /\ pc[r] = "idle" /\ UNCHANGED <<observed, closed, finished, onDisk, answer, outage>>
      /\ \/ pc' = [pc EXCEPT ![r] = "running"] /\ Append(r) /\ UNCHANGED faults
         \/ pc' = [pc EXCEPT ![r] = "finish"] /\ Fault /\ UNCHANGED <<records, overflow>>
  BY DEF Start
<1>2. TypeOK'
  <2>1. pc' \in [Runs -> Active \cup {"idle", "ended", "killed"}]
    BY <1>1 DEF IInv, TypeOK, Active
  <2>2. records' \in [Runs -> 0..MaxRecords] /\ overflow' \in [Runs -> BOOLEAN] /\ faults' \in 0..MaxFaults
    BY <1>1, AppendType, FaultCounted DEF IInv, TypeOK
  <2> QED
    BY <1>1, <2>1, <2>2 DEF IInv, TypeOK, onDisk
<1>3. DirHeld'
  BY <1>1 DEF IInv, DirHeld, onDisk
<1>4. ASSUME NEW q \in Runs PROVE LogHeld(q)'
  <2>1. CASE q # r
    BY <1>1, <2>1, AppendType DEF IInv, TypeOK, LogHeld, Complete
  <2>2. CASE q = r /\ Append(r) /\ pc' = [pc EXCEPT ![r] = "running"]
    <3>1. records[r] = 0 /\ observed[r] = 0 /\ ~closed[r] /\ 0 < MaxRecords
      BY <1>1, EvidenceAssumption DEF IInv, LogHeld
    <3>2. records'[r] = 1 /\ observed'[r] = 0 /\ closed'[r] = closed[r]
      BY <1>1, <2>2, <3>1, AppendType DEF IInv
    <3>3. pc'[r] = "running"
      BY <2>2 DEF IInv, TypeOK
    <3> QED
      BY <2>2, <3>1, <3>2, <3>3 DEF LogHeld, Complete, Recorded
  <2>3. CASE q = r /\ pc' = [pc EXCEPT ![r] = "finish"]
    BY <1>1, <2>3 DEF IInv, TypeOK, LogHeld, Recorded
  <2> QED
    BY <1>1, <2>1, <2>2, <2>3
<1>5. ASSUME NEW q \in Runs PROVE TempHeld(q)' /\ AnswerHeld(q)'
  BY <1>1 DEF IInv, TypeOK, TempHeld, AnswerHeld, onDisk
<1> QED
  BY <1>2, <1>3, <1>4, <1>5 DEF IInv

LEMMA ObserveIInv ==
  ASSUME IInv, NEW r \in Runs, Observe(r)
  PROVE  IInv'
<1>1. /\ pc[r] = "running" /\ observed[r] < MaxObserved
      /\ observed' = [observed EXCEPT ![r] = @ + 1] /\ Append(r)
      /\ UNCHANGED <<pc, closed, finished, onDisk, answer, faults, outage>>
  BY DEF Observe
<1>2. TypeOK'
  BY <1>1, AppendType, EvidenceAssumption DEF IInv, TypeOK, onDisk
<1>3. DirHeld'
  BY <1>1 DEF IInv, DirHeld, onDisk
<1>4. ASSUME NEW q \in Runs PROVE LogHeld(q)'
  <2>1. CASE q # r
    BY <1>1, <2>1, AppendType DEF IInv, TypeOK, LogHeld, Complete
  <2>2. CASE q = r
    <3>1. /\ observed'[r] = observed[r] + 1 /\ observed[r] \in Nat /\ records[r] \in Nat
          /\ pc'[r] = "running" /\ closed'[r] = closed[r]
      BY <1>1 DEF IInv, TypeOK
    <3>2. ~overflow'[r] => records'[r] = records[r] + 1 /\ ~overflow[r]
      BY <1>1, AppendType DEF IInv
    <3>3. ~closed[r] /\ (overflow[r] \/ Complete(r))
      BY <1>1 DEF IInv, LogHeld
    <3>4. overflow'[r] \/ records'[r] >= 1 + observed'[r]
      BY <3>1, <3>2, <3>3 DEF Complete
    <3> QED
      BY <2>2, <3>1, <3>3, <3>4 DEF LogHeld, Complete, Recorded
  <2> QED
    BY <2>1, <2>2
<1>5. ASSUME NEW q \in Runs PROVE TempHeld(q)' /\ AnswerHeld(q)'
  BY <1>1 DEF IInv, TempHeld, AnswerHeld, onDisk
<1> QED
  BY <1>2, <1>3, <1>4, <1>5 DEF IInv

LEMMA AfterRunIInv ==
  ASSUME IInv, NEW r \in Runs, AfterRun(r)
  PROVE  IInv'
<1>1. /\ pc[r] = "running" /\ closed' = [closed EXCEPT ![r] = TRUE] /\ pc' = [pc EXCEPT ![r] = "finish"]
      /\ UNCHANGED <<records, observed, overflow, finished, onDisk, answer, faults, outage>>
  BY DEF AfterRun
<1>2. TypeOK'
  BY <1>1 DEF IInv, TypeOK, Active, onDisk
<1>3. DirHeld'
  BY <1>1 DEF IInv, DirHeld, onDisk
<1>4. ASSUME NEW q \in Runs PROVE LogHeld(q)' /\ TempHeld(q)' /\ AnswerHeld(q)'
  BY <1>1 DEF IInv, TypeOK, LogHeld, Complete, Recorded, TempHeld, AnswerHeld, onDisk
<1> QED
  BY <1>2, <1>3, <1>4 DEF IInv

(* A run whose evidence fails cleans up and reports no bundle.             *)
LEMMA IncompleteIInv ==
  ASSUME IInv, NEW r \in Runs, pc[r] \in Active, Incomplete(r), faults' \in 0..MaxFaults,
         UNCHANGED <<log, durable, dir, settled, outage>>
  PROVE  IInv'
<1>1. /\ pc' = [pc EXCEPT ![r] = "ended"] /\ answer' = [answer EXCEPT ![r] = "incomplete"]
      /\ temp' = [temp EXCEPT ![r] = None]
  BY DEF Incomplete
<1>2. TypeOK'
  <2>1. /\ pc' \in [Runs -> Active \cup {"idle", "ended", "killed"}]
        /\ answer' \in [Runs -> {None, "bundle", "incomplete"}]
    BY <1>1 DEF IInv, TypeOK
  <2>2. temp' \in [Runs -> (SUBSET All) \cup {None}]
    BY <1>1 DEF IInv, TypeOK
  <2> QED
    BY <2>1, <2>2 DEF IInv, TypeOK, log
<1>3. DirHeld'
  BY <1>1 DEF IInv, TypeOK, Bundles, DirHeld
<1>4. ASSUME NEW q \in Runs PROVE LogHeld(q)' /\ TempHeld(q)' /\ AnswerHeld(q)'
  BY <1>1 DEF IInv, TypeOK, LogHeld, Complete, Recorded, TempHeld, AnswerHeld, log
<1> QED
  BY <1>2, <1>3, <1>4 DEF IInv

LEMMA FinishIInv ==
  ASSUME IInv, NEW r \in Runs, Finish(r)
  PROVE  IInv'
<1>1. pc[r] = "finish" /\ UNCHANGED <<observed, closed, durable, dir, settled, faults, outage>>
  BY DEF Finish
<1>2. CASE ~closed[r] \/ overflow[r]
  <2>1. Incomplete(r) /\ UNCHANGED <<records, overflow, finished>>
    BY <1>2 DEF Finish
  <2> QED
    BY <1>1, <2>1, IncompleteIInv DEF Active, log, IInv, TypeOK
<1>3. CASE closed[r] /\ ~overflow[r]
  <2>1. /\ finished' = [finished EXCEPT ![r] = records[r] < MaxRecords] /\ Append(r)
        /\ pc' = [pc EXCEPT ![r] = "collect"] /\ UNCHANGED <<temp, answer>>
    BY <1>3 DEF Finish
  <2>2. TypeOK'
    BY <1>1, <2>1, AppendType, EvidenceAssumption DEF IInv, TypeOK, Active
  <2>3. DirHeld'
    BY <1>1, <2>1 DEF IInv, DirHeld
  <2>4. ASSUME NEW q \in Runs PROVE LogHeld(q)'
    <3>1. CASE q # r
      BY <1>1, <2>1, <3>1, AppendType DEF IInv, TypeOK, LogHeld, Complete
    <3>2. CASE q = r
      <4>1. records[r] >= 1 + observed[r] /\ records[r] \in Nat /\ observed[r] \in Nat /\ records'[r] \in Nat
        BY <1>1, <1>3, <2>2 DEF IInv, TypeOK, LogHeld, Complete
      <4>2. records'[r] >= records[r] /\ observed'[r] = observed[r] /\ pc'[r] = "collect"
        BY <1>1, <2>1, AppendType DEF IInv, TypeOK
      <4> QED
        BY <3>2, <4>1, <4>2 DEF LogHeld, Complete
    <3> QED
      BY <3>1, <3>2
  <2>5. ASSUME NEW q \in Runs PROVE TempHeld(q)' /\ AnswerHeld(q)'
    BY <1>1, <2>1 DEF IInv, TypeOK, TempHeld, AnswerHeld
  <2> QED
    BY <2>2, <2>3, <2>4, <2>5 DEF IInv
<1> QED
  BY <1>2, <1>3 DEF IInv, TypeOK

LEMMA CollectIInv ==
  ASSUME IInv, NEW r \in Runs, Collect(r)
  PROVE  IInv'
<1>1. CASE Incomplete(r) /\ Fault
  BY <1>1, FaultCounted, IncompleteIInv DEF Collect, Active, IInv
<1>2. CASE pc' = [pc EXCEPT ![r] = "target"] /\ UNCHANGED <<temp, answer, faults>>
  <2>1. pc[r] = "collect" /\ UNCHANGED <<log, durable, dir, settled, outage>>
    BY DEF Collect
  <2>2. TypeOK'
    BY <1>2, <2>1 DEF IInv, TypeOK, Active, log
  <2>3. DirHeld'
    BY <1>2, <2>1 DEF IInv, DirHeld
  <2>4. ASSUME NEW q \in Runs PROVE LogHeld(q)' /\ TempHeld(q)' /\ AnswerHeld(q)'
    BY <1>2, <2>1 DEF IInv, TypeOK, LogHeld, Complete, Recorded, TempHeld, AnswerHeld, log
  <2> QED
    BY <2>2, <2>3, <2>4 DEF IInv
<1> QED
  BY <1>1, <1>2 DEF Collect

LEMMA CheckTargetIInv ==
  ASSUME IInv, NEW r \in Runs, CheckTarget(r)
  PROVE  IInv'
<1>1. pc[r] = "target" /\ UNCHANGED <<log, durable, dir, settled, outage>>
  BY DEF CheckTarget
<1>2. CASE Incomplete(r) /\ (Fault \/ UNCHANGED faults)
  <2>1. faults' \in 0..MaxFaults
    BY <1>2, FaultCounted DEF IInv, TypeOK
  <2> QED
    BY <1>1, <1>2, <2>1, IncompleteIInv DEF Active
<1>3. CASE /\ temp' = [temp EXCEPT ![r] = {}] /\ pc' = [pc EXCEPT ![r] = "write"]
           /\ UNCHANGED <<answer, faults>>
  <2>2. TypeOK'
    BY <1>1, <1>3 DEF IInv, TypeOK, Active, log
  <2>3. DirHeld'
    BY <1>1, <1>3 DEF IInv, DirHeld
  <2>4. ASSUME NEW q \in Runs PROVE LogHeld(q)' /\ TempHeld(q)' /\ AnswerHeld(q)'
    BY <1>1, <1>3 DEF IInv, TypeOK, LogHeld, Complete, Recorded, TempHeld, AnswerHeld, log
  <2> QED
    BY <2>2, <2>3, <2>4 DEF IInv
<1> QED
  BY <1>2, <1>3 DEF CheckTarget

LEMMA WriteFileIInv ==
  ASSUME IInv, NEW r \in Runs, NEW f \in All, WriteFile(r, f)
  PROVE  IInv'
<1>1. /\ pc[r] = "write" /\ f \notin temp[r] /\ (f = Manifest => Files \subseteq temp[r])
      /\ UNCHANGED <<log, dir, settled, outage>>
  BY DEF WriteFile
<1>2. CASE Incomplete(r) /\ Fault /\ UNCHANGED durable
  BY <1>1, <1>2, FaultCounted, IncompleteIInv DEF Active, IInv
<1>3. CASE /\ temp' = [temp EXCEPT ![r] = @ \cup {f}]
           /\ durable' = [durable EXCEPT ![r] = @ \cup Synced(r, f)]
           /\ pc' = [pc EXCEPT ![r] = IF f = Manifest THEN "rename" ELSE "write"]
           /\ UNCHANGED <<answer, faults>>
  <2>1. temp[r] \in SUBSET All /\ (Version[r] = 2 => temp[r] \subseteq durable[r])
    BY <1>1 DEF IInv, TempHeld
  <2>2. Synced(r, f) \subseteq {f} /\ (Version[r] = 2 => Synced(r, f) = {f})
    BY DEF Synced
  <2>3. /\ temp'[r] = temp[r] \cup {f} /\ durable'[r] = durable[r] \cup Synced(r, f)
        /\ \A q \in Runs : durable[q] \subseteq durable'[q]
    BY <1>3 DEF IInv, TypeOK
  <2>4. TypeOK'
    <3>1. temp' \in [Runs -> (SUBSET All) \cup {None}] /\ durable' \in [Runs -> SUBSET All]
      BY <1>3, <2>1, <2>2 DEF IInv, TypeOK
    <3> QED
      BY <1>1, <1>3, <3>1 DEF IInv, TypeOK, Active, log
  <2>5. DirHeld'
    BY <1>1, <1>3, <2>3 DEF IInv, TypeOK, Bundles, DirHeld
  <2>6. ASSUME NEW q \in Runs PROVE LogHeld(q)' /\ AnswerHeld(q)'
    BY <1>1, <1>3 DEF IInv, TypeOK, LogHeld, Complete, Recorded, AnswerHeld, log
  <2>7. ASSUME NEW q \in Runs PROVE TempHeld(q)'
    <3>1. CASE q # r
      BY <1>1, <1>3, <3>1 DEF IInv, TypeOK, TempHeld
    <3>2. CASE q = r
      <4>1. temp'[r] \in SUBSET All /\ (Version[r] = 2 => temp'[r] \subseteq durable'[r])
        BY <2>1, <2>2, <2>3
      <4>2. pc'[r] = IF f = Manifest THEN "rename" ELSE "write"
        BY <1>3 DEF IInv, TypeOK
      <4>3. f = Manifest => temp'[r] = All
        BY <1>1, <2>1, <2>3 DEF All
      <4> QED
        BY <3>2, <4>1, <4>2, <4>3 DEF TempHeld
    <3> QED
      BY <3>1, <3>2
  <2> QED
    BY <2>4, <2>5, <2>6, <2>7 DEF IInv
<1> QED
  BY <1>2, <1>3 DEF WriteFile

LEMMA RenameIInv ==
  ASSUME IInv, NEW r \in Runs, Rename(r)
  PROVE  IInv'
<1>1. pc[r] = "rename" /\ UNCHANGED <<log, durable, outage>>
  BY DEF Rename
<1>2. CASE Incomplete(r) /\ UNCHANGED <<dir, settled>> /\ (Fault \/ UNCHANGED faults)
  <2>1. faults' \in 0..MaxFaults
    BY <1>2, FaultCounted DEF IInv, TypeOK
  <2> QED
    BY <1>1, <1>2, <2>1, IncompleteIInv DEF Active
<1>3. CASE /\ dir = None
           /\ dir' = [run |-> r, files |-> temp[r], whole |-> records[r] >= 1 + observed[r]]
           /\ temp' = [temp EXCEPT ![r] = None] /\ settled' = FALSE
           /\ pc' = [pc EXCEPT ![r] = "settle"] /\ UNCHANGED <<answer, faults>>
  <2>1. temp[r] = All /\ (Version[r] = 2 => temp[r] \subseteq durable[r])
    BY <1>1 DEF IInv, TempHeld
  <2>2. Complete(r) /\ answer[r] # "bundle"
    BY <1>1 DEF IInv, LogHeld, Recorded, AnswerHeld
  <2>3. dir' \in Bundles /\ dir'.run = r /\ dir'.files = All /\ dir'.whole
    BY <1>3, <2>1, <2>2 DEF Bundles, Complete
  <2>4. TypeOK'
    <3>1. pc' \in [Runs -> Active \cup {"idle", "ended", "killed"}]
      BY <1>3 DEF IInv, TypeOK, Active
    <3>2. temp' \in [Runs -> (SUBSET All) \cup {None}]
      BY <1>3 DEF IInv, TypeOK
    <3> QED
      BY <1>1, <1>3, <2>3, <3>1, <3>2 DEF IInv, TypeOK, log
  <2>5. DirHeld'
    BY <1>1, <1>3, <2>1, <2>2, <2>3 DEF DirHeld
  <2>6. dir' # None
    BY <2>3, EvidenceAssumption DEF Bundles, All, Manifest
  <2>7. ASSUME NEW q \in Runs PROVE LogHeld(q)' /\ AnswerHeld(q)'
    BY <1>1, <1>3 DEF IInv, TypeOK, LogHeld, Complete, Recorded, AnswerHeld, log
  <2>8. ASSUME NEW q \in Runs PROVE TempHeld(q)'
    <3>1. CASE q # r
      BY <1>1, <1>3, <3>1 DEF IInv, TypeOK, TempHeld
    <3>2. CASE q = r
      BY <1>1, <1>3, <2>3, <2>6, <3>2 DEF IInv, TypeOK, TempHeld
    <3> QED
      BY <3>1, <3>2
  <2> QED
    BY <2>4, <2>5, <2>7, <2>8 DEF IInv
<1> QED
  BY <1>2, <1>3 DEF Rename

LEMMA SettleIInv ==
  ASSUME IInv, NEW r \in Runs, Settle(r)
  PROVE  IInv'
<1>1. pc[r] = "settle" /\ UNCHANGED <<log, durable, dir, outage>>
  BY DEF Settle
<1>2. CASE Incomplete(r) /\ Fault /\ UNCHANGED settled
  BY <1>1, <1>2, FaultCounted, IncompleteIInv DEF Active, IInv
<1>3. CASE /\ pc' = [pc EXCEPT ![r] = "ended"] /\ answer' = [answer EXCEPT ![r] = "bundle"]
           /\ settled' = (settled \/ Version[r] = 2) /\ UNCHANGED <<temp, faults>>
  <2>1. dir # None /\ dir.run = r /\ temp[r] = None
    BY <1>1 DEF IInv, TempHeld
  <2>2. TypeOK'
    BY <1>1, <1>3 DEF IInv, TypeOK, log
  <2>3. DirHeld'
    BY <1>1, <1>3, <2>1 DEF IInv, DirHeld
  <2>4. ASSUME NEW q \in Runs PROVE LogHeld(q)' /\ TempHeld(q)' /\ AnswerHeld(q)'
    BY <1>1, <1>3, <2>1 DEF IInv, TypeOK, LogHeld, Complete, Recorded, TempHeld, AnswerHeld, log
  <2> QED
    BY <2>2, <2>3, <2>4 DEF IInv
<1> QED
  BY <1>2, <1>3 DEF Settle

LEMMA KillIInv ==
  ASSUME IInv, NEW r \in Runs, Kill(r)
  PROVE  IInv'
<1>1. /\ pc[r] \in Active /\ pc' = [pc EXCEPT ![r] = "killed"] /\ Fault
      /\ UNCHANGED <<log, onDisk, answer, outage>>
  BY DEF Kill
<1>2. TypeOK'
  BY <1>1, FaultCounted DEF IInv, TypeOK, log, onDisk
<1>3. DirHeld'
  BY <1>1 DEF IInv, DirHeld, onDisk
<1>4. ASSUME NEW q \in Runs PROVE LogHeld(q)' /\ TempHeld(q)' /\ AnswerHeld(q)'
  BY <1>1 DEF IInv, TypeOK, LogHeld, Complete, Recorded, TempHeld, AnswerHeld, Active, log, onDisk
<1> QED
  BY <1>2, <1>3, <1>4 DEF IInv

(* What is left of the directory when the power fails.                     *)
LEMMA PowerFailsIInv ==
  ASSUME IInv, PowerFails
  PROVE  IInv'
<1>1. /\ Fault /\ pc' = [r \in Runs |-> IF pc[r] \in Active THEN "killed" ELSE pc[r]]
      /\ settled' = (dir' # None) /\ outage' = TRUE /\ UNCHANGED <<log, durable, answer>>
  BY DEF PowerFails
<1>2. \/ dir # None /\ dir' = None /\ temp' = [temp EXCEPT ![dir.run] = dir.files]
      \/ dir # None /\ temp' = temp /\ \E S \in SUBSET dir.files :
           durable[dir.run] \subseteq S /\ dir' = [dir EXCEPT !.files = S]
      \/ dir = None /\ dir' = dir /\ temp' = temp
  BY DEF PowerFails
<1>3. dir' \in Bundles \cup {None} /\ temp' \in [Runs -> (SUBSET All) \cup {None}]
  BY <1>2 DEF IInv, TypeOK, Bundles
<1>4. TypeOK'
  BY <1>1, <1>3, FaultCounted DEF IInv, TypeOK, log
<1>5. DirHeld'
  <2>1. CASE dir' = None
    BY <2>1 DEF DirHeld
  <2>2. CASE dir # None /\ dir' = dir
    BY <1>1, <2>2 DEF IInv, DirHeld
  <2>3. ASSUME dir # None, NEW S \in SUBSET dir.files, durable[dir.run] \subseteq S,
               dir' = [dir EXCEPT !.files = S]
        PROVE  DirHeld'
    <3>1. dir'.run = dir.run /\ dir'.files = S /\ dir'.whole = dir.whole
      BY <2>3 DEF IInv, TypeOK, Bundles
    <3>2. Version[dir.run] = 2 => S = All
      BY <2>3 DEF IInv, DirHeld
    <3> QED
      BY <1>1, <2>3, <3>1, <3>2 DEF IInv, DirHeld
  <2> QED
    BY <1>2, <2>1, <2>2, <2>3
<1>6. ASSUME NEW q \in Runs PROVE LogHeld(q)' /\ TempHeld(q)' /\ AnswerHeld(q)'
  BY <1>1 DEF IInv, TypeOK, LogHeld, Complete, Recorded, TempHeld, AnswerHeld, Active, log
<1> QED
  BY <1>4, <1>5, <1>6 DEF IInv

LEMMA NextIInv == IInv /\ [Next]_vars => IInv'
<1> SUFFICES ASSUME IInv, [Next]_vars PROVE IInv'
  OBVIOUS
<1>1. ASSUME NEW r \in Runs, Observe(r) \/ Step(r) \/ Kill(r) PROVE IInv'
  BY <1>1, StartIInv, ObserveIInv, AfterRunIInv, FinishIInv, CollectIInv, CheckTargetIInv, WriteFileIInv,
     RenameIInv, SettleIInv, KillIInv DEF Step
<1>2. CASE UNCHANGED vars
  BY <1>2 DEF vars, log, onDisk, IInv, TypeOK, DirHeld, LogHeld, Complete, TempHeld, AnswerHeld
<1> QED
  BY <1>1, <1>2, PowerFailsIInv DEF Next

LEMMA Inductive == Spec => []IInv
<1> QED
  BY InitIInv, NextIInv, PTL DEF Spec

-----------------------------------------------------------------------------

(* Every variable keeps its type (TypeOK), for any number of runs.         *)
THEOREM TypeCorrect == Spec => []TypeOK
<1>1. IInv => TypeOK
  BY DEF IInv
<1> QED
  BY <1>1, Inductive, PTL

(* RecordHasNoGap, for any limit of the record and any number of events.   *)
THEOREM NoGap == Spec => []RecordHasNoGap
<1>1. IInv => RecordHasNoGap
  BY DEF IInv, DirHeld, RecordHasNoGap
<1> QED
  BY <1>1, Inductive, PTL

(* BundleIsComplete, for any files and any number of runs, kills and power *)
(* failures.                                                               *)
THEOREM CompleteBundle == Spec => []BundleIsComplete
<1>1. IInv => BundleIsComplete
  BY DEF IInv, DirHeld, BundleIsComplete
<1> QED
  BY <1>1, Inductive, PTL

(* LeavesNothingBehind, for any number of runs.                            *)
THEOREM NothingBehind == Spec => []LeavesNothingBehind
<1>1. IInv => LeavesNothingBehind
  BY DEF IInv, TempHeld, LeavesNothingBehind
<1> QED
  BY <1>1, Inductive, PTL

-----------------------------------------------------------------------------
(* The directory implements EvidenceBundle.                                *)

Kept     == IF dir = None THEN None ELSE dir.run
Reported == {r \in Runs : answer[r] = "bundle"}

(* KeepsFirstBundle: every step of the runs and of the power is a step of  *)
(* the contract or leaves the directory and the reports as they are.       *)
THEOREM KeepsContract == Spec => KeepsFirstBundle
<1>1. Init => Directory!Init
  BY EvidenceAssumption DEF Init, Directory!Init
<1>2. ASSUME IInv, IInv', [Next]_vars PROVE [Directory!Next]_(Directory!bundlevars)
  <2> SUFFICES Directory!Next \/ (Kept' = Kept /\ Reported' = Reported)
    BY DEF Directory!bundlevars, Kept, Reported
  <2>1. ASSUME NEW r \in Runs, dir' = dir, answer' = answer \/
                 (answer[r] # "bundle" /\ answer' = [answer EXCEPT ![r] = "incomplete"])
        PROVE  Kept' = Kept /\ Reported' = Reported
    BY <1>2, <2>1 DEF IInv, TypeOK, Kept, Reported
  <2>2. ASSUME NEW r \in Runs, pc[r] \in Active, Incomplete(r), dir' = dir
        PROVE  Kept' = Kept /\ Reported' = Reported
    <3>1. answer[r] # "bundle"
      BY <1>2, <2>2 DEF IInv, AnswerHeld, Active
    <3> QED
      BY <2>1, <2>2, <3>1 DEF Incomplete
  <2>3. ASSUME NEW r \in Runs, Rename(r) PROVE Directory!Next \/ (Kept' = Kept /\ Reported' = Reported)
    <3>1. CASE Incomplete(r) /\ dir' = dir
      BY <2>2, <2>3, <3>1 DEF Rename, Active
    <3>2. CASE dir = None /\ dir'.run = r /\ answer' = answer /\ pc'[r] = "settle"
      <4>1. dir' # None
        BY <1>2, <3>2 DEF IInv, TempHeld
      <4> QED
        BY <3>2, <4>1 DEF Directory!Next, Directory!Publish
    <3>3. \/ Incomplete(r) /\ dir' = dir
          \/ dir = None /\ dir'.run = r /\ answer' = answer /\ pc'[r] = "settle"
      BY <1>2, <2>3 DEF Rename, IInv, TypeOK
    <3> QED
      BY <3>1, <3>2, <3>3
  <2>4. ASSUME NEW r \in Runs, Settle(r) PROVE Directory!Next \/ (Kept' = Kept /\ Reported' = Reported)
    <3>1. pc[r] = "settle" /\ dir' = dir /\ dir # None /\ dir.run = r
      BY <1>2, <2>4 DEF Settle, IInv, TempHeld
    <3>2. CASE Incomplete(r)
      BY <2>2, <3>1, <3>2 DEF Active
    <3>3. CASE answer' = [answer EXCEPT ![r] = "bundle"]
      <4>1. Reported' = Reported \cup {r}
        BY <1>2, <3>3 DEF IInv, TypeOK, Reported
      <4> QED
        BY <3>1, <4>1 DEF Directory!Next, Directory!Report, Reported
    <3> QED
      BY <2>4, <3>2, <3>3 DEF Settle
  <2>5. CASE PowerFails
    <3>1. answer' = answer
      BY <2>5 DEF PowerFails
    <3>2. CASE dir # None /\ ~settled /\ dir' = None
      <4>1. dir.run \in Runs /\ (Version[dir.run] = 1 \/ answer[dir.run] # "bundle")
        BY <1>2, <3>2, EvidenceAssumption DEF IInv, TypeOK, Bundles, DirHeld
      <4> QED
        BY <3>1, <3>2, <4>1 DEF Directory!Next, Directory!Lose
    <3>3. CASE dir # None /\ \E S \in SUBSET dir.files : dir' = [dir EXCEPT !.files = S]
      <4>1. dir' \in Bundles /\ dir'.run = dir.run
        BY <1>2, <3>3 DEF IInv, TypeOK, Bundles
      <4>2. dir' # None
        BY <4>1, EvidenceAssumption DEF Bundles, All, Manifest
      <4> QED
        BY <3>1, <3>3, <4>1, <4>2 DEF Kept, Reported
    <3>4. CASE dir = None /\ dir' = dir
      BY <3>1, <3>4 DEF Kept, Reported
    <3> QED
      BY <2>5, <3>2, <3>3, <3>4 DEF PowerFails
  <2>6. ASSUME NEW r \in Runs, Start(r) \/ Observe(r) \/ AfterRun(r) \/ Kill(r)
        PROVE  Kept' = Kept /\ Reported' = Reported
    BY <2>6 DEF Start, Observe, AfterRun, Kill, onDisk, Kept, Reported
  <2>7. ASSUME NEW r \in Runs, Finish(r) \/ Collect(r) \/ CheckTarget(r) \/ \E f \in All : WriteFile(r, f)
        PROVE  Kept' = Kept /\ Reported' = Reported
    <3>1. dir' = dir /\ pc[r] \in Active /\ (Incomplete(r) \/ answer' = answer)
      BY <2>7 DEF Finish, Collect, CheckTarget, WriteFile, Active
    <3> QED
      BY <2>1, <2>2, <3>1
  <2>8. CASE UNCHANGED vars
    BY <2>8 DEF vars, onDisk, Kept, Reported
  <2> QED
    BY <1>2, <2>3, <2>4, <2>5, <2>6, <2>7, <2>8 DEF Next, Step
<1> QED
  BY <1>1, <1>2, Inductive, PTL DEF Spec, KeepsFirstBundle, Directory!Spec
=============================================================================
