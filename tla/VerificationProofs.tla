------------------------- MODULE VerificationProofs -------------------------
(***************************************************************************)
(* Proofs about Verification for any stagings, policies, evidence, times   *)
(* and any number of files that arrive while the bundle is read.  The      *)
(* manifest and the evidence are fixed when they are checked; what is read *)
(* later from the directory is of one of the two runs, and what was checked*)
(* tells which.                                                            *)
(***************************************************************************)
EXTENDS Verification, SequenceTheorems, TLAPS

(* A context that is neither unknown nor a fork is that of evidence in its *)
(* window, of the operator or of an event with a head in the repository.   *)
LEMMA KnownContext ==
  ASSUME NEW e, NEW t, ContextOf(e, t) \notin {"unknown", "forked_pr"}
  PROVE  /\ e.issued <= t /\ t < e.expires
         /\ e.source = "local" \/ e.event.head.repository = e.repository
<1>1. ValidCommon(e, t)
  BY DEF ContextOf
<1>2. CASE e.source = "local"
  BY <1>1, <1>2 DEF ValidCommon
<1>3. CASE e.source # "local"
  <2>1. ContextOf(e, t) = GitHubContext(e)
    BY <1>1, <1>3 DEF ContextOf
  <2>2. e.event.head.repository = e.repository
    BY <2>1 DEF GitHubContext, PullRequestContext, SameCheckout
  <2> QED
    BY <1>1, <2>2 DEF ValidCommon
<1> QED
  BY <1>2, <1>3

AfterManifest   == {"files", "control", "operations", "source", "accepted"}
AfterFiles      == {"control", "operations", "source", "accepted"}
AfterControl    == {"operations", "source", "accepted"}
AfterOperations == {"source", "accepted"}

(* Every file of the directory is one of the two runs' files of its name.  *)
OfARun(n, x) == \E r \in Runs : n \in DOMAIN Bundle(r, staged[r]) /\ x = Bundle(r, staged[r])[n]
DirHeld == \A n \in DOMAIN dir : OfARun(n, dir[n])

ManifestHeld == pc \in AfterManifest => manifest = Manifest(1, staged[1]) /\ ValidManifest

(* A file that was verified is there: files arrive and never go.           *)
FilesHeld ==
  /\ pc = "files" => FileNames(staged[1]) \ left \subseteq DOMAIN dir
  /\ pc \in AfterFiles => FileNames(staged[1]) \subseteq DOMAIN dir

ControlHeld ==
  pc \in AfterControl =>
    /\ Publishable(Decode(staged[1].control, now)) /\ Publishable(Decode(current, now))
    /\ SameIdentity(staged[1].control, current)

Expected ==
  IF staged[1].operationSet = "conversation-reply" THEN <<StageReply(1, staged[1])>>
  ELSE <<StageBranch(1, staged[1]), StageDraftPR(1, staged[1])>>

OperationsHeld ==
  /\ pc \notin AfterControl \cup {"rejected"} => operations = <<>>
  /\ pc = "operations" =>
       \/ operations = <<>>
       \/ staged[1].operationSet = "branch-pr" /\ operations = <<StageBranch(1, staged[1])>>
  /\ pc \in AfterOperations => operations = Expected

IInv ==
  /\ staged \in Staged /\ current \in Currents
  /\ DirHeld /\ ManifestHeld /\ FilesHeld /\ ControlHeld /\ OperationsHeld

-----------------------------------------------------------------------------
(* What a bundle holds.                                                    *)

LEMMA ManifestFields ==
  ASSUME NEW r, NEW s
  PROVE  LET m == Manifest(r, s) IN
         /\ m.run = r /\ m.completion = s.completion /\ m.policy = s.policy
         /\ m.control = s.control /\ m.files = Files(r, s)
         /\ m.operationSet = IF s.completion = "succeeded" THEN s.operationSet ELSE "none"
BY DEF Manifest

LEMMA OperationRun ==
  ASSUME NEW r, NEW s
  PROVE  StageReply(r, s).run = r /\ StageBranch(r, s).run = r /\ StageDraftPR(r, s).run = r
BY DEF StageReply, StageBranch, StageDraftPR, Envelope

LEMMA OperationContent ==
  ASSUME NEW r, NEW s
  PROVE  /\ Content(r, s, ReplyFile) = StageReply(r, s)
         /\ Content(r, s, BranchFile) = StageBranch(r, s)
         /\ Content(r, s, PullFile) = StageDraftPR(r, s)
BY Zenon DEF Content, ReplyFile, BranchFile, PullFile

LEMMA BundleContent ==
  ASSUME NEW r, NEW s
  PROVE  /\ Content(r, s, "control.json") = s.control
         /\ Content(r, s, "authored.bundle") = [head |-> Source(r, s), parents |-> <<s.control.checkout.sha>>]
BY Zenon DEF Content, ReplyFile, BranchFile, PullFile

LEMMA AppendTwo == ASSUME NEW a, NEW b PROVE Append(<<a>>, b) = <<a, b>>
<1> DEFINE S == {a, b}
<1>1. <<a>> \in Seq(S) /\ b \in S
  OBVIOUS
<1>2. <<a, b>> \in Seq(S)
  OBVIOUS
<1>3. Len(Append(<<a>>, b)) = 2 /\ Append(<<a>>, b)[1] = a /\ Append(<<a>>, b)[2] = b
  BY <1>1
<1>4. Append(<<a>>, b) \in Seq(S)
  BY <1>1
<1>5. Len(<<a, b>>) = 2 /\ <<a, b>>[1] = a /\ <<a, b>>[2] = b
  OBVIOUS
<1>6. Len(Append(<<a>>, b)) = Len(<<a, b>>)
  BY <1>3, <1>5
<1>7. \A i \in 1..Len(Append(<<a>>, b)) : Append(<<a>>, b)[i] = <<a, b>>[i]
  BY <1>3, <1>5
<1> HIDE DEF S
<1> QED
  BY <1>2, <1>4, <1>6, <1>7, SeqEqual

(* What was admitted is a run that succeeded and staged operations.        *)
LEMMA AdmittedManifest ==
  ASSUME ManifestHeld, pc \in AfterManifest
  PROVE  /\ staged[1].completion = "succeeded" /\ staged[1].policy = policy
         /\ staged[1].operationSet \in {"conversation-reply", "branch-pr"}
         /\ manifest.operationSet = staged[1].operationSet
         /\ manifest.run = 1 /\ manifest.control = staged[1].control
         /\ manifest.files = Files(1, staged[1])
<1>1. manifest = Manifest(1, staged[1]) /\ ValidManifest
  BY DEF ManifestHeld
<1> QED
  BY <1>1, ManifestFields DEF ValidManifest

(* An operation that names run 1 is what run 1 staged: the other run's file*)
(* of that name has that run.                                              *)
LEMMA ItsOwn ==
  ASSUME DirHeld, NEW n \in {ReplyFile, BranchFile, PullFile}, n \in DOMAIN dir, dir[n].run = 1
  PROVE  dir[n] = Content(1, staged[1], n)
<1>1. PICK r \in Runs : n \in DOMAIN Bundle(r, staged[r]) /\ dir[n] = Bundle(r, staged[r])[n]
  BY DEF DirHeld, OfARun
<1>2. n # "manifest.json"
  BY DEF ReplyFile, BranchFile, PullFile
<1>3. dir[n] = Content(r, staged[r], n)
  BY <1>1, <1>2 DEF Bundle
<1>4. Content(r, staged[r], n).run = r
  BY OperationContent, OperationRun
<1> QED
  BY <1>3, <1>4

-----------------------------------------------------------------------------

LEMMA InitIInv == Init => IInv
<1> SUFFICES ASSUME Init PROVE IInv
  OBVIOUS
<1>1. DirHeld
  <2>1. CASE \E run \in Runs : dir = Bundle(run, staged[run])
    BY <2>1 DEF DirHeld, OfARun
  <2>2. CASE \E name \in DOMAIN Bundle(1, staged[1]) : dir = Without(Bundle(1, staged[1]), {name})
    BY <2>2 DEF DirHeld, OfARun, Without, Runs
  <2> QED
    BY <2>1, <2>2 DEF Init
<1> QED
  BY <1>1 DEF Init, IInv, ManifestHeld, FilesHeld, ControlHeld, OperationsHeld, AfterManifest, AfterFiles,
     AfterControl, AfterOperations

(* A step that keeps the inputs and the directory keeps what is held of it.*)
LEMMA KeepDir ==
  ASSUME IInv, UNCHANGED <<inputs, dir>>
  PROVE  staged' \in Staged /\ current' \in Currents /\ DirHeld'
<1>1. staged' = staged /\ current' = current /\ dir' = dir
  BY DEF inputs
<1> QED
  BY <1>1 DEF IInv, DirHeld, OfARun

LEMMA KeepManifest ==
  ASSUME ManifestHeld, pc \in AfterManifest, UNCHANGED <<inputs, manifest>>
  PROVE  ManifestHeld'
BY DEF ManifestHeld, ValidManifest, inputs

LEMMA KeepControl ==
  ASSUME ControlHeld, pc \in AfterControl, UNCHANGED inputs
  PROVE  ControlHeld'
<1>1. staged' = staged /\ current' = current /\ now' = now
  BY DEF inputs
<1> QED
  BY <1>1 DEF ControlHeld

LEMMA Rejected == ASSUME IInv, Reject PROVE IInv'
<1>1. UNCHANGED <<inputs, dir>> /\ pc' = "rejected"
  BY DEF Reject
<1> QED
  BY <1>1, KeepDir DEF IInv, ManifestHeld, FilesHeld, ControlHeld, OperationsHeld, AfterManifest, AfterFiles,
     AfterControl, AfterOperations

(* A file that arrives is one of a run, and takes away none.               *)
LEMMA CopyIInv ==
  ASSUME IInv, NEW run \in Runs, NEW name \in DOMAIN Bundle(run, staged[run]), Copy(run, name)
  PROVE  IInv'
<1>1. /\ UNCHANGED <<inputs, pc, manifest, left, decision, operations>>
      /\ dir' = [n \in DOMAIN dir \cup {name} |-> IF n = name THEN Bundle(run, staged[run])[n] ELSE dir[n]]
  BY DEF Copy
<1>2. /\ staged' = staged /\ current' = current /\ now' = now /\ policy' = policy /\ profile' = profile
      /\ pc' = pc /\ manifest' = manifest /\ left' = left /\ operations' = operations
  BY <1>1 DEF inputs
<1>3. DirHeld'
  <2> SUFFICES ASSUME NEW n \in DOMAIN dir' PROVE OfARun(n, dir'[n])
    BY <1>2 DEF DirHeld, OfARun
  <2>1. CASE n = name
    BY <1>1, <2>1 DEF OfARun
  <2>2. CASE n # name
    BY <1>1, <2>2 DEF OfARun, IInv, DirHeld
  <2> QED
    BY <2>1, <2>2
<1>4. DOMAIN dir \subseteq DOMAIN dir'
  BY <1>1
<1>5. FilesHeld'
  BY <1>2, <1>4 DEF IInv, FilesHeld
<1>6. ManifestHeld' /\ ControlHeld' /\ OperationsHeld'
  BY <1>2 DEF IInv, ManifestHeld, ValidManifest, ControlHeld, OperationsHeld, Expected
<1> QED
  BY <1>2, <1>3, <1>5, <1>6 DEF IInv

LEMMA NextIInv == IInv /\ [Next]_vars => IInv'
<1> SUFFICES ASSUME IInv, [Next]_vars PROVE IInv'
  OBVIOUS
<1> USE DEF Goto
<1>1. CASE Reject
  BY <1>1, Rejected
<1>2. CASE ReadManifest /\ ~Reject
  <2>1. pc = "start" /\ pc' = "names" /\ UNCHANGED <<inputs, dir, operations>>
    BY <1>2 DEF ReadManifest
  <2> QED
    BY <2>1, KeepDir DEF IInv, ManifestHeld, FilesHeld, ControlHeld, OperationsHeld, AfterManifest, AfterFiles,
       AfterControl, AfterOperations
<1>3. CASE ListNames
  <2>1. pc = "names" /\ pc' = "manifest" /\ UNCHANGED <<inputs, dir, operations>>
    BY <1>3 DEF ListNames
  <2> QED
    BY <2>1, KeepDir DEF IInv, ManifestHeld, FilesHeld, ControlHeld, OperationsHeld, AfterManifest, AfterFiles,
       AfterControl, AfterOperations
<1>4. CASE CheckManifest /\ ~Reject
  <2>1. /\ pc = "manifest" /\ pc' = "files" /\ UNCHANGED <<inputs, dir, manifest, left, operations>>
        /\ manifest = Manifest(1, staged[1]) /\ ValidManifest /\ left = DOMAIN manifest.files
    BY <1>4 DEF CheckManifest, NamesMatch
  <2>2. staged' = staged /\ policy' = policy /\ profile' = profile /\ manifest' = manifest
    BY <2>1 DEF inputs
  <2>3. ManifestHeld'
    BY <2>1, <2>2 DEF ManifestHeld, ValidManifest
  <2>4. left = FileNames(staged[1])
    <3>1. manifest.files = Files(1, staged[1])
      BY <2>1, ManifestFields
    <3>2. DOMAIN Files(1, staged[1]) = FileNames(staged[1])
      BY DEF Files
    <3> QED
      BY <2>1, <3>1, <3>2
  <2>5. FilesHeld'
    BY <2>1, <2>2, <2>4 DEF FilesHeld, AfterFiles
  <2> QED
    BY <2>1, <2>3, <2>5, KeepDir DEF IInv, ControlHeld, OperationsHeld, AfterControl, AfterOperations
<1>5. ASSUME NEW name \in left, VerifyFile(name), ~Reject PROVE IInv'
  <2>1. /\ pc = "files" /\ pc' = (IF left = {name} THEN "control" ELSE "files")
        /\ UNCHANGED <<inputs, dir, manifest, operations>>
        /\ name \in DOMAIN dir /\ left' = left \ {name}
    BY <1>5 DEF VerifyFile
  <2>2. ManifestHeld'
    BY <2>1, KeepManifest DEF IInv, AfterManifest
  <2>3. staged' = staged /\ dir' = dir
    BY <2>1 DEF inputs
  <2>4. FilesHeld'
    BY <2>1, <2>3 DEF IInv, FilesHeld, AfterFiles
  <2> QED
    BY <2>1, <2>2, <2>4, KeepDir DEF IInv, ControlHeld, OperationsHeld, AfterControl, AfterOperations
<1>6. CASE VerifyControl /\ ~Reject
  <2>1. /\ pc = "control" /\ pc' = "operations" /\ UNCHANGED <<inputs, dir, manifest, left, operations>>
        /\ Publishable(BundledDecision(manifest.control)) /\ Publishable(Decode(current, now))
        /\ SameIdentity(manifest.control, current)
    BY <1>6 DEF VerifyControl
  <2>2. ManifestHeld'
    BY <2>1, KeepManifest DEF IInv, AfterManifest
  <2>3. manifest.control = staged[1].control
    BY <2>1, AdmittedManifest DEF IInv, AfterManifest
  <2>4. staged' = staged /\ current' = current /\ now' = now /\ dir' = dir
    BY <2>1 DEF inputs
  <2>5. ControlHeld'
    BY <2>1, <2>3, <2>4 DEF ControlHeld, BundledDecision
  <2>6. FilesHeld'
    BY <2>1, <2>4 DEF IInv, FilesHeld, AfterFiles
  <2>7. OperationsHeld'
    BY <2>1 DEF IInv, OperationsHeld, AfterControl, AfterOperations
  <2> QED
    BY <2>1, <2>2, <2>5, <2>6, <2>7, KeepDir DEF IInv
<1>7. CASE VerifyOperation /\ ~Reject
  <2> DEFINE i == Len(operations) + 1
             e == dir[OperationNames[i]]
  <2>1. /\ pc = "operations" /\ pc' = (IF i = Len(OperationNames) THEN "source" ELSE "operations")
        /\ UNCHANGED <<inputs, dir, manifest, left>>
        /\ e.run = manifest.run /\ operations' = Append(operations, e)
    BY <1>7 DEF VerifyOperation, BoundToManifest
  <2>2. ManifestHeld' /\ ControlHeld'
    BY <2>1, KeepManifest, KeepControl DEF IInv, AfterManifest, AfterControl
  <2>3. /\ staged' = staged /\ dir' = dir
        /\ manifest.run = 1 /\ manifest.operationSet = staged[1].operationSet
        /\ staged[1].completion = "succeeded"
        /\ staged[1].operationSet \in {"conversation-reply", "branch-pr"}
    BY <2>1, AdmittedManifest DEF IInv, AfterManifest, inputs
  <2>4. FilesHeld'
    BY <2>1, <2>3 DEF IInv, FilesHeld, AfterFiles
  <2>5. OperationFiles(staged[1].operationSet) \subseteq DOMAIN dir
    BY <2>1, <2>3 DEF IInv, FilesHeld, AfterFiles, FileNames
  <2>6. OperationsHeld'
    <3>1. CASE staged[1].operationSet = "conversation-reply"
      <4>1. operations = <<>> /\ OperationNames = <<ReplyFile>>
        BY <2>1, <2>3, <3>1 DEF IInv, OperationsHeld, OperationNames
      <4>2. i = 1 /\ Len(OperationNames) = 1 /\ e = dir[ReplyFile]
        BY <4>1
      <4>3. ReplyFile \in DOMAIN dir
        BY <2>5, <3>1 DEF OperationFiles
      <4>4. e = StageReply(1, staged[1])
        BY <2>1, <2>3, <4>2, <4>3, ItsOwn, OperationContent DEF IInv
      <4>5. operations' = <<StageReply(1, staged[1])>> /\ pc' = "source"
        BY <2>1, <4>1, <4>2, <4>4
      <4> QED
        BY <2>3, <3>1, <4>5 DEF OperationsHeld, Expected, AfterControl, AfterOperations
    <3>2. CASE staged[1].operationSet = "branch-pr" /\ operations = <<>>
      <4>1. OperationNames = <<BranchFile, PullFile>>
        BY <2>3, <3>2 DEF OperationNames
      <4>2. i = 1 /\ Len(OperationNames) = 2 /\ e = dir[BranchFile]
        BY <3>2, <4>1
      <4>3. BranchFile \in DOMAIN dir
        BY <2>5, <3>2 DEF OperationFiles
      <4>4. e = StageBranch(1, staged[1])
        BY <2>1, <2>3, <4>2, <4>3, ItsOwn, OperationContent DEF IInv
      <4>5. operations' = <<StageBranch(1, staged[1])>> /\ pc' = "operations"
        BY <2>1, <3>2, <4>2, <4>4
      <4> QED
        BY <2>3, <3>2, <4>5 DEF OperationsHeld, AfterControl, AfterOperations
    <3>3. CASE staged[1].operationSet = "branch-pr" /\ operations = <<StageBranch(1, staged[1])>>
      <4>1. OperationNames = <<BranchFile, PullFile>>
        BY <2>3, <3>3 DEF OperationNames
      <4>2. i = 2 /\ Len(OperationNames) = 2 /\ e = dir[PullFile]
        BY <3>3, <4>1
      <4>3. PullFile \in DOMAIN dir
        BY <2>5, <3>3 DEF OperationFiles
      <4>4. e = StageDraftPR(1, staged[1])
        BY <2>1, <2>3, <4>2, <4>3, ItsOwn, OperationContent DEF IInv
      <4>5. operations' = <<StageBranch(1, staged[1]), StageDraftPR(1, staged[1])>> /\ pc' = "source"
        BY <2>1, <3>3, <4>2, <4>4, AppendTwo
      <4> QED
        BY <2>3, <3>3, <4>5 DEF OperationsHeld, Expected, AfterControl, AfterOperations
    <3> QED
      BY <2>1, <2>3, <3>1, <3>2, <3>3 DEF IInv, OperationsHeld
  <2> QED
    BY <2>1, <2>2, <2>4, <2>6, KeepDir DEF IInv
<1>8. CASE VerifySource /\ ~Reject
  <2>1. /\ pc = "source" /\ pc' = "accepted"
        /\ UNCHANGED <<inputs, dir, manifest, left, operations>>
    BY <1>8 DEF VerifySource
  <2>2. ManifestHeld' /\ ControlHeld'
    BY <2>1, KeepManifest, KeepControl DEF IInv, AfterManifest, AfterControl
  <2>3. staged' = staged /\ dir' = dir
    BY <2>1 DEF inputs
  <2>4. FilesHeld' /\ OperationsHeld'
    BY <2>1, <2>3 DEF IInv, FilesHeld, OperationsHeld, Expected, AfterFiles, AfterControl, AfterOperations
  <2> QED
    BY <2>1, <2>2, <2>4, KeepDir DEF IInv
<1>9. ASSUME NEW run \in Runs, NEW name \in DOMAIN Bundle(run, staged[run]), Copy(run, name) PROVE IInv'
  BY <1>9, CopyIInv
<1>10. CASE UNCHANGED vars
  <2>1. /\ UNCHANGED <<inputs, dir, manifest, left, operations, pc>>
        /\ staged' = staged /\ current' = current /\ now' = now /\ policy' = policy /\ profile' = profile
    BY <1>10 DEF vars, inputs
  <2> QED
    BY <2>1, KeepDir DEF IInv, ManifestHeld, ValidManifest, FilesHeld, ControlHeld, OperationsHeld, Expected
<1> QED
  BY <1>1, <1>2, <1>3, <1>4, <1>5, <1>6, <1>7, <1>8, <1>9, <1>10 DEF Next, Verify

(* What a step of the verification has checked holds until the end, however*)
(* many files arrive.                                                      *)
THEOREM Checked == Spec => []IInv
<1> QED
  BY InitIInv, NextIInv, PTL DEF Spec

-----------------------------------------------------------------------------

(* PublishesItsOwn, for any two stagings and any files that arrive.        *)
THEOREM OwnPublication == Spec => []PublishesItsOwn
<1>1. IInv => PublishesItsOwn
  BY DEF IInv, OperationsHeld, PublishesItsOwn, Expected, AfterOperations
<1> QED
  BY <1>1, Checked, PTL

(* FreshEvidence, for any evidence, policy and time.                       *)
THEOREM EvidenceIsFresh == Spec => []FreshEvidence
<1>1. ASSUME IInv, pc = "accepted" PROVE FreshEvidence
  <2>1. staged[1].completion = "succeeded" /\ staged[1].policy = policy
    BY <1>1, AdmittedManifest DEF IInv, AfterManifest
  <2>2. /\ Publishable(Decode(staged[1].control, now)) /\ Publishable(Decode(current, now))
        /\ SameIdentity(staged[1].control, current)
    BY <1>1 DEF IInv, ControlHeld, AfterControl
  <2>3. ASSUME NEW e, Publishable(Decode(e, now))
        PROVE  /\ e.issued <= now /\ now < e.expires
               /\ e.source = "github" => e.event.head.repository = e.repository
    <3>1. ContextOf(e, now) \notin {"unknown", "forked_pr"}
      BY <2>3 DEF Publishable, Decode
    <3> QED
      BY <3>1, KnownContext
  <2>4. {"checkout", "run"} \subseteq DOMAIN staged[1].control /\ {"checkout", "run"} \subseteq DOMAIN current
    BY <1>1, VerificationAssumption DEF IInv
  <2>5. staged[1].control.checkout = current.checkout /\ staged[1].control.run = current.run
    BY <2>2, <2>4 DEF SameIdentity
  <2> QED
    BY <2>1, <2>2, <2>3, <2>5 DEF FreshEvidence
<1>2. IInv => FreshEvidence
  BY <1>1 DEF FreshEvidence
<1> QED
  BY <1>2, Checked, PTL

-----------------------------------------------------------------------------
(* A bundle that arrived whole and was left alone.                         *)

Cause ==
  \/ staged[1].completion # "succeeded" \/ staged[1].operationSet = "none"
  \/ staged[1].policy # policy
  \/ profile # IF staged[1].operationSet = "branch-pr" THEN "branch-pr" ELSE "reply"
  \/ \E e \in {staged[1].control, current} : ~e.parses \/ ~Publishable(Decode(e, now))
  \/ [f \in DOMAIN current \ {"issued", "expires"} |-> current[f]] #
       [f \in DOMAIN staged[1].control \ {"issued", "expires"} |-> staged[1].control[f]]
  \/ staged[1].operationSet = "branch-pr" /\ head # staged[1].control.checkout.sha
  \/ staged[1].operationSet = "branch-pr" /\ staged[1].control.checkout.ref = Target(policy, staged[1].control.key)

(* No step so far refused it, and what is still to be read is what the run *)
(* finalized.                                                              *)
Honest ==
  ~disturbed /\ dir = Bundle(1, staged[1]) /\ ~Cause =>
    /\ pc # "rejected"
    /\ pc # "start" => manifest = Manifest(1, staged[1])
    /\ pc = "manifest" => left = FileNames(staged[1])
    /\ pc = "files" => left \subseteq FileNames(staged[1])
    /\ pc \in AfterControl => decision = Decode(staged[1].control, now)

Whole == ~disturbed /\ dir = Bundle(1, staged[1]) /\ ~Cause

LEMMA KeepWhole ==
  ASSUME UNCHANGED <<inputs, dir, disturbed>>
  PROVE  (Whole' <=> Whole) /\ staged' = staged /\ now' = now
<1>1. /\ staged' = staged /\ policy' = policy /\ current' = current /\ now' = now /\ profile' = profile
      /\ head' = head /\ dir' = dir /\ disturbed' = disturbed
  BY DEF inputs
<1>2. Cause' <=> Cause
  BY <1>1 DEF Cause
<1> QED
  BY <1>1, <1>2 DEF Whole

LEMMA WholeDir ==
  ASSUME Whole
  PROVE  /\ "manifest.json" \in DOMAIN dir /\ dir["manifest.json"] = Manifest(1, staged[1])
         /\ DOMAIN dir \ {"manifest.json"} = FileNames(staged[1])
         /\ \A n \in FileNames(staged[1]) : n \in DOMAIN dir /\ dir[n] = Content(1, staged[1], n)
<1>1. "manifest.json" \notin FileNames(staged[1])
  BY DEF FileNames, OperationFiles, ReplyFile, BranchFile, PullFile
<1> QED
  BY <1>1 DEF Whole, Bundle

(* What is staged under no cause to refuse it.                             *)
LEMMA WholeRun ==
  ASSUME Whole, IInv
  PROVE  /\ staged[1].completion = "succeeded" /\ staged[1].policy = policy
         /\ staged[1].operationSet \in {"conversation-reply", "branch-pr"}
         /\ profile = IF staged[1].operationSet = "branch-pr" THEN "branch-pr" ELSE "reply"
         /\ "control.json" \in FileNames(staged[1])
         /\ OperationFiles(staged[1].operationSet) \subseteq FileNames(staged[1])
         /\ staged[1].operationSet = "branch-pr" => "authored.bundle" \in FileNames(staged[1])
<1>1. staged[1].operationSet \in {"none", "conversation-reply", "branch-pr"}
  BY VerificationAssumption DEF IInv
<1>2. /\ staged[1].completion = "succeeded" /\ staged[1].policy = policy /\ staged[1].operationSet # "none"
      /\ profile = IF staged[1].operationSet = "branch-pr" THEN "branch-pr" ELSE "reply"
  BY DEF Whole, Cause
<1> QED
  BY <1>1, <1>2 DEF FileNames

LEMMA ManifestIs ==
  ASSUME NEW s, s.completion = "succeeded"
  PROVE  LET m == Manifest(1, s) IN
         /\ m.repository = s.control.repository /\ m.base = s.control.checkout /\ m.source = Source(1, s)
BY DEF Manifest

(* Two admissions that differ in their times only are one identity.        *)
LEMMA OneIdentity ==
  ASSUME NEW a, NEW b, a = [f \in DOMAIN a |-> a[f]], b = [f \in DOMAIN b |-> b[f]],
         {"issued", "expires"} \subseteq DOMAIN a, {"issued", "expires"} \subseteq DOMAIN b,
         [f \in DOMAIN a \ {"issued", "expires"} |-> a[f]] = [f \in DOMAIN b \ {"issued", "expires"} |-> b[f]]
  PROVE  SameIdentity(a, b)
<1> DEFINE A == DOMAIN a \ {"issued", "expires"}
           B == DOMAIN b \ {"issued", "expires"}
           p == [f \in A |-> a[f]]
           q == [f \in B |-> b[f]]
<1>1. p = q /\ DOMAIN p = A /\ DOMAIN q = B
  OBVIOUS
<1>2. A = B
  BY <1>1
<1>3. DOMAIN a = DOMAIN b
  BY <1>2
<1>4. \A f \in A : a[f] = b[f]
  <2> SUFFICES ASSUME NEW f \in A PROVE a[f] = b[f]
    OBVIOUS
  <2>1. p[f] = a[f] /\ q[f] = b[f]
    BY <1>2
  <2> QED
    BY <1>1, <2>1
<1> DEFINE Zero(e) == [f \in DOMAIN e |-> IF f \in {"issued", "expires"} THEN 0 ELSE e[f]]
<1>5. Zero(a) = Zero(b)
  BY <1>3, <1>4
<1>6. [a EXCEPT !.issued = 0, !.expires = 0] = Zero(a) /\ [b EXCEPT !.issued = 0, !.expires = 0] = Zero(b)
  OBVIOUS
<1> QED
  BY <1>5, <1>6 DEF SameIdentity

(* Every step accepts what is whole.                                       *)
LEMMA AcceptsManifest ==
  ASSUME Whole, IInv, Honest
  PROVE  /\ ReadManifest => ~(pc' = "rejected") /\ manifest' = Manifest(1, staged[1])
         /\ ListNames => left' = FileNames(staged[1])
         /\ CheckManifest => pc' = "files" /\ left' = FileNames(staged[1]) /\ manifest' = manifest
<1> USE DEF Goto
<1>1. ReadManifest => ~(pc' = "rejected") /\ manifest' = Manifest(1, staged[1])
  BY WholeDir DEF ReadManifest
<1>2. ListNames => left' = FileNames(staged[1])
  BY WholeDir DEF ListNames
<1>3. ASSUME CheckManifest PROVE pc' = "files" /\ left' = FileNames(staged[1]) /\ manifest' = manifest
  <2>1. pc = "manifest" /\ manifest = Manifest(1, staged[1]) /\ left = FileNames(staged[1])
    BY <1>3 DEF CheckManifest, Honest, Whole
  <2>2. ValidManifest
    BY <2>1, WholeRun, ManifestFields DEF ValidManifest
  <2>3. NamesMatch
    <3>1. manifest.files = Files(1, staged[1])
      BY <2>1, ManifestFields
    <3>2. DOMAIN Files(1, staged[1]) = FileNames(staged[1])
      BY DEF Files
    <3> QED
      BY <2>1, <3>1, <3>2 DEF NamesMatch
  <2> QED
    BY <1>3, <2>1, <2>2, <2>3 DEF CheckManifest
<1> QED
  BY <1>1, <1>2, <1>3

LEMMA AcceptsFile ==
  ASSUME Whole, IInv, Honest, NEW name \in left, VerifyFile(name)
  PROVE  pc' # "rejected" /\ left' \subseteq FileNames(staged[1]) /\ manifest' = manifest
<1>1. pc = "files" /\ manifest = Manifest(1, staged[1]) /\ name \in FileNames(staged[1]) /\ left \subseteq FileNames(staged[1])
  BY DEF VerifyFile, Honest, Whole
<1>2. manifest.files[name] = Content(1, staged[1], name)
  <2>1. manifest.files = Files(1, staged[1])
    BY <1>1, ManifestFields
  <2> QED
    BY <1>1, <2>1 DEF Files
<1>3. name \in DOMAIN dir /\ dir[name] = Content(1, staged[1], name)
  BY <1>1, WholeDir
<1> QED
  BY <1>1, <1>2, <1>3 DEF VerifyFile, Goto

LEMMA AcceptsControl ==
  ASSUME Whole, IInv, Honest, VerifyControl
  PROVE  pc' # "rejected" /\ decision' = Decode(staged[1].control, now) /\ manifest' = manifest
<1> DEFINE e == staged[1].control
<1>1. pc = "control" /\ manifest = Manifest(1, staged[1])
  BY DEF VerifyControl, Honest, Whole
<1>2. dir["control.json"] = e
  <2>1. Content(1, staged[1], "control.json") = staged[1].control
    BY BundleContent
  <2> QED
    BY <2>1, WholeDir, WholeRun
<1>3. manifest.control = e /\ manifest.repository = e.repository /\ manifest.base = e.checkout
  BY <1>1, ManifestFields, ManifestIs, WholeRun
<1>4. e.parses /\ Publishable(Decode(e, now)) /\ current.parses /\ Publishable(Decode(current, now))
  BY DEF Whole, Cause
<1>5. e.id = policy.id
  BY WholeRun, VerificationAssumption DEF IInv
<1>6. SameIdentity(e, current)
  <2>1. e \in {s[1].control : s \in Staged} /\ current \in Currents
    BY DEF IInv
  <2>2. /\ e = [f \in DOMAIN e |-> e[f]] /\ current = [f \in DOMAIN current |-> current[f]]
        /\ {"issued", "expires"} \subseteq DOMAIN e /\ {"issued", "expires"} \subseteq DOMAIN current
    BY <2>1, VerificationAssumption
  <2>3. [f \in DOMAIN e \ {"issued", "expires"} |-> e[f]] = [f \in DOMAIN current \ {"issued", "expires"} |-> current[f]]
    BY DEF Whole, Cause
  <2> HIDE DEF e
  <2> QED
    BY <2>2, <2>3, OneIdentity
<1> HIDE DEF e
<1>7. VerifyControl => pc' = "operations" /\ decision' = Decode(e, now) /\ manifest' = manifest
  BY <1>2, <1>3, <1>4, <1>5, <1>6 DEF VerifyControl, Goto, BundledDecision
<1> QED
  BY <1>7 DEF e

LEMMA EnvelopeFields ==
  ASSUME NEW r, NEW s, NEW kind, NEW source, NEW depends, NEW preconditions, NEW payload
  PROVE  LET e == Envelope(r, s, kind, source, depends, preconditions, payload) IN
         /\ e.run = r /\ e.policy = s.policy /\ e.control = s.control /\ e.base = s.control.checkout
         /\ e.repository = s.control.repository /\ e.origin = s.control.event.subject
         /\ e.key = s.control.key /\ e.requestId = RequestId(e.run, e.kind, e.payload)
BY DEF Envelope

LEMMA StagedFields ==
  ASSUME NEW r, NEW s
  PROVE  /\ \A e \in {StageReply(r, s), StageBranch(r, s), StageDraftPR(r, s)} :
              /\ e.run = r /\ e.policy = s.policy /\ e.control = s.control /\ e.base = s.control.checkout
              /\ e.repository = s.control.repository /\ e.origin = s.control.event.subject
              /\ e.key = s.control.key /\ e.requestId = RequestId(e.run, e.kind, e.payload)
         /\ LET e == StageReply(r, s) IN
              /\ e.kind = "reply" /\ e.source = Source(r, s) /\ e.dependsOn = <<>>
              /\ e.preconditions = "open" /\ e.payload = Text(r, s)
         /\ LET e == StageBranch(r, s) IN
              /\ e.kind = "branch" /\ e.source = Source(r, s) /\ e.dependsOn = <<>>
              /\ e.preconditions = <<Target(s.policy, s.control.key), "absent">>
         /\ LET e == StageDraftPR(r, s) IN
              /\ e.kind = "draft-pr" /\ e.source = Source(r, s) /\ e.dependsOn = <<StageBranch(r, s).requestId>>
              /\ e.preconditions = <<Target(s.policy, s.control.key), "absent">> /\ e.payload = Text(r, s)
<1> DEFINE Common(e) == /\ e.run = r /\ e.policy = s.policy /\ e.control = s.control /\ e.base = s.control.checkout
                        /\ e.repository = s.control.repository /\ e.origin = s.control.event.subject
                        /\ e.key = s.control.key /\ e.requestId = RequestId(e.run, e.kind, e.payload)
<1>1. Common(StageReply(r, s)) /\ Common(StageBranch(r, s)) /\ Common(StageDraftPR(r, s))
  <2>1. Common(StageReply(r, s))
    BY EnvelopeFields DEF StageReply
  <2>2. Common(StageBranch(r, s))
    <3>1. \A kind, preconditions, payload : Common(Envelope(r, s, kind, Source(r, s), <<>>, preconditions, payload))
      BY EnvelopeFields
    <3> HIDE DEF Common
    <3> QED
      BY Zenon, <3>1 DEF StageBranch
  <2>3. Common(StageDraftPR(r, s))
    BY EnvelopeFields DEF StageDraftPR
  <2> QED
    BY <2>1, <2>2, <2>3
<1>2. LET e == StageReply(r, s) IN
        /\ e.kind = "reply" /\ e.source = Source(r, s) /\ e.dependsOn = <<>>
        /\ e.preconditions = "open" /\ e.payload = Text(r, s)
  BY DEF StageReply, Envelope
<1>3. LET e == StageBranch(r, s) IN
        /\ e.kind = "branch" /\ e.source = Source(r, s) /\ e.dependsOn = <<>>
        /\ e.preconditions = <<Target(s.policy, s.control.key), "absent">>
  BY DEF StageBranch, Envelope
<1>4. LET e == StageDraftPR(r, s) IN
        /\ e.kind = "draft-pr" /\ e.source = Source(r, s) /\ e.dependsOn = <<StageBranch(r, s).requestId>>
        /\ e.preconditions = <<Target(s.policy, s.control.key), "absent">> /\ e.payload = Text(r, s)
  BY DEF StageDraftPR, Envelope
<1> QED
  BY <1>1, <1>2, <1>3, <1>4

LEMMA DecisionFields ==
  ASSUME NEW e, NEW t
  PROVE  /\ Decode(e, t).repository = e.repository /\ Decode(e, t).origin = e.event.subject
         /\ Decode(e, t).key = e.key
BY DEF Decode

(* Each staged operation is valid as it stands.                            *)
LEMMA ValidOperations ==
  ASSUME Whole, IInv, manifest = Manifest(1, staged[1]), decision = Decode(staged[1].control, now)
  PROVE  \A e \in IF staged[1].operationSet = "branch-pr"
                  THEN {StageBranch(1, staged[1]), StageDraftPR(1, staged[1])} ELSE {StageReply(1, staged[1])} :
           BoundToManifest(e) /\ BoundToDecision(e) /\ e.requestId = RequestId(e.run, e.kind, e.payload) /\ ValidKind(e)
<1> DEFINE s == staged[1]
           S == IF s.operationSet = "branch-pr" THEN {StageBranch(1, s), StageDraftPR(1, s)} ELSE {StageReply(1, s)}
<1>1. /\ s.completion = "succeeded" /\ s.policy = policy
      /\ s.operationSet \in {"conversation-reply", "branch-pr"}
  BY WholeRun
<1>2. /\ manifest.run = 1 /\ manifest.policy = s.policy /\ manifest.control = s.control
      /\ manifest.base = s.control.checkout /\ manifest.source = Source(1, s)
  BY <1>1, ManifestFields, ManifestIs
<1>3. /\ decision.repository = s.control.repository /\ decision.origin = s.control.event.subject
      /\ decision.key = s.control.key
  BY DecisionFields
<1>4. s \in {t[1] : t \in Staged}
  BY DEF IInv
<1>5. /\ s.operationSet = "conversation-reply" => s.bytes \in 1..s.policy.maxReply /\ s.control.event.subject.kind # "none"
      /\ s.operationSet = "branch-pr" => s.bytes \in 1..s.policy.maxPR
  BY <1>4, VerificationAssumption
<1>6. s.operationSet = "branch-pr" => s.control.checkout.ref # Target(policy, s.control.key)
  BY DEF Whole, Cause
<1>7. Text(1, s).bytes = s.bytes
  BY DEF Text
<1> HIDE DEF s
<1> SUFFICES ASSUME NEW e \in S
             PROVE  BoundToManifest(e) /\ BoundToDecision(e) /\ e.requestId = RequestId(e.run, e.kind, e.payload)
                    /\ ValidKind(e)
  BY DEF s
<1>8. /\ e.run = 1 /\ e.policy = s.policy /\ e.control = s.control /\ e.base = s.control.checkout
      /\ e.repository = s.control.repository /\ e.origin = s.control.event.subject
      /\ e.key = s.control.key /\ e.requestId = RequestId(e.run, e.kind, e.payload) /\ e.source = Source(1, s)
  BY StagedFields
<1>9. BoundToManifest(e)
  BY <1>2, <1>8 DEF BoundToManifest
<1>10. BoundToDecision(e)
  BY <1>3, <1>8 DEF BoundToDecision
<1>11. ValidKind(e)
  <2>1. CASE s.operationSet = "conversation-reply"
    <3>1. e.kind = "reply" /\ e.preconditions = "open" /\ e.payload = Text(1, s)
      BY <2>1, StagedFields
    <3>2. ValidText(e.payload, policy.maxReply) /\ decision.origin.kind # "none"
      BY <1>1, <1>3, <1>5, <1>7, <2>1, <3>1 DEF ValidText
    <3> QED
      BY Zenon, <3>1, <3>2 DEF ValidKind
  <2>2. CASE s.operationSet = "branch-pr" /\ e = StageBranch(1, s)
    <3>1. e.kind = "branch" /\ e.preconditions = <<Target(policy, decision.key), "absent">>
      BY <1>1, <1>3, <2>2, StagedFields
    <3>2. <<Target(policy, decision.key), "absent">>[1] # e.base.ref
      BY <1>3, <1>6, <1>8, <2>2
    <3> QED
      BY Zenon, <3>1, <3>2 DEF ValidKind
  <2>3. CASE s.operationSet = "branch-pr" /\ e = StageDraftPR(1, s)
    <3>1. /\ e.kind = "draft-pr" /\ e.preconditions = <<Target(policy, decision.key), "absent">>
          /\ e.payload = Text(1, s)
      BY <1>1, <1>3, <2>3, StagedFields
    <3>2. ValidText(e.payload, policy.maxPR)
      BY <1>1, <1>5, <1>7, <2>3, <3>1 DEF ValidText
    <3> QED
      BY Zenon, <3>1, <3>2 DEF ValidKind
  <2> QED
    BY <1>1, <2>1, <2>2, <2>3
<1> QED
  BY <1>8, <1>9, <1>10, <1>11

LEMMA AcceptsOperation ==
  ASSUME Whole, IInv, Honest, VerifyOperation
  PROVE  pc' # "rejected" /\ decision' = decision /\ manifest' = manifest
<1> DEFINE i == Len(operations) + 1
           e == dir[OperationNames[i]]
           s == staged[1]
<1>1. pc = "operations" /\ manifest = Manifest(1, s) /\ decision = Decode(s.control, now)
  BY DEF VerifyOperation, Honest, Whole, AfterControl
<1>2. /\ s.operationSet \in {"conversation-reply", "branch-pr"} /\ manifest.operationSet = s.operationSet
      /\ OperationFiles(s.operationSet) \subseteq FileNames(s)
  BY <1>1, WholeRun, ManifestFields
<1>3. operations = <<>> \/ (s.operationSet = "branch-pr" /\ operations = <<StageBranch(1, s)>>)
  BY <1>1 DEF IInv, OperationsHeld
<1>4. \/ s.operationSet = "conversation-reply" /\ e = StageReply(1, s)
      \/ s.operationSet = "branch-pr" /\ e \in {StageBranch(1, s), StageDraftPR(1, s)}
  <2>1. CASE s.operationSet = "conversation-reply"
    <3>1. OperationNames[i] = ReplyFile
      BY <1>2, <1>3, <2>1 DEF OperationNames
    <3>2. ReplyFile \in FileNames(s)
      BY <1>2, <2>1 DEF OperationFiles
    <3> QED
      BY <2>1, <3>1, <3>2, WholeDir, OperationContent
  <2>2. CASE s.operationSet = "branch-pr"
    <3>1. OperationNames[i] \in {BranchFile, PullFile}
      BY <1>2, <1>3, <2>2 DEF OperationNames
    <3>2. {BranchFile, PullFile} \subseteq FileNames(s)
      BY <1>2, <2>2 DEF OperationFiles
    <3> QED
      BY <2>2, <3>1, <3>2, WholeDir, OperationContent
  <2> QED
    BY <1>2, <2>1, <2>2
<1>5. BoundToManifest(e) /\ BoundToDecision(e) /\ e.requestId = RequestId(e.run, e.kind, e.payload) /\ ValidKind(e)
  BY <1>1, <1>4, ValidOperations
<1>6. pc' = (IF i = Len(OperationNames) THEN "source" ELSE "operations") /\ decision' = decision /\ manifest' = manifest
  BY <1>5 DEF VerifyOperation, Goto
<1> QED
  BY <1>6

LEMMA AcceptsSource ==
  ASSUME Whole, IInv, Honest, VerifySource
  PROVE  pc' = "accepted" /\ decision' = decision /\ manifest' = manifest
<1> DEFINE s == staged[1]
<1>1. pc = "source" /\ manifest = Manifest(1, s) /\ operations = Expected
  BY DEF VerifySource, Honest, Whole, IInv, OperationsHeld, AfterOperations
<1>2. /\ s.operationSet \in {"conversation-reply", "branch-pr"} /\ manifest.operationSet = s.operationSet
      /\ s.completion = "succeeded"
      /\ s.operationSet = "branch-pr" => "authored.bundle" \in FileNames(s)
  BY <1>1, WholeRun, ManifestFields
<1>3. manifest.base = s.control.checkout /\ manifest.source = Source(1, s)
  BY <1>1, <1>2, ManifestIs
<1>4. CASE s.operationSet = "conversation-reply"
  <2>1. operations[1] = StageReply(1, s)
    BY <1>1, <1>4 DEF Expected
  <2>2. operations[1].dependsOn = <<>> /\ manifest.source = manifest.base.sha
    BY <1>3, <1>4, <2>1, StagedFields DEF Source
  <2> QED
    BY <1>2, <1>4, <2>2 DEF VerifySource, Goto
<1>5. CASE s.operationSet = "branch-pr"
  <2>1. operations[1] = StageBranch(1, s) /\ operations[2] = StageDraftPR(1, s)
    BY <1>1, <1>5 DEF Expected
  <2>2. operations[1].dependsOn = <<>> /\ operations[2].dependsOn = <<operations[1].requestId>>
    BY <2>1, StagedFields
  <2>3. Source(1, s) = "a1"
    BY <1>5 DEF Source
  <2>4. s.control.checkout.sha # "a1"
    BY <1>5, VerificationAssumption DEF IInv
  <2>5. head = s.control.checkout.sha
    BY <1>5 DEF Whole, Cause
  <2>6. dir["authored.bundle"] = [head |-> Source(1, s), parents |-> <<s.control.checkout.sha>>]
    BY <1>2, <1>5, WholeDir, BundleContent
  <2>7. ValidSource(dir["authored.bundle"])
    BY <1>3, <2>5, <2>6 DEF ValidSource
  <2> QED
    BY <1>2, <1>3, <1>5, <2>2, <2>3, <2>4, <2>7 DEF VerifySource, Goto
<1> QED
  BY <1>2, <1>4, <1>5

LEMMA NextHonest == IInv /\ Honest /\ [Next]_vars => Honest'
<1> SUFFICES ASSUME IInv, Honest, [Next]_vars, Whole'
             PROVE  /\ pc' # "rejected"
                    /\ pc' # "start" => manifest' = Manifest(1, staged'[1])
                    /\ pc' = "manifest" => left' = FileNames(staged'[1])
                    /\ pc' = "files" => left' \subseteq FileNames(staged'[1])
                    /\ pc' \in AfterControl => decision' = Decode(staged'[1].control, now')
  <2>1. Honest' <=> (Whole' => /\ pc' # "rejected"
                               /\ pc' # "start" => manifest' = Manifest(1, staged'[1])
                               /\ pc' = "manifest" => left' = FileNames(staged'[1])
                               /\ pc' = "files" => left' \subseteq FileNames(staged'[1])
                               /\ pc' \in AfterControl => decision' = Decode(staged'[1].control, now'))
    BY DEF Honest, Whole, Manifest, Files, Content, Decode, FileNames
  <2> QED
    BY <2>1
<1>1. CASE Verify
  <2>1. UNCHANGED <<inputs, dir, disturbed>>
    BY <1>1 DEF Verify, ReadManifest, ListNames, CheckManifest, VerifyFile, VerifyControl, VerifyOperation,
       VerifySource, Reject
  <2>2. Whole /\ staged' = staged /\ now' = now
    BY <2>1, KeepWhole
  <2>3. /\ pc # "rejected"
        /\ pc # "start" => manifest = Manifest(1, staged[1])
        /\ pc = "manifest" => left = FileNames(staged[1])
        /\ pc = "files" => left \subseteq FileNames(staged[1])
        /\ pc \in AfterControl => decision = Decode(staged[1].control, now)
    BY <2>2 DEF Honest, Whole
  <2>4. CASE ReadManifest
    <3>1. pc' # "rejected" /\ manifest' = Manifest(1, staged[1])
      BY <2>2, <2>4, AcceptsManifest
    <3>2. pc' = "names"
      BY <2>4, <3>1 DEF ReadManifest, Goto, Reject
    <3> QED
      BY <2>2, <3>1, <3>2 DEF AfterControl
  <2>5. CASE ListNames
    <3>1. pc = "names" /\ pc' = "manifest" /\ manifest' = manifest /\ left' = FileNames(staged[1])
      BY <2>2, <2>5, AcceptsManifest DEF ListNames, Goto
    <3> QED
      BY <2>2, <2>3, <3>1 DEF AfterControl
  <2>6. CASE CheckManifest
    <3>1. pc = "manifest" /\ pc' = "files" /\ manifest' = manifest /\ left' = FileNames(staged[1])
      BY <2>2, <2>6, AcceptsManifest DEF CheckManifest
    <3> QED
      BY <2>2, <2>3, <3>1 DEF AfterControl
  <2>7. ASSUME NEW name \in left, VerifyFile(name)
        PROVE  /\ pc = "files" /\ pc' \in {"files", "control"} /\ manifest' = manifest
               /\ left' \subseteq FileNames(staged[1])
    <3>1. pc' # "rejected" /\ left' \subseteq FileNames(staged[1]) /\ manifest' = manifest
      BY <2>2, <2>7, AcceptsFile
    <3> QED
      BY <2>7, <3>1 DEF VerifyFile, Goto, Reject
  <2>8. CASE \E name \in left : VerifyFile(name)
    BY <2>2, <2>3, <2>7, <2>8 DEF AfterControl
  <2>9. CASE VerifyControl
    <3>1. pc' # "rejected" /\ decision' = Decode(staged[1].control, now) /\ manifest' = manifest
      BY <2>2, <2>9, AcceptsControl
    <3>2. pc = "control" /\ pc' = "operations"
      BY <2>9, <3>1 DEF VerifyControl, Goto, Reject
    <3> QED
      BY <2>2, <2>3, <3>1, <3>2
  <2>10. CASE VerifyOperation
    <3>1. pc' # "rejected" /\ decision' = decision /\ manifest' = manifest
      BY <2>2, <2>10, AcceptsOperation
    <3>2. pc = "operations" /\ pc' \in {"operations", "source"}
      BY <2>10, <3>1 DEF VerifyOperation, Goto, Reject
    <3> QED
      BY <2>2, <2>3, <3>1, <3>2 DEF AfterControl
  <2>11. CASE VerifySource
    <3>1. pc = "source" /\ pc' = "accepted" /\ decision' = decision /\ manifest' = manifest
      BY <2>2, <2>11, AcceptsSource DEF VerifySource
    <3> QED
      BY <2>2, <2>3, <3>1 DEF AfterControl
  <2> QED
    BY <1>1, <2>4, <2>5, <2>6, <2>8, <2>9, <2>10, <2>11 DEF Verify
<1>2. ASSUME NEW run \in Runs, NEW name \in DOMAIN Bundle(run, staged[run]), Copy(run, name) PROVE pc' = "start"
  BY <1>2 DEF Copy, Whole
<1>3. CASE UNCHANGED vars
  <2>1. UNCHANGED <<inputs, dir, disturbed>> /\ UNCHANGED <<pc, manifest, left, decision>>
    BY <1>3 DEF vars
  <2>2. Whole /\ staged' = staged /\ now' = now
    BY <2>1, KeepWhole
  <2> QED
    BY <2>1, <2>2 DEF Honest, Whole
<1>4. CASE pc' = "start"
  BY <1>4 DEF AfterControl
<1> QED
  BY <1>1, <1>2, <1>3, <1>4 DEF Next

(* RefusedForCause: of a bundle that arrived whole and was left alone no   *)
(* step of the verification refuses anything but what is listed.           *)
THEOREM HonestIsAccepted == Spec => []RefusedForCause
<1>1. Init => IInv /\ Honest
  <2>1. Init => Honest
    BY DEF Init, Honest, AfterControl
  <2> QED
    BY <2>1, InitIInv
<1>2. IInv /\ Honest /\ [Next]_vars => (IInv /\ Honest)'
  BY NextIInv, NextHonest
<1>3. Honest => RefusedForCause
  BY DEF Honest, RefusedForCause, Cause
<1> QED
  BY <1>1, <1>2, <1>3, PTL DEF Spec
=============================================================================
