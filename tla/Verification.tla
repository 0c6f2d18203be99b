---------------------------- MODULE Verification ----------------------------
(***************************************************************************)
(* The bundle of a run, and its verification by the trusted publisher      *)
(* (internal/runtime/evidence.go, internal/safeoutput, internal/publisher  *)
(* verify.go, git.go).  Two runs of one workflow leave their bundles; the  *)
(* files of both reach the directory the publisher reads, one at a time    *)
(* and while it reads them.  A digest is the content it is of, a text is   *)
(* its length and the run that wrote it, and events.jsonl, result.json and *)
(* summary.md are one file.                                                *)
(***************************************************************************)
EXTENDS ControlEvidence, Sequences

CONSTANTS
  Staged,      \* what two runs staged, the second a repetition of the first
  Policies,    \* trusted M3 policies of the publisher
  Currents,    \* control evidence the publisher is given
  Heads,       \* commits the publisher's checkout may be at
  Now,         \* times at which the publisher may be started
  MaxCopies    \* bound on the files that arrive after the first

(* Evidence that parsed has the fields of the type (trust.Evidence).  A run*)
(* is admitted under the id of its policy and stages a set that its trigger*)
(* and its tools allow (internal/plan/trust.go), with texts the policy's   *)
(* limits let the tools take (safeoutput.go); the commit it makes is none  *)
(* it started from.                                                        *)
ASSUME VerificationAssumption ==
  /\ \A e \in Currents \cup {s[1].control : s \in Staged} :
       /\ {"checkout", "run", "issued", "expires"} \subseteq DOMAIN e
       /\ e = [f \in DOMAIN e |-> e[f]]
  /\ \A s \in {t[1] : t \in Staged} :
       /\ s.operationSet \in {"none", "conversation-reply", "branch-pr"}
       /\ s.control.id = s.policy.id
       /\ s.operationSet = "conversation-reply" =>
            s.bytes \in 1..s.policy.maxReply /\ s.control.event.subject.kind # "none"
       /\ s.operationSet = "branch-pr" =>
            s.bytes \in 1..s.policy.maxPR /\ s.control.checkout.sha \notin {"a1", "a2"}

Runs     == {1, 2}
Profiles == {"reply", "branch-pr"}

-----------------------------------------------------------------------------

(* What a run stages.  s is the policy, the control evidence, the operation*)
(* set, the length of a text and the completion of the run.                *)
Target(policy, key) == policy.prefix \o key

RequestId(run, kind, payload) == <<run, kind, payload>>

Envelope(run, s, kind, source, depends, preconditions, payload) ==
  [requestId |-> RequestId(run, kind, payload), key |-> s.control.key, kind |-> kind, run |-> run,
   policy |-> s.policy, control |-> s.control, repository |-> s.control.repository,
   origin |-> s.control.event.subject, base |-> s.control.checkout, source |-> source,
   dependsOn |-> depends, preconditions |-> preconditions, payload |-> payload]

Text(run, s) == [by |-> run, bytes |-> s.bytes]
Source(run, s) == IF s.operationSet = "branch-pr" THEN <<"a1", "a2">>[run] ELSE s.control.checkout.sha

StageReply(run, s) ==
  Envelope(run, s, "reply", Source(run, s), <<>>, "open", Text(run, s))
StageBranch(run, s) ==
  Envelope(run, s, "branch", Source(run, s), <<>>, <<Target(s.policy, s.control.key), "absent">>, "{}")
StageDraftPR(run, s) ==
  Envelope(run, s, "draft-pr", Source(run, s), <<StageBranch(run, s).requestId>>,
           <<Target(s.policy, s.control.key), "absent">>, Text(run, s))

ReplyFile  == "operations/0001-conversation-reply.json"
BranchFile == "operations/0001-branch.json"
PullFile   == "operations/0002-draft-pr.json"

(* m3BundleFiles: only a run that succeeded leaves operations.             *)
OperationFiles(operationSet) ==
  IF operationSet = "conversation-reply" THEN {ReplyFile}
  ELSE IF operationSet = "branch-pr" THEN {BranchFile, PullFile} ELSE {}
FileNames(s) ==
  {"control.json", "result.json"} \cup
  (IF s.completion = "succeeded" THEN OperationFiles(s.operationSet) ELSE {}) \cup
  (IF s.operationSet # "branch-pr" THEN {}
   ELSE IF s.completion = "succeeded" THEN {"authored.bundle"} ELSE {"recovery/changes.patch"})
Content(run, s, name) ==
  CASE name = "control.json"    -> s.control
    [] name = "result.json"     -> <<run, s.completion>>
    [] name = ReplyFile         -> StageReply(run, s)
    [] name = BranchFile        -> StageBranch(run, s)
    [] name = PullFile          -> StageDraftPR(run, s)
    [] name = "authored.bundle" -> [head |-> Source(run, s), parents |-> <<s.control.checkout.sha>>]
    [] name = "recovery/changes.patch" -> run

Files(run, s) == [name \in FileNames(s) |-> Content(run, s, name)]

(* m3ManifestFor                                                           *)
Manifest(run, s) ==
  [run |-> run, completion |-> s.completion,
   operationSet |-> IF s.completion = "succeeded" THEN s.operationSet ELSE "none",
   policy |-> s.policy, control |-> s.control, repository |-> s.control.repository,
   base |-> s.control.checkout,
   source |-> IF s.completion = "succeeded" THEN Source(run, s) ELSE s.control.checkout.sha,
   files |-> Files(run, s)]

Bundle(run, s) ==
  [name \in FileNames(s) \cup {"manifest.json"} |->
     IF name = "manifest.json" THEN Manifest(run, s) ELSE Content(run, s, name)]

-----------------------------------------------------------------------------

VARIABLES
  staged,                               \* [run -> what it staged]; run 1 is to be published
  policy, current, now, profile, head,  \* the publisher's inputs; its digest is run 1's
  dir,        \* the directory: [name -> content]
  copies,
  pc,
  manifest,   \* the manifest that was read
  left,       \* the names still to be read in this step
  decision,   \* the bundled decision
  operations, \* verified operations
  disturbed   \* a file arrived since the verification began, for the properties

inputs == <<staged, policy, current, now, profile, head>>
vars == <<inputs, dir, copies, pc, manifest, left, decision, operations, disturbed>>

NoManifest == [run |-> 0]
Without(f, names) == [n \in DOMAIN f \ names |-> f[n]]

Init ==
  /\ staged \in Staged
  /\ policy \in Policies /\ current \in Currents /\ now \in Now
  /\ profile \in Profiles /\ head \in Heads
  /\ \/ \E run \in Runs : dir = Bundle(run, staged[run])
     \/ \E name \in DOMAIN Bundle(1, staged[1]) : dir = Without(Bundle(1, staged[1]), {name})
  /\ copies = 0 /\ pc = "start" /\ manifest = NoManifest /\ left = {}
  /\ decision = Unknown /\ operations = <<>> /\ disturbed = FALSE

(* A file of one of the bundles arrives.                                   *)
Copy(run, name) ==
  /\ copies < MaxCopies /\ pc \notin {"accepted", "rejected"}
  /\ dir' = [n \in DOMAIN dir \cup {name} |-> IF n = name THEN Bundle(run, staged[run])[n] ELSE dir[n]]
  /\ copies' = copies + 1
  /\ disturbed' = (disturbed \/ pc # "start")
  /\ UNCHANGED <<inputs, pc, manifest, left, decision, operations>>

Goto(at) == pc' = at
Reject == pc' = "rejected" /\ UNCHANGED <<inputs, dir, copies, manifest, left, decision, operations, disturbed>>

(* readBundle: the manifest is read before the names of the directory.     *)
ReadManifest ==
  /\ pc = "start"
  /\ IF "manifest.json" \in DOMAIN dir
     THEN /\ manifest' = dir["manifest.json"] /\ Goto("names")
          /\ UNCHANGED <<inputs, dir, copies, left, decision, operations, disturbed>>
     ELSE Reject

(* bundleFileNames                                                         *)
ListNames ==
  /\ pc = "names"
  /\ left' = DOMAIN dir \ {"manifest.json"} /\ Goto("manifest")
  /\ UNCHANGED <<inputs, dir, copies, manifest, decision, operations, disturbed>>

ValidManifest ==
  /\ manifest.completion = "succeeded"
  /\ manifest.policy = policy
  /\ \/ manifest.operationSet = "conversation-reply" /\ profile = "reply"
     \/ manifest.operationSet = "branch-pr" /\ profile = "branch-pr"

(* The code compares the names after it has read the files; either refuses.*)
NamesMatch == left = DOMAIN manifest.files

CheckManifest ==
  /\ pc = "manifest"
  /\ IF manifest = Manifest(1, staged[1]) /\ ValidManifest /\ NamesMatch
     THEN /\ Goto("files")
          /\ UNCHANGED <<inputs, dir, copies, manifest, left, decision, operations, disturbed>>
     ELSE Reject

(* verifyManifestFiles, verifyBundleFile: each file has its digest.        *)
VerifyFile(name) ==
  /\ pc = "files" /\ name \in left
  /\ IF name \in DOMAIN dir /\ dir[name] = manifest.files[name]
     THEN /\ left' = left \ {name}
          /\ Goto(IF left = {name} THEN "control" ELSE "files")
          /\ UNCHANGED <<inputs, dir, copies, manifest, decision, operations, disturbed>>
     ELSE Reject

-----------------------------------------------------------------------------

Publishable(d) == d.context \notin {"unknown", "forked_pr"}

(* Mutant: the times of the two admissions are compared too.               *)
BugSameIdentity(bundled, given) == bundled = given

(* compareControlIdentity: all but the times of the admission.             *)
SameIdentity(bundled, given) ==
  [bundled EXCEPT !.issued = 0, !.expires = 0] = [given EXCEPT !.issued = 0, !.expires = 0]

(* Mutant: the bundled evidence is read as of the time it was issued.      *)
BugBundledDecision(e) == Decode(e, e.issued)

BundledDecision(e) == Decode(e, now)

(* verifyControlEvidence: control.json is read again and has the digest    *)
(* the manifest gives it.                                                  *)
VerifyControl ==
  /\ pc = "control"
  /\ LET bundled == dir["control.json"] IN
     IF /\ bundled = manifest.control
        /\ bundled.parses /\ Publishable(BundledDecision(bundled))
        /\ current.parses /\ Publishable(Decode(current, now))
        /\ SameIdentity(bundled, current)
        /\ manifest.repository = bundled.repository
        /\ manifest.base = bundled.checkout
        /\ bundled.id = policy.id
     THEN /\ decision' = BundledDecision(bundled) /\ Goto("operations")
          /\ UNCHANGED <<inputs, dir, copies, manifest, left, operations, disturbed>>
     ELSE Reject

OperationNames ==
  IF manifest.operationSet = "conversation-reply" THEN <<ReplyFile>> ELSE <<BranchFile, PullFile>>

(* Mutant: the run of an operation is not compared.                        *)
BugBoundToManifest(e) ==
  /\ e.policy = manifest.policy /\ e.control = manifest.control
  /\ e.base = manifest.base /\ e.source = manifest.source

BoundToManifest(e) ==
  /\ e.run = manifest.run
  /\ e.policy = manifest.policy /\ e.control = manifest.control
  /\ e.base = manifest.base /\ e.source = manifest.source

BoundToDecision(e) ==
  e.repository = decision.repository /\ e.origin = decision.origin /\ e.key = decision.key

ValidText(text, max) == text.bytes > 0 /\ text.bytes <= max

(* validateReplyOperation, validateBranchOperation,                        *)
(* validateDraftPROperation                                                *)
ValidKind(e) ==
  LET target == <<Target(policy, decision.key), "absent">>
  IN  CASE e.kind = "reply"    -> e.preconditions = "open" /\ ValidText(e.payload, policy.maxReply)
                                  /\ decision.origin.kind # "none"
        [] e.kind = "branch"   -> e.preconditions = target /\ target[1] # e.base.ref
        [] e.kind = "draft-pr" -> e.preconditions = target /\ ValidText(e.payload, policy.maxPR)

(* verifyOperations reads the files again; of what the manifest lists, an  *)
(* operation is bound to the run and not to the digest.                    *)
VerifyOperation ==
  LET i == Len(operations) + 1
      e == dir[OperationNames[i]]
  IN
  /\ pc = "operations"
  /\ IF BoundToManifest(e) /\ BoundToDecision(e) /\ e.requestId = RequestId(e.run, e.kind, e.payload) /\ ValidKind(e)
     THEN /\ operations' = Append(operations, e)
          /\ Goto(IF i = Len(OperationNames) THEN "source" ELSE "operations")
          /\ UNCHANGED <<inputs, dir, copies, manifest, left, decision, disturbed>>
     ELSE Reject

(* verifyAuthoredBundle: one commit on the base the checkout is at.        *)
ValidSource(b) ==
  head = manifest.base.sha /\ b.head = manifest.source /\ b.parents = <<manifest.base.sha>>

VerifySource ==
  /\ pc = "source"
  /\ IF IF manifest.operationSet = "conversation-reply"
        THEN manifest.source = manifest.base.sha /\ operations[1].dependsOn = <<>>
        ELSE /\ operations[1].dependsOn = <<>>
             /\ operations[2].dependsOn = <<operations[1].requestId>>
             /\ manifest.source # manifest.base.sha
             /\ ValidSource(dir["authored.bundle"])
     THEN /\ Goto("accepted")
          /\ UNCHANGED <<inputs, dir, copies, manifest, left, decision, operations, disturbed>>
     ELSE Reject

Verify ==
  \/ ReadManifest \/ ListNames \/ CheckManifest
  \/ \E name \in left : VerifyFile(name)
  \/ VerifyControl \/ VerifyOperation \/ VerifySource
Next ==
  \/ Verify
  \/ \E run \in Runs : \E name \in DOMAIN Bundle(run, staged[run]) : Copy(run, name)
Spec == Init /\ [][Next]_vars

-----------------------------------------------------------------------------

(* What each step of Verify leaves to the next one.                       *)
TypeOK ==
  /\ pc \in {"start", "names", "manifest", "files", "control", "operations", "source", "accepted", "rejected"}
  /\ copies \in 0..MaxCopies
  /\ pc \notin {"start", "names", "manifest", "rejected"} => left \subseteq DOMAIN manifest.files

(* Whatever reaches the directory while it is read, the operations that    *)
(* are published are those the expected run staged, in their order, though *)
(* verifyOperations reads the operation files again after their digests.   *)
PublishesItsOwn ==
  pc = "accepted" =>
    operations = IF staged[1].operationSet = "conversation-reply" THEN <<StageReply(1, staged[1])>>
                 ELSE <<StageBranch(1, staged[1]), StageDraftPR(1, staged[1])>>

(* Nothing is published from evidence that is not in its window now, nor   *)
(* from a run that did not succeed, for another policy or a fork: neither  *)
(* the evidence of the run nor what the publisher is given is trusted for  *)
(* the time it was issued (verifyControlEvidence).                         *)
FreshEvidence ==
  pc = "accepted" =>
    /\ staged[1].completion = "succeeded" /\ staged[1].policy = policy
    /\ \A e \in {staged[1].control, current} :
         /\ e.issued <= now /\ now < e.expires
         /\ e.source = "github" => e.event.head.repository = e.repository
    /\ staged[1].control.checkout = current.checkout /\ staged[1].control.run = current.run

(* What the writer finalizes the verifier accepts: a bundle that arrived   *)
(* whole and was left alone is refused only for its completion, the policy,*)
(* the profile, the evidence, the checkout, or a base that is the branch to*)
(* be created.                                                             *)
RefusedForCause ==
  pc = "rejected" /\ ~disturbed /\ dir = Bundle(1, staged[1]) =>
    \/ staged[1].completion # "succeeded" \/ staged[1].operationSet = "none"
    \/ staged[1].policy # policy
    \/ profile # IF staged[1].operationSet = "branch-pr" THEN "branch-pr" ELSE "reply"
    \/ \E e \in {staged[1].control, current} : ~e.parses \/ ~Publishable(Decode(e, now))
    \/ [f \in DOMAIN current \ {"issued", "expires"} |-> current[f]] #
         [f \in DOMAIN staged[1].control \ {"issued", "expires"} |-> staged[1].control[f]]
    \/ staged[1].operationSet = "branch-pr" /\ head # staged[1].control.checkout.sha
    \/ staged[1].operationSet = "branch-pr" /\ staged[1].control.checkout.ref = Target(policy, staged[1].control.key)
=============================================================================
