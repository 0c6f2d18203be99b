----------------------------- MODULE Authoring -----------------------------
(***************************************************************************)
(* One authoring run: files.write, git.write.commit and the staging tools  *)
(* change a checkout, and finish either verifies what they left or recovers*)
(* it (internal/tool/files/write.go, internal/tool/git/authoring.go,       *)
(* internal/safeoutput, cmd/duto-ai/tools.go, the end of runtime/run.go    *)
(* and evidence.go).  A checkout is a worktree, an index and the tree of   *)
(* HEAD; every Git command and every file operation can fail.              *)
(***************************************************************************)
EXTENDS Integers, Sequences, FiniteSets, Functions, FiniteSetsExt

CONSTANTS
  Paths,      \* the admitted paths
  Contents,   \* contents of a file
  Absent,     \* no file
  None,       \* no commit, no recovery, no bundle
  Base,       \* [Paths -> Contents \cup {Absent}], the tree of the base SHA
  Ignored,    \* paths a .gitignore names
  Size,       \* [Contents -> Nat]
  MaxFiles,   \* MaxChangedFiles
  MaxTotal,   \* MaxTotalWriteBytes
  Parallel,   \* Workflow.Limits.MaxParallelCalls, the cap of the task runner
  Staging,    \* the run stages branch-pr, or only authors
  MaxFaults   \* bound: operations that fail

Tree == [Paths -> Contents \cup {Absent}]

ASSUME AuthoringAssumption ==
  /\ Absent \notin Contents
  /\ Base \in Tree
  /\ Ignored \subseteq {p \in Paths : Base[p] = Absent}
  /\ Size \in [Contents -> Nat]
  /\ MaxFiles \in Nat /\ MaxTotal \in Nat
  /\ Parallel \in Nat \ {0}
  /\ Staging \in BOOLEAN
  /\ MaxFaults \in Nat

VARIABLES
  work, index, head,  \* the checkout
  depth,              \* commits HEAD is ahead of the base
  old, total,         \* files.Authoring: changes (with oldData), totalBytes
  commit,             \* git.Authoring: the tree of commit, None before committed
  tool,               \* the tool call that holds git.Authoring.mu
  ops, source,        \* safeoutput.Collector: operations, source
  phase,              \* where the run is
  wanted, status,     \* the result before and after the finalizer
  dir, recovery,      \* the recovery directory, Collector.recoveryPatch
  bundle,             \* the evidence directory
  final,              \* history: the worktree the run ended with
  faults

checkout == <<work, index, head, depth>>
writer   == <<old, total>>
staged   == <<ops, source>>
outcome  == <<wanted, status, final>>
saved    == <<dir, recovery, bundle>>
vars     == <<checkout, writer, commit, tool, staged, phase, outcome, saved, faults>>

-----------------------------------------------------------------------------
(* The state.                                                              *)

Changed   == DOMAIN old
Committed == commit # None

Idle     == [at |-> "idle"]
Commits  == [at : {"verify", "add", "commit", "parse", "check"}, paths : SUBSET Paths, todo : SUBSET Paths]
Sourcing == [at : {"stage"}, tree : Tree]
Patches  == UNION {[S -> Contents \cup {Absent}] : S \in SUBSET Paths}
Results  == {"succeeded", "failed", "cancelled", "incomplete"}

TypeOK ==
  /\ work \in Tree /\ index \in Tree /\ head \in Tree
  /\ depth \in Nat
  /\ old \in Patches
  /\ total \in Nat
  /\ commit \in Tree \cup {None}
  /\ tool \in {Idle} \cup Commits \cup Sourcing
  /\ ops \in {<<>>, <<"branch">>, <<"branch", "pr">>}
  /\ source \in Tree \cup {None}
  /\ phase \in {"running", "verify", "patch", "write", "reset", "rollback", "confirm", "take", "evidence", "ended"}
  /\ wanted \in Results \cup {None} /\ status \in Results \cup {None}
  /\ final \in Tree
  /\ dir \in Patches \cup {None} /\ recovery \in Patches \cup {None}
  /\ bundle \in [ops : {<<>>, <<"branch", "pr">>}, source : Tree \cup {None}, recovery : Patches \cup {None}]
                \cup {None}
  /\ faults \in 0..MaxFaults

Init ==
  /\ work = Base /\ index = Base /\ head = Base
  /\ depth = 0
  /\ old = <<>> /\ total = 0
  /\ commit = None
  /\ tool = Idle
  /\ ops = <<>> /\ source = None
  /\ phase = "running"
  /\ wanted = None /\ status = None
  /\ dir = None /\ recovery = None
  /\ bundle = None
  /\ final = Base
  /\ faults = 0

Fault   == faults < MaxFaults /\ faults' = faults + 1
Healthy == UNCHANGED faults

Override(tree, patch) == [p \in Paths |-> IF p \in DOMAIN patch THEN patch[p] ELSE tree[p]]

(* What git status lists: entries of the index that HEAD does not have, and*)
(* entries of the worktree that the index does not have and no .gitignore  *)
(* hides.                                                                  *)
StagedPaths   == {p \in Paths : index[p] # head[p]}
UnstagedPaths == {p \in Paths : work[p] # index[p] /\ ~(p \in Ignored /\ index[p] = Absent)}

(* Mutant: changes of the worktree that were not added are not looked at.  *)
BugClean == StagedPaths = {}

Clean         == StagedPaths = {} /\ UnstagedPaths = {}

(* verifyRepository: HEAD is the expected commit and status is empty.      *)
IsAt(tree, commits) == head = tree /\ depth = commits /\ Clean
IsAtExpected == IF Committed THEN IsAt(commit, 1) ELSE IsAt(Base, 0)

-----------------------------------------------------------------------------
(* The tools.  A step with an unsafe tool is admitted only when it is      *)
(* ordered with every other step and its own MaxParallelCalls is 1, but the*)
(* task runner is bounded by the workflow's, so the calls of one model turn*)
(* run at the same time when that is larger.                               *)

CanCall == phase = "running" /\ (tool = Idle \/ Parallel > 1)

SizeOf(c) == IF c = Absent THEN 0 ELSE Size[c]

(* Mutant: the size of the content that is replaced still counts.          *)
BugReplaced(p) == 0

(* files.Authoring.Write holds its own mutex from the first check to the   *)
(* record, so one step.  A failure before the rename changes nothing; one  *)
(* after it (the directory's sync) leaves the same state and only answers  *)
(* an error.                                                               *)
Replaced(p) == IF p \in Changed THEN SizeOf(work[p]) ELSE 0
Fits(p, c)  == /\ Cardinality(Changed \cup {p}) <= MaxFiles
               /\ total - Replaced(p) + Size[c] <= MaxTotal

(* Mutant: the content a later write replaces becomes the one to restore.  *)
BugRecordOld(p) == [q \in Changed \cup {p} |-> IF q = p THEN work[p] ELSE old[q]]

RecordOld(p) == IF p \in Changed THEN old
                ELSE [q \in Changed \cup {p} |-> IF q = p THEN work[p] ELSE old[q]]

Write(p, c) ==
  /\ CanCall
  /\ work[p] # c
  /\ Fits(p, c)
  /\ work' = [work EXCEPT ![p] = c]
  /\ old' = RecordOld(p)
  /\ total' = total - Replaced(p) + Size[c]
  /\ UNCHANGED <<index, head, depth, commit, tool, staged, phase, outcome, saved, faults>>

(* git.Authoring.Commit with the paths ChangedPaths answers (any other     *)
(* request, a second commit and an empty one change nothing), then the     *)
(* steps of createCommit, under git.Authoring.mu.                          *)
Commit ==
  /\ CanCall /\ tool = Idle
  /\ ~Committed /\ Changed # {}
  /\ tool' = [at |-> "verify", paths |-> Changed, todo |-> Changed]
  /\ UNCHANGED <<checkout, writer, commit, staged, phase, outcome, saved, faults>>

Unrelated ==
  \/ ~(head = Base /\ depth = 0)
  \/ StagedPaths # {}
  \/ UnstagedPaths # tool.paths
  \/ tool.paths \cap Ignored # {}

VerifyBeforeCommit ==
  /\ tool.at = "verify"
  /\ tool' = IF Unrelated THEN Idle ELSE [tool EXCEPT !.at = "add"]
  /\ Healthy
  /\ UNCHANGED <<checkout, writer, commit, staged, phase, outcome, saved>>

Add(p) ==
  /\ tool.at = "add" /\ p \in tool.todo
  /\ index' = [index EXCEPT ![p] = work[p]]
  /\ tool' = [tool EXCEPT !.todo = @ \ {p}, !.at = IF tool.todo = {p} THEN "commit" ELSE "add"]
  /\ Healthy
  /\ UNCHANGED <<work, head, depth, writer, commit, staged, phase, outcome, saved>>

(* git commit answers an error when there is nothing to commit.            *)
MakeCommit ==
  /\ tool.at = "commit"
  /\ IF index = head
     THEN tool' = Idle /\ UNCHANGED <<head, depth>>
     ELSE /\ head' = index
          /\ depth' = depth + 1
          /\ tool' = [tool EXCEPT !.at = "parse"]
  /\ Healthy
  /\ UNCHANGED <<work, index, writer, commit, staged, phase, outcome, saved>>

ReadCommit ==
  /\ tool.at = "parse"
  /\ commit' = head
  /\ tool' = [tool EXCEPT !.at = "check"]
  /\ Healthy
  /\ UNCHANGED <<checkout, writer, staged, phase, outcome, saved>>

(* verifyAfterCommit only decides the answer: committed is already set.    *)
VerifyAfterCommit ==
  /\ tool.at = "check"
  /\ tool' = Idle
  /\ Healthy
  /\ UNCHANGED <<checkout, writer, commit, staged, phase, outcome, saved>>

(* A command of the commit fails, or its context ends.                     *)
CommitFails ==
  /\ tool.at \in {"verify", "add", "commit", "parse", "check"}
  /\ tool' = Idle
  /\ Fault
  /\ UNCHANGED <<checkout, writer, commit, staged, phase, outcome, saved>>

(* Collector.Branch: Publication under git.Authoring.mu, then stage under  *)
(* the collector's.  A Publication that fails changes nothing.             *)
Publication ==
  /\ Staging /\ CanCall /\ tool = Idle
  /\ Committed /\ IsAtExpected
  /\ commit # Base
  /\ tool' = [at |-> "stage", tree |-> commit]
  /\ UNCHANGED <<checkout, writer, commit, staged, phase, outcome, saved, faults>>

Stage ==
  /\ tool.at = "stage"
  /\ tool' = Idle
  /\ IF ops = <<>> THEN ops' = <<"branch">> /\ source' = tool.tree
                   ELSE UNCHANGED staged
  /\ UNCHANGED <<checkout, writer, commit, phase, outcome, saved, faults>>

DraftPR ==
  /\ Staging /\ CanCall
  /\ ops = <<"branch">> /\ source # None
  /\ ops' = Append(ops, "pr")
  /\ UNCHANGED <<checkout, writer, commit, tool, source, phase, outcome, saved, faults>>

-----------------------------------------------------------------------------
(* authoringRuntime.finish, the finalizer of the run: 30 seconds that the  *)
(* run's own cancellation does not cut short.                              *)

End(result) ==
  /\ phase = "running" /\ tool = Idle
  /\ wanted' = result /\ status' = result
  /\ final' = work
  /\ phase' = IF result = "succeeded" THEN "verify" ELSE "patch"
  /\ UNCHANGED <<checkout, writer, commit, tool, staged, saved, faults>>

(* The finalizer answered an error: finalizeAuthoring fails the result.    *)
GiveUp == phase' = "evidence" /\ status' = "failed" /\ UNCHANGED <<wanted, final>>

VerifyRun ==
  /\ phase = "verify"
  /\ \/ /\ (Changed # {} => Committed) /\ IsAtExpected
        /\ Healthy /\ phase' = "evidence" /\ UNCHANGED outcome
     \/ /\ \/ ~((Changed # {} => Committed) /\ IsAtExpected) /\ Healthy
           \/ Fault
        /\ phase' = "patch" /\ status' = "failed" /\ UNCHANGED <<wanted, final>>
  /\ UNCHANGED <<checkout, writer, commit, tool, staged, saved>>

(* recoveryPatch: the diff of the base and the commit, or of the base and  *)
(* the index once every changed path is added; held in dir by WriteRecovery*)
PatchOf(tree) == [p \in Changed |-> tree[p]]
IsEmpty(patch) == \A p \in DOMAIN patch : patch[p] = Base[p]

(* Mutant: the diff with the index is taken without adding the paths.      *)
BugAdds(S) == UNCHANGED index

Adds(S) == index' = Override(index, [p \in S |-> work[p]])

RecoveryPatch ==
  /\ phase = "patch"
  /\ \/ /\ Changed = {} /\ ~Committed
        /\ phase' = "take" /\ UNCHANGED <<index, outcome>> /\ Healthy
     \/ /\ Committed
        /\ phase' = "write" /\ UNCHANGED <<index, outcome>> /\ Healthy
     \/ /\ ~Committed /\ Changed # {} /\ Changed \cap Ignored = {}
        /\ Adds(Changed)
        /\ phase' = "write" /\ UNCHANGED outcome /\ Healthy
     \/ /\ Changed # {}
        /\ \/ ~Committed /\ Changed \cap Ignored # {} /\ Healthy  \* git add refuses
           \/ Fault                                              \* or the patch is too large
        /\ IF Committed THEN UNCHANGED index ELSE \E S \in SUBSET (Changed \ Ignored) : Adds(S)
        /\ GiveUp
  /\ UNCHANGED <<work, head, depth, writer, commit, tool, staged, saved>>

WriteRecovery ==
  /\ phase = "write"
  /\ \/ /\ dir' = PatchOf(IF Committed THEN commit ELSE index)
        /\ phase' = "reset" /\ UNCHANGED outcome /\ Healthy
     \/ GiveUp /\ Fault /\ UNCHANGED dir
  /\ UNCHANGED <<checkout, writer, commit, tool, staged, recovery, bundle>>

(* Mutant: the index is left as it is.                                     *)
BugResetHard ==
  /\ phase = "reset" /\ phase' = "rollback"
  /\ head' = Base /\ depth' = 0
  /\ UNCHANGED <<work, index, writer, commit, tool, staged, outcome, saved, faults>>

(* git reset --hard leaves the files that neither the index nor the base   *)
(* has: Rollback removes those the run created.                            *)
ResetHard ==
  /\ phase = "reset"
  /\ \/ /\ work' = [p \in Paths |-> IF index[p] = Absent /\ Base[p] = Absent THEN work[p] ELSE Base[p]]
        /\ index' = Base /\ head' = Base /\ depth' = 0
        /\ phase' = "rollback" /\ UNCHANGED outcome /\ Healthy
     \/ GiveUp /\ Fault /\ UNCHANGED checkout
  /\ UNCHANGED <<writer, commit, tool, staged, saved>>

(* Mutant: the files the run created are kept.                             *)
BugRollback ==
  /\ phase = "rollback" /\ phase' = "confirm"
  /\ work' = Override(work, [p \in {q \in Changed : old[q] # Absent} |-> old[p]])
  /\ UNCHANGED <<index, head, depth, writer, commit, tool, staged, outcome, saved, faults>>

Rollback ==
  /\ phase = "rollback"
  /\ \/ /\ work' = Override(work, old)
        /\ phase' = "confirm" /\ UNCHANGED outcome /\ Healthy
     \/ /\ \E S \in SUBSET Changed : work' = Override(work, [p \in S |-> old[p]])
        /\ GiveUp /\ Fault
  /\ UNCHANGED <<index, head, depth, writer, commit, tool, staged, saved>>

Confirm ==
  /\ phase = "confirm"
  /\ \/ IsAt(Base, 0) /\ phase' = "take" /\ UNCHANGED outcome /\ Healthy
     \/ GiveUp /\ (IF IsAt(Base, 0) THEN Fault ELSE Healthy)
  /\ UNCHANGED <<checkout, writer, commit, tool, staged, saved>>

(* TakeRecoveryArtifacts removes the directory, then SetRecovery refuses an*)
(* empty patch, and so a run that wrote nothing.                           *)
TakeRecovery ==
  /\ phase = "take"
  /\ IF ~Staging
     THEN phase' = "evidence" /\ UNCHANGED <<outcome, dir, recovery>> /\ Healthy
     ELSE \/ /\ dir # None /\ ~IsEmpty(dir)
             /\ recovery' = dir /\ dir' = None
             /\ phase' = "evidence" /\ UNCHANGED outcome /\ Healthy
          \/ /\ ~(dir # None /\ ~IsEmpty(dir)) /\ Healthy
             /\ dir' = None /\ UNCHANGED recovery
             /\ GiveUp
          \/ /\ dir # None /\ Fault
             /\ UNCHANGED <<dir, recovery>>
             /\ GiveUp
  /\ UNCHANGED <<checkout, writer, commit, tool, staged, bundle>>

(* writeM3EvidenceBundle, or the V1 bundle of a run that stages nothing:   *)
(* Collector.complete refuses a succeeded run with an unfinished set.  The *)
(* M3 bundle is already in its place when the last sync fails.             *)
Complete == Staging /\ status = "succeeded" => ops = <<"branch", "pr">>
Evidence == [ops      |-> IF Staging /\ status = "succeeded" THEN ops ELSE <<>>,
             source   |-> IF Staging /\ status = "succeeded" THEN source ELSE None,
             recovery |-> IF status = "succeeded" THEN None ELSE recovery]

WriteEvidence ==
  /\ phase = "evidence"
  /\ phase' = "ended"
  /\ \/ Complete /\ bundle' = Evidence /\ UNCHANGED status /\ Healthy
     \/ ~Complete /\ status' = "incomplete" /\ UNCHANGED bundle /\ Healthy
     \/ /\ Complete /\ Fault
        /\ status' = "incomplete"
        /\ \/ UNCHANGED bundle
           \/ Staging /\ bundle' = Evidence
  /\ UNCHANGED <<checkout, writer, commit, tool, staged, wanted, final, dir, recovery>>

(* codeForError.                                                           *)
ExitCode == CASE status = "succeeded" -> 0
              [] status = "cancelled" -> 130
              [] OTHER                -> 4

Next ==
  \/ \E p \in Paths, c \in Contents : Write(p, c)
  \/ Commit \/ VerifyBeforeCommit \/ \E p \in Paths : Add(p)
  \/ MakeCommit \/ ReadCommit \/ VerifyAfterCommit \/ CommitFails
  \/ Publication \/ Stage \/ DraftPR
  \/ \E result \in {"succeeded", "failed", "cancelled"} : End(result)
  \/ VerifyRun \/ RecoveryPatch \/ WriteRecovery \/ ResetHard \/ Rollback \/ Confirm
  \/ TakeRecovery \/ WriteEvidence

Spec == Init /\ [][Next]_vars

-----------------------------------------------------------------------------
(* Properties.                                                             *)

Ended == phase = "ended"

(* However writes replace and restore files, the writer's totals are those *)
(* of the files on disk, and within the two budgets (checkBudget).         *)
BudgetExact ==
  phase = "running" =>
    /\ total = SumFunctionOnSet([p \in Paths |-> SizeOf(work[p])], Changed)
    /\ total <= MaxTotal
    /\ Cardinality(Changed) <= MaxFiles

(* What Rollback would restore is the base, whatever was written since,    *)
(* and a path the run did not write is never different from the base in    *)
(* the worktree, the index or the commit.                                  *)
RollsBackToBase ==
  \A p \in Paths : IF p \in Changed THEN old[p] = Base[p]
                   ELSE work[p] = Base[p] /\ index[p] = Base[p] /\ head[p] = Base[p]

(* What a bundle offers for publication is the one commit, and the checkout*)
(* holds exactly that commit: no write after the commit or between the     *)
(* branch's two locks slips past Verify.                                   *)
PublishedIsCheckedOut ==
  Ended /\ bundle # None /\ bundle.ops # <<>> =>
    /\ bundle.source = head /\ depth = 1
    /\ \A p \in Paths \ Ignored : work[p] = head[p] /\ index[p] = head[p]

(* A run that no fault disturbed and that wrote no ignored path leaves a   *)
(* clean checkout, at the base or at its commit.                           *)
LeavesCleanCheckout ==
  Ended /\ faults = 0 /\ Changed \cap Ignored = {} =>
    work = head /\ (IsAtExpected \/ IsAt(Base, 0))

(* A bundle with recovery files means the checkout is back at the base:    *)
(* worktree, index and HEAD, the ignored paths and created files too.      *)
RecoveryMeansRestored ==
  Ended /\ bundle # None /\ bundle.recovery # None => work = Base /\ index = Base /\ head = Base

(* The recovery patch is the commit, or without one the worktree the run   *)
(* ended with, whatever an interrupted commit left in the index and HEAD.  *)
RecoveryHoldsCommitOrWork ==
  dir # None => dir = PatchOf(IF Committed THEN commit ELSE final)

-----------------------------------------------------------------------------
(* Claims of the documents that the code does not keep.                    *)

(* ADR 011: the recovery patch holds what the run wrote before cleanup.    *)
RecoveryHoldsWork == dir # None => dir = PatchOf(final)

(* ADR 011: a run that wrote and then fails leaves its recovery files, in  *)
(* the bundle or in their directory.                                       *)
RecoveredOnFailure ==
  Ended /\ status # "succeeded" /\ (\E p \in Paths : final[p] # Base[p]) =>
    dir # None \/ (bundle # None /\ bundle.recovery # None)

(* README: exit 130 is cancellation.                                       *)
CancelledExits130 == Ended /\ wanted = "cancelled" /\ faults = 0 => ExitCode = 130
=============================================================================
