-------------------------- MODULE AuthoringProofs --------------------------
(***************************************************************************)
(* Proofs about Authoring for any tree, any paths and contents, any ignored*)
(* paths, any parallelism and any number of failed commands.               *)
(***************************************************************************)
EXTENDS Authoring, SequenceTheorems, FiniteSetTheorems, WellFoundedInduction, TLAPS

(* TypeOK but for total, a difference that only the sum of the sizes keeps *)
(* from being negative.                                                    *)
Types ==
  /\ work \in Tree /\ index \in Tree /\ head \in Tree
  /\ depth \in Nat
  /\ old \in Patches
  /\ commit \in Tree \cup {None}
  /\ tool \in {Idle} \cup Commits \cup Sourcing
  /\ ops \in {<<>>, <<"branch">>, <<"branch", "pr">>}
  /\ source \in Tree \cup {None}
  /\ phase \in {"running", "verify", "patch", "write", "reset", "rollback", "confirm", "take", "evidence", "ended"}
  /\ wanted \in Results \cup {None} /\ status \in Results \cup {None}
  /\ final \in Tree
  /\ dir \in Patches \cup {None} /\ recovery \in Patches \cup {None}
  /\ bundle \in [ops : {<<>>, <<"branch", "pr">>}, source : Tree \cup {None}, recovery : Patches \cup {None}]
                \cup {None}
  /\ faults \in 0..MaxFaults

(* What holds while git.Authoring.mu is held: the commit is not made yet,  *)
(* or it is the one to be staged.                                          *)
ToolHeld ==
  /\ phase # "running" => tool = Idle
  /\ tool \in Commits => Changed # {} /\ tool.paths \subseteq Changed /\ tool.todo \subseteq tool.paths
  /\ tool.at \in {"verify", "add", "commit", "parse"} => ~Committed
  /\ tool.at = "stage" => Staging /\ Committed /\ tool.tree = commit
  /\ depth # 0 => Changed # {}

StagedHeld ==
  /\ ops # <<>> => Staging /\ Committed /\ source = commit
  /\ ops = <<>> => source = None

Restored == work = Base /\ index = Base /\ head = Base /\ depth = 0
Settled  == work = head /\ (IsAtExpected \/ IsAt(Base, 0))

(* What each step of the finalizer has established for the next.           *)
FinalizerHeld ==
  /\ phase \in {"running", "verify", "patch", "write"} => dir = None
  /\ phase \in {"verify", "patch", "write"} => work = final
  /\ phase = "write" /\ ~Committed => \A p \in Changed : index[p] = work[p]
  /\ phase = "rollback" => index = Base /\ head = Base /\ depth = 0
  /\ phase \in {"confirm", "take"} => Restored
  /\ phase \in {"patch", "write", "reset", "rollback", "confirm", "take"} => status # "succeeded"
  /\ phase = "evidence" /\ status = "succeeded" => (Changed # {} => Committed) /\ IsAtExpected
  /\ phase \in {"evidence", "ended"} /\ faults = 0 /\ Changed \cap Ignored = {} => Settled

(* What recovery files and the bundle stand on.                            *)
SavedHeld ==
  /\ recovery # None => phase \in {"evidence", "ended"} /\ Restored
  /\ bundle # None =>
       /\ phase = "ended"
       /\ bundle.recovery \in {None, recovery}
       /\ bundle.ops # <<>> => Committed /\ bundle.source = commit /\ IsAtExpected

IInv ==
  /\ Types /\ ToolHeld /\ RollsBackToBase /\ StagedHeld
  /\ FinalizerHeld /\ SavedHeld /\ RecoveryHoldsCommitOrWork

-----------------------------------------------------------------------------
(* What the tools and the finalizer do to a tree.                          *)

LEMMA OldIs ==
  ASSUME Types
  PROVE  /\ Changed \subseteq Paths
         /\ \A p \in Changed : old[p] \in Contents \cup {Absent}
         /\ old \in [Changed -> Contents \cup {Absent}]
BY DEF Types, Patches, Changed

LEMMA SameTree ==
  ASSUME NEW t \in Tree, NEW u \in Tree, \A p \in Paths : t[p] = u[p]
  PROVE  t = u
BY DEF Tree

LEMMA OverrideIs ==
  ASSUME NEW t \in Tree, NEW S \in SUBSET Paths, NEW f \in [S -> Contents \cup {Absent}]
  PROVE  /\ Override(t, f) \in Tree
         /\ \A p \in Paths : Override(t, f)[p] = IF p \in S THEN f[p] ELSE t[p]
BY DEF Override, Tree

LEMMA PatchIs == ASSUME Types, NEW t \in Tree PROVE PatchOf(t) \in Patches
<1>1. PatchOf(t) \in [Changed -> Contents \cup {Absent}]
  BY OldIs DEF PatchOf, Tree
<1> QED
  BY <1>1, OldIs DEF Patches

LEMMA RestoredIsBase ==
  ASSUME Restored
  PROVE  IsAt(Base, 0) /\ Settled
BY DEF Restored, Settled, IsAt, Clean, StagedPaths, UnstagedPaths

(* Nothing was changed: the checkout is the base.                          *)
LEMMA NothingChanged ==
  ASSUME IInv, Changed = {}
  PROVE  Restored
<1>1. work \in Tree /\ index \in Tree /\ head \in Tree /\ Base \in Tree
  BY AuthoringAssumption DEF IInv, Types
<1>2. \A p \in Paths : work[p] = Base[p] /\ index[p] = Base[p] /\ head[p] = Base[p]
  BY DEF IInv, RollsBackToBase
<1>3. work = Base /\ index = Base /\ head = Base
  BY <1>1, <1>2, SameTree
<1> QED
  BY <1>3 DEF IInv, ToolHeld, Restored

(* A clean checkout may differ from HEAD in ignored files only, which the  *)
(* run did not write.                                                      *)
LEMMA CleanIsHead ==
  ASSUME IInv, Clean, Changed \cap Ignored = {}
  PROVE  work = head
<1>1. work \in Tree /\ index \in Tree /\ head \in Tree
  BY DEF IInv, Types
<1>2. ASSUME NEW p \in Paths PROVE work[p] = head[p]
  <2>1. CASE p \in Changed
    BY <2>1 DEF Clean, StagedPaths, UnstagedPaths
  <2>2. CASE p \notin Changed
    BY <2>2 DEF IInv, RollsBackToBase
  <2> QED
    BY <2>1, <2>2
<1> QED
  BY <1>1, <1>2, SameTree

-----------------------------------------------------------------------------

LEMMA InitIInv == Init => IInv
<1> SUFFICES ASSUME Init PROVE IInv
  OBVIOUS
<1> USE AuthoringAssumption
<1>1. Changed = {}
  BY DEF Init, Changed
<1>2. old \in Patches
  <2>1. old \in [{} -> Contents \cup {Absent}]
    BY <1>1 DEF Init, Changed
  <2> QED
    BY <2>1 DEF Patches
<1>3. Types
  BY <1>2 DEF Init, Types, Idle
<1>4. ToolHeld /\ StagedHeld
  BY DEF Init, ToolHeld, StagedHeld, Idle, Commits
<1>5. RollsBackToBase
  BY <1>1 DEF Init, RollsBackToBase
<1>6. FinalizerHeld /\ SavedHeld /\ RecoveryHoldsCommitOrWork
  BY DEF Init, FinalizerHeld, SavedHeld, RecoveryHoldsCommitOrWork
<1> QED
  BY <1>3, <1>4, <1>5, <1>6 DEF IInv

-----------------------------------------------------------------------------
(* The tools.                                                              *)

(* A step of a tool leaves nothing of the finalizer to keep.               *)
LEMMA Running ==
  ASSUME IInv, phase = "running", UNCHANGED <<phase, outcome, saved>>
  PROVE  FinalizerHeld' /\ SavedHeld' /\ RecoveryHoldsCommitOrWork'
<1>1. dir = None /\ recovery = None /\ bundle = None
  BY DEF IInv, FinalizerHeld, SavedHeld
<1>2. phase' = "running" /\ dir' = None /\ recovery' = None /\ bundle' = None
  BY <1>1 DEF outcome, saved
<1> QED
  BY <1>2 DEF FinalizerHeld, SavedHeld, RecoveryHoldsCommitOrWork

LEMMA WriteIInv ==
  ASSUME IInv, NEW p \in Paths, NEW c \in Contents, Write(p, c)
  PROVE  IInv'
<1>1. /\ phase = "running" /\ work' = [work EXCEPT ![p] = c] /\ old' = RecordOld(p)
      /\ index' = index /\ head' = head /\ depth' = depth /\ commit' = commit /\ tool' = tool
      /\ ops' = ops /\ source' = source
      /\ UNCHANGED <<phase, outcome, saved, faults>>
  BY DEF Write, CanCall, staged
<1>2. FinalizerHeld' /\ SavedHeld' /\ RecoveryHoldsCommitOrWork'
  BY <1>1, Running
<1>3. Types
  BY DEF IInv
<1>4. /\ Changed' = Changed \cup {p}
      /\ \A q \in Changed : old'[q] = old[q]
      /\ p \notin Changed => old'[p] = work[p]
      /\ old' \in Patches
  <2>1. CASE p \in Changed
    <3>1. old' = old
      BY <1>1, <2>1 DEF RecordOld
    <3> QED
      BY <2>1, <3>1, <1>3 DEF Changed, Types
  <2>2. CASE p \notin Changed
    <3>1. old' = [q \in Changed \cup {p} |-> IF q = p THEN work[p] ELSE old[q]]
      BY <1>1, <2>2 DEF RecordOld
    <3>2. \A q \in Changed : old[q] \in Contents \cup {Absent}
      BY <1>3, OldIs
    <3>3. work[p] \in Contents \cup {Absent}
      BY <1>3 DEF Types, Tree
    <3>4. old' \in [Changed \cup {p} -> Contents \cup {Absent}]
      BY <3>1, <3>2, <3>3
    <3>5. Changed \cup {p} \in SUBSET Paths
      BY <1>3, OldIs
    <3>6. old' \in Patches
      BY <3>4, <3>5 DEF Patches
    <3>7. Changed' = Changed \cup {p}
      BY <3>1 DEF Changed
    <3> QED
      BY <3>1, <2>2, <3>6, <3>7
  <2> QED
    BY <2>1, <2>2
<1>5. work' \in Tree /\ \A q \in Paths : q # p => work'[q] = work[q]
  BY <1>1, <1>3 DEF Types, Tree
<1>6. Types'
  BY <1>1, <1>3, <1>4, <1>5 DEF Types, outcome, saved
<1>7. ToolHeld' /\ StagedHeld'
  BY <1>1, <1>4 DEF IInv, ToolHeld, StagedHeld, Committed
<1>8. RollsBackToBase'
  <2> SUFFICES ASSUME NEW q \in Paths
               PROVE  IF q \in Changed' THEN old'[q] = Base[q]
                      ELSE work'[q] = Base[q] /\ index'[q] = Base[q] /\ head'[q] = Base[q]
    BY DEF RollsBackToBase
  <2> QED
    BY <1>1, <1>4, <1>5 DEF IInv, RollsBackToBase
<1> QED
  BY <1>2, <1>6, <1>7, <1>8 DEF IInv

(* A step of git.Authoring that leaves the writer and the worktree alone.  *)
LEMMA SameFiles ==
  ASSUME IInv, UNCHANGED <<work, index, head, old>>
  PROVE  RollsBackToBase'
BY DEF IInv, RollsBackToBase, Changed

(* The mutex is let go: whatever the commit reached, a later step has none *)
(* of it to keep but the depth.                                            *)
LEMMA LetGo ==
  ASSUME IInv, tool # Idle, tool' = Idle, UNCHANGED <<old, depth, phase>>
  PROVE  ToolHeld'
<1>1. Changed' = Changed /\ depth' = depth
  BY DEF Changed
<1> QED
  BY <1>1 DEF IInv, ToolHeld, Idle, Commits

LEMMA ToolTypes ==
  ASSUME Types
  PROVE  /\ tool.at \in {"verify", "add", "commit", "parse", "check"} <=> tool \in Commits
         /\ tool.at = "stage" <=> tool \in Sourcing
         /\ tool \in Commits => tool # Idle /\ tool.paths \in SUBSET Paths /\ tool.todo \in SUBSET Paths
         /\ tool \in Sourcing => tool # Idle /\ tool.tree \in Tree
BY DEF Types, Idle, Commits, Sourcing

LEMMA CommitIInv == ASSUME IInv, Commit PROVE IInv'
<1>1. /\ phase = "running" /\ tool = Idle /\ ~Committed /\ Changed # {}
      /\ tool' = [at |-> "verify", paths |-> Changed, todo |-> Changed]
      /\ UNCHANGED <<checkout, writer, commit, staged, phase, outcome, saved, faults>>
  BY DEF Commit, CanCall
<1>2. FinalizerHeld' /\ SavedHeld' /\ RecoveryHoldsCommitOrWork'
  BY <1>1, Running
<1>3. RollsBackToBase'
  BY <1>1, SameFiles DEF checkout, writer
<1>4. Changed' = Changed /\ commit' = commit /\ depth' = depth /\ phase' = "running"
  BY <1>1 DEF Changed, writer, checkout
<1>5. tool' \in Commits
  BY <1>1, OldIs DEF IInv, Commits
<1>6. Types'
  BY <1>1, <1>5 DEF IInv, Types, checkout, writer, staged, outcome, saved
<1>7. ToolHeld'
  BY <1>1, <1>4, <1>5 DEF IInv, ToolHeld, Committed
<1>8. StagedHeld'
  BY <1>1 DEF IInv, StagedHeld, staged, Committed
<1> QED
  BY <1>2, <1>3, <1>6, <1>7, <1>8 DEF IInv

(* The steps of createCommit that only move on or let go.                  *)
LEMMA MovesOn ==
  ASSUME IInv, tool \in Commits, UNCHANGED <<checkout, writer, commit, staged, phase, outcome, saved>>,
         faults' \in 0..MaxFaults,
         \/ tool' = Idle
         \/ tool.at = "verify" /\ tool' = [tool EXCEPT !.at = "add"]
  PROVE  IInv'
<1>1. phase = "running" /\ tool # Idle
  BY ToolTypes DEF IInv, ToolHeld
<1>2. FinalizerHeld' /\ SavedHeld' /\ RecoveryHoldsCommitOrWork'
  BY <1>1, Running
<1>3. RollsBackToBase'
  BY SameFiles DEF checkout, writer
<1>4. Changed' = Changed /\ commit' = commit /\ depth' = depth /\ phase' = phase
  BY DEF Changed, writer, checkout
<1>5. StagedHeld'
  BY DEF IInv, StagedHeld, staged, Committed
<1>6. CASE tool' = Idle
  <2>1. ToolHeld'
    BY <1>1, <1>6, LetGo DEF writer, checkout
  <2>2. Types'
    BY <1>6 DEF IInv, Types, checkout, writer, staged, outcome, saved
  <2> QED
    BY <1>2, <1>3, <1>5, <2>1, <2>2 DEF IInv
<1>7. CASE tool.at = "verify" /\ tool' = [tool EXCEPT !.at = "add"]
  <2>1. /\ tool' \in Commits /\ tool'.at = "add" /\ tool'.paths = tool.paths /\ tool'.todo = tool.todo
    BY <1>7 DEF Commits
  <2>2. Types'
    BY <2>1 DEF IInv, Types, checkout, writer, staged, outcome, saved
  <2>3. ToolHeld'
    BY <1>1, <1>4, <1>7, <2>1 DEF IInv, ToolHeld, Committed
  <2> QED
    BY <1>2, <1>3, <1>5, <2>2, <2>3 DEF IInv
<1> QED
  BY <1>6, <1>7

LEMMA FaultTypes ==
  ASSUME IInv
  PROVE  (Fault => faults' \in 0..MaxFaults /\ faults' # 0) /\ (Healthy => faults' = faults /\ faults' \in 0..MaxFaults)
BY AuthoringAssumption DEF IInv, Types, Fault, Healthy

LEMMA VerifyBeforeCommitIInv == ASSUME IInv, VerifyBeforeCommit PROVE IInv'
<1>1. tool \in Commits
  BY ToolTypes DEF IInv, VerifyBeforeCommit
<1> QED
  BY <1>1, MovesOn, FaultTypes DEF VerifyBeforeCommit

LEMMA VerifyAfterCommitIInv == ASSUME IInv, VerifyAfterCommit PROVE IInv'
<1>1. tool \in Commits
  BY ToolTypes DEF IInv, VerifyAfterCommit
<1> QED
  BY <1>1, MovesOn, FaultTypes DEF VerifyAfterCommit

LEMMA CommitFailsIInv == ASSUME IInv, CommitFails PROVE IInv'
<1>1. tool \in Commits
  BY ToolTypes DEF IInv, CommitFails
<1> QED
  BY <1>1, MovesOn, FaultTypes DEF CommitFails

LEMMA AddIInv == ASSUME IInv, NEW p \in Paths, Add(p) PROVE IInv'
<1>1. /\ tool.at = "add" /\ p \in tool.todo /\ index' = [index EXCEPT ![p] = work[p]]
      /\ tool' = [tool EXCEPT !.todo = @ \ {p}, !.at = IF tool.todo = {p} THEN "commit" ELSE "add"]
      /\ UNCHANGED <<work, head, depth, writer, commit, staged, phase, outcome, saved>> /\ Healthy
  BY DEF Add
<1>2. tool \in Commits /\ phase = "running" /\ ~Committed /\ p \in Changed
  BY <1>1, ToolTypes DEF IInv, ToolHeld
<1>3. FinalizerHeld' /\ SavedHeld' /\ RecoveryHoldsCommitOrWork'
  BY <1>1, <1>2, Running
<1>4. /\ Changed' = Changed /\ commit' = commit /\ depth' = depth /\ phase' = phase /\ old' = old
      /\ work' = work /\ head' = head
  BY <1>1 DEF Changed, writer
<1>5. /\ tool' \in Commits /\ tool'.at \in {"commit", "add"}
      /\ tool'.paths = tool.paths /\ tool'.todo \subseteq tool.todo
  BY <1>1, <1>2 DEF Commits
<1>6. index' \in Tree /\ \A q \in Paths : q # p => index'[q] = index[q]
  BY <1>1 DEF IInv, Types, Tree
<1>7. Types'
  BY <1>1, <1>4, <1>5, <1>6, FaultTypes DEF IInv, Types, writer, staged, outcome, saved
<1>8. ToolHeld'
  BY <1>1, <1>2, <1>4, <1>5 DEF IInv, ToolHeld, Committed
<1>9. RollsBackToBase'
  BY <1>2, <1>4, <1>6 DEF IInv, RollsBackToBase
<1>10. StagedHeld'
  BY <1>1 DEF IInv, StagedHeld, staged, Committed
<1> QED
  BY <1>3, <1>7, <1>8, <1>9, <1>10 DEF IInv

LEMMA MakeCommitIInv == ASSUME IInv, MakeCommit PROVE IInv'
<1>1. /\ tool.at = "commit" /\ Healthy
      /\ UNCHANGED <<work, index, writer, commit, staged, phase, outcome, saved>>
  BY DEF MakeCommit
<1>2. tool \in Commits /\ phase = "running" /\ ~Committed /\ Changed # {}
  BY <1>1, ToolTypes DEF IInv, ToolHeld
<1>3. CASE index = head
  BY <1>1, <1>2, <1>3, MovesOn, FaultTypes DEF MakeCommit, checkout
<1>4. CASE index # head
  <2>1. head' = index /\ depth' = depth + 1 /\ tool' = [tool EXCEPT !.at = "parse"]
    BY <1>4 DEF MakeCommit
  <2>2. FinalizerHeld' /\ SavedHeld' /\ RecoveryHoldsCommitOrWork'
    BY <1>1, <1>2, Running
  <2>3. /\ Changed' = Changed /\ commit' = commit /\ phase' = phase /\ old' = old
        /\ work' = work /\ index' = index
    BY <1>1 DEF Changed, writer
  <2>4. tool' \in Commits /\ tool'.at = "parse" /\ tool'.paths = tool.paths /\ tool'.todo = tool.todo
    BY <2>1, <1>2 DEF Commits
  <2>5. Types'
    BY <1>1, <2>1, <2>3, <2>4, FaultTypes DEF IInv, Types, writer, staged, outcome, saved
  <2>6. ToolHeld'
    BY <1>1, <1>2, <2>3, <2>4 DEF IInv, ToolHeld, Committed
  <2>7. RollsBackToBase'
    BY <2>1, <2>3 DEF IInv, RollsBackToBase
  <2>8. StagedHeld'
    BY <1>1 DEF IInv, StagedHeld, staged, Committed
  <2> QED
    BY <2>2, <2>5, <2>6, <2>7, <2>8 DEF IInv
<1> QED
  BY <1>3, <1>4

LEMMA ReadCommitIInv == ASSUME IInv, ReadCommit PROVE IInv'
<1>1. /\ tool.at = "parse" /\ Healthy /\ commit' = head /\ tool' = [tool EXCEPT !.at = "check"]
      /\ UNCHANGED <<checkout, writer, staged, phase, outcome, saved>>
  BY DEF ReadCommit
<1>2. tool \in Commits /\ phase = "running" /\ ~Committed
  BY <1>1, ToolTypes DEF IInv, ToolHeld
<1>3. FinalizerHeld' /\ SavedHeld' /\ RecoveryHoldsCommitOrWork'
  BY <1>1, <1>2, Running
<1>4. RollsBackToBase'
  BY <1>1, SameFiles DEF checkout, writer
<1>5. Changed' = Changed /\ depth' = depth /\ phase' = phase
  BY <1>1 DEF Changed, writer, checkout
<1>6. tool' \in Commits /\ tool'.at = "check" /\ tool'.paths = tool.paths /\ tool'.todo = tool.todo
  BY <1>1, <1>2 DEF Commits
<1>7. Types'
  BY <1>1, <1>6, FaultTypes DEF IInv, Types, checkout, writer, staged, outcome, saved
<1>8. ToolHeld'
  BY <1>2, <1>5, <1>6 DEF IInv, ToolHeld
<1>9. StagedHeld'
  BY <1>1, <1>2 DEF IInv, StagedHeld, staged, Committed
<1> QED
  BY <1>3, <1>4, <1>7, <1>8, <1>9 DEF IInv

LEMMA PublicationIInv == ASSUME IInv, Publication PROVE IInv'
<1>1. /\ Staging /\ phase = "running" /\ tool = Idle /\ Committed
      /\ tool' = [at |-> "stage", tree |-> commit]
      /\ UNCHANGED <<checkout, writer, commit, staged, phase, outcome, saved, faults>>
  BY DEF Publication, CanCall
<1>2. FinalizerHeld' /\ SavedHeld' /\ RecoveryHoldsCommitOrWork'
  BY <1>1, Running
<1>3. RollsBackToBase'
  BY <1>1, SameFiles DEF checkout, writer
<1>4. Changed' = Changed /\ commit' = commit /\ depth' = depth /\ phase' = "running"
  BY <1>1 DEF Changed, writer, checkout
<1>5. tool' \in Sourcing /\ tool' \notin Commits /\ tool'.at = "stage" /\ tool'.tree = commit
  BY <1>1 DEF IInv, Types, Committed, Sourcing, Commits
<1>6. Types'
  BY <1>1, <1>5 DEF IInv, Types, checkout, writer, staged, outcome, saved
<1>7. ToolHeld'
  BY <1>1, <1>4, <1>5 DEF IInv, ToolHeld, Committed
<1>8. StagedHeld'
  BY <1>1 DEF IInv, StagedHeld, staged, Committed
<1> QED
  BY <1>2, <1>3, <1>6, <1>7, <1>8 DEF IInv

LEMMA StageIInv == ASSUME IInv, Stage PROVE IInv'
<1>1. /\ tool.at = "stage" /\ tool' = Idle
      /\ UNCHANGED <<checkout, writer, commit, phase, outcome, saved, faults>>
      /\ \/ ops = <<>> /\ ops' = <<"branch">> /\ source' = tool.tree
         \/ ops # <<>> /\ UNCHANGED <<ops, source>>
  BY DEF Stage, staged
<1>2. tool \in Sourcing /\ tool # Idle /\ phase = "running" /\ Staging /\ Committed /\ tool.tree = commit
  BY <1>1, ToolTypes DEF IInv, ToolHeld
<1>3. FinalizerHeld' /\ SavedHeld' /\ RecoveryHoldsCommitOrWork'
  BY <1>1, <1>2, Running
<1>4. RollsBackToBase'
  BY <1>1, SameFiles DEF checkout, writer
<1>5. ToolHeld'
  BY <1>1, <1>2, LetGo DEF writer, checkout
<1>6. tool.tree \in Tree
  BY <1>2, ToolTypes DEF IInv
<1>7. Types'
  BY <1>1, <1>6 DEF IInv, Types, checkout, writer, outcome, saved
<1>8. StagedHeld'
  BY <1>1, <1>2 DEF IInv, StagedHeld, Committed
<1> QED
  BY <1>3, <1>4, <1>5, <1>7, <1>8 DEF IInv

LEMMA AppendTwo == ASSUME NEW a, NEW b PROVE Append(<<a>>, b) = <<a, b>>
<1> DEFINE S == {a, b}
<1>1. <<a>> \in Seq(S) /\ b \in S /\ <<a, b>> \in Seq(S)
  OBVIOUS
<1>2. Append(<<a>>, b) \in Seq(S) /\ Len(Append(<<a>>, b)) = 2 /\ Append(<<a>>, b)[1] = a /\ Append(<<a>>, b)[2] = b
  BY <1>1
<1>3. Len(<<a, b>>) = 2 /\ <<a, b>>[1] = a /\ <<a, b>>[2] = b
  OBVIOUS
<1>4. \A i \in 1..Len(Append(<<a>>, b)) : Append(<<a>>, b)[i] = <<a, b>>[i]
  BY <1>2, <1>3
<1> HIDE DEF S
<1> QED
  BY <1>1, <1>2, <1>3, <1>4, SeqEqual

LEMMA DraftPRIInv == ASSUME IInv, DraftPR PROVE IInv'
<1>1. /\ Staging /\ phase = "running" /\ ops = <<"branch">>
      /\ ops' = Append(ops, "pr")
      /\ UNCHANGED <<checkout, writer, commit, tool, source, phase, outcome, saved, faults>>
  BY DEF DraftPR, CanCall
<1>2. FinalizerHeld' /\ SavedHeld' /\ RecoveryHoldsCommitOrWork'
  BY <1>1, Running
<1>3. RollsBackToBase'
  BY <1>1, SameFiles DEF checkout, writer
<1>4. ops' = <<"branch", "pr">>
  BY <1>1, AppendTwo
<1>5. Types'
  BY <1>1, <1>4 DEF IInv, Types, checkout, writer, outcome, saved
<1>6. Changed' = Changed /\ commit' = commit /\ depth' = depth /\ phase' = phase /\ tool' = tool
  BY <1>1 DEF Changed, writer, checkout
<1>7. ToolHeld'
  BY <1>6 DEF IInv, ToolHeld, Committed
<1>8. StagedHeld'
  BY <1>1, <1>4 DEF IInv, StagedHeld, Committed
<1> QED
  BY <1>2, <1>3, <1>5, <1>7, <1>8 DEF IInv

-----------------------------------------------------------------------------
(* The finalizer.                                                          *)

(* The tools are quiet.                                                    *)
LEMMA Finalizing ==
  ASSUME IInv, tool = Idle, UNCHANGED <<old, commit, tool, ops, source>>, depth' \in {0, depth}
  PROVE  ToolHeld' /\ StagedHeld' /\ Changed' = Changed /\ (Committed' <=> Committed)
<1>1. Changed' = Changed /\ (Committed' <=> Committed)
  BY DEF Changed, Committed
<1> QED
  BY <1>1 DEF IInv, ToolHeld, StagedHeld, Idle, Commits, Committed

(* The checkout and what the properties say of it are as they were.        *)
LEMMA SameCheckoutKept ==
  ASSUME UNCHANGED <<checkout, old, commit>>
  PROVE  /\ Changed' = Changed /\ (Committed' <=> Committed) /\ (Restored' <=> Restored)
         /\ (IsAtExpected' <=> IsAtExpected) /\ (IsAt(Base, 0)' <=> IsAt(Base, 0)) /\ (Settled' <=> Settled)
<1>1. (IsAt(Base, 0)' <=> IsAt(Base, 0)) /\ (IsAt(commit, 1)' <=> IsAt(commit, 1))
  BY DEF checkout, IsAt, Clean, StagedPaths, UnstagedPaths
<1> QED
  BY <1>1 DEF checkout, Changed, Committed, Restored, IsAtExpected, Settled

LEMMA EndIInv ==
  ASSUME IInv, NEW result \in {"succeeded", "failed", "cancelled"}, End(result)
  PROVE  IInv'
<1>1. /\ phase = "running" /\ tool = Idle /\ wanted' = result /\ status' = result /\ final' = work
      /\ phase' = (IF result = "succeeded" THEN "verify" ELSE "patch")
      /\ UNCHANGED <<checkout, writer, commit, tool, staged, saved, faults>>
  BY DEF End
<1>2. dir = None /\ recovery = None /\ bundle = None
  BY <1>1 DEF IInv, FinalizerHeld, SavedHeld
<1>3. Types'
  BY <1>1 DEF IInv, Types, checkout, writer, staged, saved, Results
<1>4. ToolHeld' /\ StagedHeld'
  BY <1>1, Finalizing DEF checkout, writer, staged
<1>5. RollsBackToBase'
  BY <1>1, SameFiles DEF checkout, writer
<1>6. FinalizerHeld' /\ SavedHeld' /\ RecoveryHoldsCommitOrWork'
  BY <1>1, <1>2 DEF FinalizerHeld, SavedHeld, RecoveryHoldsCommitOrWork, saved, checkout
<1> QED
  BY <1>3, <1>4, <1>5, <1>6 DEF IInv

LEMMA VerifyRunIInv == ASSUME IInv, VerifyRun PROVE IInv'
<1>1. phase = "verify" /\ UNCHANGED <<checkout, writer, commit, tool, staged, saved>>
  BY DEF VerifyRun
<1>2. tool = Idle /\ dir = None /\ recovery = None /\ bundle = None /\ work = final
  BY <1>1 DEF IInv, ToolHeld, FinalizerHeld, SavedHeld
<1>3. ToolHeld' /\ StagedHeld'
  BY <1>1, <1>2, Finalizing DEF checkout, writer, staged
<1>4. RollsBackToBase'
  BY <1>1, SameFiles DEF checkout, writer
<1>5. UNCHANGED <<checkout, old, commit, dir, recovery, bundle>>
  BY <1>1 DEF writer, saved
<1>6. dir' = None /\ recovery' = None /\ bundle' = None /\ SavedHeld' /\ RecoveryHoldsCommitOrWork'
  BY <1>2, <1>5 DEF SavedHeld, RecoveryHoldsCommitOrWork
<1>7. CASE phase' = "evidence" /\ Healthy /\ (Changed # {} => Committed) /\ IsAtExpected /\ UNCHANGED outcome
  <2>1. Types'
    BY <1>1, <1>7, FaultTypes DEF IInv, Types, checkout, writer, staged, saved, outcome
  <2>2. Changed \cap Ignored = {} => Settled
    BY <1>7, CleanIsHead DEF Settled, IsAtExpected, IsAt
  <2>3. FinalizerHeld'
    BY <1>5, <1>6, <1>7, <2>2, SameCheckoutKept DEF FinalizerHeld
  <2> QED
    BY <1>3, <1>4, <1>6, <2>1, <2>3 DEF IInv
<1>8. CASE phase' = "patch" /\ status' = "failed" /\ (Healthy \/ Fault) /\ UNCHANGED <<wanted, final>>
  <2>1. Types'
    BY <1>1, <1>8, FaultTypes DEF IInv, Types, checkout, writer, staged, saved, Results
  <2>2. FinalizerHeld'
    BY <1>2, <1>5, <1>6, <1>8 DEF FinalizerHeld, checkout
  <2> QED
    BY <1>3, <1>4, <1>6, <2>1, <2>2 DEF IInv
<1> QED
  BY <1>7, <1>8 DEF VerifyRun

(* Adding changed paths leaves the index where the worktree is.            *)
LEMMA AddsIs ==
  ASSUME IInv, NEW S \in SUBSET Changed, Adds(S)
  PROVE  /\ index' \in Tree
         /\ \A p \in Paths : index'[p] = IF p \in S THEN work[p] ELSE index[p]
<1>1. S \in SUBSET Paths /\ index \in Tree
  BY OldIs DEF IInv, Types
<1>2. [p \in S |-> work[p]] \in [S -> Contents \cup {Absent}]
  BY <1>1 DEF IInv, Types, Tree
<1> DEFINE f == [p \in S |-> work[p]]
<1>3. \A p \in S : f[p] = work[p]
  OBVIOUS
<1>4. index' = Override(index, f) /\ f \in [S -> Contents \cup {Absent}]
  BY <1>2 DEF Adds
<1> HIDE DEF f
<1> QED
  BY <1>1, <1>3, <1>4, OverrideIs

(* A finalizer that gives up with the checkout as it is: it is only settled*)
(* when no step failed and no ignored path was written.                    *)
LEMMA GivesUp ==
  ASSUME GiveUp, faults' = 0 /\ Changed' \cap Ignored = {} => Settled'
  PROVE  FinalizerHeld'
BY DEF GiveUp, FinalizerHeld

LEMMA RecoveryPatchIInv == ASSUME IInv, RecoveryPatch PROVE IInv'
<1>1. phase = "patch" /\ UNCHANGED <<work, head, depth, writer, commit, tool, staged, saved>>
  BY DEF RecoveryPatch
<1>2. /\ tool = Idle /\ dir = None /\ recovery = None /\ bundle = None /\ work = final
      /\ status # "succeeded"
  BY <1>1 DEF IInv, ToolHeld, FinalizerHeld, SavedHeld
<1>3. ToolHeld' /\ StagedHeld' /\ Changed' = Changed /\ (Committed' <=> Committed)
  BY <1>1, <1>2, Finalizing DEF writer, staged
<1>4. dir' = None /\ recovery' = None /\ bundle' = None /\ work' = work /\ head' = head /\ depth' = depth /\ old' = old
  BY <1>1, <1>2 DEF saved, writer
<1>5. SavedHeld' /\ RecoveryHoldsCommitOrWork'
  BY <1>4 DEF SavedHeld, RecoveryHoldsCommitOrWork
<1>6. ASSUME index' \in Tree, \A p \in Paths \ Changed : index'[p] = index[p] PROVE RollsBackToBase'
  BY <1>3, <1>4, <1>6 DEF IInv, RollsBackToBase
<1>7. ASSUME index' \in Tree, phase' \in {"write", "take", "evidence"}, faults' \in 0..MaxFaults,
             wanted' = wanted, final' = final, status' \in {status, "failed"}
      PROVE  Types'
  BY <1>1, <1>7 DEF IInv, Types, writer, staged, saved, Results
<1>8. CASE Changed = {} /\ ~Committed /\ phase' = "take" /\ UNCHANGED <<index, outcome>> /\ Healthy
  <2>1. Restored /\ Restored'
    BY <1>4, <1>8, NothingChanged DEF Restored
  <2>2. Types' /\ RollsBackToBase'
    BY <1>6, <1>7, <1>8, FaultTypes DEF IInv, Types, outcome
  <2>3. FinalizerHeld'
    BY <1>2, <1>8, <2>1 DEF FinalizerHeld, outcome
  <2> QED
    BY <1>3, <1>5, <2>2, <2>3 DEF IInv
<1>9. CASE Committed /\ phase' = "write" /\ UNCHANGED <<index, outcome>> /\ Healthy
  <2>1. Types' /\ RollsBackToBase'
    BY <1>6, <1>7, <1>9, FaultTypes DEF IInv, Types, outcome
  <2>2. FinalizerHeld'
    BY <1>2, <1>3, <1>4, <1>9 DEF FinalizerHeld, outcome
  <2> QED
    BY <1>3, <1>5, <2>1, <2>2 DEF IInv
<1>10. CASE ~Committed /\ Adds(Changed) /\ phase' = "write" /\ UNCHANGED outcome /\ Healthy
  <2>1. index' \in Tree /\ \A p \in Paths : index'[p] = IF p \in Changed THEN work[p] ELSE index[p]
    BY <1>10, AddsIs
  <2>2. Types' /\ RollsBackToBase'
    BY <1>6, <1>7, <1>10, <2>1, FaultTypes DEF outcome
  <2>3. \A p \in Changed' : index'[p] = work'[p]
    BY <1>3, <1>4, <2>1, OldIs DEF IInv
  <2>4. FinalizerHeld'
    BY <1>2, <1>4, <1>10, <2>3 DEF FinalizerHeld, outcome
  <2> QED
    BY <1>3, <1>5, <2>2, <2>4 DEF IInv
<1>11. CASE /\ \/ Changed \cap Ignored # {} /\ Healthy
               \/ Fault
            /\ IF Committed THEN UNCHANGED index ELSE \E S \in SUBSET (Changed \ Ignored) : Adds(S)
            /\ GiveUp
  <2>1. index' \in Tree /\ \A p \in Paths \ Changed : index'[p] = index[p]
    <3>1. CASE index' = index
      BY <3>1 DEF IInv, Types
    <3>2. CASE \E S \in SUBSET (Changed \ Ignored) : Adds(S)
      <4>1. PICK S \in SUBSET Changed : Adds(S)
        BY <3>2
      <4> QED
        BY <4>1, AddsIs
    <3> QED
      BY <1>11, <3>1, <3>2
  <2>2. Types' /\ RollsBackToBase'
    BY <1>6, <1>7, <1>11, <2>1, FaultTypes DEF GiveUp
  <2>3. faults' # 0 \/ Changed' \cap Ignored # {}
    BY <1>3, <1>11, FaultTypes
  <2>4. FinalizerHeld'
    BY <1>11, <2>3, GivesUp
  <2> QED
    BY <1>3, <1>5, <2>2, <2>4 DEF IInv
<1> QED
  BY <1>8, <1>9, <1>10, <1>11 DEF RecoveryPatch

LEMMA WriteRecoveryIInv == ASSUME IInv, WriteRecovery PROVE IInv'
<1>1. phase = "write" /\ UNCHANGED <<checkout, writer, commit, tool, staged, recovery, bundle>>
  BY DEF WriteRecovery
<1>2. /\ tool = Idle /\ dir = None /\ recovery = None /\ bundle = None /\ work = final
      /\ status # "succeeded"
      /\ ~Committed => \A p \in Changed : index[p] = work[p]
  BY <1>1 DEF IInv, ToolHeld, FinalizerHeld, SavedHeld
<1>3. ToolHeld' /\ StagedHeld' /\ Changed' = Changed /\ (Committed' <=> Committed)
  BY <1>1, <1>2, Finalizing DEF writer, staged, checkout
<1>4. RollsBackToBase'
  BY <1>1, SameFiles DEF checkout, writer
<1>5. recovery' = None /\ bundle' = None /\ commit' = commit /\ work' = work
  BY <1>1, <1>2 DEF checkout
<1>6. SavedHeld'
  BY <1>5 DEF SavedHeld
<1>7. CASE dir' = PatchOf(IF Committed THEN commit ELSE index) /\ phase' = "reset" /\ UNCHANGED outcome /\ Healthy
  <2>1. dir' \in Patches
    BY <1>7, PatchIs DEF IInv, Types, Committed
  <2>2. Types'
    BY <1>1, <1>7, <2>1, FaultTypes DEF IInv, Types, checkout, writer, staged, outcome
  <2>3. FinalizerHeld'
    BY <1>2, <1>7 DEF FinalizerHeld, outcome
  <2>4. ~Committed => PatchOf(index) = PatchOf(final)
    BY <1>2 DEF PatchOf
  <2>6. dir' = PatchOf(IF Committed THEN commit ELSE final)'
    <3>1. CASE Committed
      <4>1. dir' = PatchOf(commit)
        BY <1>7, <3>1
      <4>2. PatchOf(commit)' = PatchOf(commit)
        BY <1>3, <1>5 DEF PatchOf
      <4> QED
        BY <1>3, <3>1, <4>1, <4>2
    <3>2. CASE ~Committed
      <4>1. dir' = PatchOf(final)
        BY <1>7, <3>2, <2>4
      <4>2. PatchOf(final)' = PatchOf(final)
        BY <1>3, <1>7 DEF PatchOf, outcome
      <4> QED
        BY <1>3, <3>2, <4>1, <4>2
    <3> QED
      BY <3>1, <3>2
  <2>7. RecoveryHoldsCommitOrWork'
    BY <2>6 DEF RecoveryHoldsCommitOrWork
  <2> QED
    BY <1>3, <1>4, <1>6, <2>2, <2>3, <2>7 DEF IInv
<1>8. CASE GiveUp /\ Fault /\ UNCHANGED dir
  <2>1. Types'
    BY <1>1, <1>8, FaultTypes DEF IInv, Types, checkout, writer, staged, GiveUp, Results
  <2>2. FinalizerHeld'
    BY <1>8, FaultTypes, GivesUp
  <2>3. RecoveryHoldsCommitOrWork'
    BY <1>2, <1>8 DEF RecoveryHoldsCommitOrWork
  <2> QED
    BY <1>3, <1>4, <1>6, <2>1, <2>2, <2>3 DEF IInv
<1> QED
  BY <1>7, <1>8 DEF WriteRecovery

LEMMA SamePatch ==
  ASSUME IInv, UNCHANGED <<old, commit, final, dir>>
  PROVE  RecoveryHoldsCommitOrWork'
<1>1. Changed' = Changed /\ (Committed' <=> Committed)
  BY DEF Changed, Committed
<1>2. PatchOf(commit)' = PatchOf(commit) /\ PatchOf(final)' = PatchOf(final)
  BY <1>1 DEF PatchOf
<1> QED
  BY <1>1, <1>2 DEF IInv, RecoveryHoldsCommitOrWork

(* Before the evidence there is no bundle and nothing was taken.           *)
LEMMA NothingSaved ==
  ASSUME IInv, phase \notin {"evidence", "ended"}, UNCHANGED <<recovery, bundle>>
  PROVE  recovery = None /\ bundle = None /\ SavedHeld'
<1>1. recovery = None /\ bundle = None
  BY DEF IInv, SavedHeld
<1> QED
  BY <1>1 DEF SavedHeld

LEMMA ResetHardIInv == ASSUME IInv, ResetHard PROVE IInv'
<1>1. phase = "reset" /\ UNCHANGED <<writer, commit, tool, staged, saved>>
  BY DEF ResetHard
<1>2. tool = Idle /\ status # "succeeded" /\ UNCHANGED <<old, commit, dir, recovery, bundle>>
  BY <1>1 DEF IInv, ToolHeld, FinalizerHeld, writer, saved
<1>3. SavedHeld'
  BY <1>1, <1>2, NothingSaved
<1>4. CASE /\ work' = [p \in Paths |-> IF index[p] = Absent /\ Base[p] = Absent THEN work[p] ELSE Base[p]]
           /\ index' = Base /\ head' = Base /\ depth' = 0
           /\ phase' = "rollback" /\ UNCHANGED outcome /\ Healthy
  <2>1. Base \in Tree /\ work \in Tree
    BY AuthoringAssumption DEF IInv, Types
  <2>2. work' \in Tree /\ \A p \in Paths : work'[p] \in {work[p], Base[p]}
    BY <1>4, <2>1 DEF Tree
  <2>3. Types'
    BY <1>1, <1>4, <2>1, <2>2, FaultTypes DEF IInv, Types, writer, staged, saved, outcome
  <2>4. ToolHeld' /\ StagedHeld' /\ Changed' = Changed
    BY <1>1, <1>2, <1>4, Finalizing DEF staged
  <2>5. RollsBackToBase'
    BY <1>2, <1>4, <2>2, <2>4 DEF IInv, RollsBackToBase
  <2>6. FinalizerHeld'
    BY <1>2, <1>4 DEF FinalizerHeld, outcome
  <2>7. RecoveryHoldsCommitOrWork'
    BY <1>2, <1>4, SamePatch DEF outcome
  <2> QED
    BY <1>3, <2>3, <2>4, <2>5, <2>6, <2>7 DEF IInv
<1>5. CASE GiveUp /\ Fault /\ UNCHANGED checkout
  <2>1. Types'
    BY <1>1, <1>5, FaultTypes DEF IInv, Types, checkout, writer, staged, saved, GiveUp, Results
  <2>2. ToolHeld' /\ StagedHeld' /\ RollsBackToBase'
    BY <1>1, <1>2, <1>5, Finalizing, SameFiles DEF staged, checkout
  <2>3. FinalizerHeld'
    BY <1>5, FaultTypes, GivesUp
  <2>4. RecoveryHoldsCommitOrWork'
    BY <1>2, <1>5, SamePatch DEF GiveUp
  <2> QED
    BY <1>3, <2>1, <2>2, <2>3, <2>4 DEF IInv
<1> QED
  BY <1>4, <1>5 DEF ResetHard

LEMMA RollbackIInv == ASSUME IInv, Rollback PROVE IInv'
<1>1. phase = "rollback" /\ UNCHANGED <<index, head, depth, writer, commit, tool, staged, saved>>
  BY DEF Rollback
<1>2. /\ tool = Idle /\ status # "succeeded" /\ UNCHANGED <<old, commit, dir, recovery, bundle>>
      /\ index = Base /\ head = Base /\ depth = 0
  BY <1>1 DEF IInv, ToolHeld, FinalizerHeld, writer, saved
<1>3. SavedHeld'
  BY <1>1, <1>2, NothingSaved
<1>4. ToolHeld' /\ StagedHeld' /\ Changed' = Changed
  BY <1>1, <1>2, Finalizing DEF staged
<1>5. Types /\ work \in Tree /\ Base \in Tree
  BY AuthoringAssumption DEF IInv, Types
<1>6. CASE work' = Override(work, old) /\ phase' = "confirm" /\ UNCHANGED outcome /\ Healthy
  <2>1. Changed \in SUBSET Paths /\ old \in [Changed -> Contents \cup {Absent}]
    BY <1>5, OldIs
  <2>2. work' \in Tree /\ \A p \in Paths : work'[p] = IF p \in Changed THEN old[p] ELSE work[p]
    BY <1>5, <1>6, <2>1, OverrideIs
  <2>3. \A p \in Paths : work'[p] = Base[p]
    BY <2>2 DEF IInv, RollsBackToBase
  <2>4. work' = Base
    BY <1>5, <2>2, <2>3, SameTree
  <2>5. Types'
    BY <1>1, <1>6, <2>2, FaultTypes DEF IInv, Types, writer, staged, saved, outcome
  <2>6. RollsBackToBase'
    BY <1>1, <1>2, <1>4, <2>4 DEF IInv, RollsBackToBase
  <2>7. FinalizerHeld'
    BY <1>1, <1>2, <1>6, <2>4 DEF FinalizerHeld, Restored, outcome
  <2>8. RecoveryHoldsCommitOrWork'
    BY <1>2, <1>6, SamePatch DEF outcome
  <2> QED
    BY <1>3, <1>4, <2>5, <2>6, <2>7, <2>8 DEF IInv
<1>7. CASE GiveUp /\ Fault /\ \E S \in SUBSET Changed : work' = Override(work, [p \in S |-> old[p]])
  <2>1. PICK S \in SUBSET Changed : work' = Override(work, [p \in S |-> old[p]])
    BY <1>7
  <2> DEFINE f == [p \in S |-> old[p]]
  <2>2. S \in SUBSET Paths /\ f \in [S -> Contents \cup {Absent}] /\ \A p \in S : f[p] = old[p]
    BY <1>5, OldIs
  <2>3. work' = Override(work, f)
    BY <2>1
  <2> HIDE DEF f
  <2>4. work' \in Tree /\ \A p \in Paths : work'[p] = IF p \in S THEN old[p] ELSE work[p]
    BY <1>5, <2>2, <2>3, OverrideIs
  <2>5. Types'
    BY <1>1, <1>7, <2>4, FaultTypes DEF IInv, Types, writer, staged, saved, GiveUp, Results
  <2>6. RollsBackToBase'
    BY <1>1, <1>2, <1>4, <2>4 DEF IInv, RollsBackToBase
  <2>7. FinalizerHeld'
    BY <1>7, FaultTypes, GivesUp
  <2>8. RecoveryHoldsCommitOrWork'
    BY <1>2, <1>7, SamePatch DEF GiveUp
  <2> QED
    BY <1>3, <1>4, <2>5, <2>6, <2>7, <2>8 DEF IInv
<1> QED
  BY <1>6, <1>7 DEF Rollback

LEMMA ConfirmIInv == ASSUME IInv, Confirm PROVE IInv'
<1>1. phase = "confirm" /\ UNCHANGED <<checkout, writer, commit, tool, staged, saved>>
  BY DEF Confirm
<1>2. /\ tool = Idle /\ status # "succeeded" /\ UNCHANGED <<checkout, old, commit, dir, recovery, bundle>>
      /\ Restored
  BY <1>1 DEF IInv, ToolHeld, FinalizerHeld, writer, saved
<1>3. SavedHeld'
  BY <1>1, <1>2, NothingSaved
<1>4. ToolHeld' /\ StagedHeld' /\ RollsBackToBase'
  BY <1>1, <1>2, Finalizing, SameFiles DEF staged, checkout
<1>5. Restored' /\ Settled'
  BY <1>2, SameCheckoutKept, RestoredIsBase
<1>6. CASE phase' = "take" /\ UNCHANGED outcome /\ Healthy
  <2>1. Types'
    BY <1>1, <1>6, FaultTypes DEF IInv, Types, checkout, writer, staged, saved, outcome
  <2>2. FinalizerHeld'
    BY <1>2, <1>5, <1>6 DEF FinalizerHeld, outcome
  <2>3. RecoveryHoldsCommitOrWork'
    BY <1>2, <1>6, SamePatch DEF outcome
  <2> QED
    BY <1>3, <1>4, <2>1, <2>2, <2>3 DEF IInv
<1>7. CASE GiveUp /\ (Fault \/ Healthy)
  <2>1. Types'
    BY <1>1, <1>7, FaultTypes DEF IInv, Types, checkout, writer, staged, saved, GiveUp, Results
  <2>2. FinalizerHeld'
    BY <1>5, <1>7, GivesUp
  <2>3. RecoveryHoldsCommitOrWork'
    BY <1>2, <1>7, SamePatch DEF GiveUp
  <2> QED
    BY <1>3, <1>4, <2>1, <2>2, <2>3 DEF IInv
<1> QED
  BY <1>6, <1>7 DEF Confirm

LEMMA TakeRecoveryIInv == ASSUME IInv, TakeRecovery PROVE IInv'
<1>1. phase = "take" /\ UNCHANGED <<checkout, writer, commit, tool, staged, bundle>>
  BY DEF TakeRecovery
<1>2. /\ tool = Idle /\ status # "succeeded" /\ UNCHANGED <<checkout, old, commit>>
      /\ Restored /\ recovery = None /\ bundle = None
  BY <1>1 DEF IInv, ToolHeld, FinalizerHeld, SavedHeld, writer
<1>3. ToolHeld' /\ StagedHeld' /\ RollsBackToBase'
  BY <1>1, <1>2, Finalizing, SameFiles DEF staged, checkout
<1>4. Restored' /\ Settled' /\ bundle' = None
  BY <1>1, <1>2, SameCheckoutKept, RestoredIsBase
<1>5. /\ phase' = "evidence" /\ (UNCHANGED outcome \/ GiveUp) /\ faults' \in 0..MaxFaults
      /\ dir' \in {dir, None} /\ recovery' \in {recovery, dir}
  BY <1>1, FaultTypes DEF TakeRecovery, GiveUp
<1>6. Types'
  BY <1>1, <1>5 DEF IInv, Types, checkout, writer, staged, outcome, GiveUp, Results
<1>7. SavedHeld'
  BY <1>4, <1>5 DEF SavedHeld
<1>8. FinalizerHeld'
  BY <1>2, <1>4, <1>5 DEF FinalizerHeld, outcome, GiveUp
<1>9. RecoveryHoldsCommitOrWork'
  <2>1. CASE dir' = None
    BY <2>1 DEF RecoveryHoldsCommitOrWork
  <2>2. CASE dir' = dir
    BY <1>2, <1>5, <2>2, SamePatch DEF outcome, GiveUp
  <2> QED
    BY <1>5, <2>1, <2>2
<1> QED
  BY <1>3, <1>6, <1>7, <1>8, <1>9 DEF IInv

LEMMA WriteEvidenceIInv == ASSUME IInv, WriteEvidence PROVE IInv'
<1>1. /\ phase = "evidence" /\ phase' = "ended"
      /\ UNCHANGED <<checkout, writer, commit, tool, staged, wanted, final, dir, recovery>>
  BY DEF WriteEvidence
<1>2. /\ tool = Idle /\ bundle = None /\ UNCHANGED <<checkout, old, commit>>
      /\ status = "succeeded" => (Changed # {} => Committed) /\ IsAtExpected
  BY <1>1 DEF IInv, ToolHeld, FinalizerHeld, SavedHeld, writer
<1>3. ToolHeld' /\ StagedHeld' /\ RollsBackToBase'
  BY <1>1, <1>2, Finalizing, SameFiles DEF staged, checkout
<1>4. /\ faults' \in 0..MaxFaults /\ status' \in {status, "incomplete"}
      /\ faults' = 0 => faults = 0
      /\ bundle' = bundle \/ (bundle' = Evidence /\ Complete)
  BY <1>1, FaultTypes DEF WriteEvidence
<1>5. CASE bundle' = bundle
  <2>1. Types'
    BY <1>1, <1>4, <1>5 DEF IInv, Types, checkout, writer, staged, Results
  <2>2. SavedHeld'
    BY <1>1, <1>2, <1>5, SameCheckoutKept DEF IInv, SavedHeld
  <2> QED
    BY <2>1, <2>2, <1>1, <1>2, <1>3, <1>4, SameCheckoutKept, SamePatch DEF IInv, FinalizerHeld
<1>6. CASE bundle' = Evidence /\ Complete
  <2>1. /\ Evidence.ops = IF Staging /\ status = "succeeded" THEN ops ELSE <<>>
        /\ Evidence.source = IF Staging /\ status = "succeeded" THEN source ELSE None
        /\ Evidence.recovery = IF status = "succeeded" THEN None ELSE recovery
    BY DEF Evidence
  <2>2. Evidence \in [ops : {<<>>, <<"branch", "pr">>}, source : Tree \cup {None}, recovery : Patches \cup {None}]
    BY <1>6 DEF IInv, Types, Evidence, Complete
  <2>3. Types'
    BY <1>1, <1>4, <1>6, <2>2 DEF IInv, Types, checkout, writer, staged, Results
  <2>4. Evidence.ops # <<>> => Committed /\ Evidence.source = commit /\ IsAtExpected
    BY <1>2, <2>1 DEF IInv, StagedHeld
  <2>5. SavedHeld'
    BY <1>1, <1>2, <1>6, <2>1, <2>4, SameCheckoutKept DEF IInv, SavedHeld
  <2> QED
    BY <2>3, <2>5, <1>1, <1>2, <1>3, <1>4, SameCheckoutKept, SamePatch DEF IInv, FinalizerHeld
<1> QED
  BY <1>4, <1>5, <1>6

-----------------------------------------------------------------------------

LEMMA NextIInv == IInv /\ [Next]_vars => IInv'
<1> SUFFICES ASSUME IInv, [Next]_vars PROVE IInv'
  OBVIOUS
<1>1. ASSUME NEW p \in Paths, NEW c \in Contents, Write(p, c) PROVE IInv'
  BY <1>1, WriteIInv
<1>2. CASE Commit
  BY <1>2, CommitIInv
<1>3. CASE VerifyBeforeCommit
  BY <1>3, VerifyBeforeCommitIInv
<1>4. ASSUME NEW p \in Paths, Add(p) PROVE IInv'
  BY <1>4, AddIInv
<1>5. CASE MakeCommit
  BY <1>5, MakeCommitIInv
<1>6. CASE ReadCommit
  BY <1>6, ReadCommitIInv
<1>7. CASE VerifyAfterCommit
  BY <1>7, VerifyAfterCommitIInv
<1>8. CASE CommitFails
  BY <1>8, CommitFailsIInv
<1>9. CASE Publication
  BY <1>9, PublicationIInv
<1>10. CASE Stage
  BY <1>10, StageIInv
<1>11. CASE DraftPR
  BY <1>11, DraftPRIInv
<1>12. ASSUME NEW result \in {"succeeded", "failed", "cancelled"}, End(result) PROVE IInv'
  BY <1>12, EndIInv
<1>13. CASE VerifyRun
  BY <1>13, VerifyRunIInv
<1>14. CASE RecoveryPatch
  BY <1>14, RecoveryPatchIInv
<1>15. CASE WriteRecovery
  BY <1>15, WriteRecoveryIInv
<1>16. CASE ResetHard
  BY <1>16, ResetHardIInv
<1>17. CASE Rollback
  BY <1>17, RollbackIInv
<1>18. CASE Confirm
  BY <1>18, ConfirmIInv
<1>19. CASE TakeRecovery
  BY <1>19, TakeRecoveryIInv
<1>20. CASE WriteEvidence
  BY <1>20, WriteEvidenceIInv
<1>21. CASE UNCHANGED vars
  <2>1. /\ UNCHANGED <<checkout, writer, commit, tool, staged, phase, outcome, saved, faults>>
        /\ UNCHANGED <<checkout, old, commit>> /\ UNCHANGED <<old, commit, final, dir>>
    BY <1>21 DEF vars, writer, outcome, saved
  <2>2. Types'
    BY <2>1 DEF IInv, Types, checkout, writer, staged, outcome, saved
  <2>3. RollsBackToBase' /\ RecoveryHoldsCommitOrWork'
    BY <2>1, SameFiles, SamePatch DEF checkout
  <2>4. ToolHeld' /\ StagedHeld'
    BY <2>1, SameCheckoutKept DEF IInv, ToolHeld, StagedHeld, staged, checkout
  <2>5. FinalizerHeld' /\ SavedHeld'
    BY <2>1, SameCheckoutKept DEF IInv, FinalizerHeld, SavedHeld, checkout, outcome, saved
  <2> QED
    BY <2>2, <2>3, <2>4, <2>5 DEF IInv
<1> QED
  BY <1>1, <1>2, <1>3, <1>4, <1>5, <1>6, <1>7, <1>8, <1>9, <1>10, <1>11, <1>12, <1>13, <1>14, <1>15, <1>16,
     <1>17, <1>18, <1>19, <1>20, <1>21 DEF Next

(* However the calls of a turn interleave and whichever commands fail, each*)
(* step of the tools and of the finalizer leaves what the next relies on.  *)
THEOREM Invariant == Spec => []IInv
<1> QED
  BY InitIInv, NextIInv, PTL DEF Spec

-----------------------------------------------------------------------------

(* RollsBackToBase: what a rollback would restore is the base, whatever was*)
(* written, committed or interrupted since (Authoring.Rollback).           *)
THEOREM RollbackIsBase == Spec => []RollsBackToBase
<1>1. IInv => RollsBackToBase
  BY DEF IInv
<1> QED
  BY <1>1, Invariant, PTL

(* RecoveryHoldsCommitOrWork: the recovery patch is the commit or the files*)
(* the run ended with, however far a commit got (Authoring.Recover).       *)
THEOREM PatchIsTheWork == Spec => []RecoveryHoldsCommitOrWork
<1>1. IInv => RecoveryHoldsCommitOrWork
  BY DEF IInv
<1> QED
  BY <1>1, Invariant, PTL

(* RecoveryMeansRestored: a bundle with recovery files stands beside a     *)
(* checkout that is back at the base (Authoring.Recover).                  *)
THEOREM RecoveryIsClean == Spec => []RecoveryMeansRestored
<1>1. IInv => RecoveryMeansRestored
  BY DEF IInv, SavedHeld, RecoveryMeansRestored, Restored
<1> QED
  BY <1>1, Invariant, PTL

(* PublishedIsCheckedOut: the operations of a bundle are of the one commit *)
(* the checkout is at, though writes go on beside the commit and between   *)
(* the two locks of the branch tool (Authoring.Verify).                    *)
THEOREM PublishedIsTheCommit == Spec => []PublishedIsCheckedOut
<1>1. ASSUME IInv, Ended, bundle # None, bundle.ops # <<>>
      PROVE  /\ bundle.source = head /\ depth = 1
             /\ \A p \in Paths \ Ignored : work[p] = head[p] /\ index[p] = head[p]
  <2>1. Committed /\ bundle.source = commit /\ IsAtExpected
    BY <1>1 DEF IInv, SavedHeld
  <2>2. head = commit /\ depth = 1 /\ Clean
    BY <2>1 DEF IsAtExpected, IsAt
  <2> QED
    BY <2>1, <2>2 DEF Clean, StagedPaths, UnstagedPaths
<1>2. IInv => PublishedIsCheckedOut
  BY <1>1 DEF PublishedIsCheckedOut
<1> QED
  BY <1>2, Invariant, PTL

(* LeavesCleanCheckout: a run whose commands all worked and that wrote no  *)
(* ignored path ends clean, at the base or at its commit.                  *)
THEOREM CheckoutIsClean == Spec => []LeavesCleanCheckout
<1>1. IInv => LeavesCleanCheckout
  BY DEF IInv, FinalizerHeld, LeavesCleanCheckout, Ended, Settled
<1> QED
  BY <1>1, Invariant, PTL

-----------------------------------------------------------------------------
(* A sum over a finite set.  The definition is a recursive function; the   *)
(* facts about it are proved of a smallest set that would break them.      *)

Pick(s) == CHOOSE x \in s : TRUE
IsSum(f, S, g) == g = [s \in SUBSET S |-> IF s = {} THEN 0 ELSE f[Pick(s)] + g[s \ {Pick(s)}]]

LEMMA SumIs ==
  ASSUME NEW f, NEW S
  PROVE  SumFunctionOnSet(f, S) = (CHOOSE g : IsSum(f, S, g))[S]
BY DEF SumFunctionOnSet, FoldFunctionOnSet, MapThenFoldSet, IsSum, Pick

LEMMA SmallestSet ==
  ASSUME NEW D, IsFiniteSet(D), NEW B \in SUBSET (SUBSET D), B # {}
  PROVE  \E s \in B : \A t \in B : ~(t \subseteq s /\ t # s)
<1> DEFINE T == {Cardinality(s) : s \in B}
<1>1. \A s \in B : IsFiniteSet(s) /\ Cardinality(s) \in Nat
  BY FS_Subset, FS_CardinalityType
<1>2. T \in SUBSET Nat /\ T # {}
  BY <1>1
<1>3. PICK n \in T : \A m \in T : ~(<<m, n>> \in OpToRel(<, Nat))
  <2> HIDE DEF T
  <2> QED
    BY <1>2, NatLessThanWellFounded, WFMin
<1>4. PICK s \in B : n = Cardinality(s)
  BY <1>3
<1>5. ASSUME NEW t \in B, t \subseteq s, t # s PROVE FALSE
  <2>1. Cardinality(t) < Cardinality(s)
    BY <1>1, <1>5, FS_Subset
  <2>2. Cardinality(t) \in T /\ Cardinality(t) \in Nat /\ Cardinality(s) \in Nat
    BY <1>1
  <2> QED
    BY <1>3, <1>4, <2>1, <2>2 DEF OpToRel
<1> QED
  BY <1>5

LEMMA Picked == ASSUME NEW s, s # {} PROVE Pick(s) \in s /\ s \ {Pick(s)} \subseteq s /\ s \ {Pick(s)} # s
BY DEF Pick

LEMMA SumAt ==
  ASSUME NEW f, NEW S, NEW g, IsSum(f, S, g), NEW s \in SUBSET S
  PROVE  /\ s = {} => g[s] = 0
         /\ s # {} => g[s] = f[Pick(s)] + g[s \ {Pick(s)}]
BY Zenon DEF IsSum

LEMMA SumUnique ==
  ASSUME NEW f, NEW S, IsFiniteSet(S), NEW T, NEW g, NEW h, IsSum(f, S, g), IsSum(f, T, h),
         NEW u \in SUBSET S, u \subseteq T
  PROVE  g[u] = h[u]
<1> DEFINE B == {s \in SUBSET S : s \subseteq T /\ g[s] # h[s]}
<1>1. SUFFICES ASSUME B # {} PROVE FALSE
  OBVIOUS
<1>2. PICK s \in B : \A t \in B : ~(t \subseteq s /\ t # s)
  <2>1. B \in SUBSET (SUBSET S)
    OBVIOUS
  <2> HIDE DEF B
  <2> QED
    BY <1>1, <2>1, SmallestSet
<1>3. s # {}
  BY <1>2, SumAt
<1>4. s \ {Pick(s)} \notin B /\ s \ {Pick(s)} \in SUBSET S /\ s \ {Pick(s)} \subseteq T
  BY <1>2, <1>3, Picked
<1>5. g[s \ {Pick(s)}] = h[s \ {Pick(s)}]
  BY <1>4
<1> QED
  BY <1>2, <1>3, <1>5, SumAt

SumOf(f, S) == CHOOSE g : IsSum(f, S, g)

LEMMA SumExists ==
  ASSUME NEW f, NEW D, IsFiniteSet(D)
  PROVE  IsSum(f, D, SumOf(f, D))
<1> DEFINE B == {s \in SUBSET D : ~IsSum(f, s, SumOf(f, s))}
<1>1. SUFFICES ASSUME B # {} PROVE FALSE
  OBVIOUS
<1>2. PICK S \in B : \A t \in B : ~(t \subseteq S /\ t # S)
  <2>1. B \in SUBSET (SUBSET D)
    OBVIOUS
  <2> HIDE DEF B
  <2> QED
    BY <1>1, <2>1, SmallestSet
<1>3. ASSUME NEW s \in SUBSET S, s # S PROVE IsSum(f, s, SumOf(f, s)) /\ IsFiniteSet(s)
  BY <1>2, <1>3, FS_Subset
<1> DEFINE g == [s \in SUBSET S |-> IF s = {} THEN 0
                                    ELSE f[Pick(s)] + SumOf(f, s \ {Pick(s)})[s \ {Pick(s)}]]
<1>4. ASSUME NEW u \in SUBSET S, u # S PROVE g[u] = SumOf(f, u)[u]
  <2>1. CASE u = {}
    <3>1. IsSum(f, u, SumOf(f, u)) /\ u \in SUBSET u
      BY <1>3, <1>4
    <3>2. SumOf(f, u)[u] = 0
      BY <2>1, <3>1, SumAt
    <3> QED
      BY <2>1, <3>2
  <2>2. CASE u # {}
    <3> DEFINE v == u \ {Pick(u)}
    <3>1. v \in SUBSET S /\ v # S /\ v \subseteq u
      BY <1>4, <2>2, Picked
    <3>2. IsSum(f, u, SumOf(f, u)) /\ IsSum(f, v, SumOf(f, v)) /\ IsFiniteSet(u)
      BY <1>3, <1>4, <3>1
    <3>3. SumOf(f, u)[u] = f[Pick(u)] + SumOf(f, u)[v]
      BY <2>2, <3>2, SumAt
    <3>4. SumOf(f, u)[v] = SumOf(f, v)[v]
      BY <3>1, <3>2, SumUnique
    <3>5. g[u] = f[Pick(u)] + SumOf(f, v)[v]
      BY <2>2
    <3> QED
      BY <3>3, <3>4, <3>5
  <2> QED
    BY <2>1, <2>2
<1>5. ASSUME NEW s \in SUBSET S, s # {} PROVE SumOf(f, s \ {Pick(s)})[s \ {Pick(s)}] = g[s \ {Pick(s)}]
  BY <1>4, <1>5, Picked
<1>6. g = [s \in SUBSET S |-> IF s = {} THEN 0 ELSE f[Pick(s)] + g[s \ {Pick(s)}]]
  BY <1>5
<1> HIDE DEF g
<1>7. IsSum(f, S, g)
  BY <1>6 DEF IsSum
<1>8. IsSum(f, S, SumOf(f, S))
  BY <1>7 DEF SumOf
<1> QED
  BY <1>2, <1>8

(* What the sum of a finite set is.                                        *)
LEMMA SumUnfolds ==
  ASSUME NEW f, NEW S, IsFiniteSet(S)
  PROVE  /\ S = {} => SumFunctionOnSet(f, S) = 0
         /\ S # {} => SumFunctionOnSet(f, S) = f[Pick(S)] + SumFunctionOnSet(f, S \ {Pick(S)})
<1>1. \A T : SumFunctionOnSet(f, T) = SumOf(f, T)[T]
  BY SumIs DEF SumOf
<1>2. IsSum(f, S, SumOf(f, S))
  BY SumExists
<1>3. CASE S = {}
  <2>1. S \in SUBSET S
    OBVIOUS
  <2>2. SumOf(f, S)[S] = 0
    BY <1>2, <1>3, <2>1, SumAt
  <2> QED
    BY <1>1, <1>3, <2>2
<1>4. CASE S # {}
  <2> DEFINE T == S \ {Pick(S)}
  <2>1. T \in SUBSET S /\ IsFiniteSet(T)
    BY FS_Subset
  <2>2. IsSum(f, T, SumOf(f, T))
    BY <2>1, SumExists
  <2>3. SumOf(f, S)[T] = SumOf(f, T)[T]
    <3> HIDE DEF T
    <3>1. \A u \in SUBSET S : u \subseteq T => SumOf(f, S)[u] = SumOf(f, T)[u]
      BY <1>2, <2>2, SumUnique
    <3> QED
      BY <2>1, <3>1
  <2>4. SumOf(f, S)[S] = f[Pick(S)] + SumOf(f, S)[T]
    BY <1>2, <1>4, SumAt
  <2> HIDE DEF T
  <2>5. SumFunctionOnSet(f, S) = f[Pick(S)] + SumFunctionOnSet(f, T)
    BY <1>1, <2>3, <2>4
  <2> QED
    BY <1>4, <2>5 DEF T
<1> QED
  BY <1>3, <1>4

LEMMA SumIsNat ==
  ASSUME NEW f, NEW D, IsFiniteSet(D), \A x \in D : f[x] \in Nat
  PROVE  \A s \in SUBSET D : SumFunctionOnSet(f, s) \in Nat
<1> DEFINE B == {s \in SUBSET D : SumFunctionOnSet(f, s) \notin Nat}
<1>1. SUFFICES ASSUME B # {} PROVE FALSE
  OBVIOUS
<1>2. PICK s \in B : \A t \in B : ~(t \subseteq s /\ t # s)
  <2>1. B \in SUBSET (SUBSET D)
    OBVIOUS
  <2> HIDE DEF B
  <2> QED
    BY <1>1, <2>1, SmallestSet
<1>3. IsFiniteSet(s)
  BY FS_Subset
<1>4. s # {}
  <2>1. SumFunctionOnSet(f, {}) = 0 /\ 0 \in Nat
    BY FS_EmptySet, SumUnfolds
  <2> QED
    BY <1>2, <2>1
<1>5. SumFunctionOnSet(f, s \ {Pick(s)}) \in Nat /\ f[Pick(s)] \in Nat
  BY <1>2, <1>4, Picked
<1>6. SumFunctionOnSet(f, s) = f[Pick(s)] + SumFunctionOnSet(f, s \ {Pick(s)})
  BY <1>3, <1>4, SumUnfolds
<1>7. SumFunctionOnSet(f, s) \in Nat
  BY <1>5, <1>6
<1> QED
  BY <1>2, <1>7

(* It depends on the values at the set only.                               *)
LEMMA SumSame ==
  ASSUME NEW f, NEW h, NEW D, IsFiniteSet(D), \A x \in D : f[x] = h[x]
  PROVE  SumFunctionOnSet(f, D) = SumFunctionOnSet(h, D)
<1> DEFINE B == {s \in SUBSET D : SumFunctionOnSet(f, s) # SumFunctionOnSet(h, s)}
<1>1. SUFFICES ASSUME B # {} PROVE FALSE
  OBVIOUS
<1>2. PICK s \in B : \A t \in B : ~(t \subseteq s /\ t # s)
  <2>1. B \in SUBSET (SUBSET D)
    OBVIOUS
  <2> HIDE DEF B
  <2> QED
    BY <1>1, <2>1, SmallestSet
<1>3. IsFiniteSet(s)
  BY FS_Subset
<1>4. s # {}
  BY <1>2, <1>3, SumUnfolds
<1>5. SumFunctionOnSet(f, s \ {Pick(s)}) = SumFunctionOnSet(h, s \ {Pick(s)}) /\ f[Pick(s)] = h[Pick(s)]
  BY <1>2, <1>4, Picked
<1> QED
  BY <1>2, <1>3, <1>4, <1>5, SumUnfolds

(* In whatever order it is taken, an element adds its value.               *)
LEMMA SumAdd ==
  ASSUME NEW f, NEW D, IsFiniteSet(D), \A x \in D : f[x] \in Nat, NEW p \in D
  PROVE  SumFunctionOnSet(f, D) = f[p] + SumFunctionOnSet(f, D \ {p})
<1> DEFINE Good(s) == \A q \in s : SumFunctionOnSet(f, s) = f[q] + SumFunctionOnSet(f, s \ {q})
           B == {s \in SUBSET D : ~Good(s)}
<1>1. SUFFICES ASSUME B # {} PROVE FALSE
  OBVIOUS
<1>2. PICK s \in B : \A t \in B : ~(t \subseteq s /\ t # s)
  <2>1. B \in SUBSET (SUBSET D)
    OBVIOUS
  <2> HIDE DEF B
  <2> QED
    BY <1>1, <2>1, SmallestSet
<1>3. PICK q \in s : SumFunctionOnSet(f, s) # f[q] + SumFunctionOnSet(f, s \ {q})
  BY <1>2
<1> DEFINE x == Pick(s)
<1>4. IsFiniteSet(s) /\ x \in s
  BY <1>3, FS_Subset, Picked
<1>5. SumFunctionOnSet(f, s) = f[x] + SumFunctionOnSet(f, s \ {x})
  BY <1>3, <1>4, SumUnfolds
<1> HIDE DEF x
<1>6. q # x
  BY <1>3, <1>5
<1>7. s \ {x} \in SUBSET D /\ s \ {q} \in SUBSET D
  OBVIOUS
<1>8. s \ {x} \notin B /\ s \ {q} \notin B
  BY <1>2, <1>3, <1>4
<1>9. SumFunctionOnSet(f, s \ {x}) = f[q] + SumFunctionOnSet(f, (s \ {x}) \ {q})
  BY <1>3, <1>6, <1>7, <1>8
<1>10. SumFunctionOnSet(f, s \ {q}) = f[x] + SumFunctionOnSet(f, (s \ {q}) \ {x})
  BY <1>4, <1>6, <1>7, <1>8
<1>11. (s \ {q}) \ {x} = (s \ {x}) \ {q}
  OBVIOUS
<1>12. f[q] \in Nat /\ f[x] \in Nat /\ SumFunctionOnSet(f, (s \ {x}) \ {q}) \in Nat
  BY <1>3, <1>4, SumIsNat
<1> DEFINE r == SumFunctionOnSet(f, (s \ {x}) \ {q})
<1>13. /\ SumFunctionOnSet(f, s) = f[x] + (f[q] + r) /\ SumFunctionOnSet(f, s \ {q}) = f[x] + r
       /\ f[q] \in Nat /\ f[x] \in Nat /\ r \in Nat
  BY <1>5, <1>9, <1>10, <1>11, <1>12
<1> HIDE DEF r
<1>14. f[x] + (f[q] + r) = f[q] + (f[x] + r)
  BY <1>13
<1> QED
  BY <1>3, <1>13, <1>14

-----------------------------------------------------------------------------
(* The budget of files.Authoring.                                          *)

Sizes == [p \in Paths |-> SizeOf(work[p])]

BudgetHeld ==
  /\ IsFiniteSet(Changed) /\ total \in Nat
  /\ phase = "running" =>
       /\ total = SumFunctionOnSet(Sizes, Changed)
       /\ total <= MaxTotal
       /\ Cardinality(Changed) <= MaxFiles

LEMMA SizesAre ==
  ASSUME Types
  PROVE  \A p \in Paths : Sizes[p] = SizeOf(work[p]) /\ Sizes[p] \in Nat
<1>1. \A p \in Paths : work[p] \in Contents \cup {Absent}
  BY DEF Types, Tree
<1>2. \A p \in Paths : SizeOf(work[p]) \in Nat
  BY <1>1, AuthoringAssumption DEF SizeOf
<1> QED
  BY <1>2 DEF Sizes

LEMMA InitBudget == Init => BudgetHeld
<1> SUFFICES ASSUME Init PROVE BudgetHeld
  OBVIOUS
<1>1. Changed = {} /\ total = 0
  BY DEF Init, Changed
<1>2. SumFunctionOnSet(Sizes, {}) = 0
  BY FS_EmptySet, SumUnfolds
<1> QED
  BY <1>1, <1>2, FS_EmptySet, AuthoringAssumption DEF BudgetHeld

(* What a write takes off and adds is what the sum loses and gains.        *)
LEMMA WriteBudget ==
  ASSUME IInv, BudgetHeld, NEW p \in Paths, NEW c \in Contents, Write(p, c)
  PROVE  BudgetHeld'
<1>1. /\ phase = "running" /\ phase' = phase /\ work' = [work EXCEPT ![p] = c] /\ Fits(p, c)
      /\ total' = total - Replaced(p) + Size[c] /\ old' = RecordOld(p)
  BY DEF Write, CanCall
<1>2. Types /\ Types'
  BY WriteIInv DEF IInv
<1>3. Changed' = Changed \cup {p} /\ Changed \subseteq Paths
  BY <1>1, <1>2, OldIs DEF RecordOld, Changed
<1> DEFINE D == Changed \cup {p}
           R == D \ {p}
<1>4. IsFiniteSet(Changed) /\ IsFiniteSet(D) /\ IsFiniteSet(R)
  BY FS_AddElement, FS_Subset DEF BudgetHeld
<1>5. /\ \A q \in D : Sizes[q] \in Nat /\ Sizes'[q] \in Nat
      /\ \A q \in R : Sizes[q] = Sizes'[q]
      /\ Sizes'[p] = Size[c] /\ Sizes[p] = SizeOf(work[p])
  <2>1. \A q \in D : Sizes[q] = SizeOf(work[q]) /\ Sizes[q] \in Nat
    BY <1>2, <1>3, SizesAre
  <2>2. \A q \in D : Sizes'[q] = SizeOf(work'[q]) /\ Sizes'[q] \in Nat
    <3>1. \A q \in Paths : work'[q] \in Contents \cup {Absent}
      BY <1>2 DEF Types, Tree
    <3>2. \A q \in Paths : SizeOf(work'[q]) \in Nat
      BY <3>1, AuthoringAssumption DEF SizeOf
    <3>3. Sizes' = [q \in Paths |-> SizeOf(work'[q])]
      BY DEF Sizes, SizeOf
    <3> QED
      BY <1>3, <3>2, <3>3
  <2>3. \A q \in R : work'[q] = work[q]
    BY <1>1, <1>2, <1>3 DEF Types, Tree
  <2>4. work'[p] = c /\ c # Absent
    BY <1>1, <1>2, AuthoringAssumption DEF Types, Tree
  <2> QED
    BY <2>1, <2>2, <2>3, <2>4 DEF SizeOf
<1> DEFINE rest == SumFunctionOnSet(Sizes, R)
<1>6. SumFunctionOnSet(Sizes', D) = Size[c] + rest
  <2>1. p \in D
    OBVIOUS
  <2>2. SumFunctionOnSet(Sizes', D) = Sizes'[p] + SumFunctionOnSet(Sizes', R)
    BY <1>4, <1>5, <2>1, SumAdd
  <2> HIDE DEF R
  <2>3. SumFunctionOnSet(Sizes', R) = SumFunctionOnSet(Sizes, R)
    BY <1>4, <1>5, SumSame
  <2> QED
    BY <1>5, <2>2, <2>3
<1>7. rest \in Nat /\ Size[c] \in Nat
  <2>1. R \in SUBSET D
    OBVIOUS
  <2> HIDE DEF D, R
  <2> QED
    BY <1>4, <1>5, <2>1, SumIsNat, AuthoringAssumption
<1>8. total = Replaced(p) + rest /\ Replaced(p) \in Nat
  <2>1. CASE p \in Changed
    <3>1. D = Changed /\ R = Changed \ {p}
      BY <2>1
    <3> HIDE DEF D, R
    <3>2. SumFunctionOnSet(Sizes, Changed) = Sizes[p] + SumFunctionOnSet(Sizes, Changed \ {p})
      BY <1>4, <1>5, <2>1, <3>1, SumAdd
    <3> QED
      BY <1>1, <1>5, <2>1, <3>1, <3>2 DEF BudgetHeld, Replaced
  <2>2. CASE p \notin Changed
    <3>1. R = Changed
      BY <2>2
    <3> HIDE DEF D, R
    <3> QED
      BY <1>1, <1>7, <2>2, <3>1 DEF BudgetHeld, Replaced
  <2> QED
    BY <2>1, <2>2
<1> HIDE DEF D, R, rest
<1>9. total' = Size[c] + rest /\ total' \in Nat
  BY <1>1, <1>7, <1>8 DEF BudgetHeld
<1>10. total' <= MaxTotal /\ Cardinality(D) <= MaxFiles
  BY <1>1 DEF Fits, D
<1>11. Changed' = D
  BY <1>3 DEF D
<1>12. SumFunctionOnSet(Sizes, Changed)' = SumFunctionOnSet(Sizes', D)
  BY <1>11
<1> QED
  BY <1>1, <1>4, <1>6, <1>9, <1>10, <1>11, <1>12 DEF BudgetHeld

LEMMA KeepBudget ==
  ASSUME BudgetHeld, UNCHANGED <<old, total>>, phase' = "running" => phase = "running" /\ work' = work
  PROVE  BudgetHeld'
<1>1. Changed' = Changed
  BY DEF Changed
<1>2. CASE phase' = "running"
  <2>1. Sizes' = Sizes
    BY <1>2 DEF Sizes, SizeOf
  <2>2. SumFunctionOnSet(Sizes, Changed)' = SumFunctionOnSet(Sizes, Changed)
    BY <1>1, <2>1
  <2> QED
    BY <1>1, <1>2, <2>2 DEF BudgetHeld
<1>3. CASE phase' # "running"
  BY <1>1, <1>3 DEF BudgetHeld
<1> QED
  BY <1>2, <1>3

LEMMA NextBudget == IInv /\ BudgetHeld /\ [Next]_vars => BudgetHeld'
<1> SUFFICES ASSUME IInv, BudgetHeld, [Next]_vars PROVE BudgetHeld'
  OBVIOUS
<1> USE DEF writer, checkout
<1>1. ASSUME NEW p \in Paths, NEW c \in Contents, Write(p, c) PROVE BudgetHeld'
  BY <1>1, WriteBudget
<1>2. CASE Commit \/ VerifyBeforeCommit \/ \E p \in Paths : Add(p)
  BY <1>2, KeepBudget DEF Commit, VerifyBeforeCommit, Add
<1>3. CASE MakeCommit \/ ReadCommit \/ VerifyAfterCommit \/ CommitFails
  BY <1>3, KeepBudget DEF MakeCommit, ReadCommit, VerifyAfterCommit, CommitFails
<1>4. CASE Publication \/ Stage \/ DraftPR
  BY <1>4, KeepBudget DEF Publication, Stage, DraftPR
<1>5. ASSUME NEW result \in {"succeeded", "failed", "cancelled"}, End(result) PROVE BudgetHeld'
  BY <1>5, KeepBudget DEF End
<1>6. CASE VerifyRun \/ RecoveryPatch \/ WriteRecovery
  BY <1>6, KeepBudget DEF VerifyRun, RecoveryPatch, WriteRecovery, GiveUp
<1>7. CASE ResetHard \/ Rollback
  BY <1>7, KeepBudget DEF ResetHard, Rollback, GiveUp
<1>8. CASE Confirm \/ TakeRecovery \/ WriteEvidence
  BY <1>8, KeepBudget DEF Confirm, TakeRecovery, WriteEvidence, GiveUp
<1>9. CASE UNCHANGED vars
  BY <1>9, KeepBudget DEF vars
<1> QED
  BY <1>1, <1>2, <1>3, <1>4, <1>5, <1>6, <1>7, <1>8, <1>9 DEF Next

LEMMA Budgeted == Spec => [](IInv /\ BudgetHeld)
<1>1. Init => IInv /\ BudgetHeld
  BY InitIInv, InitBudget
<1>2. IInv /\ BudgetHeld /\ [Next]_vars => (IInv /\ BudgetHeld)'
  BY NextIInv, NextBudget
<1> QED
  BY <1>1, <1>2, PTL DEF Spec

(* BudgetExact: whatever is written over and restored, the totals of the   *)
(* writer are those of the files on disk (Authoring.checkBudget).          *)
THEOREM BudgetIsExact == Spec => []BudgetExact
<1>1. BudgetHeld => BudgetExact
  BY DEF BudgetHeld, BudgetExact, Sizes
<1> QED
  BY <1>1, Budgeted, PTL

(* TypeOK: a total that is a sum is never negative, though a write takes   *)
(* off what it replaces.                                                   *)
THEOREM TypeCorrect == Spec => []TypeOK
<1>1. IInv /\ BudgetHeld => TypeOK
  BY DEF IInv, Types, BudgetHeld, TypeOK
<1> QED
  BY <1>1, Budgeted, PTL

=============================================================================
