------------------------------ MODULE Publisher ------------------------------
(***************************************************************************)
(* The trusted publisher of internal/publisher and its GitHub adapter in   *)
(* internal/tool/github: one activation of `duto-ai publish` preflights    *)
(* every operation of a verified bundle, applies the ones that are not yet *)
(* there, reconciles a failed write by reading the resource again, and     *)
(* leaves a receipt.  Every HTTP or Git request is a step of its own, so   *)
(* activations interleave with each other, with the people and programs    *)
(* that use the repository, with lost answers and with process crashes.    *)
(***************************************************************************)
EXTENDS Integers, Sequences, FiniteSets

CONSTANTS
  Bundles,        \* verified bundles an activation may be given
  Profile,        \* [Bundles -> {"reply", "branch-pr"}], the operation set
  Key,            \* [Bundles -> Keys], the correlation key
  Keys,
  Payload,        \* [Bundles -> Payloads], the digest a marker carries
  Payloads,
  Source,         \* [Bundles -> Commits], the authored commit
  Base,           \* [Bundles -> Commits], the attested base commit
  Commits,
  InitialBase,    \* the commit the base ref is at when the system starts
  ForeignCommits, \* commits at which others may create a target ref
  Activations,    \* runs of the publish command
  MaxActive,      \* bound: how many of them run at the same time
  PageSize,       \* comments one listing returns (per_page=100)
  MaxEvents,      \* bound: changes made to the repository by others
  MaxFaults       \* bound: failed requests and crashes

None == "none"

ASSUME PublisherAssumption ==
  /\ Profile \in [Bundles -> {"reply", "branch-pr"}]
  /\ Key \in [Bundles -> Keys]
  /\ Payload \in [Bundles -> Payloads]
  /\ Source \in [Bundles -> Commits]
  /\ Base \in [Bundles -> Commits]
  /\ InitialBase \in Commits
  /\ ForeignCommits \subseteq Commits
  /\ None \notin Commits \cup Payloads \cup Keys \cup Bundles
  /\ PageSize \in Nat \ {0}
  /\ MaxActive \in Nat \ {0}
  /\ MaxEvents \in Nat
  /\ MaxFaults \in Nat
  (* git.go: a branch-pr commit has the base as its one parent; no         *)
  (* authored commit is in the repository before it is published.          *)
  /\ \A b \in Bundles : Profile[b] = "branch-pr" => Source[b] \notin {Base[b], InitialBase}

VARIABLES
  \* the repository
  base,       \* commit of the base ref
  open,       \* whether the bound issue or pull request is open
  comments,   \* comments of the subject, oldest first
  branch,     \* [Keys -> Commits \cup {None}], the target ref of a key
  pull,       \* [Keys -> PullStates], the open pull request of a key's ref
  \* the activations
  pc,         \* next request of an activation
  bundle,     \* its bundle
  at,         \* index of the operation it works on
  phase,      \* "preflight" or "reconcile": who asked for the reads
  seen,       \* preflight dispositions by operation index
  applyErr,   \* class of the failed write that is being reconciled
  receipt,    \* the receipt built so far
  verdict,    \* class of the error Publish returns
  exit,       \* exit code of the process, -1 while it has none
  \* bounds and history
  events, faults,
  wrote,      \* history: the activation sent a write request
  start,      \* history: what its start found of its bundle
  disturbed   \* history: a fault or a change by others since its start

remote   == <<base, open, comments, branch, pull>>
control  == <<pc, bundle, at, phase, seen, applyErr, receipt, verdict, exit>>
history  == <<wrote, start, disturbed>>
vars     == <<remote, control, events, faults, history>>

-----------------------------------------------------------------------------
(* Operations and markers.                                                 *)

Operations(b) == IF Profile[b] = "reply" THEN <<"reply">> ELSE <<"branch", "pr">>
Size(a)       == Len(Operations(bundle[a]))
Current(a)    == Operations(bundle[a])[at[a]]
Index         == 1..2

(* A comment carries the marker of a correlation key and a payload, or     *)
(* none.                                                                   *)
Marker(b)  == [key |-> Key[b], payload |-> Payload[b]]
Unmarked   == [key |-> None, payload |-> None]
Comment    == [key : Keys \cup {None}, payload : Payloads \cup {None}]
NoPull     == [draft |-> FALSE, payload |-> None]
PullStates == [draft : BOOLEAN, payload : Payloads \cup {None}]

FirstRead(kind) ==
  CASE kind = "reply" -> "subject" [] kind = "branch" -> "base" [] OTHER -> "pulls"
FirstWrite(kind) ==
  CASE kind = "reply" -> "post" [] kind = "branch" -> "fetch" [] OTHER -> "create"

Reads  == {"subject", "comments", "base", "target", "pulls"}
Writes == {"post", "fetch", "push", "create"}
Active == Reads \cup Writes \cup {"report"}
Errors == {"rejected", "conflict", "other"}

NoReceipt == [disposition |-> None, ops |-> [i \in Index |-> None]]
Receipts  ==
  [disposition : {None, "applied", "unchanged", "rejected", "conflict"},
   ops : [Index -> {None, "applied", "unchanged", "conflict"}]]

TypeOK ==
  /\ base \in Commits /\ open \in BOOLEAN
  /\ comments \in Seq(Comment)
  /\ branch \in [Keys -> Commits \cup {None}]
  /\ pull \in [Keys -> PullStates]
  /\ pc \in [Activations -> Active \cup {"idle", "done", "crashed"}]
  /\ bundle \in [Activations -> Bundles \cup {None}]
  /\ at \in [Activations -> Index]
  /\ phase \in [Activations -> {"preflight", "reconcile"}]
  /\ seen \in [Activations -> [Index -> {None, "absent", "unchanged"}]]
  /\ applyErr \in [Activations -> Errors \cup {None}]
  /\ receipt \in [Activations -> Receipts]
  /\ verdict \in [Activations -> {None, "ok", "rejected", "conflict"}]
  /\ exit \in [Activations -> {-1, 0, 1, 3, 4}]
  /\ events \in 0..MaxEvents /\ faults \in 0..MaxFaults
  /\ wrote \in [Activations -> BOOLEAN]
  /\ start \in [Activations -> {None, "blocked", "missing", "published"}]
  /\ disturbed \in [Activations -> BOOLEAN]

Init ==
  /\ base = InitialBase /\ open = TRUE
  /\ comments = <<>>
  /\ branch = [k \in Keys |-> None]
  /\ pull = [k \in Keys |-> NoPull]
  /\ pc = [a \in Activations |-> "idle"]
  /\ bundle = [a \in Activations |-> None]
  /\ at = [a \in Activations |-> 1]
  /\ phase = [a \in Activations |-> "preflight"]
  /\ seen = [a \in Activations |-> [i \in Index |-> None]]
  /\ applyErr = [a \in Activations |-> None]
  /\ receipt = [a \in Activations |-> NoReceipt]
  /\ verdict = [a \in Activations |-> None]
  /\ exit = [a \in Activations |-> -1]
  /\ events = 0 /\ faults = 0
  /\ wrote = [a \in Activations |-> FALSE]
  /\ start = [a \in Activations |-> None]
  /\ disturbed = [a \in Activations |-> FALSE]

-----------------------------------------------------------------------------
(* What the reads of one preflight conclude.                               *)

(* The comments the listing returns: the first page only.                  *)
Page == SubSeq(comments, 1, IF Len(comments) < PageSize THEN Len(comments) ELSE PageSize)

(* Mutant: only the whole marker is looked for, not the key.               *)
BugReplyState(b) == IF \E i \in DOMAIN Page : Page[i] = Marker(b) THEN "unchanged" ELSE "absent"

(* The first comment of the page that carries the key decides.             *)
ReplyState(b) ==
  CASE \A i \in DOMAIN Page : Page[i].key # Key[b] -> "absent"
    [] \E i \in DOMAIN Page :
          /\ Page[i] = Marker(b)
          /\ \A j \in 1..(i - 1) : Page[j].key # Key[b] -> "unchanged"
    [] OTHER -> "conflict"

(* Mutant: a branch that exists is always a conflict.                      *)
BugTargetState(b) == IF branch[Key[b]] = None THEN "absent" ELSE "conflict"

TargetState(b) ==
  CASE branch[Key[b]] = None -> "absent"
    [] branch[Key[b]] = Source[b] -> "unchanged"
    [] OTHER -> "conflict"

(* Only an open draft whose head is the source commit and whose title and  *)
(* marker are the bundle's is the same pull request.                       *)
PullState(b) ==
  CASE pull[Key[b]] = NoPull -> "absent"
    [] /\ pull[Key[b]] = [draft |-> TRUE, payload |-> Payload[b]]
       /\ branch[Key[b]] = Source[b] -> "unchanged"
    [] OTHER -> "conflict"

-----------------------------------------------------------------------------
(* The Publish loop: what it does with the answer for one operation.       *)

(* Publish returns: the command goes on to write the receipt.              *)
Return(a, disposition, ops, class) ==
  /\ receipt' = [receipt EXCEPT ![a] = [disposition |-> disposition, ops |-> ops]]
  /\ verdict' = [verdict EXCEPT ![a] = class]
  /\ pc' = [pc EXCEPT ![a] = "report"]

Note(a, i, disposition) == [receipt[a].ops EXCEPT ![i] = disposition]

(* The apply loop from index i on: operations that preflight found         *)
(* unchanged are noted and skipped, the first other one is written.        *)
ApplyFrom(a, i, found, ops) ==
  \/ /\ \A j \in i..Size(a) : found[j] = "unchanged"
     /\ Return(a, "applied",
               [j \in Index |-> IF j \in i..Size(a) THEN "unchanged" ELSE ops[j]], "ok")
     /\ UNCHANGED at
  \/ \E j \in i..Size(a) :
       /\ found[j] # "unchanged"
       /\ \A k \in i..(j - 1) : found[k] = "unchanged"
       /\ pc' = [pc EXCEPT ![a] = FirstWrite(Operations(bundle[a])[j])]
       /\ at' = [at EXCEPT ![a] = j]
       /\ receipt' = [receipt EXCEPT ![a].ops =
                         [k \in Index |-> IF k \in i..(j - 1) THEN "unchanged" ELSE ops[k]]]
       /\ UNCHANGED verdict

(* All operations answered: nothing to do, or the apply loop begins.       *)
StartApply(a, found) ==
  IF \A j \in 1..Size(a) : found[j] = "unchanged"
  THEN /\ Return(a, "unchanged",
                [j \in Index |-> IF j \in 1..Size(a) THEN "unchanged" ELSE None], "ok")
       /\ UNCHANGED at
  ELSE ApplyFrom(a, 1, found, receipt[a].ops)

(* Mutant: apply begins after the first operation.                         *)
BugPreflightAnswers(a, state) ==
  LET found == [seen[a] EXCEPT ![at[a]] = state]
  IN  IF state = "conflict"
      THEN Return(a, "conflict", Note(a, at[a], "conflict"), "conflict") /\ UNCHANGED <<at, seen>>
      ELSE seen' = [seen EXCEPT ![a] = found] /\ StartApply(a, found)

(* preflight(): the state of operation `at` is known.                      *)
PreflightAnswers(a, state) ==
  IF state = "conflict"
  THEN /\ Return(a, "conflict", Note(a, at[a], "conflict"), "conflict")
       /\ UNCHANGED <<at, seen>>
  ELSE LET found == [seen[a] EXCEPT ![at[a]] = state]
       IN /\ seen' = [seen EXCEPT ![a] = found]
          /\ IF at[a] < Size(a)
             THEN /\ at' = [at EXCEPT ![a] = @ + 1]
                  /\ pc' = [pc EXCEPT ![a] = FirstRead(Operations(bundle[a])[at[a] + 1])]
                  /\ UNCHANGED <<receipt, verdict>>
             ELSE StartApply(a, found)

(* preflight(): a read failed; every error leaves the receipt "rejected",  *)
(* and only ErrRejected keeps that class (fmtRemoteError).                 *)
Class(err) == IF err = "rejected" THEN "rejected" ELSE "conflict"

PreflightFails(a, err) ==
  /\ Return(a, "rejected", receipt[a].ops, Class(err))
  /\ UNCHANGED <<at, seen>>

(* apply(): the operation is done, now or by the write that seemed to fail. *)
Applied(a) ==
  /\ ApplyFrom(a, at[a] + 1, seen[a], Note(a, at[a], "applied"))
  /\ UNCHANGED seen

(* Mutant: a write that failed is reported as a rejection.                 *)
BugReconcileFails(a) ==
  Return(a, "rejected", receipt[a].ops, Class(applyErr[a])) /\ UNCHANGED <<at, seen>>

(* apply(): neither the write nor the read after it shows the resource.    *)
ReconcileFails(a) ==
  /\ Return(a, "conflict", receipt[a].ops, Class(applyErr[a]))
  /\ UNCHANGED <<at, seen>>

(* Mutant: a resource that is absent after a failed write is reported      *)
(* applied.                                                                *)
BugAnswer(a, state) ==
  /\ IF phase[a] = "preflight" THEN PreflightAnswers(a, state)
     ELSE IF state # "conflict" THEN Applied(a) ELSE ReconcileFails(a)
  /\ phase' = [phase EXCEPT ![a] = "preflight"]
  /\ applyErr' = [applyErr EXCEPT ![a] = None]

Answer(a, state) ==
  /\ IF phase[a] = "preflight" THEN PreflightAnswers(a, state)
     ELSE IF state = "unchanged" THEN Applied(a) ELSE ReconcileFails(a)
  /\ phase' = [phase EXCEPT ![a] = "preflight"]
  /\ applyErr' = [applyErr EXCEPT ![a] = None]

(* Mutant: a refused read is asked again at once.                          *)
BugFail(a, err) ==
  pc' = [pc EXCEPT ![a] = FirstRead(Current(a))]
  /\ UNCHANGED <<at, seen, receipt, verdict, phase, applyErr>>

Fail(a, err) ==
  /\ IF phase[a] = "preflight" THEN PreflightFails(a, err) ELSE ReconcileFails(a)
  /\ phase' = [phase EXCEPT ![a] = "preflight"]
  /\ applyErr' = [applyErr EXCEPT ![a] = None]

(* A failed write is followed by the reads of its own operation.           *)
Reconcile(a, err) ==
  /\ phase' = [phase EXCEPT ![a] = "reconcile"]
  /\ applyErr' = [applyErr EXCEPT ![a] = err]
  /\ pc' = [pc EXCEPT ![a] = FirstRead(Current(a))]
  /\ UNCHANGED <<at, seen, receipt, verdict>>

Succeed(a) == Applied(a) /\ UNCHANGED <<phase, applyErr>>

-----------------------------------------------------------------------------
(* Bounds and history.                                                     *)

(* The repository changed under every activation but the one that did it.  *)
Quiet        == UNCHANGED <<events, faults, start, disturbed>>
ChangedBy(a) == disturbed' = [x \in Activations |-> disturbed[x] \/ x # a]
Changed      == disturbed' = [x \in Activations |-> TRUE]

Fault(a) ==
  /\ faults < MaxFaults
  /\ faults' = faults + 1

FaultWithout(a) ==
  /\ Fault(a)
  /\ disturbed' = [disturbed EXCEPT ![a] = TRUE]

Sent(a) == wrote' = [wrote EXCEPT ![a] = TRUE]

(* What a bundle needs of the repository to be published, said without the *)
(* adapter's own reading of it.                                            *)
Compatible(b) ==
  IF Profile[b] = "reply"
  THEN /\ open
       /\ \A i \in DOMAIN comments :
             comments[i].key = Key[b] => comments[i].payload = Payload[b]
  ELSE /\ base = Base[b]
       /\ branch[Key[b]] \in {None, Source[b]}
       /\ pull[Key[b]] # NoPull =>
             /\ branch[Key[b]] = Source[b]
             /\ pull[Key[b]] = [draft |-> TRUE, payload |-> Payload[b]]

(* Operation i of a bundle is in the repository.                           *)
Published(b, i) ==
  CASE Operations(b)[i] = "reply" -> \E c \in DOMAIN comments : comments[c] = Marker(b)
    [] Operations(b)[i] = "branch" -> branch[Key[b]] = Source[b]
    [] OTHER -> branch[Key[b]] = Source[b] /\ pull[Key[b]].payload = Payload[b]

-----------------------------------------------------------------------------
(* The command starts with a verified bundle and an adapter.               *)
Begin(a, b) ==
  /\ pc[a] = "idle"
  /\ Cardinality({x \in Activations : pc[x] \in Active}) < MaxActive
  /\ bundle' = [bundle EXCEPT ![a] = b]
  /\ pc' = [pc EXCEPT ![a] = FirstRead(Operations(b)[1])]
  /\ start' = [start EXCEPT ![a] =
                  IF ~Compatible(b) THEN "blocked"
                  ELSE IF \A i \in 1..Len(Operations(b)) : Published(b, i)
                       THEN "published" ELSE "missing"]
  /\ disturbed' = [disturbed EXCEPT ![a] = FALSE]
  /\ UNCHANGED <<remote, at, phase, seen, applyErr, receipt, verdict, exit,
                 events, faults, wrote>>

(* Reads.  preflightReply asks for the subject, then for its comments.     *)
ReadSubject(a) ==
  /\ pc[a] = "subject"
  /\ IF open
     THEN /\ pc' = [pc EXCEPT ![a] = "comments"]
          /\ UNCHANGED <<at, phase, seen, applyErr, receipt, verdict>>
     ELSE Fail(a, "rejected")
  /\ UNCHANGED <<remote, bundle, exit, wrote>> /\ Quiet

ReadComments(a) ==
  /\ pc[a] = "comments"
  /\ Answer(a, ReplyState(bundle[a]))
  /\ UNCHANGED <<remote, bundle, exit, wrote>> /\ Quiet

(* preflightBranch asks for the base ref, then for the target ref.         *)
ReadBase(a) ==
  /\ pc[a] = "base"
  /\ IF base = Base[bundle[a]]
     THEN /\ pc' = [pc EXCEPT ![a] = "target"]
          /\ UNCHANGED <<at, phase, seen, applyErr, receipt, verdict>>
     ELSE Fail(a, "conflict")
  /\ UNCHANGED <<remote, bundle, exit, wrote>> /\ Quiet

ReadTarget(a) ==
  /\ pc[a] = "target"
  /\ Answer(a, TargetState(bundle[a]))
  /\ UNCHANGED <<remote, bundle, exit, wrote>> /\ Quiet

ReadPulls(a) ==
  /\ pc[a] = "pulls"
  /\ Answer(a, PullState(bundle[a]))
  /\ UNCHANGED <<remote, bundle, exit, wrote>> /\ Quiet

(* A read is denied, or gets no usable answer.                             *)
ReadFails(a) ==
  /\ pc[a] \in Reads
  /\ \E err \in {"rejected", "other"} : Fail(a, err)
  /\ FaultWithout(a)
  /\ UNCHANGED <<remote, bundle, exit, wrote, events, start>>

(* The write of a reply took effect; its answer may be lost.               *)
PostComment(a) ==
  /\ pc[a] = "post"
  /\ comments' = Append(comments, Marker(bundle[a]))
  /\ \/ Succeed(a) /\ UNCHANGED faults
     \/ Reconcile(a, "other") /\ Fault(a)
  /\ Sent(a) /\ ChangedBy(a)
  /\ UNCHANGED <<base, open, branch, pull, bundle, exit, events, start>>

(* pushBranch fetches the base first and compares it again.                *)
FetchBase(a) ==
  /\ pc[a] = "fetch"
  /\ IF base = Base[bundle[a]]
     THEN /\ pc' = [pc EXCEPT ![a] = "push"]
          /\ UNCHANGED <<at, phase, seen, applyErr, receipt, verdict>>
     ELSE Reconcile(a, "conflict")
  /\ UNCHANGED <<remote, bundle, exit, wrote>> /\ Quiet

(* Mutant: the push is forced.                                             *)
BugFastForward(b) == TRUE

(* A push without force: the server takes it when the ref is absent, is    *)
(* already there, or is at the commit's parent.                            *)
FastForward(b) == branch[Key[b]] \in {None, Source[b], Base[b]}

PushTarget(a) ==
  LET b == bundle[a] IN
  /\ pc[a] = "push"
  /\ \/ /\ FastForward(b)
        /\ branch' = [branch EXCEPT ![Key[b]] = Source[b]]
        /\ \/ Succeed(a) /\ UNCHANGED faults
           \/ Reconcile(a, "other") /\ Fault(a)
        /\ ChangedBy(a)
     \/ /\ ~FastForward(b)
        /\ Reconcile(a, "other")
        /\ UNCHANGED <<branch, faults, disturbed>>
  /\ Sent(a)
  /\ UNCHANGED <<base, open, comments, pull, bundle, exit, events, start>>

(* GitHub opens a pull request for an existing head that has none.         *)
CreatePull(a) ==
  LET b == bundle[a] IN
  /\ pc[a] = "create"
  /\ \/ /\ branch[Key[b]] # None /\ pull[Key[b]] = NoPull
        /\ pull' = [pull EXCEPT ![Key[b]] = [draft |-> TRUE, payload |-> Payload[b]]]
        /\ \/ Succeed(a) /\ UNCHANGED faults
           \/ Reconcile(a, "other") /\ Fault(a)
        /\ ChangedBy(a)
     \/ /\ branch[Key[b]] = None \/ pull[Key[b]] # NoPull
        /\ Reconcile(a, "other")
        /\ UNCHANGED <<pull, faults, disturbed>>
  /\ Sent(a)
  /\ UNCHANGED <<base, open, comments, branch, bundle, exit, events, start>>

(* A write fails before it takes effect.  Only the HTTP adapter tells a    *)
(* denial from other errors.                                               *)
WriteFails(a) ==
  /\ pc[a] \in Writes
  /\ \E err \in IF pc[a] \in {"post", "create"} THEN {"rejected", "other"} ELSE {"other"} :
        Reconcile(a, err)
  /\ IF pc[a] = "fetch" THEN UNCHANGED wrote ELSE Sent(a)
  /\ FaultWithout(a)
  /\ UNCHANGED <<remote, bundle, exit, events, start>>

(* The receipt is renamed into place, then the exit code follows the class *)
(* of the error Publish returned.                                          *)
ExitCode(class) == CASE class = "ok" -> 0 [] class = "rejected" -> 3 [] OTHER -> 4

WriteReceipt(a) ==
  /\ pc[a] = "report"
  /\ pc' = [pc EXCEPT ![a] = "done"]
  /\ \/ exit' = [exit EXCEPT ![a] = ExitCode(verdict[a])] /\ Quiet
     \/ /\ exit' = [exit EXCEPT ![a] = 1] /\ FaultWithout(a)
        /\ UNCHANGED <<events, start>>
  /\ UNCHANGED <<remote, bundle, at, phase, seen, applyErr, receipt, verdict, wrote>>

(* The runner is killed; nothing is remembered between activations.        *)
Crash(a) ==
  /\ pc[a] \in Active
  /\ pc' = [pc EXCEPT ![a] = "crashed"]
  /\ Fault(a)
  /\ UNCHANGED <<remote, bundle, at, phase, seen, applyErr, receipt, verdict, exit,
                 events, history>>

-----------------------------------------------------------------------------
(* What others do to the repository.  They can merge an authored commit    *)
(* into the base only when its ref is there; no ref is deleted.            *)
Others ==
  /\ events < MaxEvents
  /\ events' = events + 1
  /\ \/ open' = ~open /\ UNCHANGED <<base, comments, branch, pull>>
     \/ /\ base' \in Commits \ {base}
        /\ \A b \in Bundles : Profile[b] = "branch-pr" /\ base' = Source[b] => branch[Key[b]] # None
        /\ UNCHANGED <<open, comments, branch, pull>>
     \/ /\ comments' = Append(comments, Unmarked)
        /\ UNCHANGED <<base, open, branch, pull>>
     \/ \E k \in Keys, c \in ForeignCommits :
           /\ branch[k] = None
           /\ branch' = [branch EXCEPT ![k] = c]
           /\ UNCHANGED <<base, open, comments, pull>>
     \/ \E k \in Keys :
           /\ pull[k].draft
           /\ pull' = [pull EXCEPT ![k].draft = FALSE]
           /\ UNCHANGED <<base, open, comments, branch>>
  /\ Changed
  /\ UNCHANGED <<control, faults, wrote, start>>

Step(a) ==
  \/ ReadSubject(a) \/ ReadComments(a) \/ ReadBase(a) \/ ReadTarget(a) \/ ReadPulls(a)
  \/ PostComment(a) \/ FetchBase(a) \/ PushTarget(a) \/ CreatePull(a) \/ WriteReceipt(a)

Next ==
  \/ \E a \in Activations :
        \/ \E b \in Bundles : Begin(a, b)
        \/ Step(a) \/ ReadFails(a) \/ WriteFails(a) \/ Crash(a)
  \/ Others

Spec == Init /\ [][Next]_vars

(* A started command keeps running until it ends or is killed: every       *)
(* request returns, with an answer or with an error.                       *)
FairSpec == Spec /\ \A a \in Activations : WF_vars(Step(a))

-----------------------------------------------------------------------------
(* Properties.                                                             *)

(* No write is requested before every operation of the bundle has been     *)
(* preflighted and none of them conflicts (Publish: preflight, then        *)
(* apply).                                                                 *)
PreflightBeforeWrite ==
  \A a \in Activations : wrote[a] =>
     \A i \in 1..Size(a) : seen[a][i] # None

(* A receipt that says "rejected" means that the activation sent no write  *)
(* at all, whatever failed and in whatever order.                          *)
RejectedWroteNothing ==
  \A a \in Activations : receipt[a].disposition = "rejected" => ~wrote[a]

(* The receipt tells the truth: an operation it calls applied or unchanged *)
(* is in the repository exactly as the bundle says, through lost answers,  *)
(* concurrent activations and resumed publications; and the aggregate is   *)
(* a success only when every operation is.                                 *)
ReceiptTruth ==
  \A a \in Activations :
     /\ \A i \in Index :
           receipt[a].ops[i] \in {"applied", "unchanged"} => Published(bundle[a], i)
     /\ receipt[a].disposition \in {"applied", "unchanged"} =>
           \A i \in 1..Size(a) : receipt[a].ops[i] \in {"applied", "unchanged"}

(* One correlation key never gets two replies, however often publishing is *)
(* repeated after crashes and lost answers (preflightReply finds the       *)
(* marker of an earlier activation).                                       *)
OneReplyPerCorrelation ==
  \A i, j \in DOMAIN comments :
     comments[i].key # None /\ comments[i].key = comments[j].key => i = j

(* An activation that starts on a compatible repository and that nothing   *)
(* disturbs succeeds: it completes what an earlier activation left half    *)
(* done and says "applied", or finds everything there, writes nothing and  *)
(* says "unchanged".                                                       *)
QuietRunCompletes ==
  \A a \in Activations :
     pc[a] = "done" /\ start[a] # "blocked" /\ ~disturbed[a] =>
        /\ exit[a] = 0
        /\ receipt[a].disposition = IF start[a] = "missing" THEN "applied" ELSE "unchanged"
        /\ wrote[a] <=> start[a] = "missing"

(* The publisher implements the abstract publication contract: through     *)
(* crashes, lost answers and concurrent activations the ref and the pull   *)
(* request of a key are each created once, in that order.                  *)
Contract == INSTANCE Publication
  WITH refs <- branch, titled <- [x \in Keys |-> pull[x].payload]
PublishesOnce == Contract!Spec

(* A write that took effect and whose answer was lost is not reported as a *)
(* conflict when the reads that follow are answered (with one fault, the   *)
(* lost answer, and one activation at a time).                             *)
LostWriteReconciled ==
  \A a \in Activations :
     pc[a] = "done" /\ wrote[a] /\ receipt[a].disposition = "conflict"
        => ~Published(bundle[a], at[a])

(* A started command ends: with an exit code, or killed.                   *)
Ends ==
  \A a \in Activations : pc[a] \in Active ~> pc[a] \in {"done", "crashed"}

=============================================================================
