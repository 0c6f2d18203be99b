-------------------------- MODULE ControlEvidence --------------------------
(***************************************************************************)
(* Control evidence (internal/trust/trust.go): the file a trusted caller   *)
(* gives beside a workflow, and the trust decision it normalizes to.  It   *)
(* is read twice: by the command that admits and runs the workflow, and by *)
(* the publisher.  The spelling of a field (the regular expressions, the   *)
(* canonical times, nulls and duplicate keys of validateJSON) is two bits  *)
(* of the record: "parses" for the errors of Decode and "spelled" for the  *)
(* patterns that leave a decision unknown.  The digest of a file is the    *)
(* file itself.                                                            *)
(***************************************************************************)
EXTENDS Naturals

CONSTANT MaxAdmission  \* the longest validity of an admission, six hours

Contexts     == {"forked_pr", "same_repository", "scheduled", "local", "unknown"}
SubjectKinds == {"none", "issue", "pull_request"}

ReadCapabilities   == {"workspace.read", "git.read", "network.read", "github.read"}
GrantCapabilities  == {"workspace.mutate", "git.mutate", "process.exec"}
StagedCapabilities == {"git.publish", "github.mutate"}
Capabilities == ReadCapabilities \cup GrantCapabilities \cup StagedCapabilities \cup
                {"network.mutate", "agent.call"}

NoSubject == [kind |-> "none", number |-> 0]
NoEvent   == [name |-> "absent", subject |-> NoSubject]
NoRun     == [id |-> 0, attempt |-> 0]
NoControl == [version |-> 0]

Unknown == [present |-> FALSE, context |-> "unknown", id |-> "", key |-> "", control |-> NoControl,
            repository |-> "", origin |-> [kind |-> "", number |-> 0],
            checkout |-> [ref |-> "", sha |-> ""]]

-----------------------------------------------------------------------------

ValidCommon(e, now) ==
  /\ e.version = 1
  /\ e.spelled
  /\ e.issued < e.expires
  /\ e.expires - e.issued <= MaxAdmission
  /\ e.issued <= now /\ now < e.expires

ValidLocal(e) == e.event = NoEvent /\ e.run = NoRun /\ e.operator

ValidSubject(s) ==
  \/ s.kind = "none" /\ s.number = 0
  \/ s.kind \in {"issue", "pull_request"} /\ s.number > 0

(* The event runs on the base: the checkout is the base's ref and commit.  *)
ValidGitHub(e) ==
  /\ e.event # NoEvent
  /\ e.run # NoRun
  /\ ~e.operator
  /\ e.event.base = [repository |-> e.repository, ref |-> e.checkout.ref, sha |-> e.checkout.sha]
  /\ ValidSubject(e.event.subject)

SameCheckout(e) ==
  LET at == [repository |-> e.repository, ref |-> e.checkout.ref, sha |-> e.checkout.sha]
  IN  e.event.base = at /\ e.event.head = at

(* Mutant: the head of a pull request is not compared with the repository. *)
BugPullRequestContext(e) ==
  IF e.event.subject.kind = "pull_request" THEN "same_repository" ELSE "unknown"

PullRequestContext(e) ==
  IF e.event.subject.kind # "pull_request" THEN "unknown"
  ELSE IF e.event.head.repository # e.repository THEN "forked_pr"
  ELSE "same_repository"

(* schedule and workflow_dispatch have no subject and a head that is the   *)
(* checkout; issues and issue_comment need only the latter; a push needs a *)
(* head of the repository.                                                 *)
GitHubContext(e) ==
  LET name == e.event.name IN
  IF name = "pull_request" THEN PullRequestContext(e)
  ELSE IF \/ name \in {"schedule", "workflow_dispatch"} /\ SameCheckout(e) /\ e.event.subject.kind = "none"
          \/ name \in {"issues", "issue_comment"} /\ SameCheckout(e)
          \/ name = "push" /\ e.event.head.repository = e.repository
  THEN IF name = "schedule" THEN "scheduled" ELSE "same_repository"
  ELSE "unknown"

ContextOf(e, now) ==
  IF ~ValidCommon(e, now) THEN "unknown"
  ELSE IF e.source = "local" /\ ValidLocal(e) THEN "local"
  ELSE IF e.source = "github" /\ ValidGitHub(e) THEN GitHubContext(e)
  ELSE "unknown"

(* Evidence that does not hold is not an error: its decision keeps the     *)
(* identity that was claimed, with the context "unknown".                  *)
Decode(e, now) ==
  [present |-> TRUE, context |-> ContextOf(e, now), id |-> e.id, key |-> e.key, control |-> e,
   repository |-> e.repository, origin |-> e.event.subject, checkout |-> e.checkout]

-----------------------------------------------------------------------------

MayMutate == {"same_repository", "scheduled", "local"}

EligibilityFor(context, capability) ==
  CASE capability \in ReadCapabilities -> "read"
    [] capability \in GrantCapabilities /\ context \in MayMutate -> "grant"
    [] capability \in StagedCapabilities -> "staged"
    [] capability = "agent.call" -> IF context \in {"forked_pr", "unknown"} THEN "read" ELSE "grant"
    [] OTHER -> "denied"
=============================================================================
