# A TLA+ verification of duto-ai

`duto-ai` runs workflows of language-model agents under an admitted plan. A
model proposes; the program decides what may run, counts it, writes files and
commits into a checkout under budgets, stages publication requests, and leaves
evidence. A second, trusted command (`duto-ai publish`) takes that evidence and
writes to GitHub. The modules in this directory model the parts of the program
in which order, concurrency and failure decide whether it is correct.

Contents: 1. the system and its hard parts, 2. the modules, 3. the runs,
4. the proofs, 5. where the documents and the code differ, 6. what is not
modelled, 7. the plan.

## 1. The system

| component | code | state it keeps | operations |
|---|---|---|---|
| configuration | `internal/config` | none | decode and validate YAML |
| trust policy | `internal/trust`, `internal/plan/trust.go` | none | decode control evidence, decide what its context may do, admit a plan's capabilities |
| admission | `internal/plan`, `config/validate.go` | none | normalise, check the graph, conditions, result routes, scopes, limits, agents, schemas and bindings, seal a digest |
| tool catalog | `internal/tool/catalog.go`, `resolve.go` | none | select tools by name, family and profile under a ceiling |
| compiler | `internal/compiler` | prompt context in the session, call counters of agents | joins, gates, step nodes, terminal nodes, guards, agents as tools |
| run | `internal/runtime/run.go` | the result, the terminal outputs | run the graph, fold its events, finalise |
| evidence | `internal/runtime/evidence.go` | the log of records, the bundle directory | append, write the bundle |
| tool guards | `internal/tool/guard.go`, `adk_toolset.go` | call counters and deadlines | before and after a call, bound its context |
| file authoring | `internal/tool/files/write.go` | changes with old content, byte total | write, changed paths, roll back |
| git authoring | `internal/tool/git/authoring.go` | the commit, the recovery directory | commit, publication, verify, recover |
| staged operations | `internal/safeoutput` | the operations, their source, the recovery | reply, branch, draft PR, snapshot |
| bundle verification | `internal/publisher/verify.go`, `git.go` | none | read and verify a bundle |
| publisher | `internal/publisher/publisher.go`, `internal/tool/github/publisher.go` | the receipt | preflight, apply, reconcile |
| read tools | `tool/files`, `tool/git`, `tool/github`, `tool/shell`, `tool/web` | none | read, search, run a process |
| prompts | `internal/prompt` | none | render templates and skills |
| commands | `cmd/duto-ai` | none | validate, plan, run, publish, exit codes |
| actions | `action/`, `author/`, `publish/` | none | install and call the command on GitHub |

How they interact. Admission hands an immutable plan to the compiler, which
builds one graph for the ADK workflow engine (a library). The engine runs the
steps of the graph at the same time, and the calls of one model turn at the
same time; both pass the guards, whose counters are shared under one mutex. The
write, commit and staging tools share one checkout and three locks (the
writer's, the Git authoring's, the collector's). When the engine's event stream
ends, the result is decided, the finalizer verifies or recovers the checkout,
and the evidence bundle is written. The publisher runs in another process, knows
only the bundle, and shares the repository with everybody else.

The hard parts, each with its line, are the `hazards` of `PROJECT.json`. In short:

* *publisher*: writes whose answer is lost, a killed process, a second
  activation, others who change the repository between two requests. Correct
  means: nothing is written before all is known to be possible, the receipt is
  true, repeating it completes and never duplicates.
* *guards*: concurrent debits of three counters. Correct means: no limit is
  exceeded in any interleaving, and no denied tool runs.
* *authoring*: concurrent tool calls, Git commands that fail half way, cleanup.
  Correct means: what is published is what is checked out; what the run wrote is
  saved before it is cleaned; budgets are exact.
* *admission*: authority is given in many places (configuration, workflow,
  profiles, agents at several depths, steps, control evidence) and every place
  may only narrow it. Correct means: nothing that writes is admitted without
  evidence that allows it, and no level holds more than the level above.
* *agents*: calls within calls, batches within batches. Correct means:
  delegation is bounded over the whole tree, and no batch waits for a worker
  that an activation above it holds.
* *bundle verification*: files of several runs may reach one directory while it
  is read. Correct means: what is published is what one run staged, under
  evidence that is valid now.
* *step inputs*: what a schema promises and what a run then finds must agree.
* *graph*: branches that run at the same time, joins behind skipped steps,
  retries, cancellation. Correct means: one terminal output at most, no step on
  a branch not taken, and an end.

## 2. The modules

`Publication` (abstract) is refined by `Publisher`. `WorkflowAdmission` (pure) is
extended by `WorkflowRun`. `EvidenceBundle` (abstract) is refined by `Evidence`.
`ControlEvidence` (pure: what a file of control evidence means at a time) is
read twice, by `Admission` when a run is admitted and by `Verification` when its
bundle is to be published. `ToolScopes` (pure: catalog, selection, limits) is
used by `Admission` and `AgentRun`, `Reachability` (graphs) by `Admission` and
`StepInputs`. `ToolGuards` and `Authoring` stand alone. A module
`MCx` gives the constants of `x` their values; `xProofs` holds its theorems, and
`StepProofs` those of `ToolGuards` and `StepInputs`, what a step may do and what
it is given.
In every model module an operator named `Bug…` is a plausible wrong version of
the definition after it; no specification uses it, it shows that a property
would notice.

### Publisher

One action is one request to GitHub, one Git command, or the writing of the
receipt. `pc` is the next request of an activation; `seen` is `states` of
`preflight()`; `phase` says whether the reads were asked for by `preflight()` or
by the reconciliation in `apply()`; `receipt` and `verdict` are what `Publish`
returns.

| action | code |
|---|---|
| `Begin` | `RunE` of `newPublishCommand`, with a bundle that verified |
| `ReadSubject`, `ReadComments` | `preflightReply` |
| `ReadBase`, `ReadTarget` | `preflightBranch` |
| `ReadPulls` | `preflightPR` |
| `PostComment`, `CreatePull` | `createReply`, `createDraftPR` |
| `FetchBase`, `PushTarget` | `pushBranch` |
| `ReadFails`, `WriteFails` | the error paths of `request` and of the Git commands |
| `WriteReceipt` | `WriteReceipt`, then the exit code |
| `Crash`, `Others` | external: the process is killed; users of the repository |

A write has three outcomes: it takes effect and answers, it takes effect and the
answer is lost, it fails without effect. After either failure the code reads the
resource again, and so does the model. A comment is its marker (a correlation
key and a payload digest), a commit is a model value, a pull request is its
draft flag and its payload. `Others` can move the base to an authored commit
only when the ref of that commit's key is there: that is how it gets to GitHub.

`Publication` says what the repository is promised: the ref of a key is created
once, a pull request is opened once and over the bundle's own commit, and
neither changes after. `PublishesOnce` is the refinement, with `branch` for
`refs` and the payloads of `pull` for `titled`.

### ToolGuards

`runCalls`, `scopeCalls` and `toolCalls` are the fields of `guardCounters`. A
worker (a goroutine of the bounded task runner) takes a call through
`Ask`, `BeforeTool` (`BeforeToolCallback`, one step because it holds the
mutex), `RunTool` (`guardedTool.Run`) and `AfterTool`. As in the code the debit
comes first, nothing is refunded, and a tool without a limit passes the callback
and is refused by `RunTool`. Time is a bounded clock; contexts cancel on time.
The sizes of requests and results are a choice to refuse.

### Authoring

A checkout is three trees: `work`, `index`, `head`, and `depth`, the number of
commits above the base. `old` and `total` are `changes` and `totalBytes` of the
writer; `commit` is `committed` and `commit` of the Git authoring, `None` before
a commit; `ops`, `source` and `recovery` belong to the collector; `dir` is the
recovery directory. `Write` is one step (it holds its mutex from the first check
to the record); a commit is one step per Git command (`VerifyBeforeCommit`,
`Add`, `MakeCommit`, `ReadCommit`, `VerifyAfterCommit`), and `CommitFails` may
come at each; `Publication` and `Stage` are the two locks of `Collector.Branch`.
Calls interleave when `Parallel > 1`, because the task runner takes the
workflow's `max_parallel_calls` and not the step's. Then come `End` and, by
`phase`, the finalizer: `VerifyRun`, `RecoveryPatch`, `WriteRecovery`,
`ResetHard`, `Rollback`, `Confirm`, `TakeRecovery`, and `WriteEvidence`.

### WorkflowAdmission and WorkflowRun

A workflow is `needs` and `when`, the outcomes a step accepts of a need.
`Terminals` are the pairs of a step and an outcome that no successor consumes
(`compileRoutedResult` requires exactly these as result routes). `Admitted` is
`compileResult`: an acyclic graph, valid conditions, at least one terminal and
no two terminals that can overlap. `constraintsConflict` answers at the first
common step of a randomly ordered map, so "some order finds a conflict"
(`ConstraintsConflict`) and "every order does" (`AlwaysConflict`) are both
defined, and a run starts with any workflow that some order admits.

`WorkflowRun` runs it. `Gate` is a join with the input gate behind it, `Start`
the engine's scheduling under `MaxConcurrency`, `Finish` an output that satisfies
the schema, `TimeOut` a deadline with the retry of `stepNodeConfig`, `Error` any
other error, `TerminalNodes` the nodes of `terminalNodes`, `Cancel` the end of the
run's context, `End` the end of the event stream with `finishResult`.

### Evidence

Runs that are given one evidence directory. `records`, `closed` and `overflow`
are the writer's; `temp` is a run's temporary directory, `dir` the evidence
directory. `durable` and `settled` say what a power failure cannot take: files
and a rename that were synced. `Start`, `Observe` and `AfterRun` are the three
callbacks of the plugin, `Finish` is `finish` and `Collect` what is made in
memory (`m3BundleFiles`, `jsonLines`, the manifest). Both ways to write a bundle
are the steps `CheckTarget`, `WriteFile` (the manifest last), `Rename`,
`Settle`; `Version` is 2 for `writeAtomicEvidenceDirectory`, which syncs, and 1
for `writeV1EvidenceBundle`, which does not. `Incomplete` is every `ErrEvidence`
with the deferred `RemoveAll`. `Kill` and `PowerFails` are external.

`EvidenceBundle` says what a reader of the directory is promised: a bundle is
never replaced, and one that its run reported stays, but for version 1 after a
power failure. `KeepsFirstBundle` is the refinement.

### Admission, ControlEvidence, ToolScopes

One run of `admitRun`: `LoadConfig` (`decodeM3Config`), `LoadControl`
(`trust.Load` and `Decode`), then the phases of `plan.compile` in their order:
`CompileTools` (graph, models, limits, `compileWorkflowToolPolicy`),
`CompileAgents` (`compileAgents`, `validateAgentDefinitions`), `CompileSteps`
(`compileNamedAgentStep` or an inline step, `validateAuthoringScopes`,
`validateToolConcurrency`) and `CompileTrust` (`compileTrustProjection`,
`compileAuthoring`, `compileStaging`). Each leaves what the next one uses
(`decision`, `scope`, `agents`, `steps`, `plan`) or refuses.

`ControlEvidence` keeps of a file the fields that are compared and two bits for
the spelling of the others; `ContextOf` is the trust context, `EligibilityFor`
what it may do. `ToolScopes` has the real catalog; a selector expands by prefix
as in the code, removals fail when they remove nothing, a limit of 0 is "not
given". `ChildWithin` compares what `validateAgentDefinitions` compares: the
names of a child's tools and not their limits.

### AgentRun

The activation tree of a run of one chat agent. A node is an activation of an
agent or a call of a tool, at the path of its batch; `CallModel` is a model call
and the calls its response asks for, `Take` a worker of `boundedTaskRunner`
that takes the first task left in its own batch, `CountLocal` and `CountTotal`
the two counters of `newSubagentCallLimiter`, which no lock joins, `GuardTool`
the tool guard (one step, as in `ToolGuards`), `FinishTool` its body, `Resume`
the return of the runner. The flow between a model and its tools is the ADK's,
modelled from its use: a response's calls are handed over in order and the model
is asked again when all are answered. `activations` is a history: the pairs of an
agent and the number of a delegation of its that both counters let through. Model calls are counted per agent in all
its activations, as `NewCallLimiter` does.

### Verification

Two runs of one workflow leave their bundles; `Envelope`, `Files` and `Manifest`
are what the collector and `m3BundleFiles` write. Files of both arrive in the
publisher's directory (`Copy`), also between two steps of `Verify`. The steps
are `ReadManifest`, `ListNames`, `CheckManifest`, `VerifyFile` per file,
`VerifyControl`, `VerifyOperation` per operation and `VerifySource`
(`verifyAuthoredBundle`); control, operation and bundle files are read again
after their digest was compared, and the model reads `dir` again where the code
does. A digest is the content itself.

### StepInputs

A workflow of steps that answer any value their output schema accepts, and a
`Consumer` whose inputs are bound. `Compile` is admission (`compileSchema`,
`assignable`, `compileBindings`), `Supply` is `ValidateInputs`, `Finish` an
answer, `Gate` is `bindStepInputs` behind the join, `Enter` the validation of
the agent node. Schemas and values are trees: functions from the places in them
(sequences of fields and items) to one level of the schema or of the value. The
code walks both by recursion; here `ValidSchema`, `Assignable`, `Conforms` and
`PathRequired` say of every place what the code does at one level, which is
shorter and can be reasoned about at any depth. Two trees are assignable
when every place of the target is one of the source and its level is assignable
(`LevelAssignable`): that is `assignable` on schemas that `validateSchema` has
accepted, where items belong to arrays and properties to objects. Numbers are
counted in halves, so that an integer and a number differ, and the lengths of a
schema may be negative, as `optionalInt` decodes them. `Conforms` is what a JSON
schema validator says of `toJSONSchema`; a schema's depth limit of 16 levels is
left out. The formulas of this module have a prefix (`inputVars`, `InputsInit`,
`InputsNext`, `InputsSpec`), because `StepProofs` extends `ToolGuards` as well.

## 3. The runs

| run | bounds | properties |
|---|---|---|
| `publisher_serial` | 3 activations, one at a time; 2 branch bundles and 2 replies under one key; 1 change by others; 2 faults; page of 3 | `OneReplyPerCorrelation`, `QuietRunCompletes` |
| `publisher_concurrent` | 2 activations at the same time; same bundles; 1 change; 2 faults | `PreflightBeforeWrite`, `RejectedWroteNothing`, `ReceiptTruth`, `PublishesOnce`, `Ends` |
| `tool_guards` | 2 steps, 2 scopes, 2 tools (one denied in a scope), 2 workers, 4 calls, limits 3/2/2 and 1, clock to 3 | `TypeOK`, `WithinLimits`, `DebitedTogether`, `CallsEnd` |
| `authoring` | a tracked, a new and an ignored path, 3 contents of 2 sizes, 2 files and 3 bytes, 2 calls at the same time, 2 faults | `BudgetExact`, `RollsBackToBase`, `RecoveryMeansRestored`, `RecoveryHoldsCommitOrWork`, `PublishedIsCheckedOut`, `LeavesCleanCheckout` |
| `workflow_run` | every admitted graph of 4 steps with up to 4 needs and every condition, concurrency 2, a step with 2 attempts | `TypeOK`, `AtMostOneTerminal`, `RunsOnTakenBranch`, `UnrunWasSkipped`, `ChainsSelectOne`, `RunEnds` |
| `evidence` | a run of each version on one directory; 2 files and the manifest; 3 events for 3 records; 2 faults | `BundleIsComplete`, `RecordHasNoGap`, `LeavesNothingBehind`, `KeepsFirstBundle`, `Answers` |
| `admission` | 11 configurations, some 30 files of control evidence or none, about a thousand workflows: one step, two steps ordered and not, a chat agent over a chain of two; every tool set, access, limit and retry of `MCAdmission` | `MutationNeedsTrust`, `AuthorityNarrows`, `UnsafeIsSequential`, `PublishesWhatItAuthors` |
| `agent_run` | a chain of three agents that may all write, batches of 2, limits 2/2/1, 1 and 2 workers, a cancel | `ChildCallsBounded`, `SequentialRunIsAlone`, `RunEnds` |
| `verification` | 2 runs, 8 stagings and their failed repetition, 2 policies, 5 files given to the publisher, 2 times, 2 heads; a whole bundle or one without a file, 2 files that arrive later | `PublishesItsOwn`, `FreshEvidence`, `RefusedForCause` |
| `step_inputs` | every pair of the schemas and every binding of `MCStepInputs`, every value that tells two of them apart, chains and joins of two steps before the consumer | `RequiredIsBound`, `AssignableIsSound` |
| `step_inputs_ancestor`, `admission_order` | as in their cfg | one claim of a document each, refuted: see section 5 |

Why the bounds are enough. *Publisher*: two faults hold the hardest sequence of
one publication, a lost answer followed by a read that fails or by a crash;
three activations in a row hold a half-done one, one that resumes it, and one
that finds it done. The page of three holds every comment the serial run can
post, so that run is about markers and `MCPublisher_page.cfg` about pages.
*ToolGuards*: four calls exceed every limit. *Authoring*: three contents are a
write, a write over it and a write back; two faults hold a commit that is not
read back and a cleanup that then fails. *WorkflowRun*: four steps hold a
diamond with both of its arms, a chain behind a branch, and two constraints on
common ancestors. *Evidence*: three events and `run.start` are one more than
fits; two faults hold a kill or
a failed write of each run, and a power failure after either. *Admission* has no
behaviour beyond its six steps; what matters is the variety of its inputs, and
three levels of agents are needed for a grandchild to be compared with its
grandparent. *AgentRun*: two batches of two within one another are what a pool
of two workers can block on; the limits are exceeded at each level.
*Verification*: two foreign files are a manifest or control file and an
operation of the other run, the least that passes one digest and not the next.
*StepInputs*: schemas of depth two have a required property below an optional
one, and a length of -1 is one that a JSON schema does not get. `CHECK_DEADLOCK FALSE` in every cfg: a run, a command or a
bounded history really stops. `publisher_serial` uses symmetry over the activations, which
only safety properties are checked under.

Fairness. `Publisher!FairSpec`: a started activation keeps issuing its request
or writing its receipt; the program has no wait that another must end, and HTTP
and Git calls return under the command's context. `Crash`, `Others` and faults
get none. `ToolGuards!FairSpec`: per worker, a call under way goes on, since
callbacks do not block but for a short mutex and a tool's context is cancelled
at its deadline. `WorkflowRun!FairSpec`: per step, the engine runs nodes that
are ready and a step ends by its timeout; and the end of the stream is
seen. `Cancel` and new calls get none. `Evidence!FairSpec`: a run whose stream
ended writes on, file by file, and waits for nobody; more events, kills and
power failures get none, and the stream ends within the run's bounds.
`AgentRun!FairSpec`: as long as some node of the tree can step, one does; it is
weaker than fairness per goroutine and suffices, because calls are counted.
`Authoring` claims no liveness; `Admission`, `Verification` and `StepInputs` are
sequential and end by their shape.

`OneReplyPerCorrelation` is checked for one activation at a time: the code has
no lock between `preflightReply` and `createReply`, two activations at the same
time can both post, and nothing in the repository says that they may not run so.
It is an assumption of the run, and a hazard of the list.

## 4. The proofs

Eight modules hold theorems that TLAPS checks for every value of the constants.
Thirty-five of the forty properties of the passing runs are theorems: all but the
five that are liveness. The run says so of a small instance, the theorem of every one.

**What is assumed.** The assumptions are those of the modules, and TLC evaluates
them on the runs. Most type the constants. The others:

| assumption | what it says beyond types | why |
|---|---|---|
| `RunAssumption` | there are finitely many steps | a workflow is a file |
| `AdmissionAssumption` | limits are integers, one for each field | they are decoded into Go integers |
| `VerificationAssumption` | the bundle of run 1 is one that a run stages: a reply has a subject, texts are in the policy's limits, the base is not the commit authored on it, the evidence is for the policy | `plan/trust.go:89`, `:160`, `safeoutput.go:174`, `:214`, `publisher/git.go:63` |
| `EvidenceAssumption` | room for one record | `evidence.go`: the maximum is a positive constant |
| `PublisherAssumption` | an authored commit is neither its own base nor in the repository at the start | `publisher/git.go:63`: its one parent is the base; there is no ref yet |
| `InputsAssumption` | schemas and values are trees with names from `Names`, their lengths and bounds integers; a literal is a scalar | what a YAML or JSON decoder returns, `config/workflow.go:638`; `literalAssignable` (`plan/plan.go:1096`) refuses any other literal |
| `AuthoringAssumption` | an ignored path is not tracked at the base | what Git calls ignored |
| `TreeAdmitted` | agents form a tree, and a limit or a tool of a child is within its parent's | what `validateAgentDefinitions` leaves, proved in `AdmissionProofs` |

Three theorems have a hypothesis in their statement, because without it the code
does not do what they say, and a cfg shows how: `ImplementsContract` holds when
nobody creates a target ref at a base commit (`MCPublisher_forward`), `OneReply`
and `QuietRun` as long as the comments fit on the page that is read
(`MCPublisher_page`), and `OneReply` for one activation at a time.

**`StepProofs`**, the tool guards: `TypeCorrect`, `LimitsHold`, `DebitsNest`, `AllowedOnly`.
`WithinLimits` is not inductive: nothing in it relates the calls let through to
the counters the code compares. `LetThroughIsDebited` does (let-through calls are
at most the debits, counter by counter), and with it a call is let through only
when the counters after its debit are within the limits, hence so are the calls
let through. `DebitedTogether` needs that the three counters move in one step,
and sums nothing: each tool counter is at most its scope's, each scope's at most
the run's. `OnlyAllowedRun` follows from the second check alone.

**`StepProofs`**, the typed inputs: `BindsWhatIsRequired` and `AssignableConforms`,
for every workflow, schemas and values of any depth and any answers. Both
compare two programs that meet in no line of code: what admission computes of
schemas, and what the gate and the JSON schema validator then do with values.
Three lemmas carry them. `RequiredIsFound`: a path that is required all along is in
every value of the schema, for the first place of it that is missing would be
required of a map that is there (`LeastNumber` stands for an induction along the
path). `AssignableSound`: since a tree is a function from places, a value of the
source is one of the target when that is so of each level, and `LevelSound` says
it of a level by the type of the target; what `assignable` leaves out
(`Uncompared`) is exactly what this proof cannot do without. `BoundConforms`: the
object the gate gathers has at each place what the input bound there has
(`ObjectIs`), so it conforms when each input conforms and what is required is there
(`RequiredIsFilled`). The invariant `InputsInv` carries what was checked to where it is
needed: `Passed` (the schemas and bindings that admission accepted), `Supplied` and
`Answered` (the values that conformed), `Gathered` (the gate binds what the bindings
find, or failed because one finds nothing). With it, a binding fails only
for a step that the consumer does not itself need (`FailsForAStranger`), which is
the finding of `step_inputs_ancestor` and, by the theorem, the only way.

**`WorkflowRunProofs`**: `TypeCorrect`, `TakenBranches`, `UniqueTerminal`,
`UnrunSteps`, `ChainsEnd`. The inductive invariant is `TypeOK /\ Admitted(wf) /\
Grounded /\ OutputsAreTerminal`: a started step has needs that are done with an
outcome it accepts (`Grounded`), and each output belongs to a done step whose
outcome is a terminal one. The lemma `AncestorsDone` takes `Grounded` from direct
needs to everything a step depends on. It needs no induction: `Ancestors` is the
least set closed under needs, and the set of done steps whose needs are accepted
is such a set. Then `UniqueTerminal`: two outputs would be two terminal pairs
whose constraints are all met (`ConstraintsMet`), but admission found a common
step with disjoint constraints, and a step has one outcome. So the admission
check is sufficient for every graph, in whatever order the map is walked.

The other two are about a run that has ended, and need `EndInv`: a failed step
is an error the run has seen, a skipped one has a need that was not accepted, a
terminal node that has run left its output, and a run ends well only when no node
has anything left to do. What then fails to run must be behind something, and
"behind" needs an end: among any steps of an acyclic graph there is one that
needs none of the others (`FirstStep`) and one that none of them needs
(`LastStep`), by counting ancestors. `UnrunSteps` takes the first of a step and
all it depends on that is not done: what it needs is done, so its gate has run and
skipped it. `ChainsEnd` takes the last step that is done: a successor that accepts
its outcome would be done too, so the outcome is a terminal one.

**`AdmissionProofs`**: `TrustedMutation`, `NarrowAuthority`, `SequentialUnsafe`,
`PublishesOwnWork`. The
inductive invariant (`Checked`) has one part per stage: what `compile` has checked
by then holds of the configuration, the workflow, the evidence, and of what was
compiled from them. It is needed because the properties are about the admitted
plan while the checks were made up to six steps before; that nothing read by a
check is written afterwards is what the lemmas `Keep...` say. The rest is about
data. Trust: a tool that is not read-only has a capability that the policy must
allow in the decision's context, a context other than unknown or fork comes only
from evidence in its window with a head in the repository (`KnownContext`), and
without a decision the catalog has one such tool, the
shell. Authority: a limit that compiles is at most its parent's and stays positive
(`NarrowedWithin`), and the agents whose authority is within a step's are a set
the subagents do not leave, so `Reach`, the least such set, is in it
(`BelowWithin`), for a tree of any depth without an induction. From this, a step
that reaches an unsafe tool through an agent has that tool itself, and
`validateToolConcurrency` looks at steps only for good reason. And a plan that
stages a publication has exactly the tools of it, for otherwise its set of
operations was none.

**`VerificationProofs`**: `OwnPublication`, `EvidenceIsFresh`, `HonestIsAccepted`,
for any number of files that arrive while the bundle is read. The invariant: every file of the directory
is one of the two runs' files of its name (`DirHeld`); once accepted, the manifest
is that of run 1; files that were verified are there. An operation file that is
read again after its digest was compared may be the other run's, but it then names
that run (`ItsOwn`), and the comparison with the manifest refuses it: so this
comparison, and not the digests, is what makes `PublishesItsOwn` true.
The other direction needs `Honest`: of a bundle that arrived whole, what is still
to be read is what the run finalized. Each check of the verifier is then shown to
accept what the collector's code has built: the two programs agree.

**`PublisherProofs`**: `PreflightFirst`, `RejectionIsClean`, `TrueReceipt`,
`ImplementsContract`, `OneReply`, `QuietRun`, for any number of activations, also
at the same time. The invariant `IInv` follows an activation through its life
(`Held`): which operation a request belongs to, that in preflight nothing was
sent, that in apply everything was found possible, what a receipt says of it as a
whole, and that each success it notes is in the repository. The last part stands
only if nothing published is ever taken away, and a push is not forced but may
move a ref from the base of its bundle. `Fresh` excludes that the base is a commit
published under the same key: the base is there only after the ref is, and the
preflight that reads the base first then finds the ref. `OneReply` adds that a
post follows a preflight that found no marker on a page that was the whole list
(`NotYetReplied`), which holds until the post as there is nobody else
(`Alone`). `QuietRun` adds `QuietInv`: to an activation that nobody disturbs, what it
has read is what is there, also what it has not read yet.

**`EvidenceProofs`**: `TypeCorrect`, `NoGap`, `CompleteBundle`, `NothingBehind`,
`KeepsContract`. `RecordHasNoGap` is about a bundle, and nothing of the log is left
by then; the invariant says of every run on its way that a log that has not
overflowed has a record for the start and every event (`LogHeld`). `TempHeld` is
the order of the writes: the manifest last, each file synced before the next, the
rename when all are there. So a power failure finds either nothing or a bundle,
and a step that changes the directory is one that `EvidenceBundle` allows.

**`AuthoringProofs`**: all six properties and `TypeCorrect`, for any tree, any
interleaving of calls, and any command that fails. The centre of the invariant is
`RollsBackToBase` itself: worktree, index and HEAD differ from the base only in
remembered paths, and the remembered content is the base's. `ToolHeld` says
what each step of a commit may rely on while it holds the lock, `FinalizerHeld`
what each step of the finalizer has established for the next, `SavedHeld` that a
recovery exists only of a restored checkout. `BudgetIsExact` is about a sum over
a set that grows and whose members are replaced. That such a sum is well
defined and additive would be an induction; it is proved by a smallest
counterexample instead (`SmallestSet`: a family of subsets of a finite set has a
smallest member), from the theorem that `<` is well-founded on the numbers.

**`AgentRunProofs`**: `TypeCorrect`, `DelegationIsBounded`, `OneWorkerIsAlone`.
The invariant `Shape` says what a stack would say if there were one: the nodes
form a tree, every node above another waits for its batch, and a batch is there
as a whole until it has returned. With one worker at most one node of a depth is
under way (`OnePerDepth`), since two would be in one batch or below two others
that are; hence an unsafe body, below which is nothing, is alone. The two counters
of a delegation are joined by no lock, and what keeps the sums right is that no two
calls that were counted and not yet compared hold the same number (`Numbers`): so
each number lets one call through at most, and at most as many as the limit.

**Only model-checked.** The liveness properties `Ends`, `CallsEnd`, `RunEnds` (of
two modules) and `Answers`: the prover has no rule for fairness. And the two
violations. No module uses RECURSIVE operators.

## 5. Where the documents and the code differ

Two are findings with a run:

| claim | what the run shows |
|---|---|
| `README.md:269`, ADR 006:397: a binding may name an ancestor's output | `step_inputs_ancestor`: `compileBindings` accepts every ancestor (`plan.go:949`), but a gate is handed the outputs of the direct needs only (`compiler.go:335`, `:380`): the admitted workflow fails at that step, whatever its steps answer and even when the binding is optional |
| `docs/ARCHITECTURE.md:141`: the plan is deterministic | `admission_order`: two terminal pairs share two constrained steps, only one of them with disjoint outcomes; `constraintsConflict` (`plan.go:1256`) answers by map order, so the workflow is admitted or refused at random |

Others have a cfg beside the models; run it with `tlc -config X.cfg MCx`. Each
ends in a counterexample:

| cfg | claim | what the code does |
|---|---|---|
| `MCPublisher_page` | ADR 011:414: a matching marker is `unchanged` | only the first page of comments is read (`github/publisher.go:109`); the reply is posted again |
| `MCAuthoring_late` | ADR 011:369: recovery is written before any cleanup | a file written after the commit is not in the patch (`authoring.go:461`) and is then reset |
| `MCEvidence_full` | ADR 004:10: the record has `run.finish` | with exactly the maximum of records before it, `run.finish` is dropped after `overflow` was tested (`evidence.go:152`, `:161`), and the bundle is written without it |
| `MCToolGuards_deadline` | ADR 006:514: the earliest deadline applies | a step's own deadline is counted from the construction of the guards (`guard.go:119`) and not from its start |
| `MCAdmission_limits` | `docs/ARCHITECTURE.md:113`: call and byte limits of a child are subsets | `validateAgentDefinitions` compares the names of a child's tools (`plan/agent.go:234`) and not their limits |
| `MCAgentRun_alone` | ADR 006:516: unsafe calls are serialised | an agent is admitted because its own `max_parallel_calls` is 1, but every batch runs under the workflow's (`run.go:115`), so calls of one response write at the same time |
| `MCAgentRun_models` | ADR 006:508: the workflow's limits are budgets of the run | each agent has its own `NewCallLimiter` (`compiler/safety.go:15`); together they make more model calls than the workflow allows |
| `MCStepInputs_conform` | ADR 006:399: source and target are structurally assignable | `assignable` does not compare `max_length` with the strings of a source that has only an enum, ignores properties a closed target does not have, and enums of numbers and arrays (`plan/schema.go:220`): inputs that were admitted are refused at run time |
| `MCPublisher_reconcile` | ADR 011:724: an uncertain write is reconciled | the reconciling read checks the subject or the base first; when that changed, a write that took effect is reported a conflict (`publisher.go:148`) |
| `MCPublisher_forward` | ADR 011:727: an existing ref is never moved | a ref that others create at the base commit after the preflight is fast-forwarded by the push (`github/publisher.go:234`) |
| `MCToolGuards_agent` | ADR 006:507: agent limits are per activation | steps that use one named agent share a guard key (`compiler/agent.go:345`) |
| `MCAuthoring_unstaged` | ADR 011:369 | the finalizer keeps the commit of a successful run, then the evidence refuses its unfinished operation set: a failed run without recovery (`run.go:119`) |
| `MCAuthoring_cancel` | README:107: exit 130 is cancellation | a cancelled run that wrote nothing has an empty recovery, `SetRecovery` refuses it, and the run ends failed with exit 4 |
| `MCWorkflowRun_total` | `docs/ARCHITECTURE.md:72`: exactly one terminal output | behind a join of two conditional branches a run can end with none (`plan.go:1275`) |

Others, read and not run. Every preflight error leaves the disposition
`rejected`, but one that is not `ErrRejected` exits 4 (`publisher.go:115`), and a
denied write leaves `conflict` and exits 3 (`:154`), while ADR 011:601 has 3 for
rejected and 4 for conflict. Verification of a commit is by `git status`, which does not list a
file that was written to an ignored path after it (`authoring.go:597`; ADR
011:363: no ignored file changed). The task runner takes the workflow's limit
(`run.go:115`), while admission checks the step's (`plan/tools.go:269`; ADR
006:516: unsafe calls are serialised). A terminal node gives its output while an
unrelated branch still runs (`compiler.go:286`; ADR 006:440). Nested batches have workers of their own, so
the activity of a run may exceed `max_parallel_calls` (ADR 002:226); the calls
of agents and of tools are counted apart (`compiler/agent.go:266`, `guard.go`);
a base ref equal to the branch to be created is staged by the writer and refused
by the verifier only; a file that is written back to its old content stays in
`ChangedPaths` but not in `git status`, and the commit is refused as unrelated
(`authoring.go:545`, ADR 011:362); and a failing Git command of `verifyAuthoredBundle` exits 1
and not with the code of a rejected bundle (ADR 011:545).

## 6. Not modelled

YAML decoding, prompt rendering and the reading of skills are functions of one
document without state; the registry only maps names to constructors. The read
tools change nothing. Of the libraries only what the code relies on is modelled,
and marked external in the map: the ADK scheduler and flow, Git, GitHub. In
`Publisher`: the bundle is verified already. In `Authoring`: file modes, symbolic
links, the path sandbox, and the `conversation-reply` profile. In `WorkflowRun`: a
workflow of a single chat agent, whose run is `AgentRun`. In `ToolGuards`: byte
counts. In `Evidence`: byte limits are a choice to refuse, the fields of a record
are left out, and so is a plan without an evidence directory. In `Admission`: the
text of prompts and skills (only the workspaces they are read from are kept), the
size estimate of agents (`plan/agent.go:100`), digests and the rendering of a
plan. In `Verification`: sizes, symbolic links, files that disappear, the strict
JSON decoder. In `StepInputs`: the depth limit of schemas and descriptions. In
`AgentRun`: agents of mode `task`, whose hand-over is the ADK's, are activated
like the others; deadlines only cancel the run. The file remote
(`publisher/file_remote.go`) is a stand-in for tests of the publish command.

## 7. The plan

1. (done) `Publisher` with `Publication`; `ToolGuards`; `WorkflowAdmission` with
   `WorkflowRun`; `Authoring`; `Evidence` with `EvidenceBundle`; the proofs about
   guards and graph.
2. (done) `Verification`, `Admission` with `ControlEvidence` and `ToolScopes`,
   `AgentRun`, `StepInputs`, the proofs about the first two:
   `AdmissionProofs`, `VerificationProofs`.
3. (done) The proofs about `Publisher`, `Evidence`, `Authoring` and `AgentRun`, with
   both refinements; the remaining safety properties of `WorkflowRun`, `Admission`
   and `Verification`; `StepInputs` over trees instead of recursive operators, and
   the proofs about it.
4. `ToolProcess`: the process group, its timeout and its output limit (shell, Git).
5. `RunPipeline`: plan, run, finalizer, evidence, publisher in one composition.
