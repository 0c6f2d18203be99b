----------------------------- MODULE Admission -----------------------------
(***************************************************************************)
(* Admission of a workflow (cmd/duto-ai/main.go admitRun, internal/plan,   *)
(* internal/config/m3.go, agent.go): the trusted configuration, the        *)
(* portable workflow and the control evidence are compiled, in a fixed     *)
(* order, to a plan, or refused.  What is abstracted: the text of prompts  *)
(* and skills (only the workspaces their files come from are kept), schemas*)
(* and bindings (StepInputs), and the result routes (WorkflowAdmission).   *)
(***************************************************************************)
EXTENDS ControlEvidence, ToolScopes, Reachability

CONSTANTS
  Configs,    \* trusted configurations
  Workflows,  \* portable workflows
  Evidences,  \* control evidence files; one that does not parse has parses = FALSE
  Now         \* times at which the command may be started

(* The limits a file gives are decoded into Go integers, one for each field*)
ASSUME AdmissionAssumption ==
  LET Limited(x) == /\ x.limits \in [RunFields -> Int]
                    /\ \A t \in DOMAIN x.toolLimits : x.toolLimits[t] \in [ToolFields -> Int]
  IN  /\ \A c \in Configs : \A t \in DOMAIN c.toolLimits : c.toolLimits[t] \in [ToolFields -> Int]
      /\ \A w \in Workflows :
           /\ Limited(w)
           /\ \A a \in DOMAIN w.agents : Limited(w.agents[a])
           /\ \A i \in DOMAIN w.steps : w.steps[i].agent = "" =>
                Limited(w.steps[i]) /\ w.steps[i].retry.attempts \in Int

VARIABLES
  cfg, wf, now,  \* the inputs of the command
  stage,         \* the last part of admitRun that succeeded, or "refused"
  decision,      \* trust.Decision
  scope,         \* the workflow's own ToolScope
  agents,        \* [name -> compiled agent]
  steps,         \* compiled steps, in the order of the file
  plan           \* the admitted plan

inputs == <<cfg, wf, now>>
vars == <<inputs, stage, decision, scope, agents, steps, plan>>

NoScope == [names |-> {}, limits |-> <<>>]
NoPlan  == [operationSet |-> "none", authoring |-> FALSE, base |-> Unknown.checkout]

Init ==
  /\ cfg \in Configs /\ wf \in Workflows /\ now \in Now
  /\ stage = "start"
  /\ decision = Unknown
  /\ scope = NoScope /\ agents = <<>> /\ steps = <<>> /\ plan = NoPlan

(* Any error ends the command before a model or a tool is constructed.     *)
Refuse == stage' = "refused" /\ UNCHANGED <<inputs, decision, scope, agents, steps, plan>>

-----------------------------------------------------------------------------

WriteWorkspaces == {w \in DOMAIN cfg.workspaces : cfg.workspaces[w] = "write"}

(* decodeM3Config: without an m3 policy nothing is writable; with one,     *)
(* exactly the authoring workspace is.                                     *)
ValidM3 ==
  IF ~cfg.m3 THEN WriteWorkspaces = {}
  ELSE /\ cfg.policy.contexts # {} /\ cfg.policy.contexts \subseteq MayMutate
       /\ cfg.policy.capabilities # {}
       /\ cfg.policy.capabilities \subseteq GrantCapabilities \cup StagedCapabilities
       /\ cfg.policy.operationSets # {}
       /\ cfg.policy.operationSets \subseteq {"conversation-reply", "branch-pr"}
       /\ WriteWorkspaces = {cfg.policy.workspace}
       /\ cfg.evidenceDirectory
       /\ ValidM3ToolLimits(cfg.toolLimits)

LoadConfig ==
  /\ stage = "start"
  /\ IF ValidM3
     THEN stage' = "config" /\ UNCHANGED <<inputs, decision, scope, agents, steps, plan>>
     ELSE Refuse

(* trust.Load: no file is an unknown decision; a file that cannot be read, *)
(* is not regular, is too large or does not parse is an error.             *)
LoadControl ==
  /\ stage = "config"
  /\ \/ /\ decision' = Unknown /\ stage' = "control"
        /\ UNCHANGED <<inputs, scope, agents, steps, plan>>
     \/ \E e \in Evidences :
          IF e.parses
          THEN /\ decision' = Decode(e, now) /\ stage' = "control"
               /\ UNCHANGED <<inputs, scope, agents, steps, plan>>
          ELSE Refuse

-----------------------------------------------------------------------------

(* A path of n agents, the next a subagent of the one before it.           *)
HasPath(graph, n) ==
  \E p \in [1..n -> DOMAIN graph] : \A i \in 1..(n - 1) : p[i + 1] \in graph[p[i]]

Subagents == [a \in DOMAIN wf.agents |-> wf.agents[a].subagents]
StepIds   == {wf.steps[i].id : i \in DOMAIN wf.steps}
NeedsOf(list) == [s \in {list[i].id : i \in DOMAIN list} |->
                    UNION {list[i].needs : i \in {j \in DOMAIN list : list[j].id = s}}]

(* validateAgentGraph and TopologicalSort.                                 *)
GraphValid ==
  /\ \A a \in DOMAIN wf.agents : \A c \in wf.agents[a].subagents :
       c \in DOMAIN wf.agents /\ wf.agents[c].mode # "chat"
  /\ Acyclic(Subagents)
  /\ \A i \in DOMAIN wf.steps : LET s == wf.steps[i] IN
       /\ \A j \in DOMAIN wf.steps : wf.steps[j].id = s.id => i = j
       /\ s.needs \subseteq StepIds
       /\ s.agent # "" =>
            /\ s.agent \in DOMAIN wf.agents
            /\ wf.agents[s.agent].mode # "task"
            /\ wf.agents[s.agent].mode = "chat" =>
                 Len(wf.steps) = 1 /\ s.needs = {} /\ wf.result = s.id
  /\ Acyclic(NeedsOf(wf.steps))

(* validateToolBindings: a family that is used is bound, and files, git    *)
(* and shell to a workspace that exists.                                   *)
BindingsValid(names) ==
  \A f \in {FamilyOf(t) : t \in names} \ {"safe-output"} :
    /\ f \in DOMAIN cfg.bindings
    /\ f \in {"files", "git", "shell"} => cfg.bindings[f] \in DOMAIN cfg.workspaces

Ceiling  == ResolveCeiling(cfg.ceiling, Catalog(cfg.m3))
Profiles == MergeProfiles(cfg.profiles, wf.profiles)

WorkflowScope ==
  CompileToolScope(wf.tools, wf.toolLimits, Profiles.profiles, Catalog(cfg.m3), Ceiling.names,
                   {}, cfg.toolLimits, TRUE, wf.limits)

(* compileWorkflowToolPolicy                                               *)
ToolPolicyValid ==
  /\ Profiles.ok /\ Ceiling.ok
  /\ TrustedLimitsValid(cfg.toolLimits, Catalog(cfg.m3))
  /\ WorkflowScope.ok
  /\ BindingsValid(WorkflowScope.names)

CompileTools ==
  /\ stage = "control"
  /\ IF GraphValid /\ wf.models \subseteq cfg.models /\ WorkflowLimitsValid(wf.limits) /\ ToolPolicyValid
     THEN /\ scope' = [names |-> WorkflowScope.names, limits |-> WorkflowScope.limits]
          /\ stage' = "tools"
          /\ UNCHANGED <<inputs, decision, agents, steps, plan>>
     ELSE Refuse

-----------------------------------------------------------------------------

(* validateWorkspaceRequests and compileWorkspaces.                        *)
WorkspacesValid(refs) ==
  \A r \in refs :
    /\ r.name \in DOMAIN cfg.workspaces
    /\ r.access = "write" => cfg.m3 /\ cfg.workspaces[r.name] = "write" /\ cfg.policy.workspace = r.name
    /\ \A s \in refs : s.name = r.name => s = r

(* What an agent and an inline step have in common.                        *)
ScopeOf(x) ==
  LET limits == Narrowed(x.limits, wf.limits)
  IN  CompileToolScope(x.tools, x.toolLimits, Profiles.profiles, Catalog(cfg.m3), Ceiling.names,
                       scope.names, scope.limits, FALSE, limits)
Compiles(x) ==
  /\ Narrows(x.limits, wf.limits)
  /\ x.files \subseteq {r.name : r \in x.workspaces}
  /\ ScopeOf(x).ok
Compiled(x) ==
  LET s == ScopeOf(x)
  IN  [names |-> s.names, toolLimits |-> s.limits, workspaces |-> x.workspaces,
       limits |-> Narrowed(x.limits, wf.limits)]

(* limitsSubset does not compare MaxConcurrency.                           *)
LimitsSubset(child, parent) == \A f \in RunFields \ {"MaxConcurrency"} : child[f] <= parent[f]

(* Mutant: a child may have workspaces that its parent has not.            *)
BugChildWithin(child, parent) ==
  child.names \subseteq parent.names /\ LimitsSubset(child.limits, parent.limits)

(* A child is compared by the names of its tools, not by their limits.     *)
ChildWithin(child, parent) ==
  /\ child.names \subseteq parent.names
  /\ child.workspaces \subseteq parent.workspaces
  /\ LimitsSubset(child.limits, parent.limits)

(* validateAgentDefinitions                                                *)
AgentsValid(A) ==
  /\ \A a \in DOMAIN A :
       /\ A[a].subagents # {} => A[a].limits.MaxToolCalls > 0
       /\ \A c \in A[a].subagents :
            /\ A[c].mode # "chat"
            /\ ChildWithin(A[c], A[a])
            /\ A[a].limits.MaxParallelCalls > 1 /\ A[c].mode = "single_turn" =>
                 A[c].subagents = {} /\ ~UnsafeScope(A[c].names)
  /\ ~HasPath(Subagents, wf.limits.MaxIterations + 1)

CompiledAgents ==
  [a \in DOMAIN wf.agents |->
     LET x == wf.agents[a]  c == Compiled(x)
     IN  [mode |-> x.mode, subagents |-> x.subagents, names |-> c.names,
          toolLimits |-> c.toolLimits, workspaces |-> c.workspaces, limits |-> c.limits]]

CompileAgents ==
  /\ stage = "tools"
  /\ IF /\ \A a \in DOMAIN wf.agents :
             WorkspacesValid(wf.agents[a].workspaces) /\ Compiles(wf.agents[a])
        /\ \A i \in DOMAIN wf.steps : wf.steps[i].agent = "" => WorkspacesValid(wf.steps[i].workspaces)
        /\ AgentsValid(CompiledAgents)
     THEN /\ agents' = CompiledAgents
          /\ stage' = "agents"
          /\ UNCHANGED <<inputs, decision, scope, steps, plan>>
     ELSE Refuse

-----------------------------------------------------------------------------

(* compileNamedAgentStep takes tools, workspaces and limits from the       *)
(* definition and never retries; an inline step compiles its own.          *)
StepCompiles(s) ==
  IF s.agent # ""
  THEN agents[s.agent].subagents # {} => agents[s.agent].mode = "chat"
  ELSE Compiles(s) /\ RetryValid(s.retry, ScopeOf(s).names)

CompileStep(s) ==
  LET c == IF s.agent # "" THEN agents[s.agent] ELSE Compiled(s)
  IN  [id |-> s.id, agent |-> s.agent, needs |-> s.needs,
       attempts |-> IF s.agent # "" THEN 1 ELSE Attempts(s.retry),
       names |-> c.names, toolLimits |-> c.toolLimits, workspaces |-> c.workspaces, limits |-> c.limits]

(* validateAuthoringScopes: a writable workspace and a tool that mutates   *)
(* come together.                                                          *)
AuthoringScope(x) ==
  (\E r \in x.workspaces : r.access = "write") <=>
  CapabilitiesOf(x.names) \cap {"workspace.mutate", "git.mutate"} # {}

(* Mutant: only pairs of unsafe steps are ordered.                         *)
BugConcurrencySafe(S) ==
  /\ \A i \in DOMAIN S : UnsafeScope(S[i].names) => S[i].limits.MaxParallelCalls <= 1
  /\ \A i, j \in DOMAIN S :
       i # j /\ UnsafeScope(S[i].names) /\ UnsafeScope(S[j].names) =>
         \/ Reaches(NeedsOf(S), S[i].id, S[j].id)
         \/ Reaches(NeedsOf(S), S[j].id, S[i].id)

(* validateToolConcurrency: a step with an unsafe tool has no parallel     *)
(* calls and depends on, or is a dependency of, every other step.          *)
ConcurrencySafe(S) ==
  /\ \A i \in DOMAIN S : UnsafeScope(S[i].names) => S[i].limits.MaxParallelCalls <= 1
  /\ \A i, j \in DOMAIN S :
       i # j /\ UnsafeScope(S[i].names) =>
         \/ Reaches(NeedsOf(S), S[i].id, S[j].id)
         \/ Reaches(NeedsOf(S), S[j].id, S[i].id)

CompileSteps ==
  /\ stage = "agents"
  /\ LET S == [i \in DOMAIN wf.steps |-> CompileStep(wf.steps[i])]
     IN  IF /\ \A i \in DOMAIN wf.steps : StepCompiles(wf.steps[i])
            /\ \A a \in DOMAIN agents : AuthoringScope(agents[a])
            /\ \A i \in DOMAIN S : S[i].agent = "" => AuthoringScope(S[i])
            /\ ConcurrencySafe(S)
         THEN /\ steps' = S
              /\ stage' = "steps"
              /\ UNCHANGED <<inputs, decision, scope, agents, plan>>
         ELSE Refuse

-----------------------------------------------------------------------------

AllNames ==
  scope.names \cup (UNION {agents[a].names : a \in DOMAIN agents})
              \cup (UNION {steps[i].names : i \in DOMAIN steps})

OperationSet ==
  CASE AllNames \cap SafeOutput = {}              -> "none"
    [] AllNames \cap SafeOutput = {Reply}         -> "conversation-reply"
    [] AllNames \cap SafeOutput = {Branch, DraftPR} -> "branch-pr"
    [] OTHER                                      -> "invalid"

(* Mutant: a reply may be made from a workflow that writes files.          *)
BugOperationSetAdmitted ==
  /\ OperationSet # "invalid"
  /\ OperationSet # "none" => cfg.m3 /\ OperationSet \in cfg.policy.operationSets

(* selectedOperationSet, classifyOperationSet                              *)
OperationSetAdmitted ==
  /\ OperationSet # "invalid"
  /\ OperationSet # "none" => cfg.m3 /\ OperationSet \in cfg.policy.operationSets
  /\ OperationSet = "conversation-reply" =>
       /\ decision.origin.kind \in {"issue", "pull_request"}
       /\ AllNames \cap {"files.write", "git.write.commit"} = {}
  /\ OperationSet = "branch-pr" => {"files.write", "git.write.commit"} \subseteq AllNames

(* capabilityAdmitted                                                      *)
Admitted(capability) ==
  LET eligibility == EligibilityFor(decision.context, capability)
  IN  \/ eligibility = "read"
      \/ /\ eligibility \in {"grant", "staged"}
         /\ cfg.m3
         /\ decision.context \in cfg.policy.contexts
         /\ capability \in cfg.policy.capabilities
         /\ decision.context \notin {"forked_pr", "unknown"}

(* Without an m3 policy and without evidence nothing is checked.           *)
TrustAdmits ==
  cfg.m3 \/ decision.present =>
    /\ OperationSetAdmitted
    /\ cfg.m3 => decision.id = cfg.policy.id
    /\ \A c \in CapabilitiesOf(AllNames) : Admitted(c)

(* compileTrustProjection, then the plan with compileAuthoring and         *)
(* compileStaging.                                                         *)
CompileTrust ==
  /\ stage = "steps"
  /\ IF TrustAdmits
     THEN /\ plan' = [operationSet |-> OperationSet,
                      authoring |-> cfg.m3 /\ CapabilitiesOf(AllNames) \cap {"workspace.mutate", "git.mutate"} # {},
                      base |-> decision.checkout]
          /\ stage' = "admitted"
          /\ UNCHANGED <<inputs, decision, scope, agents, steps>>
     ELSE Refuse

Next == LoadConfig \/ LoadControl \/ CompileTools \/ CompileAgents \/ CompileSteps \/ CompileTrust
Spec == Init /\ [][Next]_vars

-----------------------------------------------------------------------------

(* The stages of admitRun and what they leave.                             *)
TypeOK ==
  /\ stage \in {"start", "config", "control", "tools", "agents", "steps", "admitted", "refused"}
  /\ decision.context \in Contexts
  /\ scope.names \subseteq Catalog(cfg.m3)
  /\ plan.operationSet \in {"none", "conversation-reply", "branch-pr"}

(* The agents a step can activate: its own and everything below it.        *)
Below(a) == {b \in DOMAIN agents : b = a \/ Reaches(Subagents, a, b)}
AgentsOf(s) == IF s.agent = "" THEN {} ELSE Below(s.agent)

(* A plan with a tool that writes, publishes or runs a process comes from  *)
(* evidence that was in its window when it was read, for the admission of  *)
(* the policy, with a head in the repository itself, and starts from the   *)
(* checkout the evidence names (githubContext, admittedPolicy,             *)
(* capabilityAdmitted, compileAuthoring).  Only a process of a             *)
(* configuration without m3 runs without evidence.                         *)
MutationNeedsTrust ==
  stage = "admitted" /\ UnsafeScope(AllNames) =>
    \/ ~cfg.m3 /\ ~decision.present /\ AllNames \cap UnsafeTools = {"shell.run"}
    \/ /\ cfg.m3 /\ decision.present
       /\ LET e == decision.control IN
            /\ e.id = cfg.policy.id
            /\ e.issued <= now /\ now < e.expires
            /\ e.source = "local" \/ e.event.head.repository = e.repository
            /\ plan.base = e.checkout

(* No step, and no agent at any depth below it, has a tool, a workspace or *)
(* a limit wider than what is above it, up to the trusted ceiling          *)
(* (ResolveScope, compileToolScope, validateAgentDefinitions).             *)
AuthorityNarrows ==
  stage = "admitted" =>
    /\ scope.names \subseteq Ceiling.names
    /\ \A x \in {agents[a] : a \in DOMAIN agents} \cup {steps[i] : i \in DOMAIN steps} :
         /\ x.names \subseteq scope.names
         /\ \A f \in RunFields : x.limits[f] <= wf.limits[f]
         /\ \A t \in x.names : \A f \in ToolFields :
              /\ x.toolLimits[t][f] <= scope.limits[t][f]
              /\ scope.limits[t][f] <= cfg.toolLimits[t][f]
    /\ \A i \in DOMAIN steps : \A a \in AgentsOf(steps[i]) :
         /\ agents[a].names \subseteq steps[i].names
         /\ agents[a].workspaces \subseteq steps[i].workspaces
         /\ \A f \in RunFields \ {"MaxConcurrency"} : agents[a].limits[f] <= steps[i].limits[f]

(* A step that can reach an unsafe tool, itself or through an agent at any *)
(* depth, is compiled without parallel calls at every level, is not        *)
(* retried, and is ordered with every other step (validateToolConcurrency, *)
(* validateAgentDefinitions, compileRetry).                                *)
UnsafeIsSequential ==
  stage = "admitted" =>
    \A i \in DOMAIN steps :
      LET below == AgentsOf(steps[i])
          names == steps[i].names \cup UNION {agents[a].names : a \in below}
      IN  UnsafeScope(names) =>
            /\ steps[i].attempts = 1
            /\ steps[i].limits.MaxParallelCalls = 1
            /\ \A a \in below : UnsafeScope(agents[a].names) => agents[a].limits.MaxParallelCalls = 1
            /\ \A j \in DOMAIN steps \ {i} :
                 \/ Reaches(NeedsOf(steps), steps[i].id, steps[j].id)
                 \/ Reaches(NeedsOf(steps), steps[j].id, steps[i].id)

(* What a plan publishes is what it can author: a branch with its pull     *)
(* request only with files.write and git.write.commit in the one writable  *)
(* workspace, a reply only to the subject of the event and with nothing    *)
(* written (classifyOperationSet, validateAuthoringScopes, decodeM3).      *)
PublishesWhatItAuthors ==
  stage = "admitted" =>
    /\ plan.operationSet = "branch-pr" => plan.authoring
    /\ plan.operationSet = "conversation-reply" =>
         ~plan.authoring /\ decision.control.event.subject.number > 0
    /\ \A i \in DOMAIN steps : \A r \in steps[i].workspaces :
         r.access = "write" => plan.authoring /\ r.name = cfg.policy.workspace

(* docs/ARCHITECTURE.md says the call and byte limits of a child are       *)
(* subsets of its parent's; validateAgentDefinitions compares the names of *)
(* the tools and not their limits.                                         *)
ChildToolLimitsNarrow ==
  stage = "admitted" =>
    \A a \in DOMAIN agents : \A c \in agents[a].subagents : \A t \in agents[c].names :
      \A f \in ToolFields : agents[c].toolLimits[t][f] <= agents[a].toolLimits[t][f]
=============================================================================
