-------------------------- MODULE AdmissionProofs --------------------------
(***************************************************************************)
(* Proofs about Admission for every configuration, workflow, file of       *)
(* control evidence and time.  Each stage leaves what it has checked, and  *)
(* nothing it has read is changed by a later one: that is the inductive    *)
(* invariant, and the properties follow from it without another look at    *)
(* the steps.                                                              *)
(***************************************************************************)
EXTENDS Admission, TLAPS

(* A context that is neither unknown nor a fork is that of evidence in its *)
(* window, of the operator or of an event with a head in the repository.   *)
LEMMA KnownContext ==
  ASSUME NEW e, NEW t, ContextOf(e, t) \notin {"unknown", "forked_pr"}
  PROVE  /\ e.issued <= t /\ t < e.expires
         /\ e.source = "local" \/ e.event.head.repository = e.repository
<1>1. ValidCommon(e, t)
  BY DEF ContextOf
<1>2. CASE e.source = "local"
  BY <1>1, <1>2 DEF ValidCommon
<1>3. CASE e.source # "local"
  <2>1. ContextOf(e, t) = GitHubContext(e)
    BY <1>1, <1>3 DEF ContextOf
  <2>2. e.event.head.repository = e.repository
    BY <2>1 DEF GitHubContext, PullRequestContext, SameCheckout
  <2> QED
    BY <1>1, <2>2 DEF ValidCommon
<1> QED
  BY <1>2, <1>3

Scoped  == {"tools", "agents", "steps", "admitted"}
Agented == {"agents", "steps", "admitted"}
Stepped == {"steps", "admitted"}

Decided == decision = Unknown \/ \E e \in Evidences : decision = Decode(e, now)

HasScope ==
  stage \in Scoped =>
    /\ GraphValid /\ WorkflowLimitsValid(wf.limits) /\ ToolPolicyValid
    /\ scope = [names |-> WorkflowScope.names, limits |-> WorkflowScope.limits]

(* Every workspace that an agent or an inline step asks for was checked.   *)
RequestsValid ==
  /\ \A a \in DOMAIN wf.agents : WorkspacesValid(wf.agents[a].workspaces)
  /\ \A i \in DOMAIN wf.steps : wf.steps[i].agent = "" => WorkspacesValid(wf.steps[i].workspaces)

HasAgents ==
  stage \in Agented =>
    /\ \A a \in DOMAIN wf.agents : Compiles(wf.agents[a])
    /\ AgentsValid(agents) /\ agents = CompiledAgents
    /\ RequestsValid

HasSteps ==
  stage \in Stepped =>
    /\ \A i \in DOMAIN wf.steps : StepCompiles(wf.steps[i])
    /\ \A a \in DOMAIN agents : AuthoringScope(agents[a])
    /\ \A i \in DOMAIN steps : steps[i].agent = "" => AuthoringScope(steps[i])
    /\ ConcurrencySafe(steps)
    /\ steps = [i \in DOMAIN wf.steps |-> CompileStep(wf.steps[i])]

HasPlan ==
  stage = "admitted" =>
    /\ TrustAdmits
    /\ plan = [operationSet |-> OperationSet,
               authoring |-> cfg.m3 /\ CapabilitiesOf(AllNames) \cap {"workspace.mutate", "git.mutate"} # {},
               base |-> decision.checkout]

IInv ==
  /\ cfg \in Configs /\ wf \in Workflows
  /\ Decided /\ HasScope /\ HasAgents /\ HasSteps /\ HasPlan

-----------------------------------------------------------------------------
(* What each stage has checked is about variables no later stage changes.  *)

LEMMA KeepPolicy ==
  ASSUME UNCHANGED inputs
  PROVE  /\ GraphValid' <=> GraphValid
         /\ WorkflowScope' = WorkflowScope
         /\ ToolPolicyValid' <=> ToolPolicyValid
<1>1. cfg' = cfg /\ wf' = wf
  BY DEF inputs
<1>2. GraphValid' <=> GraphValid
  BY <1>1 DEF GraphValid, Subagents, StepIds, NeedsOf
<1>3. WorkflowScope' = WorkflowScope
  BY <1>1 DEF WorkflowScope, Ceiling, Profiles
<1>4. ToolPolicyValid' <=> ToolPolicyValid
  BY <1>1, <1>3 DEF ToolPolicyValid, WorkflowScope, Ceiling, Profiles, BindingsValid
<1> QED
  BY <1>2, <1>3, <1>4

LEMMA KeepScope ==
  ASSUME HasScope, stage \in Scoped, UNCHANGED <<inputs, scope>>
  PROVE  HasScope'
<1>1. wf' = wf
  BY DEF inputs
<1> QED
  BY <1>1, KeepPolicy DEF HasScope

LEMMA KeepCompiled ==
  ASSUME NEW x, UNCHANGED <<cfg, wf, scope>>
  PROVE  /\ Compiles(x)' <=> Compiles(x)
         /\ ScopeOf(x)' = ScopeOf(x)
         /\ Compiled(x)' = Compiled(x)
<1>1. Profiles' = Profiles /\ Ceiling' = Ceiling
  BY DEF Profiles, Ceiling
<1>2. ScopeOf(x)' = ScopeOf(x)
  BY <1>1 DEF ScopeOf
<1>3. Compiles(x)' <=> Compiles(x)
  BY <1>2 DEF Compiles
<1> QED
  BY <1>2, <1>3 DEF Compiled

LEMMA KeepStep ==
  ASSUME NEW x, UNCHANGED <<cfg, wf, scope, agents>>
  PROVE  /\ StepCompiles(x)' <=> StepCompiles(x)
         /\ CompileStep(x)' = CompileStep(x)
<1>1. /\ Compiles(x)' <=> Compiles(x)
      /\ ScopeOf(x)' = ScopeOf(x)
      /\ Compiled(x)' = Compiled(x)
  BY KeepCompiled
<1> QED
  BY <1>1 DEF StepCompiles, CompileStep

LEMMA KeepRequests ==
  ASSUME UNCHANGED <<cfg, wf>>
  PROVE  RequestsValid' <=> RequestsValid
<1>1. \A x : WorkspacesValid(x)' <=> WorkspacesValid(x)
  BY DEF WorkspacesValid
<1> QED
  BY <1>1 DEF RequestsValid

LEMMA KeepAgents ==
  ASSUME HasAgents, stage \in Agented, UNCHANGED <<inputs, scope, agents>>
  PROVE  HasAgents'
<1>1. cfg' = cfg /\ wf' = wf /\ now' = now
  BY DEF inputs
<1>2. (\A a \in DOMAIN wf.agents : Compiles(wf.agents[a]))' <=>
      \A a \in DOMAIN wf.agents : Compiles(wf.agents[a])
  BY <1>1, KeepCompiled
<1>3. CompiledAgents' = CompiledAgents
  BY <1>1, KeepCompiled DEF CompiledAgents
<1>4. AgentsValid(agents)' <=> AgentsValid(agents)
  BY <1>1 DEF AgentsValid, Subagents
<1>5. RequestsValid' <=> RequestsValid
  BY <1>1, KeepRequests
<1> QED
  BY <1>1, <1>2, <1>3, <1>4, <1>5 DEF HasAgents

LEMMA KeepSteps ==
  ASSUME HasSteps, stage \in Stepped, UNCHANGED <<inputs, scope, agents, steps>>
  PROVE  HasSteps'
<1>1. cfg' = cfg /\ wf' = wf /\ now' = now
  BY DEF inputs
<1>2. (\A i \in DOMAIN wf.steps : StepCompiles(wf.steps[i]))' <=>
      \A i \in DOMAIN wf.steps : StepCompiles(wf.steps[i])
  BY <1>1, KeepStep
<1>3. [i \in DOMAIN wf.steps |-> CompileStep(wf.steps[i])]' =
      [i \in DOMAIN wf.steps |-> CompileStep(wf.steps[i])]
  BY <1>1, KeepStep
<1> QED
  BY <1>1, <1>2, <1>3 DEF HasSteps

LEMMA KeepPlan ==
  ASSUME HasPlan, stage = "admitted", UNCHANGED vars
  PROVE  HasPlan'
<1>1. cfg' = cfg /\ decision' = decision /\ scope' = scope /\ agents' = agents /\ steps' = steps
  BY DEF inputs, vars
<1>2. AllNames' = AllNames
  BY <1>1 DEF AllNames
<1>3. OperationSet' = OperationSet
  BY <1>2 DEF OperationSet
<1>4. TrustAdmits' <=> TrustAdmits
  BY <1>1, <1>2, <1>3 DEF TrustAdmits, OperationSetAdmitted, Admitted
<1> QED
  BY <1>1, <1>2, <1>3, <1>4 DEF HasPlan, vars

(* A refused workflow stays one.                                           *)
LEMMA Refused == ASSUME IInv, Refuse PROVE IInv'
<1>1. UNCHANGED <<inputs, decision>> /\ stage' = "refused"
  BY DEF Refuse
<1> QED
  BY <1>1 DEF IInv, inputs, Decided, HasScope, HasAgents, HasSteps, HasPlan, Scoped, Agented, Stepped

LEMMA InitIInv == Init => IInv
BY DEF Init, inputs, IInv, Decided, HasScope, HasAgents, HasSteps, HasPlan, Scoped, Agented, Stepped

LEMMA NextIInv == IInv /\ [Next]_vars => IInv'
<1> SUFFICES ASSUME IInv, [Next]_vars PROVE IInv'
  OBVIOUS
<1> USE DEF IInv, Scoped, Agented, Stepped
<1>1. CASE Refuse
  BY <1>1, Refused
<1>2. CASE LoadConfig /\ ~Refuse
  BY <1>2 DEF LoadConfig, inputs, Decided, HasScope, HasAgents, HasSteps, HasPlan
<1>3. CASE LoadControl /\ ~Refuse
  <2>1. UNCHANGED inputs /\ stage' = "control"
    BY <1>3 DEF LoadControl
  <2>2. decision' = Unknown \/ \E e \in Evidences : decision' = Decode(e, now)
    BY <1>3 DEF LoadControl
  <2> QED
    BY <2>1, <2>2 DEF inputs, Decided, HasScope, HasAgents, HasSteps, HasPlan
<1>4. CASE CompileTools /\ ~Refuse
  <2>1. /\ GraphValid /\ WorkflowLimitsValid(wf.limits) /\ ToolPolicyValid
        /\ scope' = [names |-> WorkflowScope.names, limits |-> WorkflowScope.limits]
        /\ stage' = "tools" /\ UNCHANGED <<inputs, decision, agents, steps, plan>>
    BY <1>4 DEF CompileTools
  <2>2. cfg' = cfg /\ wf' = wf /\ now' = now
    BY <2>1 DEF inputs
  <2>3. HasScope'
    BY <2>1, <2>2, KeepPolicy DEF HasScope
  <2> QED
    BY <2>1, <2>2, <2>3 DEF Decided, HasAgents, HasSteps, HasPlan
<1>5. CASE CompileAgents /\ ~Refuse
  <2>1. /\ stage = "tools" /\ stage' = "agents" /\ UNCHANGED <<inputs, decision, scope, steps, plan>>
        /\ \A a \in DOMAIN wf.agents : Compiles(wf.agents[a])
        /\ AgentsValid(CompiledAgents) /\ agents' = CompiledAgents
    BY <1>5 DEF CompileAgents
  <2>0. RequestsValid
    <3>1. \A a \in DOMAIN wf.agents : WorkspacesValid(wf.agents[a].workspaces)
      BY <1>5 DEF CompileAgents
    <3>2. \A i \in DOMAIN wf.steps : wf.steps[i].agent = "" => WorkspacesValid(wf.steps[i].workspaces)
      BY <1>5 DEF CompileAgents
    <3> QED
      BY <3>1, <3>2 DEF RequestsValid
  <2>2. cfg' = cfg /\ wf' = wf /\ now' = now
    BY <2>1 DEF inputs
  <2>3. HasScope'
    BY <2>1, KeepScope
  <2>4. (\A a \in DOMAIN wf.agents : Compiles(wf.agents[a]))'
    BY <2>1, <2>2, KeepCompiled
  <2>5. CompiledAgents' = CompiledAgents
    BY <2>1, <2>2, KeepCompiled DEF CompiledAgents
  <2>6. AgentsValid(agents)'
    BY <2>1, <2>2 DEF AgentsValid, Subagents
  <2>7. RequestsValid'
    BY <2>0, <2>2, KeepRequests
  <2>8. HasAgents'
    BY <2>1, <2>4, <2>5, <2>6, <2>7 DEF HasAgents
  <2> QED
    BY <2>1, <2>2, <2>3, <2>8 DEF Decided, HasSteps, HasPlan
<1>6. CASE CompileSteps /\ ~Refuse
  <2> DEFINE S == [i \in DOMAIN wf.steps |-> CompileStep(wf.steps[i])]
  <2>1. /\ stage = "agents" /\ stage' = "steps" /\ UNCHANGED <<inputs, decision, scope, agents, plan>>
        /\ \A i \in DOMAIN wf.steps : StepCompiles(wf.steps[i])
        /\ \A a \in DOMAIN agents : AuthoringScope(agents[a])
        /\ \A i \in DOMAIN S : S[i].agent = "" => AuthoringScope(S[i])
        /\ ConcurrencySafe(S) /\ steps' = S
    BY <1>6 DEF CompileSteps
  <2>2. cfg' = cfg /\ wf' = wf /\ now' = now
    BY <2>1 DEF inputs
  <2>3. HasScope' /\ HasAgents'
    BY <2>1, KeepScope, KeepAgents
  <2>4. (\A i \in DOMAIN wf.steps : StepCompiles(wf.steps[i]))'
    BY <2>1, <2>2, KeepStep
  <2>5. S' = S
    BY <2>1, <2>2, KeepStep
  <2>6. HasSteps'
    BY <2>1, <2>4, <2>5 DEF HasSteps
  <2> QED
    BY <2>1, <2>2, <2>3, <2>6 DEF Decided, HasPlan
<1>7. CASE CompileTrust /\ ~Refuse
  <2>1. /\ stage = "steps" /\ stage' = "admitted" /\ UNCHANGED <<inputs, decision, scope, agents, steps>>
        /\ TrustAdmits
        /\ plan' = [operationSet |-> OperationSet,
                    authoring |-> cfg.m3 /\ CapabilitiesOf(AllNames) \cap {"workspace.mutate", "git.mutate"} # {},
                    base |-> decision.checkout]
    BY <1>7 DEF CompileTrust
  <2>2. cfg' = cfg /\ wf' = wf /\ now' = now
    BY <2>1 DEF inputs
  <2>3. HasScope' /\ HasAgents' /\ HasSteps'
    BY <2>1, KeepScope, KeepAgents, KeepSteps
  <2>4. AllNames' = AllNames
    BY <2>1 DEF AllNames
  <2>5. OperationSet' = OperationSet
    BY <2>4 DEF OperationSet
  <2>6. TrustAdmits'
    BY <2>1, <2>2, <2>4, <2>5 DEF TrustAdmits, OperationSetAdmitted, Admitted
  <2>7. HasPlan'
    BY <2>1, <2>2, <2>4, <2>5, <2>6 DEF HasPlan
  <2> QED
    BY <2>1, <2>2, <2>3, <2>7 DEF Decided
<1>8. CASE UNCHANGED vars
  <2>1. cfg' = cfg /\ wf' = wf /\ now' = now /\ decision' = decision /\ stage' = stage
    BY <1>8 DEF vars, inputs
  <2>2. HasScope'
    BY <1>8, <2>1, KeepScope DEF vars, HasScope
  <2>3. HasAgents'
    BY <1>8, <2>1, KeepAgents DEF vars, HasAgents
  <2>4. HasSteps'
    BY <1>8, <2>1, KeepSteps DEF vars, HasSteps
  <2>5. HasPlan'
    BY <1>8, <2>1, KeepPlan DEF HasPlan
  <2> QED
    BY <2>1, <2>2, <2>3, <2>4, <2>5 DEF Decided
<1> QED
  BY <1>1, <1>2, <1>3, <1>4, <1>5, <1>6, <1>7, <1>8 DEF Next

(* Everything a stage has checked still holds when a plan is admitted.     *)
THEOREM Checked == Spec => []IInv
<1> QED
  BY InitIInv, NextIInv, PTL DEF Spec

-----------------------------------------------------------------------------
(* What the stages have compiled.                                          *)

LEMMA InCatalog == Ceiling.names \subseteq Catalog(cfg.m3)
BY DEF Ceiling, ResolveCeiling, Expand

(* A scope that compiled is within the ceiling and its parent.             *)
LEMMA ScopeCompiled ==
  ASSUME NEW x, NEW requested, NEW profiles, NEW catalog, NEW ceiling, NEW parent,
         NEW parentLimits, NEW root, NEW limits,
         CompileToolScope(x, requested, profiles, catalog, ceiling, parent, parentLimits, root, limits).ok
  PROVE  LET c == CompileToolScope(x, requested, profiles, catalog, ceiling, parent, parentLimits, root, limits)
         IN  /\ c.names \subseteq ceiling
             /\ root \/ c.names \subseteq parent
BY DEF CompileToolScope, ResolveScope, WithinParent

LEMMA StepFields ==
  ASSUME NEW s
  PROVE  LET c == CompileStep(s) IN
         /\ c.id = s.id /\ c.agent = s.agent /\ c.needs = s.needs
         /\ s.agent = "" => /\ c.names = ScopeOf(s).names /\ c.toolLimits = ScopeOf(s).limits
                            /\ c.workspaces = s.workspaces
                            /\ c.limits = Narrowed(s.limits, wf.limits)
                            /\ c.attempts = Attempts(s.retry)
         /\ s.agent # "" => /\ c.names = agents[s.agent].names
                            /\ c.toolLimits = agents[s.agent].toolLimits
                            /\ c.workspaces = agents[s.agent].workspaces
                            /\ c.limits = agents[s.agent].limits
                            /\ c.attempts = 1
BY DEF CompileStep, Compiled

LEMMA AgentFields ==
  ASSUME NEW a \in DOMAIN wf.agents
  PROVE  LET c == CompiledAgents[a]  x == wf.agents[a] IN
         /\ c.mode = x.mode /\ c.subagents = x.subagents
         /\ c.names = ScopeOf(x).names /\ c.toolLimits = ScopeOf(x).limits
         /\ c.workspaces = x.workspaces
         /\ c.limits = Narrowed(x.limits, wf.limits)
BY DEF CompiledAgents, Compiled

(* A step is an inline one, or one of an agent that is defined.            *)
LEMMA StepOf ==
  ASSUME IInv, stage \in Stepped, NEW i \in DOMAIN steps
  PROVE  /\ i \in DOMAIN wf.steps /\ steps[i] = CompileStep(wf.steps[i])
         /\ StepCompiles(wf.steps[i])
         /\ wf.steps[i].agent # "" => wf.steps[i].agent \in DOMAIN wf.agents
         /\ DOMAIN agents = DOMAIN wf.agents
<1>1. /\ i \in DOMAIN wf.steps /\ steps[i] = CompileStep(wf.steps[i])
      /\ StepCompiles(wf.steps[i])
  BY DEF IInv, HasSteps
<1>2. wf.steps[i].agent # "" => wf.steps[i].agent \in DOMAIN wf.agents
  BY <1>1 DEF IInv, HasScope, Scoped, Stepped, GraphValid
<1>3. DOMAIN agents = DOMAIN wf.agents
  BY DEF IInv, HasAgents, Agented, Stepped, CompiledAgents
<1> QED
  BY <1>1, <1>2, <1>3

LEMMA ScopeNames ==
  ASSUME IInv, stage \in Scoped
  PROVE  scope.names \subseteq Ceiling.names
<1>1. WorkflowScope.ok /\ scope.names = WorkflowScope.names
  BY DEF IInv, HasScope, ToolPolicyValid
<1>2. WorkflowScope.names \subseteq Ceiling.names
  BY <1>1, ScopeCompiled DEF WorkflowScope
<1> QED
  BY <1>1, <1>2

LEMMA CompiledNames ==
  ASSUME NEW x, Compiles(x)
  PROVE  ScopeOf(x).names \subseteq scope.names
BY ScopeCompiled DEF Compiles, ScopeOf

LEMMA AgentNames ==
  ASSUME IInv, stage \in Agented, NEW a \in DOMAIN agents
  PROVE  agents[a].names \subseteq scope.names
<1>1. a \in DOMAIN wf.agents /\ agents = CompiledAgents /\ Compiles(wf.agents[a])
  BY DEF IInv, HasAgents, CompiledAgents
<1> QED
  BY <1>1, AgentFields, CompiledNames

LEMMA StepNames ==
  ASSUME IInv, stage \in Stepped, NEW i \in DOMAIN steps
  PROVE  steps[i].names \subseteq scope.names
<1> DEFINE s == wf.steps[i]
<1>1. CASE s.agent # ""
  <2>1. s.agent \in DOMAIN agents /\ steps[i].names = agents[s.agent].names
    BY <1>1, StepOf, StepFields
  <2> QED
    BY <2>1, AgentNames DEF Stepped, Agented
<1>2. CASE s.agent = ""
  <2>1. Compiles(s) /\ steps[i].names = ScopeOf(s).names
    BY <1>2, StepOf, StepFields DEF StepCompiles
  <2> QED
    BY <2>1, CompiledNames
<1> QED
  BY <1>1, <1>2

LEMMA AllInCatalog ==
  ASSUME IInv, stage \in Stepped
  PROVE  AllNames \subseteq Catalog(cfg.m3)
<1>1. AllNames \subseteq scope.names
  <2> SUFFICES ASSUME NEW t \in AllNames PROVE t \in scope.names
    OBVIOUS
  <2>1. \/ t \in scope.names
        \/ \E a \in DOMAIN agents : t \in agents[a].names
        \/ \E i \in DOMAIN steps : t \in steps[i].names
    BY DEF AllNames
  <2>2. stage \in Agented
    BY DEF Agented, Stepped
  <2> QED
    BY <2>1, <2>2, AgentNames, StepNames
<1>2. scope.names \subseteq Catalog(cfg.m3)
  BY ScopeNames, InCatalog DEF Scoped, Stepped
<1> QED
  BY <1>1, <1>2

-----------------------------------------------------------------------------

LEMMA UnsafeCapability ==
  ASSUME NEW t \in UnsafeTools
  PROVE  CapabilityOf(t) \in GrantCapabilities \cup StagedCapabilities
BY DEF UnsafeTools, M3Tools, SafeOutput, Branch, DraftPR, Reply, CapabilityOf, FilesRead, GitRead, GitHubRead,
       GrantCapabilities, StagedCapabilities

(* Only the capabilities that read are given without a context.            *)
LEMMA NotRead ==
  ASSUME NEW c \in GrantCapabilities \cup StagedCapabilities, NEW context
  PROVE  EligibilityFor(context, c) # "read"
BY DEF EligibilityFor, GrantCapabilities, StagedCapabilities, ReadCapabilities

(* A plan with a tool that writes, publishes or runs a process was admitted*)
(* from evidence that allows it.                                           *)
LEMMA AdmittedMutation ==
  ASSUME IInv, stage = "admitted", UnsafeScope(AllNames)
  PROVE  MutationNeedsTrust
<1> PICK t \in AllNames : t \in UnsafeTools
  BY DEF UnsafeScope
<1> DEFINE c == CapabilityOf(t)
<1>1. TrustAdmits /\ plan.base = decision.checkout
  BY DEF IInv, HasPlan
<1>2. c \in CapabilitiesOf(AllNames) /\ c \in GrantCapabilities \cup StagedCapabilities
  BY UnsafeCapability DEF CapabilitiesOf
<1>3. CASE cfg.m3 \/ decision.present
  <2>1. Admitted(c) /\ (cfg.m3 => decision.id = cfg.policy.id)
    BY <1>1, <1>2, <1>3 DEF TrustAdmits
  <2>2. cfg.m3 /\ decision.context \notin {"forked_pr", "unknown"}
    BY <1>2, <2>1, NotRead DEF Admitted
  <2> Unknown.context = "unknown"
    BY DEF Unknown
  <2> decision # Unknown
    BY <2>2
  <2>3. PICK e \in Evidences : decision = Decode(e, now)
    BY DEF IInv, Decided
  <2>4. /\ decision.present /\ decision.control = e /\ decision.id = e.id
        /\ decision.checkout = e.checkout /\ decision.context = ContextOf(e, now)
    BY <2>3 DEF Decode
  <2>5. /\ e.issued <= now /\ now < e.expires
        /\ e.source = "local" \/ e.event.head.repository = e.repository
    BY <2>2, <2>4, KnownContext
  <2> QED
    BY <1>1, <2>1, <2>2, <2>4, <2>5 DEF MutationNeedsTrust
<1>4. CASE ~cfg.m3 /\ ~decision.present
  <2>1. AllNames \subseteq BuiltinCatalog
    BY <1>4, AllInCatalog DEF Catalog, Stepped
  <2>2. BuiltinCatalog \cap UnsafeTools = {"shell.run"}
    BY DEF BuiltinCatalog, UnsafeTools, M3Tools, SafeOutput, Branch, DraftPR, Reply, FilesRead, GitRead, GitHubRead
  <2>3. AllNames \cap UnsafeTools = {"shell.run"}
    BY <2>1, <2>2
  <2> QED
    BY <1>4, <2>3 DEF MutationNeedsTrust
<1> QED
  BY <1>3, <1>4

(* MutationNeedsTrust, for every configuration, workflow and evidence.     *)
THEOREM TrustedMutation == Spec => []MutationNeedsTrust
<1>1. IInv => MutationNeedsTrust
  BY AdmittedMutation DEF MutationNeedsTrust
<1> QED
  BY <1>1, Checked, PTL

-----------------------------------------------------------------------------
(* Limits and authority below a step.                                      *)

(* A limit that is not given is the parent's, one that is given is not     *)
(* above it: narrowing keeps a limit positive.                             *)
LEMMA NarrowedWithin ==
  ASSUME NEW F, NEW requested \in [F -> Int], NEW parent \in [F -> Int],
         Narrows(requested, parent)
  PROVE  /\ Narrowed(requested, parent) \in [F -> Int]
         /\ \A f \in F : /\ Narrowed(requested, parent)[f] <= parent[f]
                         /\ parent[f] > 0 => Narrowed(requested, parent)[f] > 0
BY DEF Narrows, Narrowed

LEMMA RequestFields ==
  ASSUME NEW requested, NEW t, \A u \in DOMAIN requested : requested[u] \in [ToolFields -> Int]
  PROVE  RequestOf(requested, t) \in [ToolFields -> Int]
BY DEF RequestOf, NotRequested

(* The workflow's scope narrows the trusted limits.                        *)
LEMMA ScopeLimits ==
  ASSUME IInv, stage \in Scoped, NEW t \in scope.names
  PROVE  /\ scope.limits[t] \in [ToolFields -> Int]
         /\ \A f \in ToolFields : scope.limits[t][f] <= cfg.toolLimits[t][f]
<1>1. WorkflowScope.ok /\ scope.names = WorkflowScope.names /\ scope.limits = WorkflowScope.limits
  BY DEF IInv, HasScope, ToolPolicyValid
<1> \A u \in WorkflowScope.names :
      /\ Narrows(RequestOf(wf.toolLimits, u), cfg.toolLimits[u])
      /\ WorkflowScope.limits[u] = Narrowed(RequestOf(wf.toolLimits, u), cfg.toolLimits[u])
  <2>1. WorkflowScope.ok
    BY <1>1
  <2> QED
    BY <2>1 DEF WorkflowScope, CompileToolScope
<1>2. /\ Narrows(RequestOf(wf.toolLimits, t), cfg.toolLimits[t])
      /\ scope.limits[t] = Narrowed(RequestOf(wf.toolLimits, t), cfg.toolLimits[t])
  BY <1>1
<1>3. t \in DOMAIN cfg.toolLimits
  BY <1>1 DEF WorkflowScope, CompileToolScope
<1>4. cfg.toolLimits[t] \in [ToolFields -> Int]
  BY <1>3, AdmissionAssumption DEF IInv
<1>5. RequestOf(wf.toolLimits, t) \in [ToolFields -> Int]
  BY RequestFields, AdmissionAssumption DEF IInv
<1> QED
  BY <1>2, <1>4, <1>5, NarrowedWithin

(* What an agent or an inline step requests.                               *)
Requests(x) ==
  /\ x.limits \in [RunFields -> Int]
  /\ \A t \in DOMAIN x.toolLimits : x.toolLimits[t] \in [ToolFields -> Int]

LEMMA WorkflowLimits == IInv => wf.limits \in [RunFields -> Int]
BY AdmissionAssumption DEF IInv

LEMMA AgentRequests ==
  ASSUME IInv, NEW a \in DOMAIN wf.agents
  PROVE  Requests(wf.agents[a])
BY AdmissionAssumption DEF IInv, Requests

LEMMA StepRequests ==
  ASSUME IInv, NEW i \in DOMAIN wf.steps, wf.steps[i].agent = ""
  PROVE  Requests(wf.steps[i]) /\ wf.steps[i].retry.attempts \in Int
BY AdmissionAssumption DEF IInv, Requests

(* What compiles is within the workflow's limits and scope.                *)
LEMMA CompiledLimits ==
  ASSUME IInv, stage \in Scoped, NEW x, Requests(x), Compiles(x)
  PROVE  /\ Narrowed(x.limits, wf.limits) \in [RunFields -> Int]
         /\ \A f \in RunFields : /\ Narrowed(x.limits, wf.limits)[f] <= wf.limits[f]
                                 /\ wf.limits[f] > 0 => Narrowed(x.limits, wf.limits)[f] > 0
         /\ \A t \in ScopeOf(x).names : \A f \in ToolFields :
              ScopeOf(x).limits[t][f] <= scope.limits[t][f]
<1>1. Narrows(x.limits, wf.limits) /\ x.limits \in [RunFields -> Int]
  BY DEF Compiles, Requests
<1>2. /\ Narrowed(x.limits, wf.limits) \in [RunFields -> Int]
      /\ \A f \in RunFields : /\ Narrowed(x.limits, wf.limits)[f] <= wf.limits[f]
                              /\ wf.limits[f] > 0 => Narrowed(x.limits, wf.limits)[f] > 0
  BY <1>1, WorkflowLimits, NarrowedWithin
<1>3. ASSUME NEW t \in ScopeOf(x).names
      PROVE  \A f \in ToolFields : ScopeOf(x).limits[t][f] <= scope.limits[t][f]
  <2> ScopeOf(x).ok
    BY DEF Compiles
  <2> \A u \in ScopeOf(x).names :
        /\ Narrows(RequestOf(x.toolLimits, u), scope.limits[u])
        /\ ScopeOf(x).limits[u] = Narrowed(RequestOf(x.toolLimits, u), scope.limits[u])
    BY DEF ScopeOf, CompileToolScope
  <2>1. /\ Narrows(RequestOf(x.toolLimits, t), scope.limits[t])
        /\ ScopeOf(x).limits[t] = Narrowed(RequestOf(x.toolLimits, t), scope.limits[t])
    BY <1>3
  <2>2. t \in scope.names
    BY <1>3, CompiledNames
  <2>3. RequestOf(x.toolLimits, t) \in [ToolFields -> Int]
    BY RequestFields DEF Requests
  <2> QED
    BY <2>1, <2>2, <2>3, ScopeLimits, NarrowedWithin
<1> QED
  BY <1>2, <1>3

(* Everything compiled, agents and steps alike.                            *)
Within(x) ==
  /\ x.names \subseteq scope.names
  /\ x.limits \in [RunFields -> Int]
  /\ \A f \in RunFields : x.limits[f] <= wf.limits[f] /\ (wf.limits[f] > 0 => x.limits[f] > 0)
  /\ \A t \in x.names : \A f \in ToolFields : x.toolLimits[t][f] <= scope.limits[t][f]

LEMMA AgentWithin ==
  ASSUME IInv, stage \in Agented, NEW a \in DOMAIN agents
  PROVE  Within(agents[a])
<1>1. a \in DOMAIN wf.agents /\ agents = CompiledAgents /\ Compiles(wf.agents[a])
  BY DEF IInv, HasAgents, CompiledAgents
<1>2. stage \in Scoped
  BY DEF Scoped, Agented
<1>3. Requests(wf.agents[a])
  BY <1>1, AgentRequests
<1>4. /\ agents[a].names = ScopeOf(wf.agents[a]).names
      /\ agents[a].toolLimits = ScopeOf(wf.agents[a]).limits
      /\ agents[a].limits = Narrowed(wf.agents[a].limits, wf.limits)
  BY <1>1, AgentFields
<1>5. agents[a].names \subseteq scope.names
  BY AgentNames
<1> QED
  BY <1>1, <1>2, <1>3, <1>4, <1>5, CompiledLimits DEF Within

LEMMA StepWithin ==
  ASSUME IInv, stage \in Stepped, NEW i \in DOMAIN steps
  PROVE  Within(steps[i])
<1> DEFINE s == wf.steps[i]
<1>1. steps[i].names \subseteq scope.names
  BY StepNames
<1>2. CASE s.agent # ""
  <2>1. /\ s.agent \in DOMAIN agents
        /\ steps[i].limits = agents[s.agent].limits
        /\ steps[i].toolLimits = agents[s.agent].toolLimits
        /\ steps[i].names = agents[s.agent].names
    BY <1>2, StepOf, StepFields
  <2>2. Within(agents[s.agent])
    BY <2>1, AgentWithin DEF Stepped, Agented
  <2> QED
    BY <2>1, <2>2 DEF Within
<1>3. CASE s.agent = ""
  <2>1. /\ i \in DOMAIN wf.steps /\ Compiles(s)
        /\ steps[i].limits = Narrowed(s.limits, wf.limits)
        /\ steps[i].toolLimits = ScopeOf(s).limits
        /\ steps[i].names = ScopeOf(s).names
    BY <1>3, StepOf, StepFields DEF StepCompiles
  <2>2. Requests(s)
    BY <1>3, <2>1, StepRequests
  <2>3. stage \in Scoped
    BY DEF Scoped, Stepped
  <2> QED
    BY <1>1, <2>1, <2>2, <2>3, CompiledLimits DEF Within
<1> QED
  BY <1>2, <1>3

(* The agents within a step are a set the subagents do not leave: the ones *)
(* below the step are in it, at any depth.                                 *)
LEMMA BelowWithin ==
  ASSUME IInv, stage \in Stepped, NEW i \in DOMAIN steps, NEW b \in AgentsOf(steps[i])
  PROVE  b \in DOMAIN agents /\ ChildWithin(agents[b], steps[i])
<1> DEFINE a == wf.steps[i].agent
           G == Subagents
           S == {c \in DOMAIN agents : ChildWithin(agents[c], steps[i])}
<1>1. steps[i].agent = a /\ a # ""
  BY StepOf, StepFields DEF AgentsOf
<1>2. /\ a \in DOMAIN agents /\ DOMAIN agents = DOMAIN wf.agents
      /\ steps[i].names = agents[a].names /\ steps[i].limits = agents[a].limits
      /\ steps[i].workspaces = agents[a].workspaces
  BY <1>1, StepOf, StepFields
<1>3. stage \in Agented /\ stage \in Scoped
  BY DEF Stepped, Agented, Scoped
<1>4. \A c \in DOMAIN agents : agents[c].limits \in [RunFields -> Int]
  BY <1>3, AgentWithin DEF Within
<1>5. ASSUME NEW c \in DOMAIN agents, NEW d \in G[c]
      PROVE  d \in DOMAIN agents /\ ChildWithin(agents[d], agents[c])
  <2>1. agents = CompiledAgents /\ AgentsValid(agents)
    BY <1>3 DEF IInv, HasAgents
  <2>2. d \in wf.agents[c].subagents /\ agents[c].subagents = wf.agents[c].subagents
    BY <1>2, <1>5, <2>1, AgentFields DEF Subagents
  <2>3. d \in DOMAIN agents
    BY <1>2, <1>3, <2>2 DEF IInv, HasScope, GraphValid
  <2> QED
    BY <2>1, <2>2, <2>3 DEF AgentsValid
<1>6. a \in S
  BY <1>2, <1>4 DEF ChildWithin, LimitsSubset
<1>7. ASSUME NEW c \in S, NEW d \in G[c] PROVE d \in S
  <2>1. c \in DOMAIN agents /\ ChildWithin(agents[c], steps[i])
    OBVIOUS
  <2>2. d \in DOMAIN agents /\ ChildWithin(agents[d], agents[c])
    BY <1>5, <1>7, <2>1
  <2>3. /\ agents[d].limits \in [RunFields -> Int] /\ agents[c].limits \in [RunFields -> Int]
        /\ steps[i].limits \in [RunFields -> Int]
    BY <1>2, <1>4, <2>1, <2>2
  <2>4. ChildWithin(agents[d], steps[i])
    BY <2>1, <2>2, <2>3 DEF ChildWithin, LimitsSubset
  <2> QED
    BY <2>2, <2>4
<1>8. DOMAIN G = DOMAIN agents
  BY <1>2 DEF Subagents
<1>9. b \in DOMAIN agents /\ (b = a \/ Reaches(G, a, b))
  BY <1>1 DEF AgentsOf, Below
<1>10. CASE Reaches(G, a, b)
  <2>1. S \in SUBSET DOMAIN G /\ G[a] \subseteq S /\ Closed(G, S)
    BY <1>6, <1>7, <1>8 DEF Closed
  <2>2. b \in S
    BY <1>10, <2>1 DEF Reaches, Reach
  <2> QED
    BY <2>2
<1> QED
  BY <1>6, <1>9, <1>10

(* AuthorityNarrows, for every configuration, workflow and depth of agents.*)
THEOREM NarrowAuthority == Spec => []AuthorityNarrows
<1>1. ASSUME IInv, stage = "admitted" PROVE AuthorityNarrows
  <2>1. stage \in Scoped /\ stage \in Agented /\ stage \in Stepped
    BY <1>1 DEF Scoped, Agented, Stepped
  <2>2. scope.names \subseteq Ceiling.names
    BY <1>1, <2>1, ScopeNames
  <2>3. ASSUME NEW x \in {agents[a] : a \in DOMAIN agents} \cup {steps[i] : i \in DOMAIN steps}
        PROVE  Within(x)
    BY <1>1, <2>1, <2>3, AgentWithin, StepWithin
  <2>4. ASSUME NEW t \in scope.names, NEW f \in ToolFields
        PROVE  scope.limits[t][f] <= cfg.toolLimits[t][f]
    BY <1>1, <2>1, <2>4, ScopeLimits
  <2>5. ASSUME NEW i \in DOMAIN steps, NEW a \in AgentsOf(steps[i])
        PROVE  ChildWithin(agents[a], steps[i])
    BY <1>1, <2>1, <2>5, BelowWithin
  <2> QED
    BY <2>2, <2>3, <2>4, <2>5 DEF AuthorityNarrows, Within, ChildWithin, LimitsSubset
<1>2. IInv => AuthorityNarrows
  BY <1>1 DEF AuthorityNarrows
<1> QED
  BY <1>2, Checked, PTL

(* UnsafeIsSequential, for every configuration, workflow and depth of      *)
(* agents.                                                                 *)
THEOREM SequentialUnsafe == Spec => []UnsafeIsSequential
<1>1. ASSUME IInv, stage = "admitted", NEW i \in DOMAIN steps,
             UnsafeScope(steps[i].names \cup (UNION {agents[a].names : a \in AgentsOf(steps[i])}))
      PROVE  /\ steps[i].attempts = 1
             /\ steps[i].limits.MaxParallelCalls = 1
             /\ \A a \in AgentsOf(steps[i]) :
                  UnsafeScope(agents[a].names) => agents[a].limits.MaxParallelCalls = 1
             /\ \A j \in DOMAIN steps \ {i} :
                  \/ Reaches(NeedsOf(steps), steps[i].id, steps[j].id)
                  \/ Reaches(NeedsOf(steps), steps[j].id, steps[i].id)
  <2>1. stage \in Scoped /\ stage \in Agented /\ stage \in Stepped
    BY <1>1 DEF Scoped, Agented, Stepped
  <2>2. \A a \in AgentsOf(steps[i]) : a \in DOMAIN agents /\ ChildWithin(agents[a], steps[i])
    BY <1>1, <2>1, BelowWithin
  <2>3. UnsafeScope(steps[i].names)
    BY <1>1, <2>2 DEF UnsafeScope, ChildWithin
  <2>4. ConcurrencySafe(steps)
    BY <1>1, <2>1 DEF IInv, HasSteps
  <2>5. wf.limits.MaxParallelCalls > 0
    BY <1>1, <2>1 DEF IInv, HasScope, WorkflowLimitsValid
  <2>6. steps[i].limits.MaxParallelCalls \in Int /\ steps[i].limits.MaxParallelCalls > 0
    BY <1>1, <2>1, <2>5, StepWithin DEF Within, RunFields
  <2>7. steps[i].limits.MaxParallelCalls = 1
    BY <2>3, <2>4, <2>6 DEF ConcurrencySafe
  <2>8. ASSUME NEW a \in AgentsOf(steps[i]) PROVE agents[a].limits.MaxParallelCalls = 1
    <3>1. agents[a].limits.MaxParallelCalls \in Int /\ agents[a].limits.MaxParallelCalls > 0
      BY <1>1, <2>1, <2>2, <2>5, <2>8, AgentWithin DEF Within, RunFields
    <3>2. agents[a].limits.MaxParallelCalls <= steps[i].limits.MaxParallelCalls
      BY <2>2, <2>8 DEF ChildWithin, LimitsSubset, RunFields
    <3> QED
      BY <2>7, <3>1, <3>2
  <2>9. steps[i].attempts = 1
    <3> DEFINE s == wf.steps[i]
    <3>1. CASE s.agent # ""
      BY <1>1, <2>1, <3>1, StepOf, StepFields
    <3>2. CASE s.agent = ""
      <4>1. /\ i \in DOMAIN wf.steps /\ StepCompiles(s)
            /\ steps[i].names = ScopeOf(s).names /\ steps[i].attempts = Attempts(s.retry)
        BY <1>1, <2>1, <3>2, StepOf, StepFields
      <4>2. RetryValid(s.retry, steps[i].names)
        BY <3>2, <4>1 DEF StepCompiles
      <4>3. s.retry.attempts \in Int
        BY <1>1, <3>2, <4>1, StepRequests
      <4> QED
        BY <2>3, <4>1, <4>2, <4>3 DEF RetryValid, Attempts
    <3> QED
      BY <3>1, <3>2
  <2>10. \A j \in DOMAIN steps \ {i} :
           \/ Reaches(NeedsOf(steps), steps[i].id, steps[j].id)
           \/ Reaches(NeedsOf(steps), steps[j].id, steps[i].id)
    BY <2>3, <2>4 DEF ConcurrencySafe
  <2> QED
    BY <2>7, <2>8, <2>9, <2>10
<1>2. IInv => UnsafeIsSequential
  BY <1>1 DEF UnsafeIsSequential
<1> QED
  BY <1>2, Checked, PTL

-----------------------------------------------------------------------------
(* What a plan publishes, and what it can author.                          *)

Mutation == {"workspace.mutate", "git.mutate"}

LEMMA MutatingTools ==
  ASSUME NEW m3, NEW t \in Catalog(m3)
  PROVE  CapabilityOf(t) \in Mutation <=> t \in {"files.write", "git.write.commit"}
<1>1. t \in BuiltinCatalog \cup M3Tools
  BY DEF Catalog
<1> QED
  BY <1>1 DEF BuiltinCatalog, M3Tools, SafeOutput, CapabilityOf, Mutation, FilesRead, GitRead, GitHubRead,
     Branch, DraftPR, Reply

(* An event that has a subject, in a context that is known, has its number.*)
LEMMA KnownSubject ==
  ASSUME NEW e, NEW t, ContextOf(e, t) \notin {"unknown", "forked_pr"},
         e.event.subject.kind \in {"issue", "pull_request"}
  PROVE  e.event.subject.number > 0
<1>1. ~ValidLocal(e)
  BY DEF ValidLocal, NoEvent, NoSubject
<1>2. ValidGitHub(e)
  BY <1>1 DEF ContextOf
<1> QED
  BY <1>2 DEF ValidGitHub, ValidSubject

(* A plan that publishes was admitted by a policy from known evidence.     *)
LEMMA PublishingIsTrusted ==
  ASSUME IInv, stage = "admitted", OperationSet # "none"
  PROVE  /\ cfg.m3 /\ OperationSetAdmitted
         /\ Reply \in AllNames => decision.context \notin {"forked_pr", "unknown"}
<1>1. TrustAdmits
  BY DEF IInv, HasPlan
<1>2. AllNames \cap SafeOutput # {}
  BY DEF OperationSet
<1>3. cfg.m3 \/ decision.present
  <2>1. CASE ~cfg.m3
    <3>1. AllNames \subseteq BuiltinCatalog
      BY <2>1, AllInCatalog DEF Catalog, Stepped
    <3>2. BuiltinCatalog \cap SafeOutput = {}
      BY DEF BuiltinCatalog, SafeOutput, Branch, DraftPR, Reply, FilesRead, GitRead, GitHubRead
    <3> QED
      BY <1>2, <3>1, <3>2
  <2> QED
    BY <2>1
<1>4. cfg.m3 /\ OperationSetAdmitted /\ \A c \in CapabilitiesOf(AllNames) : Admitted(c)
  BY <1>1, <1>3 DEF TrustAdmits, OperationSetAdmitted
<1>5. ASSUME Reply \in AllNames PROVE decision.context \notin {"forked_pr", "unknown"}
  <2>1. Reply \in UnsafeTools
    BY DEF UnsafeTools, M3Tools, SafeOutput
  <2>2. CapabilityOf(Reply) \in CapabilitiesOf(AllNames)
    BY <1>5 DEF CapabilitiesOf
  <2>3. CapabilityOf(Reply) \in GrantCapabilities \cup StagedCapabilities
    BY <2>1, UnsafeCapability
  <2> QED
    BY <1>4, <2>2, <2>3, NotRead DEF Admitted
<1> QED
  BY <1>4, <1>5

(* A step's workspaces are the ones it, or the agent it runs, asks for.    *)
LEMMA WritableIsAuthored ==
  ASSUME IInv, stage = "admitted", NEW i \in DOMAIN steps, NEW r \in steps[i].workspaces, r.access = "write"
  PROVE  /\ cfg.m3 /\ r.name = cfg.policy.workspace
         /\ CapabilitiesOf(AllNames) \cap Mutation # {}
<1> DEFINE s == wf.steps[i]
<1>0. stage \in Stepped /\ stage \in Agented /\ stage \in Scoped
  BY DEF Stepped, Agented, Scoped
<1>1. RequestsValid /\ DOMAIN agents = DOMAIN wf.agents
      /\ \A a \in DOMAIN agents : agents[a].workspaces = wf.agents[a].workspaces
  BY <1>0, AgentFields DEF IInv, HasAgents, CompiledAgents
<1>2. /\ i \in DOMAIN wf.steps
      /\ s.agent # "" => /\ s.agent \in DOMAIN agents
                         /\ steps[i].names = agents[s.agent].names
                         /\ steps[i].workspaces = agents[s.agent].workspaces
      /\ s.agent = "" => steps[i].agent = "" /\ steps[i].workspaces = s.workspaces
  BY <1>0, StepOf, StepFields
<1>3. WorkspacesValid(steps[i].workspaces)
  BY <1>1, <1>2 DEF RequestsValid
<1>4. AuthoringScope(steps[i])
  <2>1. CASE s.agent = ""
    BY <1>0, <1>2, <2>1 DEF IInv, HasSteps
  <2>2. CASE s.agent # ""
    <3>1. AuthoringScope(agents[s.agent])
      BY <1>0, <1>2, <2>2 DEF IInv, HasSteps
    <3> QED
      BY <1>2, <2>2, <3>1 DEF AuthoringScope
  <2> QED
    BY <2>1, <2>2
<1>5. CapabilitiesOf(steps[i].names) \cap Mutation # {}
  BY <1>4 DEF AuthoringScope, Mutation
<1>6. steps[i].names \subseteq AllNames
  BY DEF AllNames
<1> QED
  BY <1>3, <1>5, <1>6 DEF WorkspacesValid, CapabilitiesOf

(* PublishesWhatItAuthors, for every configuration, workflow and evidence. *)
THEOREM PublishesOwnWork == Spec => []PublishesWhatItAuthors
<1>1. ASSUME IInv, stage = "admitted" PROVE PublishesWhatItAuthors
  <2>1. /\ plan.operationSet = OperationSet
        /\ plan.authoring = (cfg.m3 /\ CapabilitiesOf(AllNames) \cap Mutation # {})
    BY <1>1 DEF IInv, HasPlan, Mutation
  <2>0. AllNames \subseteq Catalog(cfg.m3)
    BY <1>1, AllInCatalog DEF Stepped
  <2>2. ASSUME OperationSet = "branch-pr" PROVE plan.authoring
    <3>1. cfg.m3 /\ "files.write" \in AllNames
      BY <1>1, <2>2, PublishingIsTrusted DEF OperationSetAdmitted
    <3>2. CapabilityOf("files.write") \in CapabilitiesOf(AllNames) \cap Mutation
      BY <2>0, <3>1, MutatingTools DEF CapabilitiesOf
    <3> QED
      BY <2>1, <3>1, <3>2
  <2>3. ASSUME OperationSet = "conversation-reply"
        PROVE  ~plan.authoring /\ decision.control.event.subject.number > 0
    <3>1. /\ decision.origin.kind \in {"issue", "pull_request"}
          /\ AllNames \cap {"files.write", "git.write.commit"} = {}
      BY <1>1, <2>3, PublishingIsTrusted DEF OperationSetAdmitted
    <3>2. CapabilitiesOf(AllNames) \cap Mutation = {}
      BY <2>0, <3>1, MutatingTools DEF CapabilitiesOf
    <3>3. decision.context \notin {"forked_pr", "unknown"}
      <4>1. Reply \in AllNames
        <5>1. AllNames \cap SafeOutput = {Reply}
          BY <2>3 DEF OperationSet
        <5> QED
          BY <5>1
      <4> QED
        BY <1>1, <2>3, <4>1, PublishingIsTrusted
    <3>4. decision # Unknown
      <4>1. Unknown.context = "unknown"
        BY DEF Unknown
      <4> QED
        BY <3>3, <4>1
    <3>5. PICK e \in Evidences : decision = Decode(e, now)
      BY <1>1, <3>4 DEF IInv, Decided
    <3>6. decision.control = e /\ decision.context = ContextOf(e, now) /\ decision.origin = e.event.subject
      BY <3>5 DEF Decode
    <3>7. e.event.subject.number > 0
      BY <3>1, <3>3, <3>6, KnownSubject
    <3> QED
      BY <2>1, <3>2, <3>6, <3>7
  <2>4. ASSUME NEW i \in DOMAIN steps, NEW r \in steps[i].workspaces, r.access = "write"
        PROVE  plan.authoring /\ r.name = cfg.policy.workspace
    BY <1>1, <2>1, <2>4, WritableIsAuthored
  <2> QED
    BY <2>1, <2>2, <2>3, <2>4 DEF PublishesWhatItAuthors
<1>2. IInv => PublishesWhatItAuthors
  BY <1>1 DEF PublishesWhatItAuthors
<1> QED
  BY <1>2, Checked, PTL
=============================================================================
