------------------------------ MODULE AgentRun ------------------------------
(***************************************************************************)
(* The run of an agent tree (internal/compiler/agent.go, safety.go,        *)
(* internal/runtime/run.go): a chat agent calls its model, the response    *)
(* asks for tools and for agents below it, and the bounded task runner     *)
(* executes what one response asks for.  A call of an agent is an          *)
(* activation, with model calls and responses of its own.  The ADK's flow  *)
(* is modelled from how it is used: the calls of a response are handed to  *)
(* the task runner in their order, a callback that fails answers the call, *)
(* and the model is asked again when every call is answered.               *)
(***************************************************************************)
EXTENDS ToolScopes

CONSTANTS
  Root, Agents,
  Subagents,     \* [agent -> its subagents]
  Names,         \* [agent -> the tools it is compiled with]
  Limits,        \* [agent -> its compiled limits]
  RunToolCalls,  \* the workflow's MaxToolCalls
  RunModelCalls, \* the workflow's MaxModelCalls
  Parallel,      \* values of the workflow's MaxParallelCalls
  Batch          \* the most calls a response asks for

VARIABLES
  parallel,     \* the workflow's MaxParallelCalls
  nodes,        \* [path -> activation or tool call]; the root is at <<>>
  modelCalls,   \* [agent -> count of its NewCallLimiter]
  localCalls,   \* [agent -> count of its newSubagentCallLimiter]
  runCalls,     \* the count all agents of the tree share
  scopeTools,   \* [agent -> count of its guard's scope]
  runTools,     \* the count all guards of the run share
  activations,  \* {<<agent, n>> : its n-th delegation was let through}, for the properties
  cancelled     \* the context of the run is done

counters == <<modelCalls, localCalls, runCalls, scopeTools, runTools, activations>>
vars == <<parallel, nodes, counters, cancelled>>

(* What validateAgentDefinitions, validateToolConcurrency and compileLimits*)
(* leave of the trees a run can start with; the agents are a tree.         *)
ASSUME TreeAdmitted ==
  /\ Root \in Agents
  /\ Subagents \in [Agents -> SUBSET Agents]
  /\ RunToolCalls \in Nat /\ Batch \in Nat
  /\ Parallel \subseteq Nat \ {0}
  /\ \A a \in Agents :
       /\ {"MaxModelCalls", "MaxToolCalls", "MaxParallelCalls"} \subseteq DOMAIN Limits[a]
       /\ \A f \in DOMAIN Limits[a] : Limits[a][f] \in Nat
  /\ \A a \in Agents :
       /\ Root \notin Subagents[a]
       /\ Subagents[a] # {} => Limits[a].MaxToolCalls > 0
       /\ \A b \in Agents : a # b => Subagents[a] \cap Subagents[b] = {}
       /\ \A c \in Subagents[a] :
            /\ Names[c] \subseteq Names[a]
            /\ \A f \in DOMAIN Limits[a] : Limits[c][f] <= Limits[a][f]
       /\ Limits[a].MaxToolCalls <= RunToolCalls
       /\ UnsafeScope(Names[a]) => Limits[a].MaxParallelCalls = 1

Queued(what) == [what |-> what, pc |-> "queued", local |-> 0, failed |-> FALSE, batch |-> 0]
Running(what) == [Queued(what) EXCEPT !.pc = "model"]

Init ==
  /\ parallel \in Parallel
  /\ nodes = [i \in {<<>>} |-> Running(Root)]
  /\ modelCalls = [a \in Agents |-> 0] /\ localCalls = [a \in Agents |-> 0]
  /\ scopeTools = [a \in Agents |-> 0]
  /\ activations = {}
  /\ runCalls = 0 /\ runTools = 0
  /\ cancelled = FALSE

-----------------------------------------------------------------------------

BatchOf(i)   == {Append(i, k) : k \in 1..nodes[i].batch}
Answer(i, failed) == [nodes EXCEPT ![i].pc = "answered", ![i].failed = failed]
Active(i) == nodes[i].pc \notin {"queued", "answered"}

(* NewCallLimiter counts the calls of the agent in all its activations.    *)
ModelAllowed(a) == modelCalls[a] < Limits[a].MaxModelCalls

(* The response ends the activation, or asks for calls.                    *)
CallModel(i) ==
  LET a == nodes[i].what IN
  /\ nodes[i].pc = "model"
  /\ modelCalls' = [modelCalls EXCEPT ![a] = @ + 1]
  /\ \/ ModelAllowed(a) /\ ~cancelled /\ nodes' = Answer(i, FALSE)
     \/ /\ ModelAllowed(a) /\ ~cancelled
        /\ \E n \in 1..Batch : \E asked \in [1..n -> Subagents[a] \cup Names[a]] :
             nodes' = [j \in DOMAIN nodes \cup {Append(i, k) : k \in 1..n} |->
                         IF j = i THEN [nodes[i] EXCEPT !.pc = "calling", !.batch = n]
                         ELSE IF j \in DOMAIN nodes THEN nodes[j]
                         ELSE Queued(asked[j[Len(j)]])]
     \/ /\ ~ModelAllowed(a) \/ cancelled
        /\ nodes' = Answer(i, TRUE)
  /\ UNCHANGED <<parallel, localCalls, runCalls, scopeTools, runTools, activations, cancelled>>

(* Mutant: one set of workers for the whole run.                           *)
BugWorkers(i) == parallel - Cardinality({j \in DOMAIN nodes : j # <<>> /\ Active(j)}) > 0

(* Mutant: one worker too many.                                            *)
BugExtraWorker(i) == Cardinality({j \in BatchOf(i) : Active(j)}) <= parallel

(* boundedTaskRunner: min(limit, len(tasks)) workers for each batch.  The  *)
(* limit is the workflow's, whatever the agent was compiled with.          *)
Workers(i) == Cardinality({j \in BatchOf(i) : Active(j)}) < parallel

(* A worker takes the first task that is left.                             *)
Take(i) ==
  /\ i # <<>> /\ nodes[i].pc = "queued"
  /\ \A j \in BatchOf(Front(i)) : nodes[j].pc = "queued" => j[Len(j)] >= i[Len(i)]
  /\ Workers(Front(i))
  /\ nodes' = [nodes EXCEPT ![i].pc = "before"]
  /\ UNCHANGED <<parallel, counters, cancelled>>

CountLocal(i) ==
  LET a == nodes[Front(i)].what IN
  /\ nodes[i].pc = "before" /\ nodes[i].what \in Agents
  /\ localCalls' = [localCalls EXCEPT ![a] = @ + 1]
  /\ nodes' = [nodes EXCEPT ![i].pc = "counted", ![i].local = localCalls[a] + 1]
  /\ UNCHANGED <<parallel, modelCalls, runCalls, scopeTools, runTools, activations, cancelled>>

(* Mutant: the calls of each agent are bounded, those of the tree are not. *)
BugAllowed(a, local, total) == local <= Limits[a].MaxToolCalls

Allowed(a, local, total) == local <= Limits[a].MaxToolCalls /\ total <= Limits[Root].MaxToolCalls

StartedBy(a) == {x \in activations : x[1] = a}

CountTotal(i) ==
  LET a == nodes[Front(i)].what IN
  /\ nodes[i].pc = "counted"
  /\ runCalls' = runCalls + 1
  /\ IF Allowed(a, nodes[i].local, runCalls + 1)
     THEN /\ nodes' = [nodes EXCEPT ![i] = Running(nodes[i].what)]
          /\ activations' = activations \cup {<<a, Cardinality(StartedBy(a)) + 1>>}
     ELSE nodes' = Answer(i, FALSE) /\ UNCHANGED activations
  /\ UNCHANGED <<parallel, modelCalls, localCalls, scopeTools, runTools, cancelled>>

(* BeforeToolCallback and Before: a call is counted before it is refused.  *)
GuardTool(i) ==
  LET a == nodes[Front(i)].what IN
  /\ nodes[i].pc = "before" /\ nodes[i].what \notin Agents
  /\ IF cancelled
     THEN nodes' = Answer(i, FALSE) /\ UNCHANGED <<scopeTools, runTools>>
     ELSE /\ scopeTools' = [scopeTools EXCEPT ![a] = @ + 1]
          /\ runTools' = runTools + 1
          /\ nodes' = IF runTools < RunToolCalls /\ scopeTools[a] < Limits[a].MaxToolCalls
                      THEN [nodes EXCEPT ![i].pc = "body"] ELSE Answer(i, FALSE)
  /\ UNCHANGED <<parallel, modelCalls, localCalls, runCalls, activations, cancelled>>

FinishTool(i) ==
  /\ nodes[i].pc = "body"
  /\ nodes' = Answer(i, FALSE)
  /\ UNCHANGED <<parallel, counters, cancelled>>

BatchAnswered(i) == \A j \in BatchOf(i) : nodes[j].pc = "answered"

(* workers.Wait: the runner returns when every call is answered.  A failed *)
(* activation below is an answer the model sees, or fails this one.        *)
Resume(i) ==
  /\ nodes[i].pc = "calling"
  /\ BatchAnswered(i)
  /\ LET rest == DOMAIN nodes \ BatchOf(i)
         left == [j \in rest |-> nodes[j]]
     IN  \/ nodes' = [left EXCEPT ![i].pc = "model", ![i].batch = 0]
         \/ /\ \E j \in BatchOf(i) : nodes[j].failed
            /\ nodes' = [left EXCEPT ![i].pc = "answered", ![i].failed = TRUE, ![i].batch = 0]
  /\ UNCHANGED <<parallel, counters, cancelled>>

(* The timeout of the run or a signal.                                     *)
Cancel == ~cancelled /\ cancelled' = TRUE /\ UNCHANGED <<parallel, nodes, counters>>

Ended == nodes[<<>>].pc = "answered"
Step(i) ==
  \/ CallModel(i) \/ Take(i) \/ CountLocal(i) \/ CountTotal(i)
  \/ GuardTool(i) \/ FinishTool(i) \/ Resume(i)
Next == \/ Cancel /\ ~Ended
        \/ \E i \in DOMAIN nodes : Step(i)
Spec == Init /\ [][Next]_vars

(* The goroutines of the run are scheduled, tools end at their deadline    *)
(* and the provider answers.  A run has one goroutine at least that can    *)
(* step until it has ended; nothing says which.                            *)
FairSpec == Spec /\ WF_vars(\E i \in DOMAIN nodes : Step(i))

-----------------------------------------------------------------------------

(* The calls form a tree: no call is left of a batch that has returned.    *)
TypeOK ==
  /\ parallel \in Parallel /\ cancelled \in BOOLEAN
  /\ modelCalls \in [Agents -> Nat] /\ localCalls \in [Agents -> Nat]
  /\ scopeTools \in [Agents -> Nat] /\ runCalls \in Nat /\ runTools \in Nat
  /\ activations \subseteq Agents \X Nat
  /\ \A i \in DOMAIN nodes :
       /\ i # <<>> => Front(i) \in DOMAIN nodes /\ nodes[i].what \in
                      Subagents[nodes[Front(i)].what] \cup Names[nodes[Front(i)].what]
       /\ BatchOf(i) \subseteq DOMAIN nodes

(* However the tree is shaped and its calls interleave, the agents below   *)
(* the root are activated at most as often as the root's max_tool_calls,   *)
(* and those an agent asks for at most as often as its own                 *)
(* (newSubagentCallLimiter: two counters that are not counted together).   *)
ChildCallsBounded ==
  /\ Cardinality(activations) <= Limits[Root].MaxToolCalls
  /\ \A a \in Agents : Cardinality(StartedBy(a)) <= Limits[a].MaxToolCalls

Bodies == {i \in DOMAIN nodes : nodes[i].pc = "body"}

(* A call of an unsafe tool has no other call beside it: those that run    *)
(* are the activations above it.                                           *)
UnsafeCallsAlone ==
  \A i \in Bodies : nodes[i].what \in UnsafeTools => Bodies = {i}

(* With max_parallel_calls: 1 on the workflow, unsafe calls run alone at   *)
(* every depth, though each batch has its own workers.                     *)
SequentialRunIsAlone == parallel = 1 => UnsafeCallsAlone

(* A run ends whatever its models ask for: they run out of calls, and no   *)
(* batch waits for a worker that an activation above it holds.             *)
RunEnds == <>Ended

(* ADR 006 says the workflow's limits are budgets of the run; the model    *)
(* calls are counted for each agent (NewCallLimiter) and for nothing else. *)
ModelCallsRunWide ==
  LET made(a) == IF ModelAllowed(a) THEN modelCalls[a] ELSE Limits[a].MaxModelCalls
  IN  MapThenSumSet(made, Agents) <= RunModelCalls
=============================================================================
