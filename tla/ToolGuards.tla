----------------------------- MODULE ToolGuards -----------------------------
(***************************************************************************)
(* The tool guards of one run (internal/tool/guard.go, adk_toolset.go,     *)
(* internal/compiler/tools.go): every catalog tool call of every step      *)
(* passes BeforeToolCallback, which debits the run, the scope and the tool *)
(* under one mutex, then guardedTool.Run, which gives it a deadline, then  *)
(* AfterToolCallback.  Calls of one step run on the workers of the ADK     *)
(* task runner, and steps run at the same time, so calls interleave.       *)
(***************************************************************************)
EXTENDS Integers, FiniteSets

CONSTANTS
  Steps,        \* steps of the workflow
  Scopes,       \* guard scopes: a step, or a named agent (agentGuardKey)
  ScopeOf,      \* [Steps -> Scopes]
  Tools,        \* catalog tools
  Allowed,      \* [Scopes -> SUBSET Tools], ScopeLimit.Names
  Workers,      \* goroutines that run tool calls
  RunMax,       \* RuntimeLimit.MaxCalls
  ScopeMax,     \* [Scopes -> Nat], ScopeLimit.MaxCalls
  ToolMax,      \* [Scopes -> [Tools -> Nat]], ToolLimit.MaxCalls
  RunTimeout,   \* RuntimeLimit.Timeout
  ScopeTimeout, \* [Scopes -> Nat], ScopeLimit.Timeout
  ToolTimeout,  \* [Scopes -> [Tools -> Nat]], ToolLimit.Timeout
  MaxAttempts,  \* bound: tool calls the models ask for
  MaxTime       \* bound: the clock

(* newGuard refuses a scope that breaks these.                             *)
ASSUME GuardAssumption ==
  /\ ScopeOf \in [Steps -> Scopes]
  /\ Allowed \in [Scopes -> SUBSET Tools]
  /\ RunMax \in Nat
  /\ ScopeMax \in [Scopes -> Nat]
  /\ ToolMax \in [Scopes -> [Tools -> Nat]]
  /\ RunTimeout \in Nat \ {0}
  /\ ScopeTimeout \in [Scopes -> Nat \ {0}]
  /\ ToolTimeout \in [Scopes -> [Tools -> Nat \ {0}]]
  /\ MaxAttempts \in Nat
  /\ MaxTime \in Nat

VARIABLES
  now,          \* time since NewGuards
  status,       \* [Steps -> {"idle", "running", "ended"}]
  began,        \* [Steps -> time the step began]
  call,         \* [Workers -> the call the worker is at]
  runCalls,     \* guardCounters.runCalls
  scopeCalls,   \* guardCounters.scopeCalls
  toolCalls,    \* guardCounters.toolCalls
  attempts,     \* bound: calls asked for so far
  stepCalls,    \* history: debits by step
  admittedRun, admittedScope, admittedTool  \* history: calls let through

counters == <<runCalls, scopeCalls, toolCalls, stepCalls>>
admitted == <<admittedRun, admittedScope, admittedTool>>
vars == <<now, status, began, call, attempts, counters, admitted>>

-----------------------------------------------------------------------------

(* A worker is free, before its callback, let through, or running a tool   *)
(* under a deadline.                                                       *)
Free  == [stage |-> "free"]
Asked == [stage : {"asked", "admitted"}, step : Steps, tool : Tools]
Runs  == [stage : {"running"}, step : Steps, tool : Tools, asked : Nat, deadline : Nat]

TypeOK ==
  /\ now \in Nat
  /\ status \in [Steps -> {"idle", "running", "ended"}]
  /\ began \in [Steps -> Nat]
  /\ call \in [Workers -> {Free} \cup Asked \cup Runs]
  /\ attempts \in Nat
  /\ runCalls \in Nat
  /\ scopeCalls \in [Scopes -> Nat]
  /\ toolCalls \in [Scopes -> [Tools -> Nat]]
  /\ stepCalls \in [Steps -> Nat]
  /\ admittedRun \in Nat
  /\ admittedScope \in [Scopes -> Nat]
  /\ admittedTool \in [Scopes -> [Tools -> Nat]]

Init ==
  /\ now = 0
  /\ status = [s \in Steps |-> "idle"]
  /\ began = [s \in Steps |-> 0]
  /\ call = [w \in Workers |-> Free]
  /\ attempts = 0
  /\ runCalls = 0 /\ admittedRun = 0
  /\ scopeCalls = [g \in Scopes |-> 0] /\ admittedScope = [g \in Scopes |-> 0]
  /\ toolCalls = [g \in Scopes |-> [t \in Tools |-> 0]]
  /\ stepCalls = [s \in Steps |-> 0]
  /\ admittedTool = [g \in Scopes |-> [t \in Tools |-> 0]]

-----------------------------------------------------------------------------
(* Steps (started and timed out by the ADK workflow engine).               *)

StepDeadline(s) == began[s] + ScopeTimeout[ScopeOf[s]]
Working(s)      == {w \in Workers : call[w] # Free /\ call[w].step = s}
Cancelled(s)    == status[s] = "ended" \/ now >= StepDeadline(s)

BeginStep(s) ==
  /\ status[s] = "idle"
  /\ status' = [status EXCEPT ![s] = "running"]
  /\ began' = [began EXCEPT ![s] = now]
  /\ UNCHANGED <<now, call, attempts, counters, admitted>>

(* The step's model stops asking, or NodeConfig.Timeout cancels the step   *)
(* while calls of it are still under way.                                  *)
EndStep(s) ==
  /\ status[s] = "running"
  /\ Working(s) = {} \/ Cancelled(s)
  /\ status' = [status EXCEPT ![s] = "ended"]
  /\ UNCHANGED <<now, began, call, attempts, counters, admitted>>

(* Time does not pass over a step's deadline while the step runs, nor over *)
(* a call's deadline while the tool runs: both contexts cancel on time.    *)
Tick ==
  /\ now < MaxTime
  /\ \A s \in Steps : status[s] = "running" => now < StepDeadline(s)
  /\ \A w \in Workers : call[w].stage = "running" => now < call[w].deadline
  /\ now' = now + 1
  /\ UNCHANGED <<status, began, call, attempts, counters, admitted>>

-----------------------------------------------------------------------------
(* One tool call.                                                          *)

Release(w) == call' = [call EXCEPT ![w] = Free]

(* The model of a running step asks for a tool.                            *)
Ask(w, s, t) ==
  /\ call[w] = Free
  /\ status[s] = "running"
  /\ attempts < MaxAttempts
  /\ attempts' = attempts + 1
  /\ call' = [call EXCEPT ![w] = [stage |-> "asked", step |-> s, tool |-> t]]
  /\ UNCHANGED <<now, status, began, counters, admitted>>

(* Mutant: the run is not debited.                                         *)
BugDebit(g, t) ==
  /\ scopeCalls' = [scopeCalls EXCEPT ![g] = @ + 1]
  /\ toolCalls' = [toolCalls EXCEPT ![g][t] = @ + 1]
  /\ UNCHANGED runCalls

(* Guard.Before, under the mutex: debit first, then compare.               *)
Debit(g, t) ==
  /\ runCalls' = runCalls + 1
  /\ scopeCalls' = [scopeCalls EXCEPT ![g] = @ + 1]
  /\ toolCalls' = [toolCalls EXCEPT ![g][t] = @ + 1]

(* Mutant: the counters are compared before the debit.                     *)
BugOverLimit(g, t) ==
  runCalls > RunMax \/ scopeCalls[g] > ScopeMax[g] \/ toolCalls[g][t] > ToolMax[g][t]

OverLimit(g, t) ==
  \/ runCalls + 1 > RunMax
  \/ scopeCalls[g] + 1 > ScopeMax[g]
  \/ toolCalls[g][t] + 1 > ToolMax[g][t]

(* BeforeToolCallback.  A tool of another kind passes untouched; a step    *)
(* that is over is refused before the debit; a call over a limit or with a *)
(* request that is too large is refused after it, and nothing is refunded. *)
BeforeTool(w) ==
  LET s == call[w].step  t == call[w].tool  g == ScopeOf[s] IN
  /\ call[w].stage = "asked"
  /\ \/ /\ t \notin Allowed[g]
        /\ call' = [call EXCEPT ![w].stage = "admitted"]
        /\ UNCHANGED <<counters, admitted>>
     \/ /\ t \in Allowed[g] /\ Cancelled(s)
        /\ Release(w)
        /\ UNCHANGED <<counters, admitted>>
     \/ /\ t \in Allowed[g] /\ ~Cancelled(s)
        /\ Debit(g, t)
        /\ stepCalls' = [stepCalls EXCEPT ![s] = @ + 1]
        /\ IF OverLimit(g, t)
           THEN Release(w) /\ UNCHANGED admitted
           ELSE /\ admittedRun' = admittedRun + 1
                /\ admittedScope' = [admittedScope EXCEPT ![g] = @ + 1]
                /\ admittedTool' = [admittedTool EXCEPT ![g][t] = @ + 1]
                /\ \/ call' = [call EXCEPT ![w].stage = "admitted"]
                   \/ Release(w)    \* the request is larger than its limit
  /\ UNCHANGED <<now, status, began, attempts>>

Earliest(S) == CHOOSE x \in S : \A y \in S : x <= y

(* Mutant: the time that remains, not the point in time.                   *)
BugDeadline(g, t) == Earliest({RunTimeout - now, ScopeTimeout[g] - now, ToolTimeout[g][t]})

(* Guard.Context: the scope's deadline counts from NewGuards.              *)
Deadline(g, t) ==
  Earliest({RunTimeout, ScopeTimeout[g], now + ToolTimeout[g][t]})

(* guardedTool.Run: a tool without a limit is refused here.                *)
RunTool(w) ==
  LET s == call[w].step  t == call[w].tool  g == ScopeOf[s] IN
  /\ call[w].stage = "admitted"
  /\ IF t \in Allowed[g]
     THEN call' = [call EXCEPT ![w] =
                     [stage |-> "running", step |-> s, tool |-> t,
                      asked |-> now, deadline |-> Deadline(g, t)]]
     ELSE Release(w)
  /\ UNCHANGED <<now, status, began, attempts, counters, admitted>>

(* Mutant: a result that is too large is asked for again.                  *)
BugAfterTool(w) ==
  /\ call[w].stage = "running"
  /\ call' = [call EXCEPT ![w] = [stage |-> "admitted", step |-> call[w].step, tool |-> call[w].tool]]
  /\ UNCHANGED <<now, status, began, attempts, counters, admitted>>

(* The tool returns, with a result or an error; AfterToolCallback may turn *)
(* a result that is too large into an error.  The counters stay.           *)
AfterTool(w) ==
  /\ call[w].stage = "running"
  /\ Release(w)
  /\ UNCHANGED <<now, status, began, attempts, counters, admitted>>

Next ==
  \/ Tick
  \/ \E s \in Steps : BeginStep(s) \/ EndStep(s)
  \/ \E w \in Workers :
        \/ \E s \in Steps, t \in Tools : Ask(w, s, t)
        \/ BeforeTool(w) \/ RunTool(w) \/ AfterTool(w)

Spec == Init /\ [][Next]_vars

(* A call that is under way is carried on: the callbacks run, and a tool   *)
(* returns or is cancelled at its deadline.                                *)
FairSpec ==
  Spec /\ \A w \in Workers : WF_vars(BeforeTool(w) \/ RunTool(w) \/ AfterTool(w))

-----------------------------------------------------------------------------
(* Properties.                                                             *)

(* However calls of concurrent steps interleave, the calls let through     *)
(* never exceed the run's, the scope's or the tool's limit.                *)
WithinLimits ==
  /\ admittedRun <= RunMax
  /\ \A g \in Scopes :
        /\ admittedScope[g] <= ScopeMax[g]
        /\ \A t \in Tools : admittedTool[g][t] <= ToolMax[g][t]

(* A tool runs only in a scope that allows it, although the callback lets  *)
(* the others pass: guardedTool.Run is the second check.                   *)
OnlyAllowedRun ==
  \A w \in Workers : call[w].stage = "running" =>
     call[w].tool \in Allowed[ScopeOf[call[w].step]]

(* The run, the scope and the tool are debited together: what a scope or a *)
(* tool was charged never exceeds what its parent was, so no scope can use *)
(* more of the run than the run has counted.                               *)
DebitedTogether ==
  \A g \in Scopes :
     /\ scopeCalls[g] <= runCalls
     /\ \A t \in Tools : toolCalls[g][t] <= scopeCalls[g]

(* An activation is measured by its own calls only: the counter its scope  *)
(* limit is compared with holds no debit of another step ("named-agent     *)
(* limits are narrower per-activation budgets", ADR 006).                  *)
OwnBudget ==
  \A s \in Steps : status[s] = "running" => scopeCalls[ScopeOf[s]] = stepCalls[s]

(* "The earliest run, activation, step, per-tool, family, or caller        *)
(* deadline applies" (ADR 006): the deadline of a call is the earliest of  *)
(* the run's, its step's and its own.                                      *)
EarliestDeadlineApplies ==
  \A w \in Workers : call[w].stage = "running" =>
     LET c == call[w]  g == ScopeOf[c.step]
     IN  c.deadline = Earliest({RunTimeout, StepDeadline(c.step),
                                c.asked + ToolTimeout[g][c.tool]})

(* Every call that was asked for ends.                                     *)
CallsEnd == \A w \in Workers : call[w] # Free ~> call[w] = Free

=============================================================================
