---------------------------- MODULE WorkflowRun ----------------------------
(***************************************************************************)
(* One run of an admitted workflow: the nodes the compiler builds for it   *)
(* (internal/compiler/compiler.go buildEdges, newInputGate, terminalNodes) *)
(* under the ADK scheduler, and the fold of their events into a result     *)
(* (internal/runtime/run.go consumeEvents, finishResult).                  *)
(***************************************************************************)
EXTENDS WorkflowAdmission, Integers, FiniteSets

CONSTANTS
  None,
  MaxConcurrency, \* Limits.MaxConcurrency
  MaxAttempts     \* [Steps -> Nat], Retry.MaxAttempts of a step

ASSUME RunAssumption ==
  /\ MaxConcurrency \in Nat \ {0}
  /\ MaxAttempts \in [Steps -> Nat \ {0}]
  /\ None \notin Outcomes \cup {"succeeded", "failed", "cancelled", "incomplete"}
  /\ IsFiniteSet(Steps)

VARIABLES
  wf,        \* the admitted workflow
  state,     \* [Steps -> where the step's nodes are]
  outcome,   \* [Steps -> the outcome of its output]
  attempt,   \* [Steps -> attempts of the node]
  told,      \* steps whose terminal nodes have run
  outputs,   \* terminalOutputs: steps whose terminal node gave an output
  runErr,    \* consumeEvents has seen an error
  cancelled, \* the run's context is cancelled
  result     \* Result.Status, None before finishResult

vars == <<wf, state, outcome, attempt, told, outputs, runErr, cancelled, result>>

-----------------------------------------------------------------------------

States  == {"waiting", "skipped", "ready", "running", "done", "failed"}
Started == {"ready", "running", "done", "failed"}
Results == {"succeeded", "failed", "cancelled", "incomplete"}

TypeOK ==
  /\ wf \in Workflow
  /\ state \in [Steps -> States]
  /\ outcome \in [Steps -> Outcomes \cup {None}]
  /\ \A s \in Steps : state[s] = "done" <=> outcome[s] # None
  /\ attempt \in [Steps -> Nat]
  /\ \A s \in Steps : attempt[s] \in 1..MaxAttempts[s]
  /\ told \subseteq Steps /\ outputs \subseteq told
  /\ runErr \in BOOLEAN /\ cancelled \in BOOLEAN
  /\ result \in Results \cup {None}

Init ==
  /\ wf \in {w \in Workflows : Admitted(w)}
  /\ state = [s \in Steps |-> "waiting"]
  /\ outcome = [s \in Steps |-> None]
  /\ attempt = [s \in Steps |-> 1]
  /\ told = {} /\ outputs = {}
  /\ runErr = FALSE /\ cancelled = FALSE
  /\ result = None

Going == result = None /\ ~runErr /\ ~cancelled

-----------------------------------------------------------------------------
(* The nodes of a step.                                                    *)

Joined(s) == \A p \in wf.needs[s] : state[p] = "done"

(* Mutant: one condition that matches is enough.                           *)
BugConditionsMatch(s) ==
  (\A p \in Steps : wf.when[s][p] = {}) \/ \E p \in wf.needs[s] : outcome[p] \in wf.when[s][p]

ConditionsMatch(s) == \A p \in wf.needs[s] : Accepts(wf, s, p, outcome[p])

(* Mutant: the gate of a false condition never answers.                    *)
BugGate(s) ==
  /\ Going /\ state[s] = "waiting"
  /\ Joined(s) /\ ConditionsMatch(s)
  /\ state' = [state EXCEPT ![s] = "ready"]
  /\ UNCHANGED <<wf, outcome, attempt, told, outputs, runErr, cancelled, result>>

(* The join waits for every predecessor; the gate then takes the run route *)
(* or no route at all.                                                     *)
Gate(s) ==
  /\ Going /\ state[s] = "waiting"
  /\ Joined(s)
  /\ state' = [state EXCEPT ![s] = IF ConditionsMatch(s) THEN "ready" ELSE "skipped"]
  /\ UNCHANGED <<wf, outcome, attempt, told, outputs, runErr, cancelled, result>>

Start(s) ==
  /\ Going /\ state[s] = "ready"
  /\ Cardinality({x \in Steps : state[x] = "running"}) < MaxConcurrency
  /\ state' = [state EXCEPT ![s] = "running"]
  /\ UNCHANGED <<wf, outcome, attempt, told, outputs, runErr, cancelled, result>>

(* An output that satisfies the step's schema carries one of its outcomes. *)
Finish(s, o) ==
  /\ result = None /\ state[s] = "running"
  /\ o \in Enum[s]
  /\ state' = [state EXCEPT ![s] = "done"]
  /\ outcome' = [outcome EXCEPT ![s] = o]
  /\ UNCHANGED <<wf, attempt, told, outputs, runErr, cancelled, result>>

StepFails(s) ==
  /\ state' = [state EXCEPT ![s] = "failed"]
  /\ runErr' = TRUE
  /\ UNCHANGED attempt

(* Mutant: one attempt too many.                                           *)
BugTimeOut(s) ==
  /\ result = None /\ state[s] = "running"
  /\ IF attempt[s] <= MaxAttempts[s]
     THEN attempt' = [attempt EXCEPT ![s] = @ + 1] /\ UNCHANGED <<state, runErr>>
     ELSE StepFails(s)
  /\ UNCHANGED <<wf, outcome, told, outputs, cancelled, result>>

(* NodeConfig.Timeout: only a deadline is retried, and attempts count.     *)
TimeOut(s) ==
  /\ result = None /\ state[s] = "running"
  /\ IF attempt[s] < MaxAttempts[s]
     THEN attempt' = [attempt EXCEPT ![s] = @ + 1] /\ UNCHANGED <<state, runErr>>
     ELSE StepFails(s)
  /\ UNCHANGED <<wf, outcome, told, outputs, cancelled, result>>

Error(s) ==
  /\ result = None /\ state[s] = "running"
  /\ StepFails(s)
  /\ UNCHANGED <<wf, outcome, told, outputs, cancelled, result>>

(* The terminal nodes of a step: of the pairs it is the source of, the one *)
(* with its outcome gives an output.                                       *)
IsTerminal(s) == \E o \in Outcomes : <<s, o>> \in Terminals(wf)

TerminalNodes(s) ==
  /\ result = None
  /\ IsTerminal(s) /\ state[s] = "done" /\ s \notin told
  /\ told' = told \cup {s}
  /\ outputs' = IF <<s, outcome[s]>> \in Terminals(wf) THEN outputs \cup {s} ELSE outputs
  /\ UNCHANGED <<wf, state, outcome, attempt, runErr, cancelled, result>>

-----------------------------------------------------------------------------
(* The run.                                                                *)

Cancel ==
  /\ result = None /\ ~cancelled
  /\ cancelled' = TRUE
  /\ UNCHANGED <<wf, state, outcome, attempt, told, outputs, runErr, result>>

(* Mutant: the stream ends while a gate has still to decide.               *)
BugQuiet ==
  \A s \in Steps :
    /\ state[s] \notin {"ready", "running"}
    /\ IsTerminal(s) /\ state[s] = "done" => s \in told

Quiet ==
  \A s \in Steps :
    /\ state[s] \notin {"ready", "running"}
    /\ state[s] = "waiting" => ~Joined(s)
    /\ IsTerminal(s) /\ state[s] = "done" => s \in told

(* consumeEvents and finishResult: the event stream ends when the graph is *)
(* quiet, or on an error or a cancellation that leaves nodes as they are.  *)
Ambiguous == \E s, t \in outputs : s # t

End ==
  /\ result = None
  /\ Quiet \/ runErr \/ cancelled
  /\ result' = IF cancelled THEN "cancelled"
               ELSE IF runErr \/ Ambiguous THEN "failed"
               ELSE IF outputs = {} THEN "incomplete" ELSE "succeeded"
  /\ UNCHANGED <<wf, state, outcome, attempt, told, outputs, runErr, cancelled>>

Node(s) ==
  \/ Gate(s) \/ Start(s) \/ (\E o \in Outcomes : Finish(s, o))
  \/ TimeOut(s) \/ Error(s) \/ TerminalNodes(s)

Next == (\E s \in Steps : Node(s)) \/ Cancel \/ End

Spec == Init /\ [][Next]_vars

(* The scheduler runs the nodes that are ready, a running one ends by its  *)
(* timeout at the latest, and the end of the stream is seen.               *)
FairSpec ==
  /\ Spec
  /\ \A s \in Steps : WF_vars(Node(s))
  /\ WF_vars(End)

-----------------------------------------------------------------------------
(* Properties.                                                             *)

(* Whatever steps run at the same time and in whatever order they end, at  *)
(* most one terminal node of an admitted workflow gives an output, so a run*)
(* never ends in errAmbiguousTerminal.                                     *)
AtMostOneTerminal == \A s, t \in outputs : s = t

(* A step that starts has only done ancestors, and each of them, and the   *)
(* step itself, accepted the outcomes of all it needs: no step runs on a   *)
(* branch that was not taken.                                              *)
RunsOnTakenBranch ==
  \A s \in Steps : state[s] \in Started =>
    /\ \A a \in Ancestors(wf, s) : state[a] = "done"
    /\ \A x \in {s} \cup Ancestors(wf, s) :
         \A p \in wf.needs[x] : Accepts(wf, x, p, outcome[p])

(* finishResult calls the steps without an output of a succeeded run       *)
(* skipped: each of them is, or is after, a step whose condition was false.*)
UnrunWasSkipped ==
  result = "succeeded" =>
    \A s \in Steps : state[s] # "done" =>
      \E a \in {s} \cup Ancestors(wf, s) : state[a] = "skipped"

(* Where no step joins two others, the coverage check is complete: a run   *)
(* without error or cancellation has an output.                            *)
ChainsSelectOne ==
  (\A s \in Steps : Cardinality(wf.needs[s]) <= 1) => result # "incomplete"

(* A run ends, whatever times out and is retried.                          *)
RunEnds == <>(result # None)

-----------------------------------------------------------------------------
(* Claims of the documents that the code does not keep.                    *)

(* ARCHITECTURE: the result selects exactly one terminal output.           *)
ExactlyOneTerminal == result # "incomplete"

(* ARCHITECTURE: admission is pure and the plan deterministic.             *)
AdmissionIsDeterministic == AlwaysAdmitted(wf)
=============================================================================
