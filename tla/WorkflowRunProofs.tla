-------------------------- MODULE WorkflowRunProofs --------------------------
(***************************************************************************)
(* Proofs about WorkflowRun for every set of steps, every enum, every      *)
(* submitted workflow and every concurrency.  The inductive invariant says *)
(* that a step that was started stands on needs that are done and whose    *)
(* outcomes it accepts; following the needs back gives RunsOnTakenBranch,  *)
(* and with what admission checked, AtMostOneTerminal.                     *)
(***************************************************************************)
EXTENDS WorkflowRun, FiniteSetTheorems, WellFoundedInduction, TLAPS

(* Nothing that the graph rests on is undone by a later step.              *)
Grounded ==
  \A s \in Steps : state[s] \in Started =>
    \A p \in wf.needs[s] : state[p] = "done" /\ Accepts(wf, s, p, outcome[p])

OutputsAreTerminal ==
  \A s \in outputs : state[s] = "done" /\ <<s, outcome[s]>> \in Terminals(wf)

IInv == TypeOK /\ Admitted(wf) /\ Grounded /\ OutputsAreTerminal

-----------------------------------------------------------------------------

(* The run starts with an admitted workflow of which nothing has run.      *)
LEMMA InitIInv == Init => IInv
<1> SUFFICES ASSUME Init PROVE IInv
  OBVIOUS
<1>1. wf \in Workflow /\ Admitted(wf)
  BY WorkflowAssumption DEF Init
<1>2. TypeOK
  <2>1. \A s \in Steps : 1 \in 1..MaxAttempts[s]
    BY RunAssumption
  <2>2. /\ state \in [Steps -> States] /\ outcome \in [Steps -> Outcomes \cup {None}]
        /\ attempt \in [Steps -> Nat] /\ \A s \in Steps : attempt[s] \in 1..MaxAttempts[s]
        /\ \A s \in Steps : state[s] = "done" <=> outcome[s] # None
    BY <2>1 DEF Init, States
  <2>3. told \subseteq Steps /\ outputs \subseteq told
    BY DEF Init
  <2>4. runErr \in BOOLEAN /\ cancelled \in BOOLEAN /\ result \in Results \cup {None}
    BY DEF Init
  <2> QED
    BY <1>1, <2>2, <2>3, <2>4 DEF TypeOK
<1>3. Grounded /\ OutputsAreTerminal
  BY DEF Init, Grounded, OutputsAreTerminal, Started
<1> QED
  BY <1>1, <1>2, <1>3 DEF IInv

(* The needs of a step that was started are done, so a step that is not    *)
(* done can change without disturbing any of them.                         *)
LEMMA GateStep ==
  ASSUME IInv, NEW s \in Steps, Gate(s)
  PROVE  IInv'
<1> USE DEF IInv
<1>1. /\ state[s] = "waiting" /\ Joined(s)
      /\ state' = [state EXCEPT ![s] = IF ConditionsMatch(s) THEN "ready" ELSE "skipped"]
      /\ UNCHANGED <<wf, outcome, attempt, told, outputs, runErr, cancelled, result>>
  BY DEF Gate
<1>2. TypeOK'
  BY <1>1 DEF TypeOK, States
<1>3. Admitted(wf)'
  BY <1>1
<1>4. Grounded'
  <2> SUFFICES ASSUME NEW x \in Steps, state'[x] \in Started, NEW p \in wf.needs[x]
               PROVE  state'[p] = "done" /\ Accepts(wf, x, p, outcome[p])
    BY <1>1 DEF Grounded, Accepts
  <2>1. p \in Steps
    BY DEF TypeOK, Workflow
  <2>2. CASE x = s
    BY <1>1, <2>1, <2>2 DEF Joined, ConditionsMatch, TypeOK, Started
  <2>3. CASE x # s
    <3>1. state[x] \in Started
      BY <1>1, <2>3 DEF TypeOK
    <3>2. state[p] = "done" /\ Accepts(wf, x, p, outcome[p])
      BY <3>1 DEF Grounded
    <3> QED
      BY <1>1, <2>1, <3>2 DEF TypeOK
  <2> QED
    BY <2>2, <2>3
<1>5. OutputsAreTerminal'
  BY <1>1 DEF OutputsAreTerminal, TypeOK
<1> QED
  BY <1>2, <1>3, <1>4, <1>5

(* A started step that moves within Started, and does not leave "done",    *)
(* keeps the graph grounded.                                               *)
LEMMA MoveKeepsGrounded ==
  ASSUME TypeOK, Grounded, OutputsAreTerminal,
         NEW s \in Steps, state[s] \in {"ready", "running"},
         NEW v \in {"running", "done", "failed"}, state' = [state EXCEPT ![s] = v],
         wf' = wf, outputs' = outputs,
         \A x \in Steps : x # s => outcome'[x] = outcome[x]
  PROVE  Grounded' /\ OutputsAreTerminal'
<1>1. Grounded'
  <2> SUFFICES ASSUME NEW x \in Steps, state'[x] \in Started, NEW p \in wf.needs[x]
               PROVE  state'[p] = "done" /\ Accepts(wf, x, p, outcome'[p])
    BY DEF Grounded, Accepts
  <2>1. p \in Steps
    BY DEF TypeOK, Workflow
  <2>2. state[x] \in Started
    BY DEF TypeOK, Started
  <2>3. state[p] = "done" /\ Accepts(wf, x, p, outcome[p])
    BY <2>2 DEF Grounded
  <2>4. p # s
    BY <2>3
  <2> QED
    BY <2>1, <2>3, <2>4 DEF TypeOK
<1>2. OutputsAreTerminal'
  <2> SUFFICES ASSUME NEW x \in outputs
               PROVE  state'[x] = "done" /\ <<x, outcome'[x]>> \in Terminals(wf)
    <3>1. Terminals(wf)' = Terminals(wf)
      BY DEF Terminals, Consumed, Accepts
    <3> QED
      BY <3>1 DEF OutputsAreTerminal
  <2>1. x \in Steps /\ state[x] = "done" /\ <<x, outcome[x]>> \in Terminals(wf)
    BY DEF OutputsAreTerminal, TypeOK
  <2>2. x # s
    BY <2>1
  <2> QED
    BY <2>1, <2>2 DEF TypeOK
<1> QED
  BY <1>1, <1>2

LEMMA StartStep ==
  ASSUME IInv, NEW s \in Steps, Start(s)
  PROVE  IInv'
<1>1. /\ state[s] = "ready" /\ state' = [state EXCEPT ![s] = "running"]
      /\ UNCHANGED <<wf, outcome, attempt, told, outputs, runErr, cancelled, result>>
  BY DEF Start
<1>2. TypeOK'
  BY <1>1 DEF IInv, TypeOK, States
<1>3. Grounded' /\ OutputsAreTerminal'
  BY <1>1, MoveKeepsGrounded DEF IInv
<1> QED
  BY <1>1, <1>2, <1>3 DEF IInv

LEMMA FinishStep ==
  ASSUME IInv, NEW s \in Steps, NEW o \in Outcomes, Finish(s, o)
  PROVE  IInv'
<1>1. /\ state[s] = "running" /\ state' = [state EXCEPT ![s] = "done"]
      /\ outcome' = [outcome EXCEPT ![s] = o]
      /\ UNCHANGED <<wf, attempt, told, outputs, runErr, cancelled, result>>
  BY DEF Finish
<1>2. TypeOK'
  BY <1>1, RunAssumption DEF IInv, TypeOK, States
<1>3. Grounded' /\ OutputsAreTerminal'
  BY <1>1, MoveKeepsGrounded DEF IInv, TypeOK
<1> QED
  BY <1>1, <1>2, <1>3 DEF IInv

(* What a step does when it gives up.                                      *)
LEMMA FailedStep ==
  ASSUME IInv, NEW s \in Steps, state[s] = "running", StepFails(s),
         UNCHANGED <<wf, outcome, told, outputs, cancelled, result>>
  PROVE  IInv'
<1>1. state' = [state EXCEPT ![s] = "failed"] /\ runErr' = TRUE /\ attempt' = attempt
  BY DEF StepFails
<1>2. TypeOK'
  BY <1>1 DEF IInv, TypeOK, States
<1>3. Grounded' /\ OutputsAreTerminal'
  BY <1>1, MoveKeepsGrounded DEF IInv
<1> QED
  BY <1>1, <1>2, <1>3 DEF IInv

LEMMA TimeOutStep ==
  ASSUME IInv, NEW s \in Steps, TimeOut(s)
  PROVE  IInv'
<1>1. CASE attempt[s] < MaxAttempts[s]
  <2>1. /\ attempt' = [attempt EXCEPT ![s] = @ + 1]
        /\ UNCHANGED <<wf, state, outcome, told, outputs, runErr, cancelled, result>>
    BY <1>1 DEF TimeOut
  <2>2. attempt' \in [Steps -> Nat] /\ \A x \in Steps : attempt'[x] \in 1..MaxAttempts[x]
    <3>1. attempt \in [Steps -> Nat] /\ MaxAttempts \in [Steps -> Nat \ {0}]
      BY RunAssumption DEF IInv, TypeOK
    <3>2. \A x \in Steps : attempt'[x] = IF x = s THEN attempt[s] + 1 ELSE attempt[x]
      BY <2>1, <3>1
    <3>3. \A x \in Steps : attempt'[x] \in 1..MaxAttempts[x]
      BY <1>1, <3>1, <3>2 DEF IInv, TypeOK
    <3> QED
      BY <2>1, <3>1, <3>3
  <2>3. TypeOK'
    BY <2>1, <2>2 DEF IInv, TypeOK
  <2> QED
    BY <2>1, <2>3 DEF IInv, Grounded, OutputsAreTerminal
<1>2. CASE ~(attempt[s] < MaxAttempts[s])
  BY <1>2, FailedStep DEF TimeOut
<1> QED
  BY <1>1, <1>2

LEMMA TerminalNodesStep ==
  ASSUME IInv, NEW s \in Steps, TerminalNodes(s)
  PROVE  IInv'
<1>1. /\ state[s] = "done" /\ told' = told \cup {s}
      /\ outputs' = IF <<s, outcome[s]>> \in Terminals(wf) THEN outputs \cup {s} ELSE outputs
      /\ UNCHANGED <<wf, state, outcome, attempt, runErr, cancelled, result>>
  BY DEF TerminalNodes
<1>2. TypeOK'
  BY <1>1 DEF IInv, TypeOK
<1>3. Grounded'
  BY <1>1 DEF IInv, Grounded
<1>4. OutputsAreTerminal'
  BY <1>1 DEF IInv, OutputsAreTerminal
<1> QED
  BY <1>1, <1>2, <1>3, <1>4 DEF IInv

(* Cancel and End touch no step.                                           *)
LEMMA RunStep ==
  ASSUME IInv, Cancel \/ End \/ UNCHANGED vars
  PROVE  IInv'
<1>1. UNCHANGED <<wf, state, outcome, attempt, told, outputs, runErr>>
  BY DEF Cancel, End, vars
<1>2. cancelled' \in BOOLEAN /\ result' \in Results \cup {None}
  BY DEF IInv, TypeOK, Cancel, End, vars, Results
<1>3. TypeOK'
  BY <1>1, <1>2 DEF IInv, TypeOK
<1> QED
  BY <1>1, <1>3 DEF IInv, Grounded, OutputsAreTerminal

LEMMA NextIInv == IInv /\ [Next]_vars => IInv'
<1> SUFFICES ASSUME IInv, [Next]_vars PROVE IInv'
  OBVIOUS
<1>1. ASSUME NEW s \in Steps, Node(s) PROVE IInv'
  <2>1. CASE Gate(s)
    BY <2>1, GateStep
  <2>2. CASE Start(s)
    BY <2>2, StartStep
  <2>3. CASE \E o \in Outcomes : Finish(s, o)
    BY <2>3, FinishStep
  <2>4. CASE TimeOut(s)
    BY <2>4, TimeOutStep
  <2>5. CASE Error(s)
    BY <2>5, FailedStep DEF Error
  <2>6. CASE TerminalNodes(s)
    BY <2>6, TerminalNodesStep
  <2> QED
    BY <1>1, <2>1, <2>2, <2>3, <2>4, <2>5, <2>6 DEF Node
<1> QED
  BY <1>1, RunStep DEF Next

LEMMA Invariant == Spec => []IInv
  BY InitIInv, NextIInv, PTL DEF Spec

-----------------------------------------------------------------------------

(* Everything a started step depends on is done: the done steps are closed *)
(* under needs, and the ancestors are the least such set.                  *)
LEMMA AncestorsDone ==
  ASSUME IInv, NEW s \in Steps, state[s] \in Started
  PROVE  \A a \in Ancestors(wf, s) : a \in Steps /\ state[a] = "done"
<1> DEFINE D == {x \in Steps : state[x] = "done"}
<1>1. wf.needs[s] \subseteq D
  BY DEF IInv, Grounded, TypeOK, Workflow
<1>2. \A x \in D : wf.needs[x] \subseteq D
  BY DEF IInv, Grounded, TypeOK, Workflow, Started
<1>3. D \in Downward(wf, s)
  BY <1>1, <1>2 DEF Downward, ClosedUnderNeeds
<1> QED
  BY <1>3 DEF Ancestors

LEMMA BranchTaken == IInv => RunsOnTakenBranch
<1> SUFFICES ASSUME IInv, NEW s \in Steps, state[s] \in Started
             PROVE  /\ \A a \in Ancestors(wf, s) : state[a] = "done"
                    /\ \A x \in {s} \cup Ancestors(wf, s) :
                         \A p \in wf.needs[x] : Accepts(wf, x, p, outcome[p])
  BY DEF RunsOnTakenBranch
<1>1. \A a \in Ancestors(wf, s) : a \in Steps /\ state[a] = "done"
  BY AncestorsDone
<1>2. \A x \in {s} \cup Ancestors(wf, s) : x \in Steps /\ state[x] \in Started
  BY <1>1 DEF Started
<1> QED
  BY <1>1, <1>2 DEF IInv, Grounded

(* What admission requires of a terminal pair has happened once it is      *)
(* reached.                                                                *)
LEMMA ConstraintsMet ==
  ASSUME IInv, NEW s \in Steps, state[s] = "done",
         NEW c \in Constraints(wf, <<s, outcome[s]>>)
  PROVE  outcome[c.step] \in c.values
<1>1. CASE c = [step |-> s, values |-> {outcome[s]}]
  BY <1>1
<1>2. CASE \E d \in ({s} \cup Ancestors(wf, s)) \X Steps :
             /\ d[2] \in wf.needs[d[1]] /\ wf.when[d[1]][d[2]] # {}
             /\ c = [step |-> d[2], values |-> wf.when[d[1]][d[2]]]
  <2>1. PICK x \in {s} \cup Ancestors(wf, s), p \in Steps :
           /\ p \in wf.needs[x] /\ wf.when[x][p] # {}
           /\ c = [step |-> p, values |-> wf.when[x][p]]
    BY <1>2
  <2>2. Accepts(wf, x, p, outcome[p])
    BY <2>1, BranchTaken DEF RunsOnTakenBranch, Started
  <2> QED
    BY <2>1, <2>2 DEF Accepts
<1> QED
  BY <1>1, <1>2 DEF Constraints

LEMMA TerminalsExclude == IInv => AtMostOneTerminal
<1> SUFFICES ASSUME IInv, NEW s \in outputs, NEW t \in outputs, s # t
             PROVE  FALSE
  BY DEF AtMostOneTerminal
<1> DEFINE l == <<s, outcome[s]>>
           r == <<t, outcome[t]>>
<1>1. /\ s \in Steps /\ state[s] = "done" /\ l \in Terminals(wf)
      /\ t \in Steps /\ state[t] = "done" /\ r \in Terminals(wf)
  BY DEF IInv, OutputsAreTerminal, TypeOK
<1>2. ConstraintsConflict(Constraints(wf, l), Constraints(wf, r))
  BY <1>1 DEF IInv, Admitted
<1>3. PICK c \in Constraints(wf, l), d \in Constraints(wf, r) :
         c.step = d.step /\ c.values \cap d.values = {}
  BY <1>2 DEF ConstraintsConflict, Shared, Disjoint
<1>4. outcome[c.step] \in c.values /\ outcome[d.step] \in d.values
  BY <1>1, ConstraintsMet
<1> QED
  BY <1>3, <1>4

-----------------------------------------------------------------------------
(* How a run ends.  Gates that answered "skip" stay answered, a terminal   *)
(* node that ran gave its output, and a run without an error ends quiet.   *)

FailedIsError  == \A s \in Steps : state[s] = "failed" => runErr
SkippedRefused == \A s \in Steps : state[s] = "skipped" => Joined(s) /\ ~ConditionsMatch(s)
ToldAreKept    ==
  \A s \in told : state[s] = "done" /\ (<<s, outcome[s]>> \in Terminals(wf) => s \in outputs)
EndedQuiet     ==
  result \in {"succeeded", "incomplete"} => Quiet /\ ~runErr /\ (result = "incomplete" => outputs = {})

OutcomesAllowed == \A s \in Steps : state[s] = "done" => outcome[s] \in Enum[s]

EndInv == FailedIsError /\ SkippedRefused /\ ToldAreKept /\ EndedQuiet /\ OutcomesAllowed

LEMMA InitEndInv == Init => EndInv
BY RunAssumption DEF Init, EndInv, FailedIsError, SkippedRefused, ToldAreKept, EndedQuiet, OutcomesAllowed

(* A done step stays done, with its outcome.                               *)
LEMMA NodeMoves ==
  ASSUME IInv, NEW s \in Steps, Node(s)
  PROVE  /\ result = None /\ result' = None /\ wf' = wf
         /\ \A x \in Steps \ {s} : state'[x] = state[x] /\ outcome'[x] = outcome[x]
         /\ state[s] = "done" => state'[s] = "done" /\ outcome'[s] = outcome[s]
         /\ runErr => runErr'
<1> USE DEF IInv, TypeOK
<1>1. CASE Gate(s)
  BY <1>1 DEF Gate, Going
<1>2. CASE Start(s)
  BY <1>2 DEF Start, Going
<1>3. CASE \E o \in Outcomes : Finish(s, o)
  BY <1>3 DEF Finish
<1>4. CASE TimeOut(s) \/ Error(s)
  BY <1>4 DEF TimeOut, Error, StepFails
<1>5. CASE TerminalNodes(s)
  BY <1>5 DEF TerminalNodes
<1> QED
  BY <1>1, <1>2, <1>3, <1>4, <1>5 DEF Node

LEMMA NodeEndInv == ASSUME IInv, EndInv, NEW s \in Steps, Node(s) PROVE EndInv'
<1>1. /\ result' = None /\ wf' = wf
      /\ \A x \in Steps \ {s} : state'[x] = state[x] /\ outcome'[x] = outcome[x]
      /\ \A x \in Steps : state[x] = "done" => state'[x] = "done" /\ outcome'[x] = outcome[x]
      /\ runErr => runErr'
  BY NodeMoves
<1>2. EndedQuiet'
  BY <1>1, RunAssumption DEF EndedQuiet
<1>3. FailedIsError'
  <2>1. state'[s] = "failed" => runErr' \/ state[s] = "failed"
    <3>1. CASE Gate(s)
      BY <3>1 DEF Gate, IInv, TypeOK
    <3>2. CASE Start(s)
      BY <3>2 DEF Start, IInv, TypeOK
    <3>3. CASE \E o \in Outcomes : Finish(s, o)
      BY <3>3 DEF Finish, IInv, TypeOK
    <3>4. CASE TimeOut(s) \/ Error(s)
      BY <3>4 DEF TimeOut, Error, StepFails
    <3>5. CASE TerminalNodes(s)
      BY <3>5 DEF TerminalNodes
    <3> QED
      BY <3>1, <3>2, <3>3, <3>4, <3>5 DEF Node
  <2> QED
    BY <1>1, <2>1 DEF EndInv, FailedIsError
<1>4. SkippedRefused'
  <2> SUFFICES ASSUME NEW x \in Steps, state'[x] = "skipped"
               PROVE  /\ \A p \in wf.needs[x] : state'[p] = "done"
                      /\ ~(\A p \in wf.needs[x] : Accepts(wf, x, p, outcome'[p]))
    BY <1>1 DEF SkippedRefused, Joined, ConditionsMatch, Accepts
  <2>1. Joined(x) /\ ~ConditionsMatch(x)
    <3>1. CASE state[x] = "skipped"
      BY <3>1 DEF EndInv, SkippedRefused
    <3>2. CASE state[x] # "skipped"
      <4>1. x = s /\ state'[s] = "skipped" /\ state[s] # "skipped"
        BY <1>1, <3>2
      <4>2. Gate(s)
        BY <4>1 DEF Node, Start, Finish, TimeOut, Error, StepFails, TerminalNodes, IInv, TypeOK
      <4>3. Joined(s) /\ (IF ConditionsMatch(s) THEN "ready" ELSE "skipped") = "skipped"
        BY <4>1, <4>2 DEF Gate, IInv, TypeOK
      <4> QED
        BY <4>1, <4>3
    <3> QED
      BY <3>1, <3>2
  <2>2. \A p \in wf.needs[x] : p \in Steps
    BY DEF IInv, TypeOK, Workflow
  <2> QED
    BY <1>1, <2>1, <2>2 DEF Joined, ConditionsMatch
<1>5. ToldAreKept'
  <2>1. CASE TerminalNodes(s)
    BY <2>1 DEF TerminalNodes, EndInv, ToldAreKept, IInv, TypeOK
  <2>2. CASE ~TerminalNodes(s)
    <3>1. told' = told /\ outputs' = outputs
      BY <2>2 DEF Node, Gate, Start, Finish, TimeOut, Error
    <3>2. Terminals(wf)' = Terminals(wf)
      BY <1>1 DEF Terminals, Consumed, Accepts
    <3> QED
      BY <1>1, <3>1, <3>2 DEF EndInv, ToldAreKept, IInv, TypeOK
  <2> QED
    BY <2>1, <2>2
<1>6. OutcomesAllowed'
  <2>1. state'[s] = "done" /\ state[s] # "done" => outcome'[s] \in Enum[s]
    BY DEF Node, Gate, Start, Finish, TimeOut, Error, StepFails, TerminalNodes, IInv, TypeOK
  <2> QED
    BY <1>1, <2>1 DEF EndInv, OutcomesAllowed
<1> QED
  BY <1>2, <1>3, <1>4, <1>5, <1>6 DEF EndInv

LEMMA NextEndInv == IInv /\ EndInv /\ [Next]_vars => EndInv'
<1> SUFFICES ASSUME IInv, EndInv, [Next]_vars PROVE EndInv'
  OBVIOUS
<1>1. CASE \E s \in Steps : Node(s)
  BY <1>1, NodeEndInv
<1>2. CASE Cancel \/ End \/ UNCHANGED vars
  <2>1. UNCHANGED <<wf, state, outcome, attempt, told, outputs, runErr>>
    BY <1>2 DEF Cancel, End, vars
  <2>2. FailedIsError' /\ OutcomesAllowed' /\ ToldAreKept' /\ (Quiet' <=> Quiet)
    BY <2>1 DEF EndInv, OutcomesAllowed, FailedIsError, ToldAreKept, Terminals, Consumed, Accepts, Quiet, Joined, IsTerminal
  <2>3. SkippedRefused'
    BY <2>1 DEF EndInv, SkippedRefused, Joined, ConditionsMatch, Accepts
  <2>4. EndedQuiet'
    <3>1. CASE End
      BY <2>1, <2>2, <3>1 DEF End, EndedQuiet
    <3>2. CASE ~End
      BY <1>2, <2>1, <2>2, <3>2 DEF Cancel, vars, EndInv, EndedQuiet
    <3> QED
      BY <3>1, <3>2
  <2> QED
    BY <2>2, <2>3, <2>4 DEF EndInv
<1> QED
  BY <1>1, <1>2 DEF Next

LEMMA EndInvariant == Spec => []EndInv
BY InitEndInv, NextEndInv, Invariant, PTL DEF Spec

-----------------------------------------------------------------------------
(* Ancestors are what needs leads to.                                      *)

LEMMA AncestorsClosed ==
  ASSUME IInv, NEW s \in Steps
  PROVE  /\ Ancestors(wf, s) \subseteq Steps /\ wf.needs[s] \subseteq Ancestors(wf, s)
         /\ \A p \in Ancestors(wf, s) : wf.needs[p] \subseteq Ancestors(wf, s)
<1>1. \A x \in Steps : wf.needs[x] \subseteq Steps
  BY DEF IInv, TypeOK, Workflow
<1> QED
  BY <1>1 DEF Ancestors, Downward, ClosedUnderNeeds

LEMMA AncestorsOfNeed ==
  ASSUME IInv, NEW s \in Steps, NEW p \in Steps, p \in Ancestors(wf, s)
  PROVE  Ancestors(wf, p) \subseteq Ancestors(wf, s) /\ p \notin Ancestors(wf, p)
<1>1. Ancestors(wf, s) \in Downward(wf, p)
  BY AncestorsClosed DEF Downward, ClosedUnderNeeds
<1>2. Ancestors(wf, p) \subseteq Ancestors(wf, s)
  BY <1>1 DEF Ancestors
<1>3. p \notin Ancestors(wf, p)
  BY DEF IInv, Admitted, Acyclic
<1> QED
  BY <1>2, <1>3

(* How deep a step lies in the graph: it lies deeper than its needs.       *)
Depth(s) == Cardinality(Ancestors(wf, s))

LEMMA NeedsLieHigher ==
  ASSUME IInv, NEW s \in Steps, NEW p \in Steps, p \in wf.needs[s]
  PROVE  Depth(s) \in Nat /\ Depth(p) \in Nat /\ Depth(p) < Depth(s) /\ Depth(s) <= Cardinality(Steps)
<1>1. Ancestors(wf, p) \subseteq Ancestors(wf, s) /\ p \in Ancestors(wf, s) /\ p \notin Ancestors(wf, p)
      /\ Ancestors(wf, s) \in SUBSET Steps
  BY AncestorsClosed, AncestorsOfNeed
<1>2. IsFiniteSet(Ancestors(wf, s)) /\ Cardinality(Ancestors(wf, s)) <= Cardinality(Steps)
  BY <1>1, RunAssumption, FS_Subset
<1>3. IsFiniteSet(Ancestors(wf, p)) /\ Cardinality(Ancestors(wf, p)) <= Cardinality(Ancestors(wf, s))
      /\ (Cardinality(Ancestors(wf, s)) = Cardinality(Ancestors(wf, p)) => Ancestors(wf, s) = Ancestors(wf, p))
  BY <1>1, <1>2, FS_Subset
<1>4. Depth(s) \in Nat /\ Depth(p) \in Nat
  BY <1>2, <1>3, FS_CardinalityType DEF Depth
<1>5. Depth(p) # Depth(s)
  BY <1>1, <1>3 DEF Depth
<1> QED
  BY <1>2, <1>3, <1>4, <1>5 DEF Depth

LEMMA LeastNumber ==
  ASSUME NEW T \in SUBSET Nat, T # {}
  PROVE  \E n \in T : \A m \in T : n <= m
<1>1. PICK n \in T : \A m \in T : ~(<<m, n>> \in OpToRel(<, Nat))
  BY NatLessThanWellFounded, WFMin
<1>2. \A m \in T : ~(m < n)
  BY <1>1 DEF OpToRel
<1> QED
  BY <1>2

LEMMA DepthIs == ASSUME IInv, NEW s \in Steps PROVE Depth(s) \in Nat /\ Depth(s) <= Cardinality(Steps)
<1>1. Ancestors(wf, s) \in SUBSET Steps
  BY AncestorsClosed
<1> QED
  BY <1>1, RunAssumption, FS_Subset, FS_CardinalityType DEF Depth

(* In a set of steps there is one that needs none of them, and one that    *)
(* none of them needs.                                                     *)
LEMMA FirstStep ==
  ASSUME IInv, NEW U \in SUBSET Steps, U # {}
  PROVE  \E s \in U : wf.needs[s] \cap U = {}
<1> DEFINE T == {Depth(s) : s \in U}
<1>1. T \in SUBSET Nat /\ T # {}
  BY DepthIs
<1>2. PICK n \in T : \A m \in T : n <= m
  BY <1>1, LeastNumber
<1>3. PICK s \in U : n = Depth(s)
  BY <1>2
<1>4. ASSUME NEW p \in wf.needs[s], p \in U PROVE FALSE
  <2>1. Depth(p) < Depth(s) /\ Depth(s) \in Nat /\ Depth(p) \in Nat
    BY <1>4, NeedsLieHigher
  <2>2. n <= Depth(p)
    BY <1>2, <1>4
  <2> QED
    BY <1>3, <2>1, <2>2
<1> QED
  BY <1>4

LEMMA LastStep ==
  ASSUME IInv, NEW U \in SUBSET Steps, U # {}
  PROVE  \E s \in U : \A t \in U : s \notin wf.needs[t]
<1> DEFINE T == {Cardinality(Steps) - Depth(s) : s \in U}
<1>0. Cardinality(Steps) \in Nat
  BY RunAssumption, FS_CardinalityType
<1>1. T \in SUBSET Nat /\ T # {}
  BY <1>0, DepthIs
<1>2. PICK n \in T : \A m \in T : n <= m
  BY <1>1, LeastNumber
<1>3. PICK s \in U : n = Cardinality(Steps) - Depth(s)
  BY <1>2
<1>4. ASSUME NEW t \in U, s \in wf.needs[t] PROVE FALSE
  <2>1. Depth(s) < Depth(t) /\ Depth(s) \in Nat /\ Depth(t) \in Nat
    BY <1>4, NeedsLieHigher
  <2>2. n <= Cardinality(Steps) - Depth(t)
    BY <1>2, <1>4
  <2> QED
    BY <1>0, <1>3, <2>1, <2>2
<1> QED
  BY <1>4

-----------------------------------------------------------------------------
(* What did not run was skipped.                                           *)

LEMMA QuietStates ==
  ASSUME IInv, EndInv, result \in {"succeeded", "incomplete"}, NEW s \in Steps
  PROVE  /\ state[s] \in {"waiting", "skipped", "done"}
         /\ state[s] = "waiting" => ~Joined(s)
         /\ IsTerminal(s) /\ state[s] = "done" => s \in told
BY DEF EndInv, EndedQuiet, FailedIsError, Quiet, IInv, TypeOK, States

LEMMA UnrunSkipped == IInv /\ EndInv => UnrunWasSkipped
<1> SUFFICES ASSUME IInv, EndInv, result = "succeeded", NEW s \in Steps, state[s] # "done",
                    \A a \in {s} \cup Ancestors(wf, s) : state[a] # "skipped"
             PROVE  FALSE
  BY DEF UnrunWasSkipped
<1> DEFINE U == {x \in {s} \cup Ancestors(wf, s) : state[x] # "done"}
<1>1. U \in SUBSET Steps /\ U # {}
  BY AncestorsClosed
<1>2. PICK x \in U : wf.needs[x] \cap U = {}
  BY <1>1, FirstStep
<1>3. x \in Steps /\ state[x] = "waiting"
  BY <1>1, <1>2, QuietStates
<1>4. wf.needs[x] \subseteq Ancestors(wf, s)
  BY <1>2, AncestorsClosed
<1>5. Joined(x)
  BY <1>2, <1>4 DEF Joined
<1> QED
  BY <1>3, <1>5, QuietStates

(* Where no step joins two others, a done step whose outcome is consumed   *)
(* makes the step that consumes it run.                                    *)
LEMMA ChainGoesOn ==
  ASSUME IInv, EndInv, result = "incomplete", \A x \in Steps : Cardinality(wf.needs[x]) <= 1,
         NEW s \in Steps, state[s] = "done"
  PROVE  \E t \in Steps : state[t] = "done" /\ s \in wf.needs[t]
<1>1. state[s] = "done" /\ outcome[s] \in Enum[s] /\ outcome[s] \in Outcomes /\ outputs = {}
  BY RunAssumption DEF EndInv, OutcomesAllowed, EndedQuiet, IInv, TypeOK
<1>2. <<s, outcome[s]>> \notin Terminals(wf)
  <2> SUFFICES ASSUME <<s, outcome[s]>> \in Terminals(wf) PROVE FALSE
    OBVIOUS
  <2>1. s \in told
    BY <1>1, QuietStates DEF IsTerminal
  <2> QED
    BY <1>1, <2>1 DEF EndInv, ToldAreKept
<1>3. PICK t \in Steps : s \in wf.needs[t] /\ Accepts(wf, t, s, outcome[s])
  BY <1>1, <1>2 DEF Terminals, Consumed
<1>4. wf.needs[t] = {s}
  <2>1. wf.needs[t] \in SUBSET Steps /\ {s} \in SUBSET wf.needs[t] /\ Cardinality({s}) = 1
    BY <1>3, FS_Singleton DEF IInv, TypeOK, Workflow
  <2>2. IsFiniteSet(wf.needs[t]) /\ Cardinality(wf.needs[t]) \in Nat
    BY <2>1, RunAssumption, FS_Subset, FS_CardinalityType
  <2>3. Cardinality({s}) <= Cardinality(wf.needs[t]) /\ (Cardinality(wf.needs[t]) = Cardinality({s}) => wf.needs[t] = {s})
    BY <2>1, <2>2, FS_Subset
  <2> QED
    BY <2>1, <2>2, <2>3
<1>5. Joined(t) /\ ConditionsMatch(t)
  BY <1>1, <1>3, <1>4 DEF Joined, ConditionsMatch
<1>6. state[t] = "done"
  BY <1>5, QuietStates DEF EndInv, SkippedRefused
<1> QED
  BY <1>3, <1>6

LEMMA ChainsSelect == IInv /\ EndInv => ChainsSelectOne
<1> SUFFICES ASSUME IInv, EndInv, \A s \in Steps : Cardinality(wf.needs[s]) <= 1, result = "incomplete"
             PROVE  FALSE
  BY DEF ChainsSelectOne
<1> DEFINE U == {s \in Steps : state[s] = "done"}
<1>1. U # {}
  <2>1. Steps # {}
    BY DEF IInv, Admitted, Terminals
  <2>2. PICK r \in Steps : wf.needs[r] \cap Steps = {}
    BY <2>1, FirstStep
  <2>3. wf.needs[r] = {}
    BY <2>2 DEF IInv, TypeOK, Workflow
  <2>4. Joined(r) /\ ConditionsMatch(r)
    BY <2>3 DEF Joined, ConditionsMatch
  <2>5. state[r] = "done"
    BY <2>4, QuietStates DEF EndInv, SkippedRefused
  <2> QED
    BY <2>5
<1>2. PICK s \in U : \A t \in U : s \notin wf.needs[t]
  BY <1>1, LastStep
<1> QED
  BY <1>2, ChainGoesOn

-----------------------------------------------------------------------------

(* The state of a run has its types: a step has an outcome when it is done *)
(* and only then, and no step is attempted more than MaxAttempts times.    *)
THEOREM TypeCorrect == Spec => []TypeOK
<1>1. IInv => TypeOK
  BY DEF IInv
<1> QED
  BY <1>1, Invariant, PTL

(* No step of any admitted workflow runs on a branch that was not taken.   *)
THEOREM TakenBranches == Spec => []RunsOnTakenBranch
  BY BranchTaken, Invariant, PTL

(* Admission's pairwise conflict check is enough: in no run of an admitted *)
(* workflow do two terminal nodes give an output (errAmbiguousTerminal).   *)
THEOREM UniqueTerminal == Spec => []AtMostOneTerminal
  BY TerminalsExclude, Invariant, PTL

(* In a run that succeeded, a step that did not run is, or is after, a     *)
(* step whose condition was false.                                         *)
THEOREM UnrunSteps == Spec => []UnrunWasSkipped
  BY UnrunSkipped, Invariant, EndInvariant, PTL

(* Where no step joins two others, a run that ends without an error has an *)
(* output.                                                                 *)
THEOREM ChainsEnd == Spec => []ChainsSelectOne
  BY ChainsSelect, Invariant, EndInvariant, PTL
=============================================================================
