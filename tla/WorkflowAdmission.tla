------------------------- MODULE WorkflowAdmission -------------------------
(***************************************************************************)
(* The static checks on a workflow's graph and result (internal/plan/plan  *)
(* .go compileResult, internal/config/validate.go TopologicalSort): which  *)
(* (step, outcome) pairs are terminal, and whether two of them can be      *)
(* reached by one run.  A workflow is its needs and its when conditions;   *)
(* its result routes are exactly its terminal pairs.                       *)
(***************************************************************************)
CONSTANTS
  Steps,     \* step identifiers
  Outcomes,  \* values of the outcome enums
  Enum,      \* [Steps -> SUBSET Outcomes], the enum of each step
  Workflows  \* the workflows that are submitted

(* when[s][p] is the set of outcomes s accepts of p, empty where s has no  *)
(* condition on p.                                                         *)
Workflow == [needs : [Steps -> SUBSET Steps], when : [Steps -> [Steps -> SUBSET Outcomes]]]

ASSUME WorkflowAssumption ==
  /\ Enum \in [Steps -> SUBSET Outcomes]
  /\ \A s \in Steps : Enum[s] # {}
  /\ Workflows \subseteq Workflow

-----------------------------------------------------------------------------

(* Everything s depends on: the least set that holds the needs of s and of *)
(* its members (isAncestor, and the visit of terminalConstraints).         *)
ClosedUnderNeeds(w, S) == \A x \in S : w.needs[x] \subseteq S
Downward(w, s)  == {S \in SUBSET Steps : w.needs[s] \subseteq S /\ ClosedUnderNeeds(w, S)}
Ancestors(w, s) == LET D == Downward(w, s) IN {a \in Steps : \A S \in D : a \in S}

Acyclic(w) == \A s \in Steps : s \notin Ancestors(w, s)

(* compileConditions: a condition is on a direct need, and names outcomes  *)
(* of its enum.                                                            *)
ConditionsValid(w) ==
  \A s, p \in Steps : w.when[s][p] # {} => p \in w.needs[s] /\ w.when[s][p] \subseteq Enum[p]

(* Mutant: any successor consumes every outcome.                           *)
BugConsumed(w, p, o) == \E s \in Steps : p \in w.needs[s]

(* A successor consumes an outcome when it has no condition on the step or *)
(* its condition names the outcome.                                        *)
Accepts(w, s, p, o) == w.when[s][p] = {} \/ o \in w.when[s][p]
Consumed(w, p, o)   == \E s \in Steps : p \in w.needs[s] /\ Accepts(w, s, p, o)

Terminals(w) == {t \in Steps \X Outcomes : t[2] \in Enum[t[1]] /\ ~Consumed(w, t[1], t[2])}

(* What must hold for a terminal pair to be reached.  The code keeps one   *)
(* condition per step, the last one its visit meets; which one depends on  *)
(* the order of the file, so all of them are kept here.                    *)
Constraints(w, t) ==
  {[step |-> t[1], values |-> {t[2]}]} \cup
  {[step |-> c[2], values |-> w.when[c[1]][c[2]]] :
     c \in {d \in ({t[1]} \cup Ancestors(w, t[1])) \X Steps :
              d[2] \in w.needs[d[1]] /\ w.when[d[1]][d[2]] # {}}}

(* constraintsConflict answers at the first step of a map that both pairs  *)
(* constrain, and the order of a map is random: it can find a conflict if  *)
(* some shared step has one, and always does only if every one has.        *)
Shared(left, right) == {c \in left \X right : c[1].step = c[2].step}
Disjoint(c) == c[1].values \cap c[2].values = {}

(* Mutant: the values that the two allow are not compared.                 *)
BugConstraintsConflict(left, right) == Shared(left, right) # {}

ConstraintsConflict(left, right) == \E c \in Shared(left, right) : Disjoint(c)
AlwaysConflict(left, right) ==
  Shared(left, right) # {} /\ \A c \in Shared(left, right) : Disjoint(c)

(* compileResult: admitted by some order of the maps, and by every order.  *)
Admitted(w) ==
  LET T == Terminals(w)
      C == [t \in T |-> Constraints(w, t)]
  IN  /\ Acyclic(w) /\ ConditionsValid(w)
      /\ T # {}
      /\ \A l, r \in T : l # r => ConstraintsConflict(C[l], C[r])

AlwaysAdmitted(w) ==
  LET T == Terminals(w)
  IN  /\ Admitted(w)
      /\ \A l, r \in T : l # r => AlwaysConflict(Constraints(w, l), Constraints(w, r))
=============================================================================
