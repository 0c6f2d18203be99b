--------------------------- MODULE MCWorkflowRun ---------------------------
(* Every workflow of N steps in topological order: on each earlier step a  *)
(* step has no need ({}), a need ({any}), or a need with a condition.      *)
(* MaxNeeds bounds the needs of a workflow altogether.  Step 2 is retried. *)
EXTENDS WorkflowRun

CONSTANTS N, MaxNeeds, yes, no, any

StepsDef    == 1..N
Edges       == {e \in StepsDef \X StepsDef : e[1] < e[2]}
EnumDef     == [s \in StepsDef |-> IF s = 4 THEN {yes} ELSE {yes, no}]
Options     == {{any}, {yes}, {no}, {}}
Fits(f)     == /\ Cardinality({e \in Edges : f[e] # {}}) <= MaxNeeds
               /\ \A e \in Edges : f[e] \subseteq EnumDef[e[1]] \cup {any}
AttemptsDef == [s \in StepsDef |-> IF s = 2 THEN 2 ELSE 1]
WorkflowOf(f) ==
  [needs |-> [s \in StepsDef |-> {p \in StepsDef : p < s /\ f[<<p, s>>] # {}}],
   when  |-> [s \in StepsDef |-> [p \in StepsDef |-> IF p < s THEN f[<<p, s>>] \ {any} ELSE {}]]]
WorkflowsDef == {WorkflowOf(f) : f \in {g \in [Edges -> Options] : Fits(g)}}
=============================================================================
