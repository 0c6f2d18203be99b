---------------------------- MODULE MCToolGuards ----------------------------
(* Two steps with two tools.                                               *)
EXTENDS ToolGuards

CONSTANTS s1, s2, g1, g2, t1, t2, w1, w2, Shared

ScopeOfDef      == [s \in Steps |-> IF Shared \/ s = s1 THEN g1 ELSE g2]
AllowedDef      == [g \in Scopes |-> IF g = g1 THEN {t1, t2} ELSE {t1}]
ScopeMaxDef     == [g \in Scopes |-> 2]
ToolMaxDef      == [g \in Scopes |-> [t \in Tools |-> IF t = t1 THEN 2 ELSE 1]]
ScopeTimeoutDef == [g \in Scopes |-> 2]
ToolTimeoutDef  == [g \in Scopes |-> [t \in Tools |-> IF t = t1 THEN 1 ELSE 2]]
=============================================================================
