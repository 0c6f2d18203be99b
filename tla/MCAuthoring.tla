---------------------------- MODULE MCAuthoring ----------------------------
(* A file of the base, a new file, and a path that may be ignored.         *)
EXTENDS Authoring, TLC

CONSTANTS tracked, created, ignored, small, other, large

BaseDef == [p \in Paths |-> IF p = tracked THEN small ELSE Absent]
SizeDef == [c \in Contents |-> IF c = large THEN 2 ELSE 1]
=============================================================================
