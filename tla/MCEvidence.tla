----------------------------- MODULE MCEvidence -----------------------------
(* A run of each version on one directory.                                 *)
EXTENDS Evidence

CONSTANTS old, m3

VersionDef == [r \in Runs |-> IF r = old THEN 1 ELSE 2]
=============================================================================
