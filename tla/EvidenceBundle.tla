--------------------------- MODULE EvidenceBundle ---------------------------
(***************************************************************************)
(* What an evidence directory promises to whoever reads it: it holds the   *)
(* bundle of one run or nothing, a bundle is never replaced by another, and*)
(* once its run has reported the bundle it stays there, unless the run is  *)
(* of the kind that does not sync its files.                               *)
(***************************************************************************)
CONSTANTS Runs, Unsynced, None

VARIABLES dir,      \* the run whose bundle the directory holds
          reported  \* runs that have reported their bundle

bundlevars == <<dir, reported>>

Init == dir = None /\ reported = {}

Publish(r) ==
  /\ dir = None
  /\ dir' = r
  /\ UNCHANGED reported

Report(r) ==
  /\ dir = r
  /\ reported' = reported \cup {r}
  /\ UNCHANGED dir

(* The power fails.                                                        *)
Lose ==
  /\ dir \in Unsynced \/ dir \notin reported
  /\ dir' = None
  /\ UNCHANGED reported

Next == Lose \/ \E r \in Runs : Publish(r) \/ Report(r)

Spec == Init /\ [][Next]_bundlevars
=============================================================================
