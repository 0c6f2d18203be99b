----------------------------- MODULE Publication -----------------------------
(***************************************************************************)
(* What a trusted publisher promises to the repository it writes to,       *)
(* whatever happens to its processes: for one correlation key there is at  *)
(* most one authored branch and one draft pull request, the pull request   *)
(* comes after the branch it is about, and both stay what they were when   *)
(* they were created.  Others may take the ref first; then the key is      *)
(* theirs for good.                                                        *)
(***************************************************************************)
CONSTANTS Bundles, Keys, Key, Payload, Payloads, Source, Commits, None

VARIABLES refs,   \* [Keys -> Commits \cup {None}], the target ref of a key
          titled  \* [Keys -> Payloads \cup {None}], its open pull request

pubvars == <<refs, titled>>

Init ==
  /\ refs = [k \in Keys |-> None]
  /\ titled = [k \in Keys |-> None]

(* The ref of a key is created once, by a bundle or by others.             *)
CreateRef(k, c) ==
  /\ refs[k] = None
  /\ refs' = [refs EXCEPT ![k] = c]
  /\ UNCHANGED titled

(* A bundle's pull request is opened over the bundle's own commit.         *)
OpenPull(b) ==
  /\ refs[Key[b]] = Source[b]
  /\ titled[Key[b]] = None
  /\ titled' = [titled EXCEPT ![Key[b]] = Payload[b]]
  /\ UNCHANGED refs

Next ==
  \/ \E k \in Keys, c \in Commits : CreateRef(k, c)
  \/ \E b \in Bundles : OpenPull(b)

Spec == Init /\ [][Next]_pubvars
=============================================================================
