--------------------------- MODULE MCVerification ---------------------------
(* One workflow run twice, and the publishers that may be given its bundle.*)
EXTENDS Verification

At(repository, sha) == [repository |-> repository, ref |-> "main", sha |-> sha]
Control == [parses |-> TRUE, version |-> 1, spelled |-> TRUE, source |-> "github", repository |-> "own",
            event |-> [name |-> "issues", subject |-> [kind |-> "issue", number |-> 1],
                       base |-> At("own", "c1"), head |-> At("own", "c1")],
            run |-> [id |-> 1, attempt |-> 1], operator |-> FALSE,
            checkout |-> [ref |-> "main", sha |-> "c1"], id |-> "m3", key |-> "k", issued |-> 1, expires |-> 4]
OnTarget == [Control EXCEPT !.checkout.ref = "duto/k", !.event.base.ref = "duto/k", !.event.head.ref = "duto/k"]
Short    == [Control EXCEPT !.expires = 3]

Policy == [id |-> "m3", prefix |-> "duto/", maxReply |-> 1, maxPR |-> 2]

Stage(operationSet, bytes, completion, control) ==
  [policy |-> Policy, control |-> control, operationSet |-> operationSet, bytes |-> bytes, completion |-> completion]

First ==
  {Stage(set, 1, completion, control) :
     set \in {"none", "conversation-reply", "branch-pr"}, completion \in {"succeeded", "failed"},
     control \in {Control}} \cup
  {Stage("conversation-reply", 1, "succeeded", Short), Stage("branch-pr", 2, "succeeded", OnTarget)}
Failed(s) == [s EXCEPT !.completion = "failed"]
StagedDef == {<<s, s>> : s \in First} \cup {<<s, Failed(s)>> : s \in First}
PoliciesDef == {Policy, [Policy EXCEPT !.maxReply = 2]}
CurrentsDef == {Control, OnTarget, [Control EXCEPT !.issued = 2, !.expires = 5], 
                [Control EXCEPT !.run.attempt = 2], [Control EXCEPT !.parses = FALSE]}
=============================================================================
