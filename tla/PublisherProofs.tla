--------------------------- MODULE PublisherProofs ---------------------------
(***************************************************************************)
(* Proofs about Publisher for any bundles, keys, commits, activations and  *)
(* page size, any number of activations at a time, and any number of       *)
(* failures, crashes and changes by others.                                *)
(***************************************************************************)
EXTENDS Publisher, FiniteSetTheorems, WellFoundedInduction, TLAPS

Success == {"applied", "unchanged"}
Results == {None, "applied", "unchanged", "conflict"}
Ended   == {"report", "done", "crashed"}

(* The request an activation is at belongs to the operation it works on.   *)
AtOperation(a) ==
  /\ pc[a] # "idle" => bundle[a] \in Bundles
  /\ pc[a] \in {"subject", "comments", "post"} => Profile[bundle[a]] = "reply" /\ at[a] = 1
  /\ pc[a] \in {"base", "target", "fetch", "push"} => Profile[bundle[a]] = "branch-pr" /\ at[a] = 1
  /\ pc[a] \in {"pulls", "create"} => Profile[bundle[a]] = "branch-pr" /\ at[a] = 2

(* In preflight nothing was sent or noted and the operations before this   *)
(* one were found; in apply all of them were, and the ones before this one *)
(* succeeded.                                                              *)
Preflighting(a) ==
  /\ pc[a] = "idle" =>
        at[a] = 1 /\ phase[a] = "preflight" /\ \A i \in Index : seen[a][i] = None
  /\ pc[a] = "idle" \/ (pc[a] \in Reads /\ phase[a] = "preflight") =>
        /\ ~wrote[a] /\ receipt[a] = NoReceipt
        /\ \A i \in 1..(at[a] - 1) : seen[a][i] # None

Applying(a) ==
  pc[a] \in Writes \/ (pc[a] \in Reads /\ phase[a] = "reconcile") =>
     /\ \A i \in 1..Size(a) : seen[a][i] # None
     /\ \A i \in 1..(at[a] - 1) : receipt[a].ops[i] \in Success
     /\ receipt[a].disposition = None

(* What the receipt says of the activation as a whole.                     *)
Sealed(a) ==
  /\ wrote[a] => pc[a] # "idle" /\ \A i \in 1..Size(a) : seen[a][i] # None
  /\ receipt[a].disposition # None => pc[a] \in Ended
  /\ receipt[a].disposition = "rejected" => ~wrote[a]
  /\ receipt[a].disposition \in Success =>
        \A i \in 1..Size(a) : receipt[a].ops[i] \in Success

(* What was found or applied is in the repository.                         *)
Truthful(a) ==
  /\ \A i \in Index : receipt[a].ops[i] \in Success => i <= Size(a) /\ Published(bundle[a], i)
  /\ \A i \in Index : seen[a][i] = "unchanged" => i <= Size(a) /\ Published(bundle[a], i)

Held(a) == AtOperation(a) /\ Preflighting(a) /\ Applying(a) /\ Sealed(a) /\ Truthful(a)

AuthoredUnder(k) == {Source[b] : b \in {c \in Bundles : Profile[c] = "branch-pr" /\ Key[c] = k}}

(* An open pull request has a payload, and a ref is at a commit that was   *)
(* authored under its key or that others chose.                            *)
Remote ==
  \A k \in Keys :
     /\ pull[k].payload = None => pull[k] = NoPull
     /\ branch[k] \in {None} \cup ForeignCommits \cup AuthoredUnder(k)

IInv == TypeOK /\ Remote /\ \A a \in Activations : Held(a)

(* A push moves a ref only from nothing.  A bundle may start from a commit *)
(* that was authored under its own key and merged; the base is at such a   *)
(* commit only when the ref of the key is there, and the preflight that    *)
(* found the base there then finds the ref.                                *)
Stacked(b) == Base[b] \in AuthoredUnder(Key[b])

MergedIsThere ==
  \A c \in Bundles : Profile[c] = "branch-pr" /\ base = Source[c] => branch[Key[c]] # None

FreshAt(a) ==
  pc[a] # "idle" /\ Profile[bundle[a]] = "branch-pr" /\ Stacked(bundle[a]) =>
    /\ pc[a] = "target" /\ phase[a] = "preflight" => branch[Key[bundle[a]]] # None
    /\ seen[a][1] # "absent" /\ pc[a] \notin {"fetch", "push"}

Fresh == MergedIsThere /\ \A a \in Activations : FreshAt(a)

-----------------------------------------------------------------------------
(* The operations of a bundle, and what it means that they are published.  *)

LEMMA OperationsOf ==
  ASSUME NEW b \in Bundles
  PROVE  /\ Profile[b] = "reply" => Operations(b) = <<"reply">> /\ Len(Operations(b)) = 1
         /\ Profile[b] = "branch-pr" => Operations(b) = <<"branch", "pr">> /\ Len(Operations(b)) = 2
         /\ Profile[b] \in {"reply", "branch-pr"}
BY PublisherAssumption DEF Operations

LEMMA ReplyPublished ==
  ASSUME NEW b \in Bundles, Profile[b] = "reply"
  PROVE  /\ Published(b, 1) <=> \E c \in DOMAIN comments : comments[c] = Marker(b)
         /\ Published(b, 1)' <=> \E c \in DOMAIN comments' : comments'[c] = Marker(b)
<1>1. Operations(b)[1] = "reply"
  BY OperationsOf
<1> QED
  BY <1>1 DEF Published

LEMMA BranchPublished ==
  ASSUME NEW b \in Bundles, Profile[b] = "branch-pr"
  PROVE  /\ Published(b, 1) <=> branch[Key[b]] = Source[b]
         /\ Published(b, 1)' <=> branch'[Key[b]] = Source[b]
         /\ Published(b, 2) <=> branch[Key[b]] = Source[b] /\ pull[Key[b]].payload = Payload[b]
         /\ Published(b, 2)' <=> branch'[Key[b]] = Source[b] /\ pull'[Key[b]].payload = Payload[b]
<1>1. Operations(b)[1] = "branch" /\ Operations(b)[2] = "pr"
  BY OperationsOf
<1>2. /\ Published(b, 1) <=> branch[Key[b]] = Source[b]
      /\ Published(b, 1)' <=> branch'[Key[b]] = Source[b]
  BY <1>1 DEF Published
<1>3. /\ Published(b, 2) <=> branch[Key[b]] = Source[b] /\ pull[Key[b]].payload = Payload[b]
      /\ Published(b, 2)' <=> branch'[Key[b]] = Source[b] /\ pull'[Key[b]].payload = Payload[b]
  BY <1>1 DEF Published
<1> QED
  BY <1>2, <1>3

LEMMA FirstRequests ==
  /\ FirstRead("reply") = "subject" /\ FirstRead("branch") = "base" /\ FirstRead("pr") = "pulls"
  /\ FirstWrite("reply") = "post" /\ FirstWrite("branch") = "fetch" /\ FirstWrite("pr") = "create"
BY DEF FirstRead, FirstWrite

(* A read that answers "unchanged" saw the operation published.            *)
LEMMA StatesSound ==
  ASSUME TypeOK, NEW b \in Bundles
  PROVE  /\ ReplyState(b) \in {"absent", "unchanged", "conflict"}
         /\ TargetState(b) \in {"absent", "unchanged", "conflict"}
         /\ PullState(b) \in {"absent", "unchanged", "conflict"}
         /\ Profile[b] = "reply" /\ ReplyState(b) = "unchanged" => Published(b, 1)
         /\ Profile[b] = "branch-pr" /\ TargetState(b) = "unchanged" => Published(b, 1)
         /\ Profile[b] = "branch-pr" /\ PullState(b) = "unchanged" => Published(b, 2)
<1>1. ReplyState(b) \in {"absent", "unchanged", "conflict"}
  BY DEF ReplyState
<1>2. TargetState(b) \in {"absent", "unchanged", "conflict"}
  BY DEF TargetState
<1>3. PullState(b) \in {"absent", "unchanged", "conflict"}
  BY DEF PullState
<1>4. ASSUME Profile[b] = "reply", ReplyState(b) = "unchanged" PROVE Published(b, 1)
  <2>1. PICK i \in DOMAIN Page : Page[i] = Marker(b)
    BY <1>4 DEF ReplyState
  <2>2. comments \in Seq(Comment) /\ PageSize \in Nat
    BY PublisherAssumption DEF TypeOK
  <2>3. i \in DOMAIN comments /\ Page[i] = comments[i]
    BY <2>1, <2>2 DEF Page
  <2> QED
    BY <1>4, <2>1, <2>3, ReplyPublished
<1>5. ASSUME Profile[b] = "branch-pr", TargetState(b) = "unchanged" PROVE Published(b, 1)
  <2>1. branch[Key[b]] = Source[b]
    BY <1>5 DEF TargetState
  <2> QED
    BY <1>5, <2>1, BranchPublished
<1>6. ASSUME Profile[b] = "branch-pr", PullState(b) = "unchanged" PROVE Published(b, 2)
  <2>1. branch[Key[b]] = Source[b] /\ pull[Key[b]] = [draft |-> TRUE, payload |-> Payload[b]]
    BY <1>6 DEF PullState
  <2> QED
    BY <1>6, <2>1, BranchPublished
<1> QED
  BY <1>1, <1>2, <1>3, <1>4, <1>5, <1>6

-----------------------------------------------------------------------------
(* The repository: what is published stays published.                      *)

Kept == \A b \in Bundles, i \in Index :
           i <= Len(Operations(b)) /\ Published(b, i) => Published(b, i)'

LEMMA KeptIfGrown ==
  ASSUME \A c \in DOMAIN comments : c \in DOMAIN comments' /\ comments'[c] = comments[c],
         \A b \in Bundles : Profile[b] = "branch-pr" /\ branch[Key[b]] = Source[b] => branch'[Key[b]] = Source[b],
         \A k \in Keys : pull[k].payload # None => pull'[k].payload = pull[k].payload
  PROVE  Kept
<1> SUFFICES ASSUME NEW b \in Bundles, NEW i \in Index, i <= Len(Operations(b)), Published(b, i)
             PROVE  Published(b, i)'
  BY DEF Kept
<1>1. CASE Profile[b] = "reply"
  <2>1. Len(Operations(b)) = 1
    BY <1>1, OperationsOf
  <2>2. i = 1
    BY <2>1 DEF Index
  <2> QED
    BY <1>1, <2>2, ReplyPublished
<1>2. CASE Profile[b] = "branch-pr"
  <2>1. Payload[b] # None /\ Key[b] \in Keys
    BY PublisherAssumption
  <2>2. CASE i = 1
    BY <1>2, <2>2, BranchPublished
  <2>3. CASE i = 2
    BY <1>2, <2>1, <2>3, BranchPublished
  <2> QED
    BY <2>2, <2>3 DEF Index
<1> QED
  BY <1>1, <1>2, OperationsOf

-----------------------------------------------------------------------------
(* What the answer to a request does to its activation and to the others.  *)

Pcs  == Active \cup {"idle", "done", "crashed"}
Seen == {None, "absent", "unchanged"}
Found == [Index -> Seen]
Ops   == [Index -> Results]

ControlType ==
  /\ pc \in [Activations -> Pcs]
  /\ at \in [Activations -> Index]
  /\ phase \in [Activations -> {"preflight", "reconcile"}]
  /\ seen \in [Activations -> Found]
  /\ applyErr \in [Activations -> Errors \cup {None}]
  /\ receipt \in [Activations -> Receipts]
  /\ verdict \in [Activations -> {None, "ok", "rejected", "conflict"}]

OnlyOf(a) ==
  \A x \in Activations \ {a} :
     /\ pc'[x] = pc[x] /\ at'[x] = at[x] /\ phase'[x] = phase[x]
     /\ seen'[x] = seen[x] /\ receipt'[x] = receipt[x]

LEMMA ControlTyped == TypeOK => ControlType
BY DEF TypeOK, ControlType, Pcs, Found, Seen

LEMMA ReceiptFields ==
  /\ \A r \in Receipts : r.ops \in Ops /\ r.disposition \in {None, "applied", "unchanged", "rejected", "conflict"}
  /\ \A d \in {None, "applied", "unchanged", "rejected", "conflict"}, o \in Ops :
        [disposition |-> d, ops |-> o] \in Receipts
BY DEF Receipts, Ops, Results

LEMMA SizeIs ==
  ASSUME NEW a \in Activations, bundle[a] \in Bundles
  PROVE  /\ Profile[bundle[a]] = "reply" => Size(a) = 1 /\ Operations(bundle[a])[1] = "reply"
         /\ Profile[bundle[a]] = "branch-pr" => /\ Size(a) = 2 /\ Operations(bundle[a])[1] = "branch"
                                                /\ Operations(bundle[a])[2] = "pr"
         /\ Profile[bundle[a]] \in {"reply", "branch-pr"}
BY OperationsOf DEF Size

LEMMA Returns ==
  ASSUME ControlType, NEW a \in Activations,
         NEW d \in {"applied", "unchanged", "rejected", "conflict"}, NEW o \in Ops,
         NEW class \in {"ok", "rejected", "conflict"}, Return(a, d, o, class)
  PROVE  /\ pc' \in [Activations -> Pcs] /\ receipt' \in [Activations -> Receipts]
         /\ verdict' \in [Activations -> {None, "ok", "rejected", "conflict"}]
         /\ pc'[a] = "report" /\ receipt'[a] = [disposition |-> d, ops |-> o] /\ verdict'[a] = class
         /\ \A x \in Activations \ {a} : pc'[x] = pc[x] /\ receipt'[x] = receipt[x]
BY ReceiptFields DEF ControlType, Return, Pcs, Active

(* The new receipt notes operations i to n as unchanged, as they were found.*)
Extended(a, i, n, found, ops) ==
  \A j \in Index : IF j \in i..n
                   THEN found[j] = "unchanged" /\ receipt'[a].ops[j] = "unchanged"
                   ELSE receipt'[a].ops[j] = ops[j]

(* The apply loop ends with every operation from i on unchanged, or stops  *)
(* at the write of the first one that is not.                              *)
LEMMA ApplyContinues ==
  ASSUME ControlType, NEW a \in Activations, bundle[a] \in Bundles,
         NEW i \in 1..3, NEW found \in Found, NEW ops \in Ops,
         ApplyFrom(a, i, found, ops)
  PROVE  /\ pc' \in [Activations -> Pcs] /\ receipt' \in [Activations -> Receipts]
         /\ verdict' \in [Activations -> {None, "ok", "rejected", "conflict"}]
         /\ at' \in [Activations -> Index]
         /\ \A x \in Activations \ {a} : pc'[x] = pc[x] /\ at'[x] = at[x] /\ receipt'[x] = receipt[x]
         /\ \/ /\ pc'[a] = "report" /\ receipt'[a].disposition = "applied" /\ at'[a] = at[a]
               /\ verdict'[a] = "ok" /\ Extended(a, i, Size(a), found, ops)
            \/ \E j \in i..Size(a) :
                  /\ j \in Index /\ pc'[a] = FirstWrite(Operations(bundle[a])[j]) /\ at'[a] = j
                  /\ found[j] # "unchanged"
                  /\ receipt'[a].disposition = receipt[a].disposition
                  /\ Extended(a, i, j - 1, found, ops)
<1>0. Size(a) \in {1, 2}
  BY SizeIs
<1>1. CASE /\ \A j \in i..Size(a) : found[j] = "unchanged"
           /\ Return(a, "applied", [j \in Index |-> IF j \in i..Size(a) THEN "unchanged" ELSE ops[j]], "ok")
           /\ UNCHANGED at
  <2> DEFINE o == [j \in Index |-> IF j \in i..Size(a) THEN "unchanged" ELSE ops[j]]
  <2>1. o \in Ops
    BY DEF Ops, Results
  <2>2. /\ pc' \in [Activations -> Pcs] /\ receipt' \in [Activations -> Receipts]
        /\ verdict' \in [Activations -> {None, "ok", "rejected", "conflict"}]
        /\ pc'[a] = "report" /\ receipt'[a] = [disposition |-> "applied", ops |-> o] /\ verdict'[a] = "ok"
        /\ \A x \in Activations \ {a} : pc'[x] = pc[x] /\ receipt'[x] = receipt[x]
    <3> HIDE DEF o
    <3> QED
      BY <1>1, <2>1, Returns DEF o
  <2>3. at' \in [Activations -> Index] /\ \A x \in Activations : at'[x] = at[x]
    BY <1>1 DEF ControlType
  <2>4. Extended(a, i, Size(a), found, ops)
    BY <1>1, <2>2 DEF Extended
  <2> QED
    BY <2>2, <2>3, <2>4
<1>2. ASSUME NEW j \in i..Size(a), found[j] # "unchanged", \A k \in i..(j - 1) : found[k] = "unchanged",
             pc' = [pc EXCEPT ![a] = FirstWrite(Operations(bundle[a])[j])],
             at' = [at EXCEPT ![a] = j],
             receipt' = [receipt EXCEPT ![a].ops =
                            [k \in Index |-> IF k \in i..(j - 1) THEN "unchanged" ELSE ops[k]]],
             UNCHANGED verdict
      PROVE  /\ pc' \in [Activations -> Pcs] /\ receipt' \in [Activations -> Receipts]
             /\ verdict' \in [Activations -> {None, "ok", "rejected", "conflict"}]
             /\ at' \in [Activations -> Index]
             /\ \A x \in Activations \ {a} : pc'[x] = pc[x] /\ at'[x] = at[x] /\ receipt'[x] = receipt[x]
             /\ j \in Index /\ pc'[a] = FirstWrite(Operations(bundle[a])[j]) /\ at'[a] = j
             /\ receipt'[a].disposition = receipt[a].disposition
             /\ Extended(a, i, j - 1, found, ops)
  <2> DEFINE o == [k \in Index |-> IF k \in i..(j - 1) THEN "unchanged" ELSE ops[k]]
  <2>1. o \in Ops /\ j \in Index
    BY <1>0 DEF Ops, Results, Index
  <2>2. receipt' = [receipt EXCEPT ![a] = [disposition |-> receipt[a].disposition, ops |-> o]]
    <3>1. receipt[a] \in Receipts
      BY DEF ControlType
    <3> HIDE DEF o
    <3>2. [receipt[a] EXCEPT !.ops = o] = [disposition |-> receipt[a].disposition, ops |-> o]
      BY <3>1 DEF Receipts
    <3>3. receipt' = [receipt EXCEPT ![a].ops = o]
      BY <1>2 DEF o
    <3>4. receipt' = [receipt EXCEPT ![a] = [receipt[a] EXCEPT !.ops = o]]
      BY <3>3 DEF ControlType
    <3> QED
      BY <3>2, <3>4
  <2>3. receipt' \in [Activations -> Receipts]
    <3> HIDE DEF o
    <3> QED
      BY <2>1, <2>2, ReceiptFields DEF ControlType
  <2>4. receipt'[a] = [disposition |-> receipt[a].disposition, ops |-> o]
    BY <2>2 DEF ControlType
  <2>5. FirstWrite(Operations(bundle[a])[j]) \in Pcs
    BY <1>0, <2>1, SizeIs, FirstRequests DEF Index, Pcs, Active, Writes
  <2>6. pc' \in [Activations -> Pcs] /\ at' \in [Activations -> Index]
    BY <1>2, <2>1, <2>5 DEF ControlType
  <2>7. verdict' \in [Activations -> {None, "ok", "rejected", "conflict"}]
    BY <1>2 DEF ControlType
  <2>8. Extended(a, i, j - 1, found, ops)
    BY <1>2, <2>4 DEF Extended
  <2>9. \A x \in Activations \ {a} : pc'[x] = pc[x] /\ at'[x] = at[x] /\ receipt'[x] = receipt[x]
    BY <1>2, <2>2
  <2>10. pc'[a] = FirstWrite(Operations(bundle[a])[j]) /\ at'[a] = j
    BY <1>2 DEF ControlType
  <2> QED
    BY <2>1, <2>3, <2>4, <2>6, <2>7, <2>8, <2>9, <2>10
<1> QED
  BY <1>1, <1>2 DEF ApplyFrom

LEMMA HeldAfterApply ==
  ASSUME ControlType, NEW a \in Activations, bundle[a] \in Bundles, bundle' = bundle,
         NEW i \in 1..3, i <= Size(a) + 1, NEW found \in Found, NEW ops \in Ops,
         ApplyFrom(a, i, found, ops),
         receipt[a].disposition = None, seen'[a] = found,
         \A j \in 1..Size(a) : found[j] # None,
         \A j \in Index : found[j] = "unchanged" => j <= Size(a) /\ Published(bundle[a], j)',
         \A j \in Index : ops[j] \in Success => j <= Size(a) /\ Published(bundle[a], j)',
         \A j \in 1..(i - 1) : ops[j] \in Success
  PROVE  Held(a)'
<1>1. Size(a)' = Size(a) /\ bundle'[a] = bundle[a]
  BY DEF Size
<1>2. Size(a) \in {1, 2} /\ Index = {1, 2}
  BY SizeIs DEF Index
<1>3. CASE pc'[a] = "report" /\ receipt'[a].disposition = "applied" /\ Extended(a, i, Size(a), found, ops)
  <2>1. AtOperation(a)' /\ Preflighting(a)' /\ Applying(a)'
    BY <1>1, <1>3 DEF AtOperation, Preflighting, Applying, Reads, Writes
  <2>2. \A j \in 1..Size(a) : receipt'[a].ops[j] \in Success
    BY <1>2, <1>3 DEF Extended, Success
  <2>3. Sealed(a)'
    BY <1>1, <1>3, <2>2 DEF Sealed, Ended
  <2>4. Truthful(a)'
    BY <1>1, <1>2, <1>3 DEF Truthful, Extended, Success
  <2> QED
    BY <2>1, <2>3, <2>4 DEF Held
<1>4. ASSUME NEW j \in i..Size(a), j \in Index, pc'[a] = FirstWrite(Operations(bundle[a])[j]), at'[a] = j,
             receipt'[a].disposition = receipt[a].disposition, Extended(a, i, j - 1, found, ops)
      PROVE  Held(a)'
  <2>1. /\ pc'[a] \in Writes /\ AtOperation(a)'
    BY <1>1, <1>2, <1>4, SizeIs, FirstRequests DEF AtOperation, Writes
  <2>2. \A k \in 1..(j - 1) : receipt'[a].ops[k] \in Success
    BY <1>2, <1>4 DEF Extended, Success
  <2>3. Applying(a)' /\ Preflighting(a)'
    BY <1>1, <1>4, <2>1, <2>2 DEF Applying, Preflighting, Writes, Reads
  <2>4. Sealed(a)'
    BY <1>1, <1>4, <2>1 DEF Sealed, Writes, Success, None
  <2>5. Truthful(a)'
    BY <1>1, <1>2, <1>4 DEF Truthful, Extended, Success
  <2> QED
    BY <2>1, <2>3, <2>4, <2>5 DEF Held
<1> QED
  BY <1>3, <1>4, ApplyContinues

(* An activation that returns a disposition other than a success.          *)
LEMMA HeldAfterReturn ==
  ASSUME ControlType, NEW a \in Activations, bundle[a] \in Bundles, bundle' = bundle,
         NEW d \in {"rejected", "conflict"}, NEW o \in Ops,
         pc'[a] = "report", receipt'[a] = [disposition |-> d, ops |-> o],
         d = "rejected" => ~wrote'[a],
         seen'[a] = seen[a],
         wrote'[a] => \A i \in 1..Size(a) : seen[a][i] # None,
         \A j \in Index : seen[a][j] = "unchanged" => j <= Size(a) /\ Published(bundle[a], j)',
         \A j \in Index : o[j] \in Success => j <= Size(a) /\ Published(bundle[a], j)'
  PROVE  Held(a)'
<1>1. Size(a)' = Size(a) /\ bundle'[a] = bundle[a]
  BY DEF Size
<1>2. AtOperation(a)' /\ Preflighting(a)' /\ Applying(a)'
  BY <1>1 DEF AtOperation, Preflighting, Applying, Reads, Writes
<1>3. Sealed(a)'
  BY <1>1 DEF Sealed, Ended, Success
<1>4. Truthful(a)'
  BY <1>1 DEF Truthful
<1> QED
  BY <1>2, <1>3, <1>4 DEF Held

LEMMA HeldElsewhere ==
  ASSUME IInv, NEW a \in Activations, NEW x \in Activations \ {a}, OnlyOf(a), Kept,
         bundle'[x] = bundle[x], wrote'[x] = wrote[x]
  PROVE  Held(x)'
<1>1. /\ pc'[x] = pc[x] /\ at'[x] = at[x] /\ phase'[x] = phase[x]
      /\ seen'[x] = seen[x] /\ receipt'[x] = receipt[x] /\ Size(x)' = Size(x)
  BY DEF OnlyOf, Size
<1>2. Held(x)
  BY DEF IInv
<1>3. AtOperation(x)' /\ Preflighting(x)' /\ Applying(x)' /\ Sealed(x)'
  BY <1>1, <1>2 DEF Held, AtOperation, Preflighting, Applying, Sealed
<1>4. pc[x] = "idle" => \A j \in Index : receipt[x].ops[j] \notin Success /\ seen[x][j] # "unchanged"
  BY <1>2 DEF Held, Preflighting, NoReceipt, Success, None
<1>5. pc[x] # "idle" => bundle[x] \in Bundles
  BY <1>2 DEF Held, AtOperation
<1>6. \A j \in Index : bundle[x] \in Bundles /\ j <= Size(x) /\ Published(bundle[x], j) => Published(bundle[x], j)'
  BY DEF Kept, Size
<1>7. Truthful(x)'
  BY <1>1, <1>2, <1>4, <1>5, <1>6 DEF Held, Truthful
<1> QED
  BY <1>3, <1>7 DEF Held

(* What a step may assume of the activation that makes it, while it has no *)
(* receipt yet.                                                            *)
LEMMA HeldFacts ==
  ASSUME IInv, NEW a \in Activations, pc[a] \in Reads \cup Writes, Kept, bundle' = bundle
  PROVE  /\ bundle[a] \in Bundles /\ at[a] <= Size(a) /\ receipt[a].disposition = None
         /\ at[a] \in Index /\ seen[a] \in Found /\ receipt[a].ops \in Ops
         /\ \A j \in Index : receipt[a].ops[j] \in Success => j <= Size(a) /\ Published(bundle[a], j)'
         /\ \A j \in Index : seen[a][j] = "unchanged" => j <= Size(a) /\ Published(bundle[a], j)'
         /\ pc[a] \in {"subject", "comments", "post"} => Profile[bundle[a]] = "reply" /\ at[a] = 1
         /\ pc[a] \in {"base", "target", "fetch", "push"} => Profile[bundle[a]] = "branch-pr" /\ at[a] = 1
         /\ pc[a] \in {"pulls", "create"} => Profile[bundle[a]] = "branch-pr" /\ at[a] = 2
<1>1. AtOperation(a) /\ Preflighting(a) /\ Applying(a) /\ Truthful(a) /\ TypeOK
  BY DEF IInv, Held
<1>2. bundle[a] \in Bundles
  BY <1>1 DEF AtOperation, Reads, Writes
<1>3. /\ pc[a] \in {"subject", "comments", "post"} => Profile[bundle[a]] = "reply" /\ at[a] = 1
      /\ pc[a] \in {"base", "target", "fetch", "push"} => Profile[bundle[a]] = "branch-pr" /\ at[a] = 1
      /\ pc[a] \in {"pulls", "create"} => Profile[bundle[a]] = "branch-pr" /\ at[a] = 2
  BY <1>1 DEF AtOperation
<1>4. at[a] <= Size(a)
  BY <1>2, <1>3, SizeIs DEF Reads, Writes
<1>5. at[a] \in Index /\ seen[a] \in Found /\ phase[a] \in {"preflight", "reconcile"} /\ receipt[a] \in Receipts
  BY <1>1, ControlTyped DEF ControlType
<1>6. receipt[a].disposition = None
  BY <1>1, <1>5 DEF Preflighting, Applying, NoReceipt
<1>7. receipt[a].ops \in Ops
  BY <1>5, ReceiptFields
<1>8. \A j \in Index : j <= Size(a) /\ Published(bundle[a], j) => Published(bundle[a], j)'
  BY <1>2 DEF Kept, Size
<1>9. /\ \A j \in Index : receipt[a].ops[j] \in Success => j <= Size(a) /\ Published(bundle[a], j)'
      /\ \A j \in Index : seen[a][j] = "unchanged" => j <= Size(a) /\ Published(bundle[a], j)'
  BY <1>1, <1>8 DEF Truthful
<1> QED
  BY <1>2, <1>3, <1>4, <1>5, <1>6, <1>7, <1>9

Effect(a) == ControlType' /\ OnlyOf(a) /\ Held(a)'

LEMMA NoteIs ==
  ASSUME ControlType, NEW a \in Activations, NEW i \in Index, NEW d \in Results
  PROVE  /\ Note(a, i, d) \in Ops /\ Note(a, i, d)[i] = d
         /\ \A j \in Index \ {i} : Note(a, i, d)[j] = receipt[a].ops[j]
<1>1. receipt[a].ops \in Ops
  BY ReceiptFields DEF ControlType
<1> QED
  BY <1>1 DEF Note, Ops

LEMMA ClassIs == \A err : Class(err) \in {"rejected", "conflict"}
BY DEF Class

LEMMA AppliedEffect ==
  ASSUME IInv, NEW a \in Activations, pc[a] \in Reads \cup Writes, Kept, bundle' = bundle,
         pc[a] \in Reads => phase[a] = "reconcile",
         NEW n \in Index, n = at[a], Published(bundle[a], n)', Applied(a),
         phase' \in [Activations -> {"preflight", "reconcile"}],
         applyErr' \in [Activations -> Errors \cup {None}],
         \A x \in Activations \ {a} : phase'[x] = phase[x]
  PROVE  Effect(a)
<1> DEFINE o == Note(a, at[a], "applied")
<1>1. ControlType /\ Applying(a)
  BY ControlTyped DEF IInv, Held
<1>2. /\ bundle[a] \in Bundles /\ at[a] <= Size(a) /\ receipt[a].disposition = None
      /\ at[a] \in Index /\ seen[a] \in Found
      /\ \A j \in Index : receipt[a].ops[j] \in Success => j <= Size(a) /\ Published(bundle[a], j)'
      /\ \A j \in Index : seen[a][j] = "unchanged" => j <= Size(a) /\ Published(bundle[a], j)'
  BY HeldFacts
<1>3. /\ \A j \in 1..Size(a) : seen[a][j] # None
      /\ \A j \in 1..(at[a] - 1) : receipt[a].ops[j] \in Success
  BY <1>1 DEF Applying
<1>4. ApplyFrom(a, at[a] + 1, seen[a], o) /\ seen' = seen
  BY DEF Applied
<1>5. o \in Ops /\ o[at[a]] = "applied" /\ \A j \in Index \ {at[a]} : o[j] = receipt[a].ops[j]
  BY <1>1, <1>2, NoteIs DEF Results
<1> HIDE DEF o
<1>6. at[a] + 1 \in 1..3 /\ at[a] + 1 <= Size(a) + 1 /\ Size(a) \in {1, 2}
  BY <1>2, SizeIs DEF Index
<1>7. \A j \in Index : o[j] \in Success => j <= Size(a) /\ Published(bundle[a], j)'
  <2> SUFFICES ASSUME NEW j \in Index, o[j] \in Success PROVE j <= Size(a) /\ Published(bundle[a], j)'
    OBVIOUS
  <2>1. CASE j = at[a]
    BY <1>2, <2>1
  <2>2. CASE j # at[a]
    BY <1>2, <1>5, <2>2
  <2> QED
    BY <2>1, <2>2
<1>8. \A j \in 1..((at[a] + 1) - 1) : o[j] \in Success
  BY <1>2, <1>3, <1>5 DEF Success, Index
<1>9. Held(a)'
  BY <1>1, <1>2, <1>3, <1>4, <1>5, <1>6, <1>7, <1>8, HeldAfterApply
<1>10. /\ pc' \in [Activations -> Pcs] /\ receipt' \in [Activations -> Receipts]
       /\ verdict' \in [Activations -> {None, "ok", "rejected", "conflict"}]
       /\ at' \in [Activations -> Index]
       /\ \A x \in Activations \ {a} : pc'[x] = pc[x] /\ at'[x] = at[x] /\ receipt'[x] = receipt[x]
  BY <1>1, <1>2, <1>4, <1>5, <1>6, ApplyContinues
<1>11. ControlType'
  BY <1>1, <1>4, <1>10 DEF ControlType
<1>12. OnlyOf(a)
  BY <1>4, <1>10 DEF OnlyOf
<1> QED
  BY <1>9, <1>11, <1>12 DEF Effect

LEMMA ReturnEffect ==
  ASSUME IInv, NEW a \in Activations, pc[a] \in Reads, Kept, bundle' = bundle, wrote' = wrote,
         NEW d \in {"rejected", "conflict"}, NEW o \in Ops, NEW class \in {"rejected", "conflict"},
         d = "rejected" => phase[a] = "preflight",
         \A j \in Index : o[j] \in Success => j <= Size(a) /\ Published(bundle[a], j)',
         Return(a, d, o, class), UNCHANGED <<at, seen>>,
         phase' = [phase EXCEPT ![a] = "preflight"], applyErr' = [applyErr EXCEPT ![a] = None]
  PROVE  Effect(a)
<1>1. ControlType /\ Preflighting(a) /\ Sealed(a)
  BY ControlTyped DEF IInv, Held
<1>2. /\ bundle[a] \in Bundles
      /\ \A j \in Index : seen[a][j] = "unchanged" => j <= Size(a) /\ Published(bundle[a], j)'
  BY HeldFacts
<1>3. /\ pc' \in [Activations -> Pcs] /\ receipt' \in [Activations -> Receipts]
      /\ verdict' \in [Activations -> {None, "ok", "rejected", "conflict"}]
      /\ pc'[a] = "report" /\ receipt'[a] = [disposition |-> d, ops |-> o]
      /\ \A x \in Activations \ {a} : pc'[x] = pc[x] /\ receipt'[x] = receipt[x]
  BY <1>1, Returns
<1>4. wrote'[a] => d # "rejected" /\ \A j \in 1..Size(a) : seen[a][j] # None
  BY <1>1 DEF Preflighting, Sealed
<1>5. Held(a)'
  BY <1>1, <1>2, <1>3, <1>4, HeldAfterReturn
<1>6. ControlType'
  BY <1>1, <1>3 DEF ControlType
<1>7. OnlyOf(a)
  BY <1>3 DEF OnlyOf
<1> QED
  BY <1>5, <1>6, <1>7 DEF Effect

(* An operation was answered: the steps of the lemma follow Answer.        *)
LEMMA AnswerEffect ==
  ASSUME IInv, NEW a \in Activations, pc[a] \in {"comments", "target", "pulls"}, Kept,
         bundle' = bundle, wrote' = wrote,
         NEW state \in {"absent", "unchanged", "conflict"}, NEW n \in Index, n = at[a],
         state = "unchanged" => Published(bundle[a], n)',
         Answer(a, state)
  PROVE  Effect(a)
<1>1. ControlType /\ AtOperation(a) /\ Preflighting(a) /\ Sealed(a) /\ pc[a] \in Reads
  BY ControlTyped DEF IInv, Held, Reads
<1>2. /\ bundle[a] \in Bundles /\ at[a] <= Size(a) /\ receipt[a].disposition = None
      /\ seen[a] \in Found /\ receipt[a].ops \in Ops
      /\ \A j \in Index : receipt[a].ops[j] \in Success => j <= Size(a) /\ Published(bundle[a], j)'
      /\ \A j \in Index : seen[a][j] = "unchanged" => j <= Size(a) /\ Published(bundle[a], j)'
  BY <1>1, HeldFacts
<1>3. phase' = [phase EXCEPT ![a] = "preflight"] /\ applyErr' = [applyErr EXCEPT ![a] = None]
  BY DEF Answer
<1>4. /\ phase' \in [Activations -> {"preflight", "reconcile"}] /\ applyErr' \in [Activations -> Errors \cup {None}]
      /\ phase'[a] = "preflight" /\ \A x \in Activations \ {a} : phase'[x] = phase[x]
  BY <1>1, <1>3 DEF ControlType
<1>5. Size(a)' = Size(a) /\ bundle'[a] = bundle[a] /\ Size(a) \in {1, 2} /\ Index = {1, 2}
  BY <1>2, SizeIs DEF Size, Index
<1>6. CASE phase[a] = "reconcile" /\ state = "unchanged"
  <2>1. Applied(a)
    BY <1>6 DEF Answer
  <2> QED
    BY <1>1, <1>4, <1>6, <2>1, AppliedEffect
<1>7. CASE phase[a] = "reconcile" /\ state # "unchanged"
  <2>1. Return(a, "conflict", receipt[a].ops, Class(applyErr[a])) /\ UNCHANGED <<at, seen>>
    BY <1>7 DEF Answer, ReconcileFails
  <2> QED
    BY <1>1, <1>2, <1>3, <2>1, ReturnEffect, ClassIs
<1>8. CASE phase[a] = "preflight" /\ state = "conflict"
  <2>1. Return(a, "conflict", Note(a, at[a], "conflict"), "conflict") /\ UNCHANGED <<at, seen>>
    BY <1>8 DEF Answer, PreflightAnswers
  <2>2. /\ Note(a, n, "conflict") \in Ops /\ Note(a, n, "conflict")[n] = "conflict"
        /\ \A j \in Index \ {n} : Note(a, n, "conflict")[j] = receipt[a].ops[j]
    BY <1>1, NoteIs DEF Results
  <2>3. \A j \in Index : Note(a, n, "conflict")[j] \in Success => j <= Size(a) /\ Published(bundle[a], j)'
    BY <1>2, <2>2 DEF Success
  <2> QED
    BY <1>1, <1>3, <2>1, <2>2, <2>3, ReturnEffect
<1>9. CASE phase[a] = "preflight" /\ state # "conflict"
  <2> DEFINE found == [seen[a] EXCEPT ![at[a]] = state]
  <2>1. PreflightAnswers(a, state)
    BY <1>9 DEF Answer
  <2>2. found \in Found /\ found[n] = state /\ \A j \in Index \ {n} : found[j] = seen[a][j]
    BY <1>2, <1>9 DEF Found, Seen
  <2>3. ~wrote[a] /\ receipt[a] = NoReceipt /\ \A j \in 1..(at[a] - 1) : seen[a][j] # None
    BY <1>1, <1>9 DEF Preflighting
  <2>4. seen' = [seen EXCEPT ![a] = found]
    BY <1>9, <2>1 DEF PreflightAnswers
  <2> HIDE DEF found
  <2>5. seen' \in [Activations -> Found] /\ seen'[a] = found /\ \A x \in Activations \ {a} : seen'[x] = seen[x]
    BY <1>1, <2>2, <2>4 DEF ControlType
  <2>6. \A j \in 1..n : found[j] # None
    BY <1>9, <2>2, <2>3 DEF Index, None
  <2>7. \A j \in Index : found[j] = "unchanged" => j <= Size(a) /\ Published(bundle[a], j)'
    <3> SUFFICES ASSUME NEW j \in Index, found[j] = "unchanged" PROVE j <= Size(a) /\ Published(bundle[a], j)'
      OBVIOUS
    <3>1. CASE j = n
      BY <1>2, <2>2, <3>1
    <3>2. CASE j # n
      BY <1>2, <2>2, <3>2
    <3> QED
      BY <3>1, <3>2
  <2>8. CASE at[a] < Size(a)
    <3>1. n = 1 /\ Size(a) = 2 /\ Operations(bundle[a])[2] = "pr" /\ Profile[bundle[a]] = "branch-pr"
      BY <1>2, <1>5, <2>8, SizeIs
    <3>2. /\ at' = [at EXCEPT ![a] = @ + 1]
          /\ pc' = [pc EXCEPT ![a] = FirstRead(Operations(bundle[a])[at[a] + 1])]
          /\ UNCHANGED <<receipt, verdict>>
      BY <1>9, <2>1, <2>8 DEF PreflightAnswers, found
    <3>3. pc' = [pc EXCEPT ![a] = "pulls"] /\ at' = [at EXCEPT ![a] = 2]
      <4>1. at[a] + 1 = 2 /\ FirstRead(Operations(bundle[a])[at[a] + 1]) = "pulls"
        BY <3>1, FirstRequests
      <4> QED
        BY <1>1, <3>2, <4>1 DEF ControlType
    <3>4. /\ pc' \in [Activations -> Pcs] /\ at' \in [Activations -> Index] /\ pc'[a] = "pulls" /\ at'[a] = 2
          /\ \A x \in Activations \ {a} : pc'[x] = pc[x] /\ at'[x] = at[x]
      BY <1>1, <3>3 DEF ControlType, Pcs, Active, Reads, Index
    <3>5. ControlType' /\ OnlyOf(a)
      BY <1>1, <1>4, <2>5, <3>2, <3>4 DEF ControlType, OnlyOf
    <3>6. AtOperation(a)'
      BY <1>2, <1>5, <3>1, <3>4 DEF AtOperation
    <3>7. Preflighting(a)' /\ Applying(a)' /\ Sealed(a)'
      BY <1>4, <1>5, <2>3, <2>5, <2>6, <3>1, <3>2, <3>4
         DEF Preflighting, Applying, Sealed, Reads, Writes, NoReceipt, None, Success
    <3>8. Truthful(a)'
      BY <1>2, <1>5, <2>5, <2>7, <3>2 DEF Truthful
    <3> QED
      BY <3>5, <3>6, <3>7, <3>8 DEF Effect, Held
  <2>9. CASE ~(at[a] < Size(a))
    <3>1. n = Size(a) /\ StartApply(a, found)
      BY <1>2, <1>5, <2>1, <2>9, <1>9 DEF PreflightAnswers, found
    <3>2. CASE \A j \in 1..Size(a) : found[j] = "unchanged"
      <4> DEFINE o == [j \in Index |-> IF j \in 1..Size(a) THEN "unchanged" ELSE None]
      <4>1. Return(a, "unchanged", o, "ok") /\ UNCHANGED at
        BY <3>1, <3>2 DEF StartApply
      <4>2. o \in Ops /\ \A j \in Index : IF j \in 1..Size(a) THEN o[j] = "unchanged" ELSE o[j] = None
        BY DEF Ops, Results
      <4> HIDE DEF o
      <4>3. /\ pc' \in [Activations -> Pcs] /\ receipt' \in [Activations -> Receipts]
            /\ verdict' \in [Activations -> {None, "ok", "rejected", "conflict"}]
            /\ pc'[a] = "report" /\ receipt'[a] = [disposition |-> "unchanged", ops |-> o]
            /\ \A x \in Activations \ {a} : pc'[x] = pc[x] /\ receipt'[x] = receipt[x]
        BY <1>1, <4>1, <4>2, Returns
      <4>4. ControlType' /\ OnlyOf(a)
        BY <1>1, <1>4, <2>5, <4>1, <4>3 DEF ControlType, OnlyOf
      <4>5. AtOperation(a)' /\ Preflighting(a)' /\ Applying(a)'
        BY <1>2, <1>5, <4>3 DEF AtOperation, Preflighting, Applying, Reads, Writes
      <4>6. Sealed(a)'
        BY <1>5, <2>3, <4>2, <4>3 DEF Sealed, Ended, Success, Index
      <4>7. \A j \in Index : o[j] \in Success => j <= Size(a) /\ Published(bundle[a], j)'
        BY <1>5, <2>7, <3>2, <4>2 DEF Success, None
      <4>8. Truthful(a)'
        BY <1>5, <2>5, <2>7, <4>3, <4>7 DEF Truthful
      <4> QED
        BY <4>4, <4>5, <4>6, <4>8 DEF Effect, Held
    <3>3. CASE ~(\A j \in 1..Size(a) : found[j] = "unchanged")
      <4>1. ApplyFrom(a, 1, found, receipt[a].ops)
        BY <3>1, <3>3 DEF StartApply
      <4>2. Held(a)'
        BY <1>1, <1>2, <1>5, <2>2, <2>5, <2>6, <2>7, <3>1, <4>1, HeldAfterApply
      <4>3. /\ pc' \in [Activations -> Pcs] /\ receipt' \in [Activations -> Receipts]
            /\ verdict' \in [Activations -> {None, "ok", "rejected", "conflict"}]
            /\ at' \in [Activations -> Index]
            /\ \A x \in Activations \ {a} : pc'[x] = pc[x] /\ at'[x] = at[x] /\ receipt'[x] = receipt[x]
        BY <1>1, <1>2, <2>2, <4>1, ApplyContinues
      <4>4. ControlType' /\ OnlyOf(a)
        BY <1>1, <1>4, <2>5, <4>3 DEF ControlType, OnlyOf
      <4> QED
        BY <4>2, <4>4 DEF Effect
    <3> QED
      BY <3>2, <3>3
  <2> QED
    BY <2>8, <2>9
<1> QED
  BY <1>1, <1>6, <1>7, <1>8, <1>9 DEF ControlType

LEMMA FailEffect ==
  ASSUME IInv, NEW a \in Activations, pc[a] \in Reads, Kept, bundle' = bundle, wrote' = wrote,
         NEW err \in Errors, Fail(a, err)
  PROVE  Effect(a)
<1>1. ControlType
  BY ControlTyped DEF IInv
<1>2. /\ receipt[a].ops \in Ops
      /\ \A j \in Index : receipt[a].ops[j] \in Success => j <= Size(a) /\ Published(bundle[a], j)'
  BY HeldFacts
<1>3. phase' = [phase EXCEPT ![a] = "preflight"] /\ applyErr' = [applyErr EXCEPT ![a] = None]
  BY DEF Fail
<1>4. CASE phase[a] = "preflight"
  <2>1. Return(a, "rejected", receipt[a].ops, Class(err)) /\ UNCHANGED <<at, seen>>
    BY <1>4 DEF Fail, PreflightFails
  <2> QED
    BY <1>2, <1>3, <1>4, <2>1, ReturnEffect, ClassIs
<1>5. CASE phase[a] # "preflight"
  <2>1. Return(a, "conflict", receipt[a].ops, Class(applyErr[a])) /\ UNCHANGED <<at, seen>>
    BY <1>5 DEF Fail, ReconcileFails
  <2> QED
    BY <1>2, <1>3, <2>1, ReturnEffect, ClassIs
<1> QED
  BY <1>4, <1>5

LEMMA SucceedEffect ==
  ASSUME IInv, NEW a \in Activations, pc[a] \in Writes, Kept, bundle' = bundle,
         NEW n \in Index, n = at[a], Published(bundle[a], n)', Succeed(a)
  PROVE  Effect(a)
<1>1. pc[a] \notin Reads
  BY DEF Reads, Writes
<1>2. ControlType
  BY ControlTyped DEF IInv
<1>3. Applied(a) /\ phase' = phase /\ applyErr' = applyErr
  BY DEF Succeed
<1> QED
  BY <1>1, <1>2, <1>3, AppliedEffect DEF ControlType

(* The first read of the operation that is worked on.                      *)
LEMMA CurrentRead ==
  ASSUME IInv, NEW a \in Activations, pc[a] \in Writes
  PROVE  /\ pc[a] = "post" => FirstRead(Current(a)) = "subject"
         /\ pc[a] \in {"fetch", "push"} => FirstRead(Current(a)) = "base"
         /\ pc[a] = "create" => FirstRead(Current(a)) = "pulls"
<1>1. AtOperation(a) /\ bundle[a] \in Bundles
  BY DEF IInv, Held, AtOperation, Writes
<1> QED
  BY <1>1, SizeIs, FirstRequests DEF AtOperation, Current

LEMMA ReconcileEffect ==
  ASSUME IInv, NEW a \in Activations, pc[a] \in Writes, Kept, bundle' = bundle,
         NEW err \in Errors, Reconcile(a, err)
  PROVE  Effect(a)
<1>1. ControlType /\ AtOperation(a) /\ Applying(a) /\ Truthful(a)
  BY ControlTyped DEF IInv, Held
<1>2. /\ bundle[a] \in Bundles
      /\ \A j \in Index : receipt[a].ops[j] \in Success => j <= Size(a) /\ Published(bundle[a], j)'
      /\ \A j \in Index : seen[a][j] = "unchanged" => j <= Size(a) /\ Published(bundle[a], j)'
  BY HeldFacts
<1>3. /\ phase' = [phase EXCEPT ![a] = "reconcile"] /\ applyErr' = [applyErr EXCEPT ![a] = err]
      /\ pc' = [pc EXCEPT ![a] = FirstRead(Current(a))] /\ UNCHANGED <<at, seen, receipt, verdict>>
  BY DEF Reconcile
<1>4. FirstRead(Current(a)) \in Reads
  BY CurrentRead DEF Reads, Writes
<1>5. /\ pc' \in [Activations -> Pcs] /\ pc'[a] = FirstRead(Current(a))
      /\ \A x \in Activations \ {a} : pc'[x] = pc[x]
  BY <1>1, <1>3, <1>4 DEF ControlType, Pcs, Active
<1>6. /\ phase' \in [Activations -> {"preflight", "reconcile"}] /\ phase'[a] = "reconcile"
      /\ \A x \in Activations \ {a} : phase'[x] = phase[x]
  BY <1>1, <1>3 DEF ControlType
<1>7. applyErr' \in [Activations -> Errors \cup {None}]
  BY <1>1, <1>3 DEF ControlType
<1>8. ControlType' /\ OnlyOf(a)
  BY <1>1, <1>3, <1>5, <1>6, <1>7 DEF ControlType, OnlyOf
<1>9. Size(a)' = Size(a) /\ bundle'[a] = bundle[a]
  BY DEF Size
<1>10. AtOperation(a)'
  BY <1>1, <1>3, <1>5, <1>9, CurrentRead DEF AtOperation, Writes
<1>11. Applying(a)' /\ Preflighting(a)'
  BY <1>1, <1>3, <1>4, <1>5, <1>6, <1>9 DEF Applying, Preflighting, Reads
<1>12. Sealed(a)'
  BY <1>1, <1>3, <1>4, <1>5, <1>9 DEF Applying, Sealed, Reads, None, Success
<1>13. Truthful(a)'
  BY <1>2, <1>3, <1>9 DEF Truthful
<1> QED
  BY <1>8, <1>10, <1>11, <1>12, <1>13 DEF Effect, Held

(* A request that is followed by another one of the same operation.        *)
LEMMA NextRequest ==
  ASSUME IInv, NEW a \in Activations, Kept, bundle' = bundle, wrote' = wrote,
         NEW next, \/ pc[a] = "subject" /\ next = "comments"
                   \/ pc[a] = "base" /\ next = "target"
                   \/ pc[a] = "fetch" /\ next = "push",
         pc' = [pc EXCEPT ![a] = next], UNCHANGED <<at, phase, seen, applyErr, receipt, verdict>>
  PROVE  Effect(a)
<1>1. ControlType /\ AtOperation(a) /\ Preflighting(a) /\ Applying(a) /\ Sealed(a) /\ Truthful(a)
  BY ControlTyped DEF IInv, Held
<1>2. /\ \A j \in Index : receipt[a].ops[j] \in Success => j <= Size(a) /\ Published(bundle[a], j)'
      /\ \A j \in Index : seen[a][j] = "unchanged" => j <= Size(a) /\ Published(bundle[a], j)'
  BY HeldFacts DEF Reads, Writes
<1>3. /\ pc' \in [Activations -> Pcs] /\ pc'[a] = next
      /\ \A x \in Activations \ {a} : pc'[x] = pc[x]
  BY <1>1 DEF ControlType, Pcs, Active, Reads, Writes
<1>4. ControlType' /\ OnlyOf(a)
  BY <1>1, <1>3 DEF ControlType, OnlyOf
<1>5. Size(a)' = Size(a) /\ bundle'[a] = bundle[a]
  BY DEF Size
<1>6. AtOperation(a)'
  BY <1>1, <1>3, <1>5 DEF AtOperation
<1>7. Applying(a)' /\ Preflighting(a)'
  BY <1>1, <1>3, <1>5 DEF Applying, Preflighting, Reads, Writes
<1>8. Sealed(a)'
  BY <1>1, <1>3, <1>5 DEF Sealed, Ended
<1>9. Truthful(a)'
  BY <1>2, <1>5 DEF Truthful
<1> QED
  BY <1>4, <1>6, <1>7, <1>8, <1>9 DEF Effect, Held

LEMMA EndEffect ==
  ASSUME IInv, NEW a \in Activations, Kept, bundle' = bundle, wrote' = wrote, pc[a] \in Active,
         NEW end \in {"done", "crashed"}, pc' = [pc EXCEPT ![a] = end],
         UNCHANGED <<at, phase, seen, applyErr, receipt, verdict>>
  PROVE  Effect(a)
<1>1. ControlType /\ AtOperation(a) /\ Sealed(a) /\ Truthful(a) /\ pc[a] # "idle"
  BY ControlTyped DEF IInv, Held, Active, Reads, Writes
<1>2. bundle[a] \in Bundles /\ Size(a)' = Size(a) /\ bundle'[a] = bundle[a]
  BY <1>1 DEF AtOperation, Size
<1>3. /\ pc' \in [Activations -> Pcs] /\ pc'[a] = end
      /\ \A x \in Activations \ {a} : pc'[x] = pc[x]
  BY <1>1 DEF ControlType, Pcs
<1>4. ControlType' /\ OnlyOf(a)
  BY <1>1, <1>3 DEF ControlType, OnlyOf
<1>5. AtOperation(a)' /\ Preflighting(a)' /\ Applying(a)'
  BY <1>2, <1>3 DEF AtOperation, Preflighting, Applying, Reads, Writes
<1>6. Sealed(a)'
  BY <1>1, <1>2, <1>3 DEF Sealed, Ended
<1>7. Truthful(a)'
  BY <1>1, <1>2 DEF Truthful, Kept, Size
<1> QED
  BY <1>4, <1>5, <1>6, <1>7 DEF Effect, Held

-----------------------------------------------------------------------------
(* Every step keeps the invariant.                                         *)

RepositoryType ==
  /\ base \in Commits /\ open \in BOOLEAN
  /\ comments \in Seq(Comment)
  /\ branch \in [Keys -> Commits \cup {None}]
  /\ pull \in [Keys -> PullStates]

HistoryType ==
  /\ bundle \in [Activations -> Bundles \cup {None}]
  /\ exit \in [Activations -> {-1, 0, 1, 3, 4}]
  /\ events \in 0..MaxEvents /\ faults \in 0..MaxFaults
  /\ wrote \in [Activations -> BOOLEAN]
  /\ start \in [Activations -> {None, "blocked", "missing", "published"}]
  /\ disturbed \in [Activations -> BOOLEAN]

LEMMA TypeParts ==
  /\ TypeOK <=> RepositoryType /\ ControlType /\ HistoryType
  /\ TypeOK' <=> RepositoryType' /\ ControlType' /\ HistoryType'
<1>1. TypeOK <=> RepositoryType /\ ControlType /\ HistoryType
  BY DEF TypeOK, RepositoryType, ControlType, HistoryType, Pcs, Found, Seen
<1>2. TypeOK' <=> RepositoryType' /\ ControlType' /\ HistoryType'
  BY DEF TypeOK, RepositoryType, ControlType, HistoryType, Pcs, Found, Seen
<1> QED
  BY <1>1, <1>2

LEMMA RemoteUnchanged ==
  ASSUME IInv, UNCHANGED <<comments, branch, pull>>
  PROVE  Kept /\ Remote' /\ (base' \in Commits /\ open' \in BOOLEAN => RepositoryType')
<1>1. Kept
  BY KeptIfGrown
<1>2. Remote'
  BY DEF IInv, Remote
<1>3. RepositoryType
  BY TypeParts DEF IInv
<1> QED
  BY <1>1, <1>2, <1>3 DEF RepositoryType

LEMMA HistoryGrows ==
  ASSUME IInv, NEW a \in Activations, UNCHANGED <<bundle, events, start>>,
         exit' \in [Activations -> {-1, 0, 1, 3, 4}],
         faults' = faults \/ Fault(a),
         wrote' = wrote \/ Sent(a),
         \/ disturbed' = disturbed \/ ChangedBy(a)
         \/ disturbed' = [disturbed EXCEPT ![a] = TRUE]
  PROVE  /\ HistoryType'
         /\ \A x \in Activations \ {a} : wrote'[x] = wrote[x]
<1>1. HistoryType
  BY TypeParts DEF IInv
<1>2. faults' \in 0..MaxFaults
  BY <1>1, PublisherAssumption DEF HistoryType, Fault
<1>3. wrote' \in [Activations -> BOOLEAN]
  BY <1>1 DEF HistoryType, Sent
<1>4. disturbed' \in [Activations -> BOOLEAN]
  BY <1>1 DEF HistoryType, ChangedBy
<1>5. \A x \in Activations \ {a} : wrote'[x] = wrote[x]
  BY <1>1 DEF HistoryType, Sent
<1> QED
  BY <1>1, <1>2, <1>3, <1>4, <1>5 DEF HistoryType

LEMMA StepIInv ==
  ASSUME IInv, NEW a \in Activations, Effect(a), bundle' = bundle, Kept, Remote',
         RepositoryType', HistoryType', \A x \in Activations \ {a} : wrote'[x] = wrote[x]
  PROVE  IInv'
<1>1. TypeOK'
  BY TypeParts DEF Effect
<1>2. ASSUME NEW x \in Activations PROVE Held(x)'
  <2>1. CASE x = a
    BY <2>1 DEF Effect
  <2>2. CASE x # a
    BY <2>2, HeldElsewhere DEF Effect
  <2> QED
    BY <2>1, <2>2
<1> QED
  BY <1>1, <1>2 DEF IInv

LEMMA QuietIInv ==
  ASSUME IInv, NEW a \in Activations, Effect(a), UNCHANGED <<remote, bundle, exit, wrote>>, Quiet
  PROVE  IInv'
<1>1. HistoryType /\ RepositoryType
  BY TypeParts DEF IInv
<1>2. HistoryType' /\ RepositoryType'
  BY <1>1 DEF HistoryType, RepositoryType, Quiet, remote
<1>3. Kept /\ Remote'
  BY RemoteUnchanged DEF remote
<1> QED
  BY <1>2, <1>3, StepIInv

LEMMA BeginIInv == ASSUME IInv, NEW a \in Activations, NEW b \in Bundles, Begin(a, b) PROVE IInv'
<1>1. /\ pc[a] = "idle" /\ UNCHANGED <<remote, at, phase, seen, applyErr, receipt, verdict, exit, events, faults, wrote>>
      /\ bundle' = [bundle EXCEPT ![a] = b]
      /\ pc' = [pc EXCEPT ![a] = FirstRead(Operations(b)[1])]
  BY DEF Begin
<1>2. ControlType /\ HistoryType /\ RepositoryType /\ Held(a)
  BY TypeParts DEF IInv
<1>3. Kept /\ Remote' /\ RepositoryType'
  BY <1>1, <1>2, RemoteUnchanged DEF remote, RepositoryType
<1>4. /\ Profile[b] = "reply" => FirstRead(Operations(b)[1]) = "subject"
      /\ Profile[b] = "branch-pr" => FirstRead(Operations(b)[1]) = "base"
      /\ Profile[b] \in {"reply", "branch-pr"}
  <2>1. /\ Profile[b] = "reply" => Operations(b)[1] = "reply"
        /\ Profile[b] = "branch-pr" => Operations(b)[1] = "branch"
        /\ Profile[b] \in {"reply", "branch-pr"}
    BY OperationsOf
  <2> QED
    BY <2>1, FirstRequests
<1>5. /\ pc' \in [Activations -> Pcs] /\ pc'[a] = FirstRead(Operations(b)[1])
      /\ \A x \in Activations \ {a} : pc'[x] = pc[x]
  BY <1>1, <1>2, <1>4 DEF ControlType, Pcs, Active, Reads
<1>6. ControlType' /\ OnlyOf(a)
  BY <1>1, <1>2, <1>5 DEF ControlType, OnlyOf
<1>7. bundle' \in [Activations -> Bundles \cup {None}] /\ bundle'[a] = b /\ \A x \in Activations \ {a} : bundle'[x] = bundle[x]
  BY <1>1, <1>2 DEF HistoryType
<1>8. start' \in [Activations -> {None, "blocked", "missing", "published"}]
  <2> DEFINE s == IF ~Compatible(b) THEN "blocked"
                  ELSE IF \A i \in 1..Len(Operations(b)) : Published(b, i) THEN "published" ELSE "missing"
  <2>1. start' = [start EXCEPT ![a] = s]
    BY DEF Begin
  <2>2. s \in {None, "blocked", "missing", "published"}
    OBVIOUS
  <2> HIDE DEF s
  <2> QED
    BY <1>2, <2>1, <2>2 DEF HistoryType
<1>9. disturbed' \in [Activations -> BOOLEAN]
  BY <1>2 DEF Begin, HistoryType
<1>10. HistoryType'
  BY <1>1, <1>2, <1>7, <1>8, <1>9 DEF HistoryType
<1>11. AtOperation(a)'
  <2>1. at'[a] = 1
    BY <1>1, <1>2 DEF Held, Preflighting
  <2> QED
    BY <1>4, <1>5, <1>7, <2>1 DEF AtOperation
<1>12. Preflighting(a)' /\ Applying(a)' /\ Sealed(a)' /\ Truthful(a)'
  <2>1. /\ at[a] = 1 /\ phase[a] = "preflight" /\ ~wrote[a] /\ receipt[a] = NoReceipt
        /\ \A i \in Index : seen[a][i] = None
    BY <1>1, <1>2 DEF Held, Preflighting
  <2>2. pc'[a] \in {"subject", "base"}
    BY <1>4, <1>5
  <2> QED
    BY <1>1, <2>1, <2>2
       DEF Preflighting, Applying, Sealed, Truthful, Reads, Writes, NoReceipt, None, Success
<1>13. ASSUME NEW x \in Activations PROVE Held(x)'
  <2>1. CASE x = a
    BY <1>11, <1>12, <2>1 DEF Held
  <2>2. CASE x # a
    BY <1>1, <1>3, <1>6, <1>7, <2>2, HeldElsewhere
  <2> QED
    BY <2>1, <2>2
<1> QED
  BY <1>3, <1>6, <1>10, <1>13, TypeParts DEF IInv

LEMMA SmallReadsIInv ==
  ASSUME IInv, NEW a \in Activations, ReadSubject(a) \/ ReadBase(a)
  PROVE  IInv'
<1>1. UNCHANGED <<remote, bundle, exit, wrote>> /\ Quiet /\ pc[a] \in {"subject", "base"}
  BY DEF ReadSubject, ReadBase
<1>2. Kept
  BY <1>1, RemoteUnchanged DEF remote
<1>3. CASE ReadSubject(a)
  <2>1. CASE open
    BY <1>1, <1>2, <1>3, <2>1, NextRequest, QuietIInv DEF ReadSubject
  <2>2. CASE ~open
    <3>1. Fail(a, "rejected")
      BY <1>3, <2>2 DEF ReadSubject
    <3> QED
      BY <1>1, <1>2, <3>1, FailEffect, QuietIInv DEF Reads, Errors
  <2> QED
    BY <2>1, <2>2
<1>4. CASE ReadBase(a)
  <2>1. CASE base = Base[bundle[a]]
    BY <1>1, <1>2, <1>4, <2>1, NextRequest, QuietIInv DEF ReadBase
  <2>2. CASE base # Base[bundle[a]]
    <3>1. Fail(a, "conflict")
      BY <1>4, <2>2 DEF ReadBase
    <3> QED
      BY <1>1, <1>2, <3>1, FailEffect, QuietIInv DEF Reads, Errors
  <2> QED
    BY <2>1, <2>2
<1> QED
  BY <1>3, <1>4

LEMMA AnsweredReadsIInv ==
  ASSUME IInv, NEW a \in Activations, ReadComments(a) \/ ReadTarget(a) \/ ReadPulls(a)
  PROVE  IInv'
<1>1. UNCHANGED <<remote, bundle, exit, wrote>> /\ Quiet /\ pc[a] \in {"comments", "target", "pulls"}
  BY DEF ReadComments, ReadTarget, ReadPulls
<1>2. Kept /\ TypeOK
  BY <1>1, RemoteUnchanged DEF remote, IInv
<1>3. /\ bundle[a] \in Bundles /\ at[a] \in Index
      /\ pc[a] = "comments" => Profile[bundle[a]] = "reply" /\ at[a] = 1
      /\ pc[a] = "target" => Profile[bundle[a]] = "branch-pr" /\ at[a] = 1
      /\ pc[a] = "pulls" => Profile[bundle[a]] = "branch-pr" /\ at[a] = 2
  BY <1>1, <1>2, HeldFacts DEF Reads
<1>4. PICK state : /\ Answer(a, state)
                   /\ \/ pc[a] = "comments" /\ state = ReplyState(bundle[a])
                      \/ pc[a] = "target" /\ state = TargetState(bundle[a])
                      \/ pc[a] = "pulls" /\ state = PullState(bundle[a])
  BY DEF ReadComments, ReadTarget, ReadPulls
<1>5. PICK n \in Index : n = at[a]
  BY <1>3
<1>6. state \in {"absent", "unchanged", "conflict"} /\ (state = "unchanged" => Published(bundle[a], n))
  BY <1>2, <1>3, <1>4, <1>5, StatesSound
<1>7. n <= Len(Operations(bundle[a]))
  BY <1>1, <1>3, <1>5, OperationsOf
<1>8. state = "unchanged" => Published(bundle[a], n)'
  <2>1. Published(bundle[a], n) => Published(bundle[a], n)'
    BY <1>1, <1>2, <1>3, <1>5, <1>7 DEF Kept
  <2> QED
    BY <1>6, <2>1
<1>9. Effect(a)
  BY <1>1, <1>2, <1>4, <1>5, <1>6, <1>8, AnswerEffect
<1> QED
  BY <1>1, <1>9, QuietIInv

LEMMA FetchBaseIInv == ASSUME IInv, NEW a \in Activations, FetchBase(a) PROVE IInv'
<1>1. UNCHANGED <<remote, bundle, exit, wrote>> /\ Quiet /\ pc[a] = "fetch"
  BY DEF FetchBase
<1>2. Kept
  BY <1>1, RemoteUnchanged DEF remote
<1>3. CASE base = Base[bundle[a]]
  BY <1>1, <1>2, <1>3, NextRequest, QuietIInv DEF FetchBase
<1>4. CASE base # Base[bundle[a]]
  <2>1. Reconcile(a, "conflict")
    BY <1>4 DEF FetchBase
  <2> QED
    BY <1>1, <1>2, <2>1, ReconcileEffect, QuietIInv DEF Writes, Errors
<1> QED
  BY <1>3, <1>4

LEMMA ReadFailsIInv == ASSUME IInv, NEW a \in Activations, ReadFails(a) PROVE IInv'
<1>1. /\ UNCHANGED <<remote, bundle, exit, wrote, events, start>> /\ pc[a] \in Reads
      /\ Fault(a) /\ disturbed' = [disturbed EXCEPT ![a] = TRUE]
  BY DEF ReadFails, FaultWithout
<1>2. PICK err \in Errors : Fail(a, err)
  BY DEF ReadFails, Errors
<1>3. RepositoryType /\ HistoryType
  BY TypeParts DEF IInv
<1>4. Kept /\ Remote' /\ RepositoryType'
  BY <1>1, <1>3, RemoteUnchanged DEF remote, RepositoryType
<1>5. Effect(a)
  BY <1>1, <1>2, <1>4, FailEffect
<1>6. HistoryType'
  BY <1>1, <1>3, HistoryGrows DEF HistoryType
<1> QED
  BY <1>1, <1>4, <1>5, <1>6, StepIInv

LEMMA WriteFailsIInv == ASSUME IInv, NEW a \in Activations, WriteFails(a) PROVE IInv'
<1>1. /\ UNCHANGED <<remote, bundle, exit, events, start>> /\ pc[a] \in Writes
      /\ Fault(a) /\ disturbed' = [disturbed EXCEPT ![a] = TRUE]
      /\ wrote' = wrote \/ Sent(a)
  BY DEF WriteFails, FaultWithout
<1>2. PICK err \in Errors : Reconcile(a, err)
  BY DEF WriteFails, Errors
<1>3. RepositoryType /\ HistoryType
  BY TypeParts DEF IInv
<1>4. Kept /\ Remote' /\ RepositoryType'
  BY <1>1, <1>3, RemoteUnchanged DEF remote, RepositoryType
<1>5. Effect(a)
  BY <1>1, <1>2, <1>4, ReconcileEffect
<1>6. HistoryType' /\ \A x \in Activations \ {a} : wrote'[x] = wrote[x]
  BY <1>1, <1>3, HistoryGrows DEF HistoryType
<1> QED
  BY <1>1, <1>4, <1>5, <1>6, StepIInv

(* A write took effect: the activation goes on, or reads it again.         *)
LEMMA WroteIInv ==
  ASSUME IInv, NEW a \in Activations, pc[a] \in Writes, Kept, Remote', RepositoryType',
         UNCHANGED <<bundle, exit, events, start>>, Sent(a), ChangedBy(a),
         NEW n \in Index, n = at[a], Published(bundle[a], n)',
         \/ Succeed(a) /\ UNCHANGED faults
         \/ Reconcile(a, "other") /\ Fault(a)
  PROVE  IInv'
<1>1. HistoryType
  BY TypeParts DEF IInv
<1>2. HistoryType' /\ \A x \in Activations \ {a} : wrote'[x] = wrote[x]
  BY <1>1, HistoryGrows DEF HistoryType
<1>3. Effect(a)
  BY SucceedEffect, ReconcileEffect DEF Errors
<1> QED
  BY <1>2, <1>3, StepIInv

(* A write was refused by what is there.                                   *)
LEMMA RefusedIInv ==
  ASSUME IInv, NEW a \in Activations, pc[a] \in Writes, Reconcile(a, "other"), Sent(a),
         UNCHANGED <<remote, bundle, exit, events, faults, start, disturbed>>
  PROVE  IInv'
<1>1. HistoryType /\ RepositoryType
  BY TypeParts DEF IInv
<1>2. Kept /\ Remote' /\ RepositoryType'
  BY <1>1, RemoteUnchanged DEF remote, RepositoryType
<1>3. HistoryType' /\ \A x \in Activations \ {a} : wrote'[x] = wrote[x]
  BY <1>1, HistoryGrows DEF HistoryType
<1>4. Effect(a)
  BY <1>2, ReconcileEffect DEF Errors
<1> QED
  BY <1>2, <1>3, <1>4, StepIInv

LEMMA PostCommentIInv == ASSUME IInv, NEW a \in Activations, PostComment(a) PROVE IInv'
<1>1. /\ pc[a] = "post" /\ pc[a] \in Writes
      /\ comments' = Append(comments, Marker(bundle[a]))
      /\ UNCHANGED <<base, open, branch, pull, bundle, exit, events, start>>
      /\ Sent(a) /\ ChangedBy(a)
      /\ \/ Succeed(a) /\ UNCHANGED faults
         \/ Reconcile(a, "other") /\ Fault(a)
  BY DEF PostComment, Writes
<1>2. bundle[a] \in Bundles /\ Profile[bundle[a]] = "reply" /\ at[a] = 1 /\ RepositoryType
  BY <1>1, TypeParts DEF IInv, Held, AtOperation
<1>3. Marker(bundle[a]) \in Comment
  BY <1>2, PublisherAssumption DEF Marker, Comment
<1>4. /\ comments' \in Seq(Comment)
      /\ \A c \in DOMAIN comments : c \in DOMAIN comments' /\ comments'[c] = comments[c]
      /\ Len(comments) + 1 \in DOMAIN comments' /\ comments'[Len(comments) + 1] = Marker(bundle[a])
  <2>1. comments \in Seq(Comment)
    BY <1>2 DEF RepositoryType
  <2> HIDE DEF Marker
  <2> QED
    BY <1>1, <1>3, <2>1
<1>5. RepositoryType' /\ Remote'
  BY <1>1, <1>2, <1>4 DEF RepositoryType, Remote, IInv
<1>6. Kept
  BY <1>1, <1>4, KeptIfGrown
<1>7. Published(bundle[a], 1)'
  <2>1. \E c \in DOMAIN comments' : comments'[c] = Marker(bundle[a])
    BY <1>4
  <2>2. bundle'[a] = bundle[a]
    BY <1>1
  <2> QED
    BY <1>2, <2>1, <2>2, ReplyPublished
<1> QED
  BY <1>1, <1>2, <1>5, <1>6, <1>7, WroteIInv DEF Index

LEMMA PushMovesNothing ==
  ASSUME IInv, Fresh, NEW a \in Activations, pc[a] = "push",
         branch' = [branch EXCEPT ![Key[bundle[a]]] = Source[bundle[a]]], FastForward(bundle[a])
  PROVE  \A c \in Bundles : Profile[c] = "branch-pr" /\ branch[Key[c]] = Source[c] => branch'[Key[c]] = Source[c]
<1> SUFFICES ASSUME NEW c \in Bundles, Profile[c] = "branch-pr", branch[Key[c]] = Source[c]
             PROVE  branch'[Key[c]] = Source[c]
  OBVIOUS
<1>1. bundle[a] \in Bundles /\ Profile[bundle[a]] = "branch-pr"
  BY DEF IInv, Held, AtOperation
<1>2. Key[c] \in Keys /\ Source[c] # None /\ branch \in [Keys -> Commits \cup {None}]
  BY PublisherAssumption DEF IInv, TypeOK
<1>3. ~Stacked(bundle[a])
  BY <1>1 DEF Fresh, FreshAt
<1>4. CASE Key[c] = Key[bundle[a]]
  BY <1>2, <1>3, <1>4 DEF FastForward, Stacked, AuthoredUnder
<1>5. CASE Key[c] # Key[bundle[a]]
  BY <1>2, <1>5
<1> QED
  BY <1>4, <1>5

LEMMA PushTargetIInv == ASSUME IInv, Fresh, NEW a \in Activations, PushTarget(a) PROVE IInv'
<1> DEFINE b == bundle[a]
<1>1. /\ pc[a] = "push" /\ pc[a] \in Writes /\ Sent(a)
      /\ UNCHANGED <<base, open, comments, pull, bundle, exit, events, start>>
  BY DEF PushTarget, Writes
<1>2. b \in Bundles /\ Profile[b] = "branch-pr" /\ at[a] = 1 /\ RepositoryType /\ Remote
  BY <1>1, TypeParts DEF IInv, Held, AtOperation
<1>3. Key[b] \in Keys /\ Source[b] \in Commits /\ Source[b] # None
  BY <1>2, PublisherAssumption
<1>4. CASE /\ FastForward(b)
           /\ branch' = [branch EXCEPT ![Key[b]] = Source[b]]
           /\ \/ Succeed(a) /\ UNCHANGED faults
              \/ Reconcile(a, "other") /\ Fault(a)
           /\ ChangedBy(a)
  <2>1. branch' \in [Keys -> Commits \cup {None}] /\ branch'[Key[b]] = Source[b]
        /\ \A k \in Keys \ {Key[b]} : branch'[k] = branch[k]
    BY <1>2, <1>3, <1>4 DEF RepositoryType
  <2>2. RepositoryType' /\ Remote'
    BY <1>1, <1>2, <1>3, <2>1 DEF RepositoryType, Remote, AuthoredUnder
  <2>3. \A c \in Bundles : Profile[c] = "branch-pr" /\ branch[Key[c]] = Source[c] => branch'[Key[c]] = Source[c]
    BY <1>1, <1>4, PushMovesNothing
  <2>4. Kept
    BY <1>1, <2>3, KeptIfGrown
  <2>5. Published(b, 1)'
    BY <1>1, <1>2, <2>1, BranchPublished
  <2> QED
    BY <1>1, <1>2, <1>4, <2>2, <2>4, <2>5, WroteIInv DEF Index
<1>5. CASE Reconcile(a, "other") /\ UNCHANGED <<branch, faults, disturbed>>
  BY <1>1, <1>5, RefusedIInv DEF remote
<1> QED
  BY <1>4, <1>5 DEF PushTarget

(* The pull request comes after the branch: the operation before it        *)
(* succeeded.                                                              *)
LEMMA BranchIsThere ==
  ASSUME IInv, NEW a \in Activations, pc[a] = "create"
  PROVE  /\ bundle[a] \in Bundles /\ Profile[bundle[a]] = "branch-pr" /\ at[a] = 2
         /\ branch[Key[bundle[a]]] = Source[bundle[a]]
<1>1. bundle[a] \in Bundles /\ Profile[bundle[a]] = "branch-pr" /\ at[a] = 2
  BY DEF IInv, Held, AtOperation
<1>2. receipt[a].ops[1] \in Success
  BY <1>1 DEF IInv, Held, Applying, Writes
<1>3. Published(bundle[a], 1)
  BY <1>2 DEF IInv, Held, Truthful, Index
<1> QED
  BY <1>1, <1>3, BranchPublished

LEMMA CreatePullIInv == ASSUME IInv, NEW a \in Activations, CreatePull(a) PROVE IInv'
<1> DEFINE b == bundle[a]
<1>1. /\ pc[a] = "create" /\ pc[a] \in Writes /\ Sent(a)
      /\ UNCHANGED <<base, open, comments, branch, bundle, exit, events, start>>
  BY DEF CreatePull, Writes
<1>2. b \in Bundles /\ Profile[b] = "branch-pr" /\ at[a] = 2 /\ branch[Key[b]] = Source[b]
  BY <1>1, BranchIsThere
<1>3. Key[b] \in Keys /\ Payload[b] \in Payloads /\ Payload[b] # None /\ RepositoryType /\ Remote
  BY <1>2, PublisherAssumption, TypeParts DEF IInv
<1>4. CASE /\ branch[Key[b]] # None /\ pull[Key[b]] = NoPull
           /\ pull' = [pull EXCEPT ![Key[b]] = [draft |-> TRUE, payload |-> Payload[b]]]
           /\ \/ Succeed(a) /\ UNCHANGED faults
              \/ Reconcile(a, "other") /\ Fault(a)
           /\ ChangedBy(a)
  <2>1. [draft |-> TRUE, payload |-> Payload[b]] \in PullStates
    BY <1>3 DEF PullStates
  <2>2. pull' \in [Keys -> PullStates] /\ pull'[Key[b]] = [draft |-> TRUE, payload |-> Payload[b]]
        /\ \A k \in Keys \ {Key[b]} : pull'[k] = pull[k]
    BY <1>3, <1>4, <2>1 DEF RepositoryType
  <2>3. RepositoryType'
    BY <1>1, <1>3, <2>2 DEF RepositoryType
  <2>4. Remote'
    BY <1>1, <1>3, <2>2 DEF Remote
  <2>5. pull[Key[b]].payload = None
    BY <1>4 DEF NoPull
  <2>6. Kept
    BY <1>1, <2>2, <2>5, KeptIfGrown
  <2>7. Published(b, 2)'
    <3>1. branch'[Key[b]] = Source[b] /\ pull'[Key[b]].payload = Payload[b] /\ bundle'[a] = bundle[a]
      BY <1>1, <1>2, <2>2
    <3> QED
      BY <1>2, <3>1, BranchPublished
  <2> QED
    BY <1>1, <1>2, <1>4, <2>3, <2>4, <2>6, <2>7, WroteIInv DEF Index
<1>5. CASE Reconcile(a, "other") /\ UNCHANGED <<pull, faults, disturbed>>
  BY <1>1, <1>5, RefusedIInv DEF remote
<1> QED
  BY <1>4, <1>5 DEF CreatePull

LEMMA WriteReceiptIInv == ASSUME IInv, NEW a \in Activations, WriteReceipt(a) PROVE IInv'
<1>1. /\ pc[a] = "report" /\ pc[a] \in Active /\ pc' = [pc EXCEPT ![a] = "done"]
      /\ UNCHANGED <<remote, bundle, at, phase, seen, applyErr, receipt, verdict, wrote, events, start>>
      /\ faults' = faults \/ Fault(a)
      /\ disturbed' = disturbed \/ disturbed' = [disturbed EXCEPT ![a] = TRUE]
  BY DEF WriteReceipt, Quiet, FaultWithout, Active
<1>2. RepositoryType /\ HistoryType
  BY TypeParts DEF IInv
<1>3. exit' \in [Activations -> {-1, 0, 1, 3, 4}]
  <2>1. ExitCode(verdict[a]) \in {-1, 0, 1, 3, 4}
    BY DEF ExitCode
  <2>2. exit' = [exit EXCEPT ![a] = ExitCode(verdict[a])] \/ exit' = [exit EXCEPT ![a] = 1]
    BY DEF WriteReceipt
  <2> QED
    BY <1>2, <2>1, <2>2 DEF HistoryType
<1>4. Kept /\ Remote' /\ RepositoryType'
  BY <1>1, <1>2, RemoteUnchanged DEF remote, RepositoryType
<1>5. Effect(a)
  BY <1>1, <1>4, EndEffect
<1>6. HistoryType'
  BY <1>1, <1>3, HistoryGrows
<1> QED
  BY <1>1, <1>4, <1>5, <1>6, StepIInv

LEMMA CrashIInv == ASSUME IInv, NEW a \in Activations, Crash(a) PROVE IInv'
<1>1. /\ pc[a] \in Active /\ pc' = [pc EXCEPT ![a] = "crashed"] /\ Fault(a)
      /\ UNCHANGED <<remote, bundle, at, phase, seen, applyErr, receipt, verdict, exit, wrote, events, start, disturbed>>
  BY DEF Crash, history
<1>2. RepositoryType /\ HistoryType
  BY TypeParts DEF IInv
<1>3. Kept /\ Remote' /\ RepositoryType'
  BY <1>1, <1>2, RemoteUnchanged DEF remote, RepositoryType
<1>4. Effect(a)
  BY <1>1, <1>3, EndEffect
<1>5. HistoryType'
  BY <1>1, <1>2, HistoryGrows DEF HistoryType
<1> QED
  BY <1>1, <1>3, <1>4, <1>5, StepIInv

LEMMA OthersIInv == ASSUME IInv, Others PROVE IInv'
<1>1. /\ UNCHANGED <<control, faults, wrote, start>> /\ events < MaxEvents /\ events' = events + 1
      /\ disturbed' = [x \in Activations |-> TRUE]
  BY DEF Others, Changed
<1>2. RepositoryType /\ HistoryType /\ ControlType /\ Remote
  BY TypeParts DEF IInv
<1>3. HistoryType'
  BY <1>1, <1>2, PublisherAssumption DEF HistoryType, control
<1>4. ControlType'
  BY <1>1, <1>2 DEF ControlType, control
<1>5. Kept /\ Remote' /\ RepositoryType'
  <2>1. CASE UNCHANGED <<comments, branch, pull>> /\ base' \in Commits /\ open' \in BOOLEAN
    BY <2>1, RemoteUnchanged
  <2>2. CASE comments' = Append(comments, Unmarked) /\ UNCHANGED <<base, open, branch, pull>>
    <3>1. Unmarked \in Comment
      BY DEF Unmarked, Comment
    <3>2. comments' \in Seq(Comment) /\ \A c \in DOMAIN comments : c \in DOMAIN comments' /\ comments'[c] = comments[c]
      BY <1>2, <2>2, <3>1 DEF RepositoryType
    <3> QED
      BY <1>2, <2>2, <3>2, KeptIfGrown DEF RepositoryType, Remote
  <2>3. ASSUME NEW k \in Keys, NEW c \in ForeignCommits, branch[k] = None,
               branch' = [branch EXCEPT ![k] = c], UNCHANGED <<base, open, comments, pull>>
        PROVE  Kept /\ Remote' /\ RepositoryType'
    <3>1. \A b \in Bundles : Source[b] # None /\ Key[b] \in Keys
      BY PublisherAssumption
    <3>2. branch' \in [Keys -> Commits \cup {None}] /\ branch'[k] = c /\ \A x \in Keys \ {k} : branch'[x] = branch[x]
      BY <1>2, <2>3, PublisherAssumption DEF RepositoryType
    <3>3. \A b \in Bundles : branch[Key[b]] = Source[b] => branch'[Key[b]] = Source[b]
      BY <2>3, <3>1, <3>2
    <3> QED
      BY <1>2, <2>3, <3>2, <3>3, KeptIfGrown DEF RepositoryType, Remote
  <2>4. ASSUME NEW k \in Keys, pull[k].draft, pull' = [pull EXCEPT ![k].draft = FALSE],
               UNCHANGED <<base, open, comments, branch>>
        PROVE  Kept /\ Remote' /\ RepositoryType'
    <3>1. pull[k] \in PullStates
      BY <1>2 DEF RepositoryType
    <3>2. [pull[k] EXCEPT !.draft = FALSE] = [draft |-> FALSE, payload |-> pull[k].payload]
      <4>1. \A v : [pull[k] EXCEPT !.draft = v] = [draft |-> v, payload |-> pull[k].payload]
        BY <3>1 DEF PullStates
      <4> QED
        BY <4>1
    <3>3. pull' = [pull EXCEPT ![k] = [draft |-> FALSE, payload |-> pull[k].payload]]
      BY <1>2, <2>4, <3>2 DEF RepositoryType
    <3>4. [draft |-> FALSE, payload |-> pull[k].payload] \in PullStates
      BY <3>1 DEF PullStates
    <3>5. pull' \in [Keys -> PullStates] /\ pull'[k] = [draft |-> FALSE, payload |-> pull[k].payload]
          /\ \A x \in Keys \ {k} : pull'[x] = pull[x]
      BY <1>2, <3>3, <3>4 DEF RepositoryType
    <3>6. pull[k].payload # None
      BY <1>2, <2>4 DEF Remote, NoPull
    <3> QED
      BY <1>2, <2>4, <3>5, <3>6, KeptIfGrown DEF RepositoryType, Remote
  <2> QED
    BY <1>2, <2>1, <2>2, <2>3, <2>4 DEF Others, RepositoryType
<1>6. ASSUME NEW x \in Activations PROVE Held(x)'
  <2>1. UNCHANGED <<pc, bundle, at, phase, seen, receipt, wrote>> /\ Size(x)' = Size(x)
    BY <1>1 DEF control, Size
  <2>2. Held(x)
    BY DEF IInv
  <2>3. AtOperation(x)' /\ Preflighting(x)' /\ Applying(x)' /\ Sealed(x)'
    BY <2>1, <2>2 DEF Held, AtOperation, Preflighting, Applying, Sealed
  <2>4. pc[x] = "idle" => \A j \in Index : receipt[x].ops[j] \notin Success /\ seen[x][j] # "unchanged"
    BY <2>2 DEF Held, Preflighting, NoReceipt, Success, None
  <2>5. pc[x] # "idle" => bundle[x] \in Bundles
    BY <2>2 DEF Held, AtOperation
  <2>6. \A j \in Index : bundle[x] \in Bundles /\ j <= Size(x) /\ Published(bundle[x], j) => Published(bundle[x], j)'
    BY <1>5, <2>1 DEF Kept, Size
  <2>7. Truthful(x)'
    BY <2>1, <2>2, <2>4, <2>5, <2>6 DEF Held, Truthful
  <2> QED
    BY <2>3, <2>7 DEF Held
<1> QED
  BY <1>3, <1>4, <1>5, <1>6, TypeParts DEF IInv

LEMMA StutterIInv == ASSUME IInv, UNCHANGED vars PROVE IInv'
<1>1. UNCHANGED <<base, open, comments, branch, pull, pc, bundle, at, phase, seen, applyErr, receipt, verdict, exit,
                  events, faults, wrote, start, disturbed>>
  BY DEF vars, remote, control, history
<1>2. TypeOK'
  BY <1>1 DEF IInv, TypeOK
<1>3. Remote'
  BY <1>1 DEF IInv, Remote
<1>4. Kept
  BY <1>1, KeptIfGrown
<1>5. ASSUME NEW x \in Activations PROVE Held(x)'
  <2>1. Held(x) /\ Size(x)' = Size(x)
    BY <1>1 DEF IInv, Size
  <2>2. AtOperation(x)' /\ Preflighting(x)' /\ Applying(x)' /\ Sealed(x)'
    BY <1>1, <2>1 DEF Held, AtOperation, Preflighting, Applying, Sealed
  <2>3. \A b, i : Published(b, i) <=> Published(b, i)'
    BY <1>1 DEF Published
  <2>4. Truthful(x)'
    BY <1>1, <2>1, <2>3 DEF Held, Truthful
  <2> QED
    BY <2>2, <2>4 DEF Held
<1> QED
  BY <1>2, <1>3, <1>5 DEF IInv

LEMMA InitIInv == Init => IInv
<1> SUFFICES ASSUME Init PROVE IInv
  OBVIOUS
<1>1. RepositoryType
  BY PublisherAssumption DEF Init, RepositoryType, NoPull, PullStates
<1>2. ControlType
  <2>1. NoReceipt \in Receipts
    BY ReceiptFields DEF NoReceipt, Ops, Results
  <2>2. receipt \in [Activations -> Receipts]
    BY <2>1 DEF Init
  <2> QED
    BY <2>2 DEF Init, ControlType, Pcs, Active, Found, Seen, Index
<1>3. HistoryType
  BY PublisherAssumption DEF Init, HistoryType
<1>4. Remote
  BY DEF Init, Remote, NoPull
<1>5. ASSUME NEW a \in Activations PROVE Held(a)
  BY DEF Init, Held, AtOperation, Preflighting, Applying, Sealed, Truthful, Reads, Writes, NoReceipt, None, Success
<1> QED
  BY <1>1, <1>2, <1>3, <1>4, <1>5, TypeParts DEF IInv

LEMMA NextIInv == IInv /\ Fresh /\ [Next]_vars => IInv'
<1> SUFFICES ASSUME IInv, Fresh, [Next]_vars PROVE IInv'
  OBVIOUS
<1>1. ASSUME NEW a \in Activations, Step(a) PROVE IInv'
  BY <1>1, SmallReadsIInv, AnsweredReadsIInv, PostCommentIInv, FetchBaseIInv, PushTargetIInv, CreatePullIInv,
     WriteReceiptIInv DEF Step
<1>2. ASSUME NEW a \in Activations, (\E b \in Bundles : Begin(a, b)) \/ ReadFails(a) \/ WriteFails(a) \/ Crash(a)
      PROVE  IInv'
  BY <1>2, BeginIInv, ReadFailsIInv, WriteFailsIInv, CrashIInv
<1>3. CASE Others
  BY <1>3, OthersIInv
<1>4. CASE UNCHANGED vars
  BY <1>4, StutterIInv
<1> QED
  BY <1>1, <1>2, <1>3, <1>4 DEF Next

-----------------------------------------------------------------------------
(* What an answer leads to, and that no preflight passes over a merged     *)
(* commit of its own key.                                                  *)

(* An activation moves no other one.                                       *)
Moves(a) ==
  \A x \in Activations \ {a} :
     /\ pc'[x] = pc[x] /\ at'[x] = at[x] /\ phase'[x] = phase[x] /\ seen'[x] = seen[x]
     /\ receipt'[x] = receipt[x] /\ verdict'[x] = verdict[x]

LEMMA AnswersMove ==
  ASSUME ControlType, NEW a \in Activations,
         \/ Succeed(a)
         \/ \E err : Fail(a, err) \/ Reconcile(a, err)
         \/ \E state : Answer(a, state)
  PROVE  Moves(a)
<1> DEFINE Loop == /\ \A x \in Activations \ {a} : pc'[x] = pc[x] /\ at'[x] = at[x]
                   /\ \A x \in Activations \ {a} : receipt'[x] = receipt[x] /\ verdict'[x] = verdict[x]
           Rest == \A x \in Activations \ {a} : phase'[x] = phase[x] /\ seen'[x] = seen[x]
<1>1. ASSUME NEW d, NEW o, NEW c, Return(a, d, o, c), UNCHANGED at PROVE Loop
  BY <1>1 DEF Return
<1>2. ASSUME NEW i, NEW found, NEW ops, ApplyFrom(a, i, found, ops) PROVE Loop
  <2>1. CASE \E o : Return(a, "applied", o, "ok") /\ UNCHANGED at
    BY <1>1, <2>1
  <2>2. ASSUME NEW j, NEW f, pc' = [pc EXCEPT ![a] = FirstWrite(Operations(bundle[a])[j])],
               at' = [at EXCEPT ![a] = j], receipt' = [receipt EXCEPT ![a].ops = f], UNCHANGED verdict
        PROVE  Loop
    BY <2>2
  <2> QED
    BY <1>2, <2>1, <2>2 DEF ApplyFrom
<1>3. ASSUME Applied(a) PROVE Loop /\ UNCHANGED seen
  BY <1>2, <1>3 DEF Applied
<1>4. ASSUME NEW state, PreflightAnswers(a, state)
      PROVE  Loop /\ \A x \in Activations \ {a} : seen'[x] = seen[x]
  <2> DEFINE found == [seen[a] EXCEPT ![at[a]] = state]
  <2>1. CASE state = "conflict"
    BY <1>1, <1>4, <2>1 DEF PreflightAnswers
  <2>2. CASE state # "conflict"
    <3>1. seen' = [seen EXCEPT ![a] = found]
      BY <1>4, <2>2 DEF PreflightAnswers
    <3>2. CASE at[a] < Size(a)
      <4>1. Loop
        <5>1. \E v : pc' = [pc EXCEPT ![a] = v]
          BY <1>4, <2>2, <3>2 DEF PreflightAnswers
        <5>2. \E v : at' = [at EXCEPT ![a] = v]
          BY <1>4, <2>2, <3>2 DEF PreflightAnswers
        <5>3. UNCHANGED <<receipt, verdict>>
          BY <1>4, <2>2, <3>2 DEF PreflightAnswers
        <5> QED
          BY <5>1, <5>2, <5>3
      <4> QED
        BY <3>1, <4>1
    <3>3. CASE ~(at[a] < Size(a))
      <4>1. StartApply(a, found)
        BY <1>4, <2>2, <3>3 DEF PreflightAnswers
      <4>2. Loop
        BY <1>1, <1>2, <4>1 DEF StartApply
      <4> QED
        BY <3>1, <4>2
    <3> QED
      BY <3>2, <3>3
  <2> QED
    BY <2>1, <2>2
<1>5. ASSUME NEW err, Fail(a, err) PROVE Loop /\ Rest
  BY <1>1, <1>5 DEF Fail, PreflightFails, ReconcileFails
<1>6. ASSUME NEW err, Reconcile(a, err) PROVE Loop /\ Rest
  BY <1>6 DEF Reconcile
<1>7. ASSUME NEW state, Answer(a, state) PROVE Loop /\ Rest
  BY <1>1, <1>3, <1>4, <1>7 DEF Answer, ReconcileFails
<1>8. ASSUME Succeed(a) PROVE Loop /\ Rest
  BY <1>3, <1>8 DEF Succeed
<1> QED
  BY <1>5, <1>6, <1>7, <1>8 DEF Moves

LEMMA StepsMove ==
  ASSUME ControlType, NEW a \in Activations,
         Step(a) \/ ReadFails(a) \/ WriteFails(a) \/ Crash(a) \/ \E b \in Bundles : Begin(a, b)
  PROVE  Moves(a)
<1>1. ASSUME NEW v, pc' = [pc EXCEPT ![a] = v], UNCHANGED <<at, phase, seen, receipt, verdict>> PROVE Moves(a)
  BY <1>1 DEF Moves
<1>2. ASSUME ReadSubject(a) \/ ReadBase(a) \/ FetchBase(a) PROVE Moves(a)
  BY <1>1, <1>2, AnswersMove DEF ReadSubject, ReadBase, FetchBase
<1>3. ASSUME ReadComments(a) \/ ReadTarget(a) \/ ReadPulls(a) PROVE Moves(a)
  BY <1>3, AnswersMove DEF ReadComments, ReadTarget, ReadPulls
<1>5. ASSUME PostComment(a) \/ PushTarget(a) \/ CreatePull(a) PROVE Moves(a)
  BY <1>5, AnswersMove DEF PostComment, PushTarget, CreatePull
<1>6. ASSUME WriteReceipt(a) \/ Crash(a) PROVE Moves(a)
  BY <1>1, <1>6 DEF WriteReceipt, Crash
<1>7. ASSUME NEW b \in Bundles, Begin(a, b) PROVE Moves(a)
  BY <1>1, <1>7 DEF Begin
<1>4. ASSUME ReadFails(a) \/ WriteFails(a) PROVE Moves(a)
  BY <1>4, AnswersMove DEF ReadFails, WriteFails
<1> QED
  BY <1>2, <1>3, <1>4, <1>5, <1>6, <1>7 DEF Step

LEMMA BundleStays ==
  ASSUME ControlType, [Next]_vars, NEW a \in Activations, pc[a] # "idle"
  PROVE  bundle'[a] = bundle[a]
<1>1. ASSUME NEW x \in Activations, Step(x) \/ ReadFails(x) \/ WriteFails(x) \/ Crash(x) PROVE bundle' = bundle
  <2>1. CASE ReadSubject(x) \/ ReadComments(x) \/ ReadBase(x) \/ ReadTarget(x) \/ ReadPulls(x) \/ ReadFails(x)
    BY <2>1 DEF ReadSubject, ReadComments, ReadBase, ReadTarget, ReadPulls, ReadFails
  <2>2. CASE PostComment(x) \/ FetchBase(x) \/ PushTarget(x) \/ CreatePull(x) \/ WriteFails(x)
    BY <2>2 DEF PostComment, FetchBase, PushTarget, CreatePull, WriteFails
  <2>3. CASE WriteReceipt(x) \/ Crash(x)
    BY <2>3 DEF WriteReceipt, Crash
  <2> QED
    BY <1>1, <2>1, <2>2, <2>3 DEF Step
<1>2. ASSUME NEW x \in Activations, NEW b \in Bundles, Begin(x, b) PROVE bundle'[a] = bundle[a]
  BY <1>2 DEF Begin
<1>3. ASSUME Others \/ UNCHANGED vars PROVE bundle' = bundle
  BY <1>3 DEF Others, vars, control
<1> QED
  BY <1>1, <1>2, <1>3 DEF Next

(* After the last operation of a reply nothing is written.                 *)
LEMMA AppliedGoesOn ==
  ASSUME IInv, NEW a \in Activations, pc[a] \in Reads \cup Writes, bundle' = bundle, Kept, Applied(a)
  PROVE  pc'[a] \in {"report", "create"}
<1> DEFINE o == Note(a, at[a], "applied")
<1>1. ControlType
  BY ControlTyped DEF IInv
<1>2. bundle[a] \in Bundles /\ at[a] \in Index /\ at[a] <= Size(a) /\ seen[a] \in Found
  BY HeldFacts
<1>3. o \in Ops
  BY <1>1, <1>2, NoteIs DEF Results
<1>4. ApplyFrom(a, at[a] + 1, seen[a], o)
  BY DEF Applied
<1> HIDE DEF o
<1>5. at[a] + 1 \in 1..3
  BY <1>2 DEF Index
<1>6. pc'[a] = "report" \/ \E j \in (at[a] + 1)..Size(a) : j \in Index /\ pc'[a] = FirstWrite(Operations(bundle[a])[j])
  BY <1>1, <1>2, <1>3, <1>4, <1>5, ApplyContinues
<1> QED
  BY <1>2, <1>6, SizeIs, FirstRequests DEF Index

LEMMA AnswerGoesOn ==
  ASSUME IInv, NEW a \in Activations, pc[a] \in {"comments", "target", "pulls"}, bundle' = bundle, Kept,
         NEW state \in {"absent", "unchanged", "conflict"}, Answer(a, state), pc'[a] \in {"post", "fetch"}
  PROVE  /\ phase[a] = "preflight" /\ state # "conflict"
         /\ pc[a] = "comments" <=> pc'[a] = "post"
         /\ pc'[a] = "post" => state = "absent"
         /\ pc'[a] = "fetch" => pc[a] = "pulls" /\ seen[a][1] = "absent"
<1>1. ControlType /\ pc[a] \in Reads
  BY ControlTyped DEF IInv, Reads
<1>2. /\ bundle[a] \in Bundles /\ at[a] <= Size(a) /\ at[a] \in Index
      /\ seen[a] \in Found /\ receipt[a].ops \in Ops
      /\ pc[a] = "comments" => Profile[bundle[a]] = "reply"
      /\ pc[a] \in {"target", "pulls"} => Profile[bundle[a]] = "branch-pr"
  BY <1>1, HeldFacts
<1>3. ASSUME NEW d, NEW o, NEW c, Return(a, d, o, c) PROVE FALSE
  BY <1>1, <1>3 DEF Return, ControlType
<1>4. phase[a] = "preflight" /\ state # "conflict"
  BY <1>1, <1>3, AppliedGoesOn DEF Answer, PreflightAnswers, ReconcileFails
<1> DEFINE found == [seen[a] EXCEPT ![at[a]] = state]
<1>5. found \in Found /\ found[at[a]] = state
  BY <1>2, <1>4 DEF Found, Seen
<1>6. ~(at[a] < Size(a))
  <2> SUFFICES ASSUME at[a] < Size(a) PROVE FALSE
    OBVIOUS
  <2>1. at[a] + 1 = 2 /\ Operations(bundle[a])[2] = "pr"
    BY <1>2, SizeIs DEF Index
  <2>2. pc' = [pc EXCEPT ![a] = "pulls"]
    BY <1>4, <2>1, FirstRequests DEF Answer, PreflightAnswers
  <2> QED
    BY <1>1, <2>2 DEF ControlType
<1>7. StartApply(a, found)
  BY <1>4, <1>6 DEF Answer, PreflightAnswers
<1> HIDE DEF found
<1>8. ApplyFrom(a, 1, found, receipt[a].ops)
  BY <1>3, <1>7 DEF StartApply
<1>9. \E j \in 1..Size(a) : j \in Index /\ pc'[a] = FirstWrite(Operations(bundle[a])[j]) /\ found[j] # "unchanged"
  <2>1. ~(\A j \in 1..Size(a) : found[j] = "unchanged")
    BY <1>3, <1>7 DEF StartApply
  <2>2. PICK j \in 1..Size(a) : found[j] # "unchanged" /\ pc' = [pc EXCEPT ![a] = FirstWrite(Operations(bundle[a])[j])]
    BY <1>3, <1>8 DEF ApplyFrom
  <2>3. j \in Index
    BY <1>2, SizeIs DEF Index
  <2> QED
    BY <1>1, <2>2, <2>3 DEF ControlType
<1>10. CASE Profile[bundle[a]] = "reply"
  <2>1. Size(a) = 1 /\ at[a] = 1 /\ Operations(bundle[a])[1] = "reply"
    BY <1>2, <1>10, SizeIs DEF Index
  <2> QED
    BY <1>2, <1>4, <1>5, <1>9, <1>10, <2>1, FirstRequests
<1>11. CASE Profile[bundle[a]] = "branch-pr"
  <2>1. Size(a) = 2 /\ at[a] = 2 /\ Operations(bundle[a])[1] = "branch" /\ Operations(bundle[a])[2] = "pr"
    BY <1>2, <1>6, <1>11, SizeIs DEF Index
  <2>2. found[1] = seen[a][1] /\ seen[a][1] \in Seen
    BY <1>2, <2>1 DEF found, Found, Index
  <2>3. seen[a][1] # None
    BY <1>1, <1>4, <2>1 DEF IInv, Held, Preflighting
  <2>4. pc'[a] = "fetch" /\ found[1] # "unchanged"
    BY <1>9, <2>1, FirstRequests DEF Index
  <2>5. pc[a] = "pulls"
    BY <1>1, <1>2, <2>1, HeldFacts
  <2> QED
    BY <1>2, <1>4, <1>11, <2>2, <2>3, <2>4, <2>5 DEF Seen
<1> QED
  BY <1>2, <1>10, <1>11, SizeIs

(* Only an answered preflight leads to the first write of a bundle.        *)
LEMMA FirstWriteFollows ==
  ASSUME IInv, Fresh, NEW a \in Activations, Next, pc'[a] \in {"post", "fetch"}, pc'[a] # pc[a]
  PROVE  /\ UNCHANGED <<remote, bundle>> /\ bundle[a] \in Bundles
         /\ pc[a] \in {"comments", "target", "pulls"}
         /\ pc'[a] = "post" =>
               pc[a] = "comments" /\ \A i \in DOMAIN Page : Page[i].key # Key[bundle[a]]
         /\ pc'[a] = "fetch" => pc[a] = "pulls" /\ seen[a][1] = "absent"
<1>1. ControlType /\ RepositoryType /\ TypeOK
  BY TypeParts DEF IInv
<1>2. ~Others
  BY DEF Others, control
<1>3. PICK x \in Activations : Step(x) \/ ReadFails(x) \/ WriteFails(x) \/ Crash(x) \/ \E b \in Bundles : Begin(x, b)
  BY <1>2 DEF Next
<1>4. x = a
  BY <1>1, <1>3, StepsMove DEF Moves, ControlType
<1>5. ASSUME NEW err, Fail(a, err) PROVE FALSE
  BY <1>1, <1>5 DEF Fail, PreflightFails, ReconcileFails, Return, ControlType
<1>6. ASSUME NEW err, Reconcile(a, err), pc[a] \in Writes PROVE FALSE
  BY <1>1, <1>6, CurrentRead DEF Reconcile, Writes, ControlType
<1>7. ASSUME UNCHANGED remote PROVE Kept
  BY <1>7, RemoteUnchanged DEF remote
<1>8. ~ReadFails(a) /\ ~WriteFails(a)
  BY <1>5, <1>6 DEF ReadFails, WriteFails
<1>9. ~Crash(a) /\ ~WriteReceipt(a)
  BY <1>1 DEF Crash, WriteReceipt, ControlType
<1>10. \A b \in Bundles : ~Begin(a, b)
  <2> SUFFICES ASSUME NEW b \in Bundles, Begin(a, b) PROVE FALSE
    OBVIOUS
  <2>1. Operations(b)[1] \in {"reply", "branch"}
    BY OperationsOf
  <2> QED
    BY <1>1, <2>1, FirstRequests DEF Begin, ControlType
<1>11. ~ReadSubject(a) /\ ~ReadBase(a)
  BY <1>1, <1>5 DEF ReadSubject, ReadBase, ControlType
<1>12. ~FetchBase(a)
  BY <1>1, <1>6 DEF FetchBase, ControlType, Writes
<1>13. ASSUME Succeed(a), pc[a] \in Writes, bundle' = bundle, Kept PROVE FALSE
  BY <1>13, AppliedGoesOn DEF Succeed
<1>14. ~PushTarget(a)
  <2> SUFFICES ASSUME PushTarget(a) PROVE FALSE
    OBVIOUS
  <2>1. pc[a] = "push" /\ bundle' = bundle /\ bundle[a] \in Bundles
    BY DEF PushTarget, IInv, Held, AtOperation
  <2>2. Succeed(a) /\ FastForward(bundle[a]) /\ branch' = [branch EXCEPT ![Key[bundle[a]]] = Source[bundle[a]]]
        /\ UNCHANGED <<comments, pull>>
    BY <1>6, <2>1 DEF PushTarget, Writes
  <2>3. \A c \in Bundles : Profile[c] = "branch-pr" /\ branch[Key[c]] = Source[c] => branch'[Key[c]] = Source[c]
    BY <2>1, <2>2, PushMovesNothing
  <2> QED
    BY <1>13, <2>1, <2>2, <2>3, KeptIfGrown DEF Writes
<1>15. ~CreatePull(a)
  <2> SUFFICES ASSUME CreatePull(a) PROVE FALSE
    OBVIOUS
  <2>1. pc[a] = "create" /\ bundle' = bundle /\ bundle[a] \in Bundles
    BY DEF CreatePull, IInv, Held, AtOperation
  <2>2. Succeed(a) /\ pull[Key[bundle[a]]] = NoPull /\ UNCHANGED <<comments, branch>>
        /\ pull' = [pull EXCEPT ![Key[bundle[a]]] = [draft |-> TRUE, payload |-> Payload[bundle[a]]]]
    BY <1>6, <2>1 DEF CreatePull, Writes
  <2>3. \A k \in Keys : pull[k].payload # None => pull'[k].payload = pull[k].payload
    BY <1>1, <2>2 DEF NoPull, RepositoryType
  <2> QED
    BY <1>13, <2>1, <2>2, <2>3, KeptIfGrown DEF Writes
<1>16. ~PostComment(a)
  <2> SUFFICES ASSUME PostComment(a) PROVE FALSE
    OBVIOUS
  <2>1. pc[a] = "post" /\ bundle' = bundle /\ UNCHANGED <<branch, pull>>
    BY DEF PostComment
  <2>2. Succeed(a)
    BY <1>6, <2>1 DEF PostComment, Writes
  <2>3. \A c \in DOMAIN comments : c \in DOMAIN comments' /\ comments'[c] = comments[c]
    BY <1>1 DEF PostComment, RepositoryType
  <2> QED
    BY <1>13, <2>1, <2>2, <2>3, KeptIfGrown DEF Writes
<1>17. ReadComments(a) \/ ReadTarget(a) \/ ReadPulls(a)
  BY <1>3, <1>4, <1>8, <1>9, <1>10, <1>11, <1>12, <1>14, <1>15, <1>16 DEF Step
<1>18. UNCHANGED <<remote, bundle>> /\ pc[a] \in {"comments", "target", "pulls"}
  BY <1>17 DEF ReadComments, ReadTarget, ReadPulls
<1>19. bundle[a] \in Bundles
  BY <1>18 DEF IInv, Held, AtOperation
<1>20. PICK state : /\ Answer(a, state)
                    /\ \/ pc[a] = "comments" /\ state = ReplyState(bundle[a])
                       \/ pc[a] = "target" /\ state = TargetState(bundle[a])
                       \/ pc[a] = "pulls" /\ state = PullState(bundle[a])
  BY <1>17 DEF ReadComments, ReadTarget, ReadPulls
<1>21. state \in {"absent", "unchanged", "conflict"}
  BY <1>1, <1>19, <1>20, StatesSound
<1>22. /\ pc[a] = "comments" <=> pc'[a] = "post"
       /\ pc'[a] = "post" => state = "absent"
       /\ pc'[a] = "fetch" => pc[a] = "pulls" /\ seen[a][1] = "absent"
  BY <1>7, <1>18, <1>20, <1>21, AnswerGoesOn
<1>23. pc'[a] = "post" => \A i \in DOMAIN Page : Page[i].key # Key[bundle[a]]
  BY <1>20, <1>22 DEF ReplyState
<1> QED
  BY <1>18, <1>19, <1>22, <1>23

(* The next request of an answered one is the first of an operation.       *)
LEMMA AnswersGoTo ==
  ASSUME ControlType, NEW a \in Activations,
         \/ Succeed(a)
         \/ \E err : Fail(a, err) \/ Reconcile(a, err)
         \/ \E state : Answer(a, state)
  PROVE  pc'[a] \notin {"target", "push"}
<1>1. \A kind : FirstRead(kind) \notin {"target", "push"} /\ FirstWrite(kind) \notin {"target", "push"}
  BY DEF FirstRead, FirstWrite
<1>2. ASSUME NEW d, NEW o, NEW c, Return(a, d, o, c) PROVE pc'[a] = "report"
  BY <1>2 DEF Return, ControlType
<1>3. ASSUME NEW i, NEW found, NEW ops, ApplyFrom(a, i, found, ops) PROVE pc'[a] \notin {"target", "push"}
  BY <1>1, <1>2, <1>3 DEF ApplyFrom, ControlType
<1>4. ASSUME Applied(a) PROVE pc'[a] \notin {"target", "push"}
  BY <1>3, <1>4 DEF Applied
<1>5. ASSUME NEW state, PreflightAnswers(a, state) PROVE pc'[a] \notin {"target", "push"}
  BY <1>1, <1>2, <1>3, <1>5 DEF PreflightAnswers, StartApply, ControlType
<1>6. ASSUME NEW err, Fail(a, err) PROVE pc'[a] \notin {"target", "push"}
  BY <1>2, <1>6 DEF Fail, PreflightFails, ReconcileFails
<1>7. ASSUME NEW err, Reconcile(a, err) PROVE pc'[a] \notin {"target", "push"}
  BY <1>1, <1>7 DEF Reconcile, ControlType
<1>8. ASSUME NEW state, Answer(a, state) PROVE pc'[a] \notin {"target", "push"}
  BY <1>2, <1>4, <1>5, <1>8 DEF Answer, ReconcileFails
<1> QED
  BY <1>4, <1>6, <1>7, <1>8 DEF Succeed

(* Only an answer in preflight is noted in seen.                           *)
LEMMA SeenFollows ==
  ASSUME ControlType, NEW a \in Activations
  PROVE  /\ Succeed(a) \/ (\E err : Fail(a, err) \/ Reconcile(a, err)) => seen' = seen
         /\ \A state : Answer(a, state) =>
               \/ seen' = seen
               \/ phase[a] = "preflight" /\ seen' = [seen EXCEPT ![a] = [seen[a] EXCEPT ![at[a]] = state]]
<1>1. ASSUME Applied(a) PROVE seen' = seen
  BY <1>1 DEF Applied
<1>2. ASSUME NEW err, Fail(a, err) \/ Reconcile(a, err) PROVE seen' = seen
  BY <1>2 DEF Fail, Reconcile, PreflightFails, ReconcileFails
<1>3. ASSUME NEW state, Answer(a, state), phase[a] # "preflight" PROVE seen' = seen
  BY <1>1, <1>3 DEF Answer, ReconcileFails
<1>4. ASSUME NEW state, Answer(a, state), phase[a] = "preflight"
      PROVE  seen' = seen \/ seen' = [seen EXCEPT ![a] = [seen[a] EXCEPT ![at[a]] = state]]
  BY <1>4 DEF Answer, PreflightAnswers
<1> QED
  BY <1>1, <1>2, <1>3, <1>4 DEF Succeed

(* No ref is deleted.                                                      *)
LEMMA RefsStay ==
  ASSUME IInv, [Next]_vars, NEW k \in Keys, branch[k] # None
  PROVE  branch'[k] # None
<1>1. branch \in [Keys -> Commits \cup {None}]
  BY DEF IInv, TypeOK
<1>2. ASSUME NEW a \in Activations, PushTarget(a) PROVE branch'[k] # None
  <2>1. Key[bundle[a]] \in Keys /\ Source[bundle[a]] # None
    BY <1>2, PublisherAssumption DEF IInv, Held, AtOperation, PushTarget
  <2> QED
    BY <1>1, <1>2, <2>1 DEF PushTarget
<1>3. CASE Others
  BY <1>1, <1>3, PublisherAssumption DEF Others
<1>4. CASE UNCHANGED vars
  BY <1>4 DEF vars, remote
<1>5. ASSUME NEW a \in Activations, Step(a) \/ ReadFails(a) \/ WriteFails(a) \/ Crash(a) \/ \E b \in Bundles : Begin(a, b),
             ~PushTarget(a)
      PROVE  UNCHANGED branch
  BY <1>5 DEF Step, ReadSubject, ReadComments, ReadBase, ReadTarget, ReadPulls, FetchBase, PostComment, CreatePull,
     WriteReceipt, ReadFails, WriteFails, Crash, Begin, remote
<1> QED
  BY <1>2, <1>3, <1>4, <1>5 DEF Next, Step

LEMMA MergedNext == ASSUME IInv, Fresh, [Next]_vars PROVE MergedIsThere'
<1> SUFFICES ASSUME NEW c \in Bundles, Profile[c] = "branch-pr", base' = Source[c] PROVE branch'[Key[c]] # None
  BY DEF MergedIsThere
<1>1. Key[c] \in Keys
  BY PublisherAssumption
<1>2. CASE base' = base
  BY <1>1, <1>2, RefsStay DEF Fresh, MergedIsThere
<1>3. CASE base' # base
  <2>1. Others
    <3>1. ASSUME NEW a \in Activations,
                 Step(a) \/ ReadFails(a) \/ WriteFails(a) \/ Crash(a) \/ \E b \in Bundles : Begin(a, b)
          PROVE  base' = base
      BY <3>1 DEF Step, ReadSubject, ReadComments, ReadBase, ReadTarget, ReadPulls, FetchBase, PostComment, PushTarget,
         CreatePull, WriteReceipt, ReadFails, WriteFails, Crash, Begin, remote
    <3> QED
      BY <1>3, <3>1 DEF Next, vars, remote
  <2> QED
    BY <1>3, <2>1 DEF Others
<1> QED
  BY <1>2, <1>3

(* The steps of an activation itself.                                      *)
LEMMA OwnFresh ==
  ASSUME IInv, Fresh, Next, NEW a \in Activations,
         Step(a) \/ ReadFails(a) \/ WriteFails(a) \/ Crash(a)
  PROVE  FreshAt(a)'
<1>1. ControlType /\ pc[a] # "idle" /\ bundle[a] \in Bundles
  <2>1. pc[a] # "idle"
    BY DEF Step, ReadSubject, ReadComments, ReadBase, ReadTarget, ReadPulls, PostComment, FetchBase, PushTarget,
       CreatePull, WriteReceipt, ReadFails, WriteFails, Crash, Active, Reads, Writes
  <2> QED
    BY <2>1, TypeParts DEF IInv, Held, AtOperation
<1>2. bundle'[a] = bundle[a]
  BY <1>1, BundleStays
<1> SUFFICES ASSUME Profile[bundle[a]] = "branch-pr", Stacked(bundle[a])
             PROVE  /\ pc'[a] = "target" /\ phase'[a] = "preflight" => branch'[Key[bundle[a]]] # None
                    /\ seen'[a][1] # "absent" /\ pc'[a] \notin {"fetch", "push"}
  BY <1>2 DEF FreshAt, Stacked
<1>3. /\ pc[a] = "target" /\ phase[a] = "preflight" => branch[Key[bundle[a]]] # None
      /\ seen[a][1] # "absent" /\ pc[a] \notin {"fetch", "push"}
  BY <1>1 DEF Fresh, FreshAt
<1>4. Key[bundle[a]] \in Keys
  BY <1>1, PublisherAssumption
<1>5. pc'[a] # "fetch"
  BY <1>3, FirstWriteFollows
<1>6. CASE ReadBase(a)
  <2>1. CASE base = Base[bundle[a]]
    <3>1. pc' = [pc EXCEPT ![a] = "target"] /\ UNCHANGED <<seen, remote>>
      BY <1>6, <2>1 DEF ReadBase
    <3>2. branch'[Key[bundle[a]]] # None
      BY <2>1, <3>1 DEF Fresh, MergedIsThere, Stacked, AuthoredUnder, remote
    <3> QED
      BY <1>1, <1>3, <3>1, <3>2 DEF ControlType
  <2>2. CASE base # Base[bundle[a]]
    BY <1>1, <1>3, <1>5, <1>6, <2>2, AnswersGoTo, SeenFollows DEF ReadBase
  <2> QED
    BY <2>1, <2>2
<1>7. CASE ReadTarget(a)
  <2>1. at[a] = 1 /\ at[a] \in Index /\ seen[a] \in Found
    BY <1>1, <1>7 DEF IInv, Held, AtOperation, ReadTarget, ControlType
  <2>2. Answer(a, TargetState(bundle[a])) /\ pc[a] = "target"
    BY <1>7 DEF ReadTarget
  <2>3. phase[a] = "preflight" => TargetState(bundle[a]) # "absent"
    BY <1>3, <2>2 DEF TargetState
  <2>4. seen'[a][1] # "absent"
    <3>1. CASE seen' = seen
      BY <1>3, <3>1
    <3>2. CASE seen' # seen
      <4>1. /\ phase[a] = "preflight"
            /\ seen' = [seen EXCEPT ![a] = [seen[a] EXCEPT ![at[a]] = TargetState(bundle[a])]]
        BY <1>1, <2>2, <3>2, SeenFollows
      <4> QED
        BY <1>1, <2>1, <2>3, <4>1 DEF ControlType, Found
    <3> QED
      BY <3>1, <3>2
  <2> QED
    BY <1>1, <1>5, <2>2, <2>4, AnswersGoTo
<1>8. CASE ReadComments(a) \/ ReadPulls(a)
  <2>1. PICK state : Answer(a, state)
    BY <1>8 DEF ReadComments, ReadPulls
  <2>2. at[a] = 2 /\ at[a] \in Index /\ seen[a] \in Found
    BY <1>1, <1>8 DEF IInv, Held, AtOperation, ReadComments, ReadPulls, ControlType
  <2>3. seen'[a][1] = seen[a][1]
    <3>1. CASE seen' = seen
      BY <3>1
    <3>2. CASE seen' = [seen EXCEPT ![a] = [seen[a] EXCEPT ![at[a]] = state]]
      BY <1>1, <2>2, <3>2 DEF ControlType, Found, Index
    <3> QED
      BY <1>1, <2>1, <3>1, <3>2, SeenFollows
  <2> QED
    BY <1>1, <1>3, <1>5, <2>1, <2>3, AnswersGoTo
<1>9. CASE PostComment(a) \/ CreatePull(a) \/ ReadFails(a) \/ WriteFails(a)
  <2>1. Succeed(a) \/ (\E err : Fail(a, err) \/ Reconcile(a, err))
    BY <1>9 DEF PostComment, CreatePull, ReadFails, WriteFails
  <2> QED
    BY <1>1, <1>3, <1>5, <2>1, AnswersGoTo, SeenFollows
<1>10. ~FetchBase(a) /\ ~PushTarget(a) /\ ~ReadSubject(a)
  BY <1>3 DEF FetchBase, PushTarget, ReadSubject, IInv, Held, AtOperation
<1>11. CASE WriteReceipt(a) \/ Crash(a)
  <2>1. pc'[a] \in {"done", "crashed"} /\ UNCHANGED seen
    BY <1>1, <1>11 DEF WriteReceipt, Crash, ControlType
  <2> QED
    BY <1>3, <2>1
<1> QED
  BY <1>6, <1>7, <1>8, <1>9, <1>10, <1>11 DEF Step

LEMMA FreshNext == ASSUME IInv, Fresh, [Next]_vars PROVE Fresh'
<1>0. ControlType
  BY TypeParts DEF IInv
<1>1. ASSUME NEW a \in Activations, pc'[a] = pc[a], phase'[a] = phase[a], seen'[a] = seen[a]
      PROVE  FreshAt(a)'
  <2> SUFFICES ASSUME pc[a] # "idle" PROVE FreshAt(a)'
    BY <1>1 DEF FreshAt
  <2>1. bundle'[a] = bundle[a] /\ bundle[a] \in Bundles
    BY <1>0, BundleStays DEF IInv, Held, AtOperation
  <2>2. Key[bundle[a]] \in Keys
    BY <2>1, PublisherAssumption
  <2> QED
    BY <1>1, <2>1, <2>2, RefsStay DEF Fresh, FreshAt, Stacked
<1>2. ASSUME NEW a \in Activations, NEW b \in Bundles, Begin(a, b) PROVE FreshAt(a)'
  <2>1. /\ pc[a] = "idle" /\ seen' = seen /\ seen[a][1] = None
        /\ pc' = [pc EXCEPT ![a] = FirstRead(Operations(b)[1])]
    BY <1>2 DEF Begin, IInv, Held, Preflighting, Index
  <2>2. pc'[a] \in {"subject", "base"}
    BY <1>0, <2>1, OperationsOf, FirstRequests DEF ControlType
  <2> QED
    BY <2>1, <2>2 DEF FreshAt, None
<1>3. ASSUME NEW a \in Activations, Next PROVE FreshAt(a)'
  <2>1. CASE Others
    BY <1>1, <2>1 DEF Others, control
  <2>2. ASSUME NEW x \in Activations,
               Step(x) \/ ReadFails(x) \/ WriteFails(x) \/ Crash(x) \/ \E b \in Bundles : Begin(x, b)
        PROVE  FreshAt(a)'
    <3>1. CASE x = a
      BY <1>2, <1>3, <2>2, <3>1, OwnFresh
    <3>2. CASE x # a
      BY <1>0, <1>1, <2>2, <3>2, StepsMove DEF Moves
    <3> QED
      BY <3>1, <3>2
  <2> QED
    BY <1>3, <2>1, <2>2 DEF Next
<1>4. CASE UNCHANGED vars
  BY <1>1, <1>4, MergedNext DEF Fresh, vars, control
<1> QED
  BY <1>3, <1>4, MergedNext DEF Fresh

LEMMA FreshInit == Init => Fresh
BY PublisherAssumption DEF Init, Fresh, MergedIsThere, FreshAt

-----------------------------------------------------------------------------

(* Every activation is where its requests, its receipt and the repository  *)
(* say, in every state.                                                    *)
THEOREM Invariant == Spec => [](IInv /\ Fresh)
BY InitIInv, NextIInv, FreshInit, FreshNext, PTL DEF Spec

(* The publisher's state is well typed in every reachable state.           *)
THEOREM TypeCorrect == Spec => []TypeOK
<1>1. IInv => TypeOK
  BY DEF IInv
<1> QED
  BY <1>1, Invariant, PTL

(* No write is requested before the preflight of the whole bundle, whoever *)
(* else publishes or changes the repository meanwhile.                     *)
THEOREM PreflightFirst == Spec => []PreflightBeforeWrite
<1>1. IInv => PreflightBeforeWrite
  BY DEF IInv, Held, Sealed, PreflightBeforeWrite
<1> QED
  BY <1>1, Invariant, PTL

(* A receipt that says "rejected" is the receipt of an activation that     *)
(* sent no write.                                                          *)
THEOREM RejectionIsClean == Spec => []RejectedWroteNothing
<1>1. IInv => RejectedWroteNothing
  BY DEF IInv, Held, Sealed, RejectedWroteNothing
<1> QED
  BY <1>1, Invariant, PTL

(* What a receipt calls applied or unchanged is in the repository and      *)
(* stays there, for any number of activations at the same time.            *)
THEOREM TrueReceipt == Spec => []ReceiptTruth
<1>1. IInv => ReceiptTruth
  <2>1. ASSUME IInv, NEW a \in Activations
        PROVE  /\ \A i \in Index : receipt[a].ops[i] \in {"applied", "unchanged"} => Published(bundle[a], i)
               /\ receipt[a].disposition \in {"applied", "unchanged"} =>
                     \A i \in 1..Size(a) : receipt[a].ops[i] \in {"applied", "unchanged"}
    BY <2>1 DEF IInv, Held, Sealed, Truthful, Success
  <2> QED
    BY <2>1 DEF ReceiptTruth
<1> QED
  BY <1>1, Invariant, PTL

-----------------------------------------------------------------------------
(* The abstract contract.  A push takes over a ref that others created at  *)
(* the attested base, so the contract needs that they do not.              *)

NobodyBranchesAtBase == \A b \in Bundles : Base[b] \notin ForeignCommits

LEMMA ContractInit == Init => Contract!Init
BY DEF Init, Contract!Init, NoPull

LEMMA NextUnfolds ==
  ASSUME [Next]_vars
  PROVE  \/ UNCHANGED <<branch, pull>>
         \/ \E a \in Activations : PushTarget(a) \/ CreatePull(a)
         \/ Others
<1>1. ASSUME NEW a \in Activations, Step(a), ~PushTarget(a), ~CreatePull(a) PROVE UNCHANGED <<branch, pull>>
  BY <1>1 DEF Step, ReadSubject, ReadComments, ReadBase, ReadTarget, ReadPulls, PostComment, FetchBase,
     WriteReceipt, remote
<1>2. ASSUME NEW a \in Activations, (\E b \in Bundles : Begin(a, b)) \/ ReadFails(a) \/ WriteFails(a) \/ Crash(a)
      PROVE  UNCHANGED <<branch, pull>>
  BY <1>2 DEF Begin, ReadFails, WriteFails, Crash, remote
<1>3. UNCHANGED vars => UNCHANGED <<branch, pull>>
  BY DEF vars, remote
<1> QED
  BY <1>1, <1>2, <1>3 DEF Next

LEMMA ContractNext ==
  ASSUME NobodyBranchesAtBase, IInv, Fresh, [Next]_vars
  PROVE  [Contract!Next]_Contract!pubvars
<1>0. RepositoryType /\ Remote
  BY TypeParts DEF IInv
<1>1. CASE UNCHANGED <<branch, pull>>
  BY <1>1 DEF Contract!pubvars
<1>2. ASSUME NEW a \in Activations, PushTarget(a) PROVE [Contract!Next]_Contract!pubvars
  <2>1. bundle[a] \in Bundles /\ Key[bundle[a]] \in Keys /\ Source[bundle[a]] \in Commits /\ UNCHANGED pull
    BY <1>2, PublisherAssumption DEF PushTarget, IInv, Held, AtOperation
  <2>2. CASE UNCHANGED branch
    BY <2>1, <2>2 DEF Contract!pubvars
  <2>3. CASE ~UNCHANGED branch
    <3>1. FastForward(bundle[a]) /\ branch' = [branch EXCEPT ![Key[bundle[a]]] = Source[bundle[a]]]
      BY <1>2, <2>3 DEF PushTarget
    <3>2. branch[Key[bundle[a]]] # Source[bundle[a]]
      BY <1>0, <2>1, <2>3, <3>1 DEF RepositoryType
    <3>3. branch[Key[bundle[a]]] # Base[bundle[a]]
      <4>1. Profile[bundle[a]] = "branch-pr" /\ ~Stacked(bundle[a])
        BY <1>2 DEF PushTarget, IInv, Held, AtOperation, Fresh, FreshAt
      <4>2. Source[bundle[a]] # Base[bundle[a]]
        BY <2>1, <4>1 DEF Stacked, AuthoredUnder
      <4> QED
        BY <1>0, <2>1, <4>1, <4>2, PublisherAssumption DEF Remote, NobodyBranchesAtBase, Stacked
    <3>4. branch[Key[bundle[a]]] = None
      BY <3>1, <3>2, <3>3 DEF FastForward
    <3> QED
      BY <2>1, <3>1, <3>4 DEF Contract!Next, Contract!CreateRef
  <2> QED
    BY <2>2, <2>3
<1>3. ASSUME NEW a \in Activations, CreatePull(a) PROVE [Contract!Next]_Contract!pubvars
  <2> DEFINE b == bundle[a]
  <2>1. b \in Bundles /\ branch[Key[b]] = Source[b] /\ UNCHANGED branch
    BY <1>3, BranchIsThere DEF CreatePull
  <2>2. CASE UNCHANGED pull
    BY <2>1, <2>2 DEF Contract!pubvars
  <2>3. CASE ~UNCHANGED pull
    <3>1. pull[Key[b]] = NoPull /\ pull' = [pull EXCEPT ![Key[b]] = [draft |-> TRUE, payload |-> Payload[b]]]
      BY <1>3, <2>3 DEF CreatePull
    <3>2. Key[b] \in Keys
      BY <2>1, PublisherAssumption
    <3>3. [x \in Keys |-> pull'[x].payload] = [[x \in Keys |-> pull[x].payload] EXCEPT ![Key[b]] = Payload[b]]
      BY <1>0, <3>1, <3>2 DEF RepositoryType
    <3>4. [x \in Keys |-> pull[x].payload][Key[b]] = None
      BY <3>1, <3>2 DEF NoPull
    <3> QED
      BY <2>1, <3>3, <3>4 DEF Contract!Next, Contract!OpenPull
  <2> QED
    BY <2>2, <2>3
<1>4. CASE Others
  <2>1. CASE UNCHANGED branch
    <3>1. UNCHANGED pull \/ \E k \in Keys : pull' = [pull EXCEPT ![k].draft = FALSE]
      BY <1>4 DEF Others
    <3>2. [x \in Keys |-> pull'[x].payload] = [x \in Keys |-> pull[x].payload]
      <4>1. ASSUME NEW k \in Keys, pull' = [pull EXCEPT ![k].draft = FALSE], NEW x \in Keys
            PROVE  pull'[x].payload = pull[x].payload
        BY <1>0, <4>1 DEF RepositoryType, PullStates
      <4> QED
        BY <3>1, <4>1
    <3> QED
      BY <2>1, <3>2 DEF Contract!pubvars
  <2>2. CASE ~UNCHANGED branch
    <3>1. PICK k \in Keys, c \in ForeignCommits :
             branch[k] = None /\ branch' = [branch EXCEPT ![k] = c] /\ UNCHANGED pull
      BY <1>4, <2>2 DEF Others
    <3>2. c \in Commits
      BY PublisherAssumption
    <3> QED
      BY <3>1, <3>2 DEF Contract!Next, Contract!CreateRef
  <2> QED
    BY <2>1, <2>2
<1> QED
  BY <1>1, <1>2, <1>3, <1>4, NextUnfolds

(* The publisher implements the contract: the ref and the pull request of  *)
(* a key are created once each, in that order, unless others create a ref  *)
(* at the base commit.                                                     *)
THEOREM ImplementsContract == ASSUME NobodyBranchesAtBase PROVE Spec => PublishesOnce
<1>1. IInv /\ Fresh /\ [Next]_vars => [Contract!Next]_Contract!pubvars
  BY ContractNext
<1> QED
  BY <1>1, ContractInit, Invariant, PTL DEF Spec, PublishesOnce, Contract!Spec

-----------------------------------------------------------------------------
(* One reply for a correlation key.  This needs what the adapter relies    *)
(* on: activations follow each other (a concurrency group of the workflow) *)
(* and the comments fit on the one page it reads.                          *)

OneAtATime == MaxActive = 1 /\ IsFiniteSet(Activations)
Fits == Len(comments) <= PageSize

Alone == \A x, y \in Activations : pc[x] \in Active /\ pc[y] \in Active => x = y

NotYetReplied ==
  \A a \in Activations : pc[a] = "post" =>
     \A i \in DOMAIN comments : comments[i].key # Key[bundle[a]]

ReplyInv == Alone /\ NotYetReplied /\ OneReplyPerCorrelation

(* Only a preflight that found no marker leads to a post.                  *)
LEMMA PostAfterAbsent ==
  ASSUME IInv, Fresh, NEW a \in Activations, Next, pc'[a] = "post", pc[a] # "post", Fits
  PROVE  /\ UNCHANGED <<comments, bundle>> /\ bundle[a] \in Bundles
         /\ \A i \in DOMAIN comments : comments[i].key # Key[bundle[a]]
<1>1. /\ UNCHANGED <<remote, bundle>> /\ bundle[a] \in Bundles
      /\ \A i \in DOMAIN Page : Page[i].key # Key[bundle[a]]
  BY FirstWriteFollows
<1>2. Page = comments
  <2>1. comments \in Seq(Comment) /\ Len(comments) <= PageSize /\ PageSize \in Nat
    BY PublisherAssumption DEF IInv, TypeOK, Fits
  <2>2. (IF Len(comments) < PageSize THEN Len(comments) ELSE PageSize) = Len(comments)
    BY <2>1
  <2>3. SubSeq(comments, 1, Len(comments)) = comments
    BY <2>1
  <2> QED
    BY <2>2, <2>3 DEF Page
<1> QED
  BY <1>1, <1>2 DEF remote

LEMMA CommentsGrow ==
  ASSUME IInv, [Next]_vars
  PROVE  \/ UNCHANGED comments
         \/ comments' = Append(comments, Unmarked) /\ UNCHANGED control
         \/ \E a \in Activations : /\ pc[a] = "post" /\ comments' = Append(comments, Marker(bundle[a]))
                                   /\ PostComment(a)
<1>1. ASSUME NEW a \in Activations, Step(a) \/ ReadFails(a) \/ WriteFails(a) \/ Crash(a) \/ \E b \in Bundles : Begin(a, b),
             ~PostComment(a)
      PROVE  UNCHANGED comments
  BY <1>1 DEF Step, ReadSubject, ReadComments, ReadBase, ReadTarget, ReadPulls, FetchBase, PushTarget, CreatePull,
     WriteReceipt, ReadFails, WriteFails, Crash, Begin, remote
<1>2. CASE Others
  BY <1>2 DEF Others
<1>3. CASE UNCHANGED vars
  BY <1>3 DEF vars, remote
<1> QED
  BY <1>1, <1>2, <1>3 DEF Next, PostComment

LEMMA ReplyInit == Init => ReplyInv
<1>1. Init => Alone
  BY DEF Init, Alone, Active, Reads, Writes
<1>2. Init => NotYetReplied
  BY DEF Init, NotYetReplied
<1>3. Init => OneReplyPerCorrelation
  BY DEF Init, OneReplyPerCorrelation
<1> QED
  BY <1>1, <1>2, <1>3 DEF ReplyInv

LEMMA AloneNext == ASSUME OneAtATime, IInv, Alone, [Next]_vars PROVE Alone'
<1>0. ControlType
  BY TypeParts DEF IInv
<1>1. CASE pc' = pc
  BY <1>1 DEF Alone
<1>2. ASSUME NEW a \in Activations, NEW b \in Bundles, Begin(a, b) PROVE Alone'
  <2>1. {x \in Activations : pc[x] \in Active} = {}
    <3> DEFINE S == {x \in Activations : pc[x] \in Active}
    <3>1. Cardinality(S) < 1 /\ IsFiniteSet(S)
      BY <1>2, FS_Subset DEF Begin, OneAtATime
    <3>2. Cardinality(S) = 0
      <4>1. Cardinality(S) \in Nat
        BY <3>1, FS_CardinalityType
      <4> QED
        BY <3>1, <4>1
    <3> QED
      BY <3>1, <3>2, FS_EmptySet
  <2>2. Moves(a)
    BY <1>0, <1>2, StepsMove
  <2> QED
    BY <1>0, <2>1, <2>2 DEF Alone, Moves, ControlType
<1>3. ASSUME NEW a \in Activations, Step(a) \/ ReadFails(a) \/ WriteFails(a) \/ Crash(a) PROVE Alone'
  <2>1. pc[a] \in Active
    BY <1>3 DEF Step, ReadSubject, ReadComments, ReadBase, ReadTarget, ReadPulls, PostComment, FetchBase, PushTarget,
       CreatePull, WriteReceipt, ReadFails, WriteFails, Crash, Active, Reads, Writes
  <2>2. Moves(a)
    BY <1>0, <1>3, StepsMove
  <2> QED
    BY <1>0, <2>1, <2>2 DEF Alone, Moves, ControlType
<1> QED
  BY <1>1, <1>2, <1>3 DEF Next, Others, control, vars

LEMMA PostsOnce == ASSUME IInv, NEW a \in Activations, PostComment(a) PROVE pc'[a] # "post"
<1>1. pc[a] = "post" /\ bundle' = bundle /\ ControlType /\ RepositoryType
  BY TypeParts DEF PostComment, IInv
<1>2. CASE Succeed(a)
  <2>1. \A c \in DOMAIN comments : c \in DOMAIN comments' /\ comments'[c] = comments[c]
    BY <1>1 DEF PostComment, RepositoryType
  <2>2. Kept
    BY <2>1, KeptIfGrown DEF PostComment
  <2> QED
    BY <1>1, <1>2, <2>2, AppliedGoesOn DEF Succeed, Writes
<1>3. CASE Reconcile(a, "other")
  BY <1>1, <1>3, CurrentRead DEF Reconcile, Writes, ControlType
<1> QED
  BY <1>2, <1>3 DEF PostComment

LEMMA ReplyNext == ASSUME OneAtATime, IInv, Fresh, ReplyInv, Fits, [Next]_vars PROVE ReplyInv'
<1>1. Alone'
  BY AloneNext DEF ReplyInv
<1>2. RepositoryType /\ ControlType
  BY TypeParts DEF IInv
<1>3. \A a \in Activations : pc[a] = "post" => bundle[a] \in Bundles /\ Key[bundle[a]] # None
  BY PublisherAssumption DEF IInv, Held, AtOperation
<1>4. ASSUME NEW m, comments' = Append(comments, m)
      PROVE  /\ \A i \in DOMAIN comments' : \/ i \in DOMAIN comments /\ comments'[i] = comments[i]
                                            \/ i = Len(comments) + 1 /\ comments'[i] = m
  BY <1>2, <1>4 DEF RepositoryType
<1>5. OneReplyPerCorrelation'
  <2>1. CASE UNCHANGED comments
    BY <2>1 DEF ReplyInv, OneReplyPerCorrelation
  <2>2. CASE comments' = Append(comments, Unmarked)
    BY <1>4, <2>2 DEF ReplyInv, OneReplyPerCorrelation, Unmarked
  <2>3. ASSUME NEW a \in Activations, pc[a] = "post", comments' = Append(comments, Marker(bundle[a]))
        PROVE  OneReplyPerCorrelation'
    <3>1. \A i \in DOMAIN comments : comments[i].key # Marker(bundle[a]).key
      BY <2>3 DEF ReplyInv, NotYetReplied, Marker
    <3> HIDE DEF Marker
    <3> QED
      BY <1>4, <2>3, <3>1 DEF ReplyInv, OneReplyPerCorrelation
  <2> QED
    BY <2>1, <2>2, <2>3, CommentsGrow
<1>6. ASSUME NEW a \in Activations, pc'[a] = "post", NEW i \in DOMAIN comments'
      PROVE  comments'[i].key # Key[bundle'[a]]
  <2>1. CASE pc[a] # "post"
    <3>1. Next
      BY <1>6, <2>1 DEF vars, control
    <3> QED
      BY <1>6, <2>1, <3>1, PostAfterAbsent
  <2>2. CASE pc[a] = "post"
    <3>1. \A j \in DOMAIN comments : comments[j].key # Key[bundle[a]]
      BY <2>2 DEF ReplyInv, NotYetReplied
    <3>2. bundle'[a] = bundle[a]
      BY <1>2, <2>2, BundleStays
    <3>3. CASE UNCHANGED comments
      BY <1>6, <3>1, <3>2, <3>3
    <3>4. CASE comments' = Append(comments, Unmarked)
      BY <1>3, <1>4, <1>6, <2>2, <3>1, <3>2, <3>4 DEF Unmarked
    <3>5. ASSUME NEW x \in Activations, PostComment(x) PROVE FALSE
      <4>1. x = a
        BY <2>2, <3>5 DEF ReplyInv, Alone, PostComment, Active, Writes
      <4> QED
        BY <1>6, <3>5, <4>1, PostsOnce
    <3> QED
      BY <3>3, <3>4, <3>5, CommentsGrow
  <2> QED
    BY <2>1, <2>2
<1>7. NotYetReplied'
  BY <1>6 DEF NotYetReplied
<1> QED
  BY <1>1, <1>5, <1>7 DEF ReplyInv

(* One correlation key never gets two replies, when activations follow     *)
(* each other and the comments fit on the page that is read.               *)
THEOREM OneReply == ASSUME OneAtATime PROVE Spec /\ []Fits => []OneReplyPerCorrelation
<1>1. IInv /\ Fresh /\ ReplyInv /\ Fits /\ [Next]_vars => ReplyInv'
  BY ReplyNext
<1>2. ReplyInv => OneReplyPerCorrelation
  BY DEF ReplyInv
<1> QED
  BY <1>1, <1>2, ReplyInit, Invariant, PTL DEF Spec

-----------------------------------------------------------------------------
(* An activation that nothing disturbs.                                    *)

Reconciling(a) == pc[a] \in Reads /\ phase[a] = "reconcile"

UndisturbedHeld(a) ==
  /\ Compatible(bundle[a]) /\ start[a] \in {"missing", "published"}
  (* Preflight: what was read is what is there.                            *)
  /\ pc[a] \in Reads /\ phase[a] = "preflight" =>
        /\ start[a] = "published" <=> \A i \in 1..Size(a) : Published(bundle[a], i)
        /\ \A i \in 1..(at[a] - 1) : seen[a][i] = "unchanged" <=> Published(bundle[a], i)
  (* Apply: only what is missing is written, and read again when written.  *)
  /\ pc[a] \in Writes => start[a] = "missing" /\ ~Published(bundle[a], at[a])
  /\ Reconciling(a) => start[a] = "missing" /\ Published(bundle[a], at[a]) /\ wrote[a]
  /\ pc[a] \in Writes \/ Reconciling(a) =>
        \A i \in (at[a] + 1)..Size(a) : seen[a][i] = "unchanged" <=> Published(bundle[a], i)
  /\ pc[a] \in {"report", "done"} =>
        /\ verdict[a] = "ok"
        /\ receipt[a].disposition = IF start[a] = "missing" THEN "applied" ELSE "unchanged"
        /\ wrote[a] <=> start[a] = "missing"
  /\ pc[a] = "done" => exit[a] = 0

Undisturbed(a) == pc[a] \notin {"idle", "crashed"} /\ start[a] # "blocked" /\ ~disturbed[a]

QuietInv == \A a \in Activations : Undisturbed(a) => UndisturbedHeld(a)

(* The number principle the first-marker rule of preflightReply rests on.  *)
LEMMA LeastNumber ==
  ASSUME NEW T \in SUBSET Nat, T # {}
  PROVE  \E n \in T : \A m \in T : n <= m
<1>1. PICK n \in T : \A m \in T : ~(<<m, n>> \in OpToRel(<, Nat))
  BY NatLessThanWellFounded, WFMin
<1>2. \A m \in T : ~(m < n)
  BY <1>1 DEF OpToRel
<1> QED
  BY <1>2

LEMMA SameRemote ==
  ASSUME UNCHANGED remote
  PROVE  \A b : (Compatible(b)' <=> Compatible(b)) /\ \A i : Published(b, i)' <=> Published(b, i)
<1>1. UNCHANGED <<base, open, comments, branch, pull>>
  BY DEF remote
<1>2. \A b, i : Published(b, i)' <=> Published(b, i)
  BY <1>1 DEF Published
<1>3. \A b : Compatible(b)' <=> Compatible(b)
  BY <1>1 DEF Compatible
<1> QED
  BY <1>2, <1>3

LEMMA PageIsAll == ASSUME TypeOK, Fits PROVE Page = comments
<1>1. comments \in Seq(Comment) /\ Len(comments) <= PageSize /\ PageSize \in Nat
  BY PublisherAssumption DEF TypeOK, Fits
<1>2. (IF Len(comments) < PageSize THEN Len(comments) ELSE PageSize) = Len(comments)
  BY <1>1
<1>3. SubSeq(comments, 1, Len(comments)) = comments
  BY <1>1
<1> QED
  BY <1>2, <1>3 DEF Page

(* On a compatible repository a read answers what is published.            *)
LEMMA ReadsExact ==
  ASSUME TypeOK, Remote, Fits, NEW b \in Bundles, Compatible(b)
  PROVE  /\ Profile[b] = "reply" =>
              ReplyState(b) = IF Published(b, 1) THEN "unchanged" ELSE "absent"
         /\ Profile[b] = "branch-pr" =>
              /\ TargetState(b) = IF Published(b, 1) THEN "unchanged" ELSE "absent"
              /\ PullState(b) = IF Published(b, 2) THEN "unchanged" ELSE "absent"
              /\ ~Published(b, 1) => branch[Key[b]] = None /\ pull[Key[b]] = NoPull /\ ~Published(b, 2)
              /\ ~Published(b, 2) => pull[Key[b]] = NoPull
<1>1. CASE Profile[b] = "reply"
  <2>1. comments \in Seq(Comment) /\ \A i \in DOMAIN comments : comments[i].key = Key[b] => comments[i] = Marker(b)
    <3>1. comments \in Seq(Comment)
      BY DEF TypeOK
    <3>2. ASSUME NEW i \in DOMAIN comments, comments[i].key = Key[b] PROVE comments[i] = Marker(b)
      <4>1. comments[i] \in Comment /\ comments[i].payload = Payload[b]
        BY <1>1, <3>1, <3>2 DEF Compatible
      <4> QED
        BY <3>2, <4>1 DEF Comment, Marker
    <3> QED
      BY <3>1, <3>2
  <2>2. Page = comments
    BY PageIsAll
  <2>3. \A i \in DOMAIN comments : comments[i] = Marker(b) => comments[i].key = Key[b]
    BY DEF Marker
  <2>4. CASE Published(b, 1)
    <3> DEFINE T == {i \in DOMAIN comments : comments[i] = Marker(b)}
    <3>1. T # {} /\ T \in SUBSET Nat
      BY <1>1, <2>1, <2>4, ReplyPublished
    <3>2. PICK i \in T : \A j \in T : i <= j
      BY <3>1, LeastNumber
    <3>3. \A j \in 1..(i - 1) : comments[j].key # Key[b]
      BY <2>1, <3>1, <3>2
    <3>4. ReplyState(b) \in {"absent", "unchanged", "conflict"}
      BY DEF ReplyState
    <3>5. i \in DOMAIN Page /\ Page[i] = Marker(b) /\ \A j \in 1..(i - 1) : Page[j].key # Key[b]
      BY <2>2, <3>2, <3>3
    <3>6. Page[i].key = Key[b]
      BY <3>5 DEF Marker
    <3>7. ReplyState(b) = "unchanged"
      BY <3>5, <3>6 DEF ReplyState
    <3> QED
      BY <1>1, <2>4, <3>7
  <2>5. CASE ~Published(b, 1)
    <3>1. \A i \in DOMAIN Page : Page[i].key # Key[b]
      BY <1>1, <2>1, <2>2, <2>5, ReplyPublished
    <3>2. \A i \in DOMAIN Page : Page[i] # Marker(b)
      BY <1>1, <2>2, <2>5, ReplyPublished
    <3>3. ReplyState(b) = "absent"
      BY <3>1, <3>2 DEF ReplyState
    <3> QED
      BY <1>1, <2>5, <3>3
  <2> QED
    BY <2>4, <2>5
<1>2. CASE Profile[b] = "branch-pr"
  <2>1. /\ branch[Key[b]] \in {None, Source[b]}
        /\ pull[Key[b]] # NoPull => /\ branch[Key[b]] = Source[b]
                                    /\ pull[Key[b]] = [draft |-> TRUE, payload |-> Payload[b]]
    BY <1>2 DEF Compatible
  <2>2. Source[b] # None /\ Payload[b] # None /\ Key[b] \in Keys
    BY PublisherAssumption
  <2>3. /\ Published(b, 1) <=> branch[Key[b]] = Source[b]
        /\ Published(b, 2) <=> branch[Key[b]] = Source[b] /\ pull[Key[b]].payload = Payload[b]
    BY <1>2, BranchPublished
  <2>4. TargetState(b) = IF Published(b, 1) THEN "unchanged" ELSE "absent"
    BY <2>1, <2>2, <2>3 DEF TargetState
  <2>5. Published(b, 2) <=> pull[Key[b]] # NoPull
    BY <2>1, <2>2, <2>3 DEF NoPull
  <2>6. PullState(b) = IF Published(b, 2) THEN "unchanged" ELSE "absent"
    <3>1. CASE pull[Key[b]] = NoPull
      <4>1. [draft |-> TRUE, payload |-> Payload[b]].payload # NoPull.payload
        BY <2>2 DEF NoPull
      <4>2. PullState(b) = "absent"
        BY <3>1, <4>1 DEF PullState
      <4> QED
        BY <2>5, <3>1, <4>2
    <3>2. CASE pull[Key[b]] # NoPull
      BY <2>1, <2>5, <3>2 DEF PullState
    <3> QED
      BY <3>1, <3>2
  <2> QED
    BY <1>2, <2>1, <2>3, <2>4, <2>5, <2>6
<1> QED
  BY <1>1, <1>2, OperationsOf

(* A step of one activation disturbs every other one, or leaves the        *)
(* repository as it is; and it touches nothing of theirs.                  *)
Spares(a) ==
  /\ bundle'[a] = bundle[a] /\ wrote'[a] = wrote[a] /\ start'[a] = start[a] /\ exit'[a] = exit[a]
  /\ disturbed'[a] \/ (UNCHANGED remote /\ ~disturbed[a])

LEMMA StepsSpare ==
  ASSUME HistoryType, NEW x \in Activations, NEW a \in Activations \ {x},
         Step(x) \/ ReadFails(x) \/ WriteFails(x) \/ Crash(x) \/ \E b \in Bundles : Begin(x, b)
  PROVE  Spares(a)
<1>1. ASSUME UNCHANGED <<remote, bundle, exit, wrote>>, Quiet PROVE Spares(a)
  BY <1>1 DEF Spares, Quiet, HistoryType
<1>2. ASSUME ReadSubject(x) \/ ReadComments(x) \/ ReadBase(x) \/ ReadTarget(x) \/ ReadPulls(x) \/ FetchBase(x)
      PROVE  Spares(a)
  BY <1>1, <1>2 DEF ReadSubject, ReadComments, ReadBase, ReadTarget, ReadPulls, FetchBase
<1>3. ASSUME UNCHANGED <<bundle, exit, start>>, Sent(x) \/ UNCHANGED wrote,
             \/ ChangedBy(x)
             \/ UNCHANGED <<remote, disturbed>>
             \/ UNCHANGED remote /\ disturbed' = [disturbed EXCEPT ![x] = TRUE]
      PROVE  Spares(a)
  <2>1. wrote'[a] = wrote[a]
    BY <1>3 DEF Sent, HistoryType
  <2>2. CASE ChangedBy(x)
    BY <1>3, <2>1, <2>2 DEF Spares, ChangedBy
  <2>3. CASE UNCHANGED remote /\ (UNCHANGED disturbed \/ disturbed' = [disturbed EXCEPT ![x] = TRUE])
    <3>1. disturbed'[a] = disturbed[a]
      BY <2>3 DEF HistoryType
    <3>2. disturbed[a] \in BOOLEAN
      BY DEF HistoryType
    <3> QED
      BY <1>3, <2>1, <2>3, <3>1, <3>2 DEF Spares
  <2> QED
    BY <1>3, <2>2, <2>3
<1>4. ASSUME PostComment(x) PROVE Spares(a)
  BY <1>3, <1>4 DEF PostComment
<1>5. ASSUME PushTarget(x) PROVE Spares(a)
  BY <1>3, <1>5 DEF PushTarget, remote
<1>6. ASSUME CreatePull(x) PROVE Spares(a)
  BY <1>3, <1>6 DEF CreatePull, remote
<1>7. ASSUME ReadFails(x) \/ WriteFails(x) PROVE Spares(a)
  BY <1>3, <1>7 DEF ReadFails, WriteFails, FaultWithout
<1>8. ASSUME Crash(x) PROVE Spares(a)
  BY <1>3, <1>8 DEF Crash, history
<1>9. ASSUME WriteReceipt(x) PROVE Spares(a)
  <2>1. UNCHANGED <<remote, bundle, wrote, start>> /\ exit'[a] = exit[a]
    BY <1>9 DEF WriteReceipt, Quiet, HistoryType
  <2>2. disturbed' = disturbed \/ disturbed' = [disturbed EXCEPT ![x] = TRUE]
    BY <1>9 DEF WriteReceipt, Quiet, FaultWithout
  <2>3. disturbed'[a] = disturbed[a] /\ disturbed[a] \in BOOLEAN
    BY <2>2 DEF HistoryType
  <2> QED
    BY <2>1, <2>3 DEF Spares
<1>10. ASSUME NEW b \in Bundles, Begin(x, b) PROVE Spares(a)
  <2>1. UNCHANGED <<remote, exit, wrote>> /\ bundle'[a] = bundle[a]
    BY <1>10 DEF Begin
  <2>2. start'[a] = start[a]
    BY <1>10 DEF Begin
  <2>3. disturbed'[a] = disturbed[a] /\ disturbed[a] \in BOOLEAN
    BY <1>10 DEF Begin, HistoryType
  <2> QED
    BY <2>1, <2>2, <2>3 DEF Spares
<1> QED
  BY <1>2, <1>4, <1>5, <1>6, <1>7, <1>8, <1>9, <1>10 DEF Step

LEMMA SparedQuiet ==
  ASSUME NEW a \in Activations, Undisturbed(a) => UndisturbedHeld(a),
         pc'[a] = pc[a], at'[a] = at[a], phase'[a] = phase[a], seen'[a] = seen[a],
         receipt'[a] = receipt[a], verdict'[a] = verdict[a], Spares(a), Undisturbed(a)'
  PROVE  UndisturbedHeld(a)'
<1>1. UNCHANGED remote /\ Undisturbed(a)
  BY DEF Spares, Undisturbed
<1>2. Size(a)' = Size(a) /\ bundle'[a] = bundle[a] /\ wrote'[a] = wrote[a] /\ start'[a] = start[a] /\ exit'[a] = exit[a]
  BY DEF Spares, Size
<1>3. \A b : (Compatible(b)' <=> Compatible(b)) /\ \A i : Published(b, i)' <=> Published(b, i)
  BY <1>1, SameRemote
<1>4. UndisturbedHeld(a)
  BY <1>1
<1>5. Compatible(bundle[a])' <=> Compatible(bundle[a])
  BY <1>2, <1>3
<1>6. \A i : Published(bundle[a], i)' <=> Published(bundle[a], i)
  BY <1>2, <1>3
<1>7. Published(bundle[a], at[a])' <=> Published(bundle[a], at[a])
  BY <1>2, <1>3
<1> QED
  BY <1>2, <1>4, <1>5, <1>6, <1>7 DEF UndisturbedHeld, Reconciling

LEMMA AppliedQuiet ==
  ASSUME IInv, NEW a \in Activations, pc[a] \in Reads \cup Writes, Kept, bundle' = bundle, start' = start,
         start[a] = "missing", Applied(a), wrote'[a], Compatible(bundle[a])',
         \A i \in Index : i > at[a] /\ i <= Size(a) => (seen[a][i] = "unchanged" <=> Published(bundle[a], i)')
  PROVE  UndisturbedHeld(a)'
<1> DEFINE o == Note(a, at[a], "applied")
<1>1. ControlType
  BY ControlTyped DEF IInv
<1>2. bundle[a] \in Bundles /\ at[a] \in Index /\ at[a] <= Size(a) /\ seen[a] \in Found
  BY HeldFacts
<1>3. o \in Ops
  BY <1>1, <1>2, NoteIs DEF Results
<1>4. ApplyFrom(a, at[a] + 1, seen[a], o)
  BY DEF Applied
<1> HIDE DEF o
<1>5. at[a] + 1 \in 1..3
  BY <1>2 DEF Index
<1>6. bundle'[a] = bundle[a] /\ start'[a] = start[a] /\ Size(a)' = Size(a)
  BY DEF Size
<1>7. CASE pc'[a] = "report" /\ receipt'[a].disposition = "applied" /\ verdict'[a] = "ok"
  BY <1>6, <1>7 DEF UndisturbedHeld, Reconciling, Reads, Writes
<1>8. ASSUME NEW j \in (at[a] + 1)..Size(a), j \in Index, at'[a] = j, seen[a][j] # "unchanged",
             pc'[a] = FirstWrite(Operations(bundle[a])[j])
      PROVE  UndisturbedHeld(a)'
  <2>1. j = 2 /\ pc'[a] = "create" /\ Size(a) = 2
    BY <1>2, <1>8, SizeIs, FirstRequests DEF Index
  <2>2. ~Published(bundle[a], j)'
    BY <1>2, <1>8, <2>1 DEF Index
  <2>3. ~Published(bundle[a], at[a])'
    BY <1>8, <2>2
  <2> QED
    BY <1>6, <1>8, <2>1, <2>3 DEF UndisturbedHeld, Reconciling, Reads, Writes
<1> QED
  BY <1>1, <1>2, <1>3, <1>4, <1>5, <1>7, <1>8, ApplyContinues

LEMMA AnswerQuiet ==
  ASSUME IInv, NEW a \in Activations, UndisturbedHeld(a), pc[a] \in {"comments", "target", "pulls"},
         UNCHANGED <<remote, bundle, wrote, start>>,
         NEW n \in Index, n = at[a],
         NEW state, state = IF Published(bundle[a], n) THEN "unchanged" ELSE "absent",
         Answer(a, state)
  PROVE  UndisturbedHeld(a)'
<1>1. ControlType /\ Preflighting(a) /\ pc[a] \in Reads
  BY ControlTyped DEF IInv, Held, Reads
<1>2. Kept
  BY RemoteUnchanged DEF remote
<1>3. /\ bundle[a] \in Bundles /\ at[a] <= Size(a) /\ seen[a] \in Found /\ receipt[a].ops \in Ops
      /\ receipt[a].disposition = None
  BY <1>1, <1>2, HeldFacts
<1>4. bundle'[a] = bundle[a] /\ start'[a] = start[a] /\ wrote'[a] = wrote[a] /\ Size(a)' = Size(a)
      /\ Size(a) \in {1, 2} /\ Index = {1, 2}
  BY <1>3, SizeIs DEF Size, Index
<1>5. \A i : Published(bundle[a], i)' <=> Published(bundle[a], i)
  BY <1>4, SameRemote
<1>6. Compatible(bundle[a])' /\ start[a] \in {"missing", "published"}
  BY <1>4, SameRemote DEF UndisturbedHeld
<1>7. CASE phase[a] = "reconcile"
  <2>1. start[a] = "missing" /\ Published(bundle[a], at[a]) /\ wrote[a]
        /\ \A i \in (at[a] + 1)..Size(a) : seen[a][i] = "unchanged" <=> Published(bundle[a], i)
    BY <1>1, <1>7 DEF UndisturbedHeld, Reconciling
  <2>2. Applied(a)
    BY <1>7, <2>1 DEF Answer
  <2>3. \A i \in Index : i > at[a] /\ i <= Size(a) => (seen[a][i] = "unchanged" <=> Published(bundle[a], i)')
    BY <1>4, <1>5, <2>1
  <2> QED
    BY <1>1, <1>2, <1>4, <1>6, <2>1, <2>2, <2>3, AppliedQuiet
<1>8. CASE phase[a] = "preflight"
  <2> DEFINE found == [seen[a] EXCEPT ![at[a]] = state]
  <2>0. state # "conflict" /\ PreflightAnswers(a, state)
    BY <1>8 DEF Answer
  <2>1. /\ ~wrote[a]
        /\ start[a] = "published" <=> \A i \in 1..Size(a) : Published(bundle[a], i)
        /\ \A i \in 1..(at[a] - 1) : seen[a][i] = "unchanged" <=> Published(bundle[a], i)
    BY <1>1, <1>8 DEF UndisturbedHeld, Preflighting
  <2>2. found \in Found /\ found[n] = state /\ \A j \in Index \ {n} : found[j] = seen[a][j]
    BY <1>3 DEF Found, Seen
  <2>3. seen' = [seen EXCEPT ![a] = found]
    BY <2>0 DEF PreflightAnswers
  <2>4. phase'[a] = "preflight"
    BY <1>1 DEF Answer, ControlType
  <2> HIDE DEF found
  <2>5. seen'[a] = found
    BY <1>1, <2>3 DEF ControlType
  <2>6. \A j \in 1..n : found[j] = "unchanged" <=> Published(bundle[a], j)
    BY <1>4, <2>1, <2>2
  <2>7. CASE at[a] < Size(a)
    <3>1. at[a] + 1 = 2 /\ FirstRead(Operations(bundle[a])[at[a] + 1]) = "pulls"
      BY <1>3, <1>4, <2>7, SizeIs, FirstRequests
    <3>2. /\ at' = [at EXCEPT ![a] = @ + 1]
          /\ pc' = [pc EXCEPT ![a] = FirstRead(Operations(bundle[a])[at[a] + 1])]
      BY <2>0, <2>7 DEF PreflightAnswers
    <3>3. pc'[a] = "pulls" /\ at'[a] = n + 1
      BY <1>1, <3>1, <3>2 DEF ControlType
    <3> QED
      BY <1>4, <1>5, <1>6, <2>1, <2>4, <2>5, <2>6, <3>3 DEF UndisturbedHeld, Reconciling, Reads, Writes
  <2>8. CASE ~(at[a] < Size(a))
    <3>1. n = Size(a) /\ StartApply(a, found)
      BY <1>3, <1>4, <2>0, <2>8 DEF PreflightAnswers, found
    <3>2. CASE \A j \in 1..Size(a) : found[j] = "unchanged"
      <4> DEFINE o == [j \in Index |-> IF j \in 1..Size(a) THEN "unchanged" ELSE None]
      <4>1. Return(a, "unchanged", o, "ok")
        BY <3>1, <3>2 DEF StartApply
      <4>2. o \in Ops
        BY DEF Ops, Results
      <4> HIDE DEF o
      <4>3. pc'[a] = "report" /\ receipt'[a].disposition = "unchanged" /\ verdict'[a] = "ok"
        <5>1. pc'[a] = "report" /\ receipt'[a] = [disposition |-> "unchanged", ops |-> o] /\ verdict'[a] = "ok"
          BY <1>1, <4>1, <4>2, Returns
        <5> QED
          BY <5>1
      <4>4. start[a] = "published"
        BY <2>1, <2>6, <3>1, <3>2
      <4> QED
        BY <1>4, <1>6, <2>1, <4>3, <4>4 DEF UndisturbedHeld, Reconciling, Reads, Writes
    <3>3. CASE ~(\A j \in 1..Size(a) : found[j] = "unchanged")
      <4>1. ApplyFrom(a, 1, found, receipt[a].ops)
        BY <3>1, <3>3 DEF StartApply
      <4>2. PICK j \in 1..Size(a) : /\ j \in Index /\ pc'[a] = FirstWrite(Operations(bundle[a])[j]) /\ at'[a] = j
                                    /\ found[j] # "unchanged"
        <5>1. ~Extended(a, 1, Size(a), found, receipt[a].ops)
          BY <1>4, <3>3 DEF Extended
        <5> QED
          BY <1>1, <1>3, <2>2, <4>1, <5>1, ApplyContinues
      <4>3. start[a] = "missing"
        BY <1>6, <2>1, <2>6, <3>1, <4>2
      <4>4. pc'[a] \in Writes
        BY <1>3, <1>4, <4>2, SizeIs, FirstRequests DEF Writes
      <4>5. ~Published(bundle[a], at[a])'
        BY <1>4, <1>5, <2>6, <3>1, <4>2
      <4>6. \A i \in (at'[a] + 1)..Size(a) : seen'[a][i] = "unchanged" <=> Published(bundle[a], i)'
        BY <1>4, <1>5, <2>5, <2>6, <3>1, <4>2
      <4> QED
        BY <1>4, <1>6, <4>3, <4>4, <4>5, <4>6 DEF UndisturbedHeld, Reconciling, Reads, Writes
    <3> QED
      BY <3>2, <3>3
  <2> QED
    BY <2>7, <2>8
<1> QED
  BY <1>1, <1>7, <1>8 DEF ControlType

(* A write that took effect, whether or not its answer arrived.            *)
LEMMA WroteQuiet ==
  ASSUME IInv, NEW a \in Activations, UndisturbedHeld(a), pc[a] \in Writes, Kept, UNCHANGED <<bundle, start>>,
         Sent(a), Compatible(bundle[a])', NEW n \in Index, n = at[a], Published(bundle[a], n)',
         \A i \in Index : i > n /\ i <= Size(a) => (seen[a][i] = "unchanged" <=> Published(bundle[a], i)'),
         Succeed(a) \/ Reconcile(a, "other")
  PROVE  UndisturbedHeld(a)'
<1>1. ControlType /\ HistoryType /\ wrote'[a] /\ start[a] = "missing" /\ start'[a] = "missing"
  BY TypeParts DEF IInv, HistoryType, Sent, UndisturbedHeld
<1>2. CASE Succeed(a)
  BY <1>1, <1>2, AppliedQuiet DEF Succeed
<1>3. CASE Reconcile(a, "other")
  <2>0. /\ pc' = [pc EXCEPT ![a] = FirstRead(Current(a))] /\ FirstRead(Current(a)) \in Reads
        /\ phase' = [phase EXCEPT ![a] = "reconcile"] /\ at' = at /\ seen' = seen
    BY <1>3, CurrentRead DEF Reconcile, Reads, Writes
  <2>1. pc'[a] \in Reads /\ phase'[a] = "reconcile" /\ at'[a] = n /\ seen'[a] = seen[a] /\ Size(a)' = Size(a)
    BY <1>1, <2>0 DEF ControlType, Size
  <2>2. at[a] = n /\ Size(a) \in {1, 2} /\ Index = {1, 2} /\ bundle'[a] = bundle[a]
    BY HeldFacts, SizeIs DEF Index
  <2>3. \A i \in (at'[a] + 1)..Size(a) : seen'[a][i] = "unchanged" <=> Published(bundle[a], i)'
    BY <2>1, <2>2
  <2>4. pc'[a] \notin Writes /\ pc'[a] \notin {"report", "done"}
    BY <2>1 DEF Reads, Writes
  <2>5. Published(bundle[a], at[a])'
    BY <2>1, <2>2
  <2> QED
    BY <1>1, <2>1, <2>2, <2>3, <2>4, <2>5 DEF UndisturbedHeld, Reconciling
<1> QED
  BY <1>2, <1>3

LEMMA PostQuiet ==
  ASSUME IInv, NEW a \in Activations, UndisturbedHeld(a), PostComment(a)
  PROVE  UndisturbedHeld(a)'
<1>1. /\ pc[a] = "post" /\ pc[a] \in Writes /\ UNCHANGED <<base, open, branch, pull, bundle, start>>
      /\ comments' = Append(comments, Marker(bundle[a])) /\ Sent(a)
      /\ Succeed(a) \/ Reconcile(a, "other")
  BY DEF PostComment, Writes
<1>2. bundle[a] \in Bundles /\ Profile[bundle[a]] = "reply" /\ at[a] = 1 /\ Size(a) = 1 /\ comments \in Seq(Comment)
  BY <1>1, SizeIs, TypeParts DEF IInv, Held, AtOperation, RepositoryType
<1> DEFINE m == Marker(bundle[a])
<1>3. m.payload = Payload[bundle[a]]
  BY DEF Marker
<1> HIDE DEF m
<1>4. /\ \A c \in DOMAIN comments : c \in DOMAIN comments' /\ comments'[c] = comments[c]
      /\ Len(comments) + 1 \in DOMAIN comments' /\ comments'[Len(comments) + 1] = m
      /\ \A c \in DOMAIN comments' : \/ c \in DOMAIN comments /\ comments'[c] = comments[c]
                                     \/ comments'[c] = m
  BY <1>1, <1>2 DEF m
<1>5. Kept
  BY <1>1, <1>4, KeptIfGrown
<1>6. Published(bundle[a], 1)'
  <2>1. bundle'[a] = bundle[a] /\ \E c \in DOMAIN comments' : comments'[c] = Marker(bundle[a])
    BY <1>1, <1>4 DEF m
  <2> QED
    BY <1>2, <2>1, ReplyPublished
<1>7. Compatible(bundle[a])'
  <2>1. open /\ \A i \in DOMAIN comments : comments[i].key = Key[bundle[a]] => comments[i].payload = Payload[bundle[a]]
    BY <1>2 DEF UndisturbedHeld, Compatible
  <2>2. open' /\ \A i \in DOMAIN comments' : comments'[i].key = Key[bundle[a]] => comments'[i].payload = Payload[bundle[a]]
    BY <1>1, <1>3, <1>4, <2>1
  <2>3. bundle'[a] = bundle[a]
    BY <1>1
  <2> QED
    BY <1>2, <2>2, <2>3 DEF Compatible
<1> QED
  BY <1>1, <1>2, <1>5, <1>6, <1>7, WroteQuiet DEF Index

LEMMA PushQuiet ==
  ASSUME IInv, Fits, NEW a \in Activations, UndisturbedHeld(a), PushTarget(a)
  PROVE  UndisturbedHeld(a)'
<1> DEFINE b == bundle[a]
<1>1. pc[a] = "push" /\ pc[a] \in Writes /\ Sent(a) /\ UNCHANGED <<base, open, comments, pull, bundle, start>>
  BY DEF PushTarget, Writes
<1>2. /\ b \in Bundles /\ Profile[b] = "branch-pr" /\ at[a] = 1 /\ Size(a) = 2 /\ TypeOK /\ Remote
      /\ branch \in [Keys -> Commits \cup {None}]
  BY <1>1, SizeIs DEF IInv, Held, AtOperation, TypeOK
<1>3. Compatible(b) /\ ~Published(b, 1) /\ (seen[a][2] = "unchanged" <=> Published(b, 2))
  BY <1>1, <1>2 DEF UndisturbedHeld
<1>4. branch[Key[b]] = None /\ pull[Key[b]] = NoPull /\ ~Published(b, 2)
  BY <1>2, <1>3, ReadsExact
<1>5. FastForward(b)
  BY <1>4 DEF FastForward
<1>6. branch' = [branch EXCEPT ![Key[b]] = Source[b]] /\ (Succeed(a) \/ Reconcile(a, "other"))
  BY <1>5 DEF PushTarget
<1>7. Key[b] \in Keys /\ Source[b] # None /\ Payload[b] # None
  BY <1>2, PublisherAssumption
<1>8. branch'[Key[b]] = Source[b] /\ (\A k \in Keys \ {Key[b]} : branch'[k] = branch[k])
  BY <1>2, <1>6, <1>7
<1>9. Kept
  <2>1. \A c \in Bundles : branch[Key[c]] = Source[c] => branch'[Key[c]] = Source[c]
    BY <1>4, <1>8, PublisherAssumption
  <2> QED
    BY <1>1, <2>1, KeptIfGrown
<1>10. Published(b, 1)' /\ ~Published(b, 2)'
  <2>1. bundle'[a] = bundle[a] /\ pull'[Key[b]].payload # Payload[b]
    BY <1>1, <1>4, <1>7 DEF NoPull
  <2> QED
    BY <1>2, <1>8, <2>1, BranchPublished
<1>11. Compatible(b)'
  <2>1. base' = Base[b] /\ bundle'[a] = b /\ pull'[Key[b]] = NoPull
    BY <1>1, <1>2, <1>3, <1>4 DEF Compatible
  <2> QED
    BY <1>2, <1>8, <2>1 DEF Compatible
<1>12. \A i \in Index : i > 1 /\ i <= Size(a) => (seen[a][i] = "unchanged" <=> Published(b, i)')
  <2>1. seen[a][2] # "unchanged"
    BY <1>3, <1>4
  <2>2. \A i \in Index : i > 1 => i = 2
    BY DEF Index
  <2> QED
    BY <1>10, <2>1, <2>2
<1> QED
  BY <1>1, <1>2, <1>6, <1>9, <1>10, <1>11, <1>12, WroteQuiet DEF Index

LEMMA CreateQuiet ==
  ASSUME IInv, Fits, NEW a \in Activations, UndisturbedHeld(a), CreatePull(a)
  PROVE  UndisturbedHeld(a)'
<1> DEFINE b == bundle[a]
<1>1. pc[a] = "create" /\ pc[a] \in Writes /\ Sent(a) /\ UNCHANGED <<base, open, comments, branch, bundle, start>>
  BY DEF CreatePull, Writes
<1>2. /\ b \in Bundles /\ Profile[b] = "branch-pr" /\ at[a] = 2 /\ Size(a) = 2 /\ TypeOK /\ Remote
      /\ branch[Key[b]] = Source[b] /\ pull \in [Keys -> PullStates]
  BY <1>1, BranchIsThere, SizeIs DEF IInv, TypeOK
<1>3. Compatible(b) /\ ~Published(b, 2)
  BY <1>1, <1>2 DEF UndisturbedHeld
<1>4. pull[Key[b]] = NoPull
  BY <1>2, <1>3, ReadsExact
<1>5. Key[b] \in Keys /\ Source[b] # None /\ Payload[b] # None
  BY <1>2, PublisherAssumption
<1>6. /\ pull' = [pull EXCEPT ![Key[b]] = [draft |-> TRUE, payload |-> Payload[b]]]
      /\ Succeed(a) \/ Reconcile(a, "other")
  BY <1>2, <1>4, <1>5 DEF CreatePull
<1>7. pull'[Key[b]] = [draft |-> TRUE, payload |-> Payload[b]] /\ (\A k \in Keys \ {Key[b]} : pull'[k] = pull[k])
  BY <1>2, <1>5, <1>6
<1>8. Kept
  <2>1. \A k \in Keys : pull[k].payload # None => pull'[k].payload = pull[k].payload
    BY <1>4, <1>7 DEF NoPull
  <2> QED
    BY <1>1, <2>1, KeptIfGrown
<1>9. Published(b, 2)'
  <2>1. bundle'[a] = b /\ branch'[Key[b]] = Source[b] /\ pull'[Key[b]].payload = Payload[b]
    BY <1>1, <1>2, <1>7
  <2> QED
    BY <1>2, <2>1, BranchPublished
<1>10. Compatible(b)'
  <2>1. base' = Base[b] /\ bundle'[a] = b /\ branch'[Key[b]] = Source[b]
    BY <1>1, <1>2, <1>3 DEF Compatible
  <2> QED
    BY <1>2, <1>7, <2>1 DEF Compatible
<1>11. \A i \in Index : i > 2 /\ i <= Size(a) => (seen[a][i] = "unchanged" <=> Published(b, i)')
  <2>1. \A i \in Index : ~(i > 2)
    BY DEF Index
  <2> QED
    BY <2>1
<1> QED
  BY <1>1, <1>2, <1>6, <1>8, <1>9, <1>10, <1>11, WroteQuiet DEF Index

LEMMA BeginQuiet ==
  ASSUME IInv, NEW a \in Activations, NEW b \in Bundles, Begin(a, b), start'[a] # "blocked"
  PROVE  UndisturbedHeld(a)'
<1>1. ControlType /\ HistoryType /\ pc[a] = "idle" /\ Preflighting(a) /\ UNCHANGED <<remote, at, phase, seen>>
  BY TypeParts DEF IInv, Held, Begin
<1>2. at'[a] = 1 /\ phase'[a] = "preflight" /\ bundle'[a] = b /\ Size(a)' = Len(Operations(b))
  BY <1>1 DEF Preflighting, Begin, HistoryType, Size
<1>3. pc'[a] = FirstRead(Operations(b)[1])
  BY <1>1 DEF Begin, ControlType
<1>4. pc'[a] \in {"subject", "base"}
  BY <1>3, OperationsOf, FirstRequests
<1>5. start'[a] = IF ~Compatible(b) THEN "blocked"
                  ELSE IF \A i \in 1..Len(Operations(b)) : Published(b, i) THEN "published" ELSE "missing"
  BY <1>1 DEF Begin, HistoryType
<1>6. /\ \A i : Published(bundle[a], i)' <=> Published(b, i)
      /\ Compatible(bundle[a])' <=> Compatible(b)
  BY <1>1, <1>2, SameRemote
<1>7. Compatible(b) /\ start'[a] \in {"missing", "published"}
      /\ (start'[a] = "published" <=> \A i \in 1..Len(Operations(b)) : Published(b, i))
  BY <1>5
<1>8. \A i \in 1..(at'[a] - 1) : FALSE
  BY <1>2
<1> QED
  BY <1>2, <1>4, <1>6, <1>7, <1>8 DEF UndisturbedHeld, Reconciling, Reads, Writes

(* Reads that lead to the next read, or from the fetch to the push.        *)
LEMMA GoesOnQuiet ==
  ASSUME IInv, NEW a \in Activations, UndisturbedHeld(a), ReadSubject(a) \/ ReadBase(a) \/ FetchBase(a)
  PROVE  UndisturbedHeld(a)'
<1>1. ControlType /\ AtOperation(a) /\ UNCHANGED <<remote, bundle, wrote, start>> /\ Compatible(bundle[a])
      /\ bundle[a] \in Bundles
  BY TypeParts DEF IInv, Held, AtOperation, UndisturbedHeld, ReadSubject, ReadBase, FetchBase, Quiet
<1>2. \E v : /\ pc' = [pc EXCEPT ![a] = v] /\ UNCHANGED <<at, phase, seen>>
             /\ \/ pc[a] \in {"subject", "base"} /\ v \in {"comments", "target"}
                \/ pc[a] = "fetch" /\ v = "push"
  <2>1. CASE ReadSubject(a)
    BY <1>1, <2>1 DEF ReadSubject, AtOperation, Compatible
  <2>2. CASE ReadBase(a)
    <3>1. Profile[bundle[a]] # "reply"
      BY <1>1, <2>2 DEF ReadBase, AtOperation
    <3> QED
      BY <1>1, <2>2, <3>1 DEF ReadBase, Compatible
  <2>3. CASE FetchBase(a)
    <3>1. Profile[bundle[a]] # "reply"
      BY <1>1, <2>3 DEF FetchBase, AtOperation
    <3> QED
      BY <1>1, <2>3, <3>1 DEF FetchBase, Compatible
  <2> QED
    BY <2>1, <2>2, <2>3
<1>3. /\ at'[a] = at[a] /\ phase'[a] = phase[a] /\ seen'[a] = seen[a] /\ bundle'[a] = bundle[a]
      /\ wrote'[a] = wrote[a] /\ start'[a] = start[a] /\ Size(a)' = Size(a)
      /\ \/ pc[a] \in Reads /\ pc'[a] \in {"comments", "target"}
         \/ pc[a] \in Writes /\ pc'[a] = "push"
  BY <1>1, <1>2 DEF ControlType, Size, Reads, Writes
<1>4. /\ \A i : Published(bundle[a], i)' <=> Published(bundle[a], i)
      /\ Published(bundle[a], at[a])' <=> Published(bundle[a], at[a])
      /\ Compatible(bundle[a])' <=> Compatible(bundle[a])
  BY <1>1, <1>3, SameRemote
<1>5. pc'[a] \notin {"report", "done"} /\ (pc'[a] \in Reads <=> pc[a] \in Reads) /\ (pc'[a] \in Writes <=> pc[a] \in Writes)
  BY <1>3 DEF Reads, Writes
<1> QED
  BY <1>3, <1>4, <1>5 DEF UndisturbedHeld, Reconciling

LEMMA ReadQuiet ==
  ASSUME IInv, Fits, NEW a \in Activations, UndisturbedHeld(a), ReadComments(a) \/ ReadTarget(a) \/ ReadPulls(a)
  PROVE  UndisturbedHeld(a)'
<1>1. /\ pc[a] \in {"comments", "target", "pulls"} /\ UNCHANGED <<remote, bundle, wrote, start>>
      /\ Compatible(bundle[a]) /\ TypeOK /\ Remote /\ AtOperation(a)
  BY DEF IInv, Held, UndisturbedHeld, ReadComments, ReadTarget, ReadPulls, Quiet
<1>2. bundle[a] \in Bundles
  BY <1>1 DEF AtOperation
<1>3. PICK n \in Index : n = at[a]
  BY <1>1 DEF TypeOK
<1>4. Answer(a, IF Published(bundle[a], n) THEN "unchanged" ELSE "absent")
  <2>1. CASE ReadComments(a)
    BY <1>1, <1>2, <1>3, <2>1, ReadsExact DEF ReadComments, AtOperation
  <2>2. CASE ReadTarget(a)
    BY <1>1, <1>2, <1>3, <2>2, ReadsExact DEF ReadTarget, AtOperation
  <2>3. CASE ReadPulls(a)
    BY <1>1, <1>2, <1>3, <2>3, ReadsExact DEF ReadPulls, AtOperation
  <2> QED
    BY <2>1, <2>2, <2>3
<1> QED
  BY <1>1, <1>3, <1>4, AnswerQuiet

LEMMA ReceiptQuiet ==
  ASSUME IInv, NEW a \in Activations, UndisturbedHeld(a), WriteReceipt(a), ~disturbed'[a]
  PROVE  UndisturbedHeld(a)'
<1>1. /\ ControlType /\ HistoryType /\ pc[a] = "report" /\ pc' = [pc EXCEPT ![a] = "done"]
      /\ UNCHANGED <<remote, bundle, receipt, verdict, wrote, start>>
  BY TypeParts DEF IInv, WriteReceipt, Quiet
<1>2. pc'[a] = "done" /\ bundle'[a] = bundle[a] /\ receipt'[a] = receipt[a] /\ verdict'[a] = verdict[a]
      /\ wrote'[a] = wrote[a] /\ start'[a] = start[a]
  BY <1>1 DEF ControlType
<1>3. verdict[a] = "ok"
  BY <1>1 DEF UndisturbedHeld
<1>4. exit' = [exit EXCEPT ![a] = ExitCode(verdict[a])]
  BY <1>1 DEF WriteReceipt, FaultWithout, HistoryType
<1>5. exit'[a] = 0
  BY <1>1, <1>3, <1>4 DEF ExitCode, HistoryType
<1>6. Compatible(bundle[a])' <=> Compatible(bundle[a])
  BY <1>1, <1>2, SameRemote
<1> QED
  BY <1>1, <1>2, <1>5, <1>6 DEF UndisturbedHeld, Reconciling, Reads, Writes

LEMMA OwnQuiet ==
  ASSUME IInv, Fits, NEW a \in Activations, Undisturbed(a) => UndisturbedHeld(a), Undisturbed(a)',
         Step(a) \/ ReadFails(a) \/ WriteFails(a) \/ Crash(a) \/ \E b \in Bundles : Begin(a, b)
  PROVE  UndisturbedHeld(a)'
<1>1. ControlType /\ HistoryType /\ start'[a] # "blocked" /\ ~disturbed'[a] /\ pc'[a] # "crashed"
  BY TypeParts DEF IInv, Undisturbed
<1>2. ASSUME NEW b \in Bundles, Begin(a, b) PROVE UndisturbedHeld(a)'
  BY <1>1, <1>2, BeginQuiet
<1>3. ASSUME pc[a] \in Active, UNCHANGED start, disturbed'[a] = disturbed[a]
      PROVE  UndisturbedHeld(a)
  BY <1>1, <1>3 DEF Undisturbed, Active, Reads, Writes
<1>4. CASE ReadSubject(a) \/ ReadBase(a) \/ FetchBase(a)
  BY <1>3, <1>4, GoesOnQuiet DEF ReadSubject, ReadBase, FetchBase, Quiet, Active, Reads, Writes
<1>5. CASE ReadComments(a) \/ ReadTarget(a) \/ ReadPulls(a)
  BY <1>3, <1>5, ReadQuiet DEF ReadComments, ReadTarget, ReadPulls, Quiet, Active, Reads
<1>6. CASE PostComment(a) \/ PushTarget(a) \/ CreatePull(a)
  <2>1. pc[a] \in Active /\ UNCHANGED start
    BY <1>6 DEF PostComment, PushTarget, CreatePull, Active, Writes
  <2>2. ChangedBy(a) \/ UNCHANGED disturbed
    BY <1>6 DEF PostComment, PushTarget, CreatePull
  <2>3. disturbed'[a] = disturbed[a]
    BY <1>1, <2>2 DEF ChangedBy, HistoryType
  <2> QED
    BY <1>3, <1>6, <2>1, <2>3, PostQuiet, PushQuiet, CreateQuiet
<1>7. CASE WriteReceipt(a)
  <2>1. pc[a] \in Active /\ UNCHANGED start
    BY <1>7 DEF WriteReceipt, Quiet, Active
  <2>2. UNCHANGED disturbed \/ FaultWithout(a)
    BY <1>7 DEF WriteReceipt, Quiet
  <2>3. disturbed'[a] = disturbed[a]
    BY <1>1, <2>2 DEF FaultWithout, HistoryType
  <2> QED
    BY <1>1, <1>3, <1>7, <2>1, <2>3, ReceiptQuiet
<1>8. CASE ReadFails(a) \/ WriteFails(a)
  BY <1>1, <1>8 DEF ReadFails, WriteFails, FaultWithout, HistoryType
<1>9. CASE Crash(a)
  BY <1>1, <1>9 DEF Crash, ControlType
<1> QED
  BY <1>2, <1>4, <1>5, <1>6, <1>7, <1>8, <1>9 DEF Step

LEMMA QuietInit == Init => QuietInv
BY DEF Init, QuietInv, Undisturbed

LEMMA QuietNext == ASSUME IInv, QuietInv, Fits, [Next]_vars PROVE QuietInv'
<1> SUFFICES ASSUME NEW a \in Activations, Undisturbed(a)' PROVE UndisturbedHeld(a)'
  BY DEF QuietInv
<1>1. ControlType /\ HistoryType /\ (Undisturbed(a) => UndisturbedHeld(a))
  BY TypeParts DEF IInv, QuietInv
<1>2. ASSUME NEW x \in Activations,
             Step(x) \/ ReadFails(x) \/ WriteFails(x) \/ Crash(x) \/ \E b \in Bundles : Begin(x, b)
      PROVE  UndisturbedHeld(a)'
  <2>1. CASE x = a
    BY <1>1, <1>2, <2>1, OwnQuiet
  <2>2. CASE x # a
    <3>1. Spares(a) /\ Moves(x)
      BY <1>1, <1>2, <2>2, StepsSpare, StepsMove
    <3> QED
      BY <1>1, <2>2, <3>1, SparedQuiet DEF Moves
  <2> QED
    BY <2>1, <2>2
<1>3. CASE Others
  BY <1>3 DEF Others, Changed, Undisturbed
<1>4. CASE UNCHANGED vars
  <2>1. /\ pc'[a] = pc[a] /\ at'[a] = at[a] /\ phase'[a] = phase[a] /\ seen'[a] = seen[a]
        /\ receipt'[a] = receipt[a] /\ verdict'[a] = verdict[a]
    BY <1>4 DEF vars, control
  <2>2. Spares(a)
    BY <1>4 DEF vars, control, history, Spares, Undisturbed
  <2> QED
    BY <1>1, <2>1, <2>2, SparedQuiet
<1> QED
  BY <1>2, <1>3, <1>4 DEF Next

(* An activation that starts on a compatible repository and that nothing   *)
(* disturbs exits 0; it says "applied" exactly when something was missing  *)
(* at its start, and writes only then (with the comments on one page).     *)
THEOREM QuietRun == Spec /\ []Fits => []QuietRunCompletes
<1>1. IInv /\ QuietInv /\ Fits /\ [Next]_vars => QuietInv'
  BY QuietNext
<1>2. QuietInv => QuietRunCompletes
  BY DEF QuietInv, QuietRunCompletes, Undisturbed, UndisturbedHeld
<1> QED
  BY <1>1, <1>2, QuietInit, Invariant, PTL DEF Spec

=============================================================================
