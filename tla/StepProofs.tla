----------------------------- MODULE StepProofs -----------------------------
(***************************************************************************)
(* Proofs about a step of a workflow: what its tools may do (ToolGuards)   *)
(* and what its inputs are (StepInputs).                                   *)
(*                                                                         *)
(* The tool guards, for every number of steps, scopes, tools and workers   *)
(* and for all limits.  The limits hold because a call is let through only *)
(* after the debit, so the calls let through never outnumber the debits    *)
(* (LetThroughIsDebited), and a debit over a limit lets nothing through.   *)
(*                                                                         *)
(* The typed inputs, for every workflow, for schemas and values of every   *)
(* depth.  What admission checks of a binding is enough for the gate and   *)
(* for the consumer: a path that is required all along is found in every   *)
(* value of the output (RequiredIsFound), a value of a schema is one of    *)
(* every schema it is assignable to (AssignableSound), and the object the  *)
(* gate gathers conforms when each of its fields does (BoundConforms).     *)
(* InputsInv keeps what these need from admission to the consumer.         *)
(***************************************************************************)
EXTENDS ToolGuards, StepInputs, SequenceTheorems, WellFoundedInduction, TLAPS

(* The debits bound the calls let through, counter by counter.             *)
LetThroughIsDebited ==
  /\ admittedRun <= runCalls
  /\ \A g \in Scopes :
        /\ admittedScope[g] <= scopeCalls[g]
        /\ \A t \in Tools : admittedTool[g][t] <= toolCalls[g][t]

IInv == TypeOK /\ LetThroughIsDebited /\ WithinLimits

(* Earliest picks a member of a set of three numbers.                      *)
LEMMA EarliestOfThree ==
  ASSUME NEW a \in Nat, NEW b \in Nat, NEW c \in Nat
  PROVE  Earliest({a, b, c}) \in Nat
<1>1. \E x \in {a, b, c} : \A y \in {a, b, c} : x <= y
  <2>1. CASE a <= b /\ a <= c  BY <2>1
  <2>2. CASE b <= a /\ b <= c  BY <2>2
  <2>3. CASE c <= a /\ c <= b  BY <2>3
  <2>. QED  BY <2>1, <2>2, <2>3
<1>. QED  BY <1>1 DEF Earliest

(* The deadline of a call is a time.                                       *)
LEMMA DeadlineType ==
  ASSUME TypeOK, NEW g \in Scopes, NEW t \in Tools
  PROVE  Deadline(g, t) \in Nat
<1>1. /\ RunTimeout \in Nat
      /\ ScopeTimeout[g] \in Nat
      /\ now + ToolTimeout[g][t] \in Nat
  BY GuardAssumption DEF TypeOK
<1>2. Earliest({RunTimeout, ScopeTimeout[g], now + ToolTimeout[g][t]}) \in Nat
  BY <1>1, EarliestOfThree
<1>. QED
  BY <1>2 DEF Deadline

(* The types of the state are kept by every step.                          *)
LEMMA TypeInductive == TypeOK /\ [Next]_vars => TypeOK'
<1>. SUFFICES ASSUME TypeOK, [Next]_vars PROVE TypeOK'
  OBVIOUS
<1>. USE GuardAssumption DEF TypeOK, counters, admitted
<1>1. CASE Tick
  BY <1>1 DEF Tick
<1>2. ASSUME NEW s \in Steps, BeginStep(s) \/ EndStep(s)
      PROVE  TypeOK'
  <2>1. CASE BeginStep(s)
    BY <2>1 DEF BeginStep
  <2>2. CASE EndStep(s)
    BY <2>2 DEF EndStep
  <2>. QED  BY <1>2, <2>1, <2>2
<1>3. ASSUME NEW w \in Workers, NEW s \in Steps, NEW t \in Tools, Ask(w, s, t)
      PROVE  TypeOK'
  BY <1>3 DEF Ask, Asked
<1>4. ASSUME NEW w \in Workers, BeforeTool(w)
      PROVE  TypeOK'
  <2>1. call[w] \in Asked /\ ScopeOf[call[w].step] \in Scopes
    BY <1>4 DEF BeforeTool, Free, Asked, Runs
  <2>2. [call[w] EXCEPT !.stage = "admitted"] \in Asked
    BY <2>1 DEF Asked
  <2>3. call' \in [Workers -> {Free} \cup Asked \cup Runs]
    <3>1. \/ call' = call
          \/ call' = [call EXCEPT ![w] = Free]
          \/ call' = [call EXCEPT ![w] = [call[w] EXCEPT !.stage = "admitted"]]
      BY <1>4 DEF BeforeTool, Release
    <3>. QED  BY <2>2, <3>1
  <2>4. CASE UNCHANGED <<counters, admitted>>
    BY <1>4, <2>3, <2>4 DEF BeforeTool
  <2>5. CASE Debit(ScopeOf[call[w].step], call[w].tool)
    <3>1. call[w].step \in Steps /\ call[w].tool \in Tools
      BY <2>1 DEF Asked
    <3>2. stepCalls' \in [Steps -> Nat]
      BY <1>4, <2>5, <3>1 DEF BeforeTool
    <3>3. runCalls' \in Nat /\ scopeCalls' \in [Scopes -> Nat]
      BY <2>1, <2>5 DEF Debit
    <3>4. toolCalls' \in [Scopes -> [Tools -> Nat]]
      BY <2>1, <2>5, <3>1 DEF Debit
    <3>5. /\ admittedRun' \in Nat /\ admittedScope' \in [Scopes -> Nat]
          /\ admittedTool' \in [Scopes -> [Tools -> Nat]]
      <4>1. CASE UNCHANGED admitted
        BY <4>1
      <4>2. CASE /\ admittedRun' = admittedRun + 1
                 /\ admittedScope' = [admittedScope EXCEPT ![ScopeOf[call[w].step]] = @ + 1]
                 /\ admittedTool' =
                      [admittedTool EXCEPT ![ScopeOf[call[w].step]][call[w].tool] = @ + 1]
        BY <2>1, <3>1, <4>2
      <4>. QED
        BY <1>4, <4>1, <4>2 DEF BeforeTool
    <3>. QED
      BY <1>4, <2>3, <3>2, <3>3, <3>4, <3>5 DEF BeforeTool
  <2>. QED
    BY <1>4, <2>4, <2>5 DEF BeforeTool
<1>5. ASSUME NEW w \in Workers, RunTool(w)
      PROVE  TypeOK'
  <2>1. call[w] \in Asked /\ ScopeOf[call[w].step] \in Scopes
    BY <1>5 DEF RunTool, Free, Asked, Runs
  <2>2. Deadline(ScopeOf[call[w].step], call[w].tool) \in Nat
    BY <2>1, DeadlineType DEF Asked
  <2>3. call' \in [Workers -> {Free} \cup Asked \cup Runs]
    <3>1. CASE call' = [call EXCEPT ![w] = Free]
      BY <3>1
    <3>2. CASE call' = [call EXCEPT ![w] =
                          [stage |-> "running", step |-> call[w].step, tool |-> call[w].tool,
                           asked |-> now,
                           deadline |-> Deadline(ScopeOf[call[w].step], call[w].tool)]]
      <4>1. [stage |-> "running", step |-> call[w].step, tool |-> call[w].tool,
             asked |-> now, deadline |-> Deadline(ScopeOf[call[w].step], call[w].tool)]
              \in Runs
        BY <2>1, <2>2 DEF Asked, Runs
      <4>. QED  BY <3>2, <4>1
    <3>. QED
      BY <1>5, <3>1, <3>2 DEF RunTool, Release
  <2>4. QED
    BY <1>5, <2>3 DEF RunTool
<1>6. ASSUME NEW w \in Workers, AfterTool(w)
      PROVE  TypeOK'
  BY <1>6 DEF AfterTool, Release
<1>7. CASE UNCHANGED vars
  BY <1>7 DEF vars
<1>. QED
  BY <1>1, <1>2, <1>3, <1>4, <1>5, <1>6, <1>7 DEF Next

(* Only BeforeTool touches the counters.                                   *)
LEMMA OnlyBeforeToolCounts ==
  ASSUME [Next]_vars, ~ \E w \in Workers : BeforeTool(w)
  PROVE  UNCHANGED <<counters, admitted>>
BY DEF Next, vars, Tick, BeginStep, EndStep, Ask, RunTool, AfterTool

(* What BeforeTool does to the counters: nothing, a debit that lets        *)
(* nothing through, or a debit within the limits that lets one call        *)
(* through.                                                                *)
LEMMA BeforeToolCounts ==
  ASSUME TypeOK, NEW w \in Workers, BeforeTool(w)
  PROVE  \/ UNCHANGED <<counters, admitted>>
         \/ \E g \in Scopes, t \in Tools :
              /\ Debit(g, t)
              /\ \/ UNCHANGED admitted
                 \/ /\ ~OverLimit(g, t)
                    /\ admittedRun' = admittedRun + 1
                    /\ admittedScope' = [admittedScope EXCEPT ![g] = @ + 1]
                    /\ admittedTool' = [admittedTool EXCEPT ![g][t] = @ + 1]
<1>1. call[w].step \in Steps /\ call[w].tool \in Tools
  BY DEF TypeOK, BeforeTool, Free, Asked, Runs
<1>2. ScopeOf[call[w].step] \in Scopes
  BY <1>1, GuardAssumption
<1>. QED
  BY <1>1, <1>2 DEF BeforeTool

(* The invariant is kept by every step.                                    *)
LEMMA LimitsInductive == IInv /\ [Next]_vars => IInv'
<1>. SUFFICES ASSUME IInv, [Next]_vars PROVE IInv'
  OBVIOUS
<1>. USE GuardAssumption
<1>1. TypeOK'
  BY TypeInductive DEF IInv
<1>2. CASE UNCHANGED <<counters, admitted>>
  BY <1>1, <1>2 DEF IInv, LetThroughIsDebited, WithinLimits, counters, admitted
<1>3. ASSUME NEW g \in Scopes, NEW t \in Tools, Debit(g, t), UNCHANGED admitted
      PROVE  IInv'
  BY <1>1, <1>3 DEF IInv, TypeOK, LetThroughIsDebited, WithinLimits, Debit, admitted
<1>4. ASSUME NEW g \in Scopes, NEW t \in Tools, Debit(g, t), ~OverLimit(g, t),
             admittedRun' = admittedRun + 1,
             admittedScope' = [admittedScope EXCEPT ![g] = @ + 1],
             admittedTool' = [admittedTool EXCEPT ![g][t] = @ + 1]
      PROVE  IInv'
  <2>1. LetThroughIsDebited'
    BY <1>4 DEF IInv, TypeOK, LetThroughIsDebited, Debit
  <2>2. WithinLimits'
    BY <1>4 DEF IInv, TypeOK, LetThroughIsDebited, WithinLimits, OverLimit
  <2>3. QED
    BY <1>1, <2>1, <2>2 DEF IInv
<1>. QED
  <2>1. CASE \E w \in Workers : BeforeTool(w)
    BY <2>1, <1>2, <1>3, <1>4, BeforeToolCounts DEF IInv
  <2>2. CASE ~ \E w \in Workers : BeforeTool(w)
    BY <2>2, <1>2, OnlyBeforeToolCounts
  <2>. QED  BY <2>1, <2>2

LEMMA InitIInv == Init => IInv
BY GuardAssumption DEF Init, IInv, TypeOK, LetThroughIsDebited, WithinLimits, Free

(* The state has the types TypeOK says, for all constants.                 *)
THEOREM TypeCorrect == Spec => []TypeOK
<1>1. Init => TypeOK
  BY InitIInv DEF IInv
<1>. QED
  BY <1>1, TypeInductive, PTL DEF Spec

(* No interleaving of tool calls gets past a run, scope or tool limit, for *)
(* any limits and any number of workers (Guard.Before).                    *)
THEOREM LimitsHold == Spec => []WithinLimits
<1>1. IInv => WithinLimits
  BY DEF IInv
<1>. QED
  BY <1>1, InitIInv, LimitsInductive, PTL DEF Spec

(* What a scope or a tool was charged, the run was charged too.            *)
THEOREM DebitsNest == Spec => []DebitedTogether
<1>1. Init => DebitedTogether
  BY DEF Init, DebitedTogether
<1>2. TypeOK /\ DebitedTogether /\ [Next]_vars => DebitedTogether'
  <2>. SUFFICES ASSUME TypeOK, DebitedTogether, [Next]_vars PROVE DebitedTogether'
    OBVIOUS
  <2>1. CASE UNCHANGED <<counters, admitted>>
    BY <2>1 DEF DebitedTogether, counters
  <2>2. ASSUME NEW g \in Scopes, NEW t \in Tools, Debit(g, t)
        PROVE  DebitedTogether'
    BY <2>2 DEF TypeOK, DebitedTogether, Debit
  <2>. QED
    BY <2>1, <2>2, BeforeToolCounts, OnlyBeforeToolCounts
<1>. QED
  BY <1>1, <1>2, TypeCorrect, PTL DEF Spec

(* No tool runs in a scope that does not allow it: the callback lets names *)
(* outside the scope pass, and guardedTool.Run refuses them.               *)
THEOREM AllowedOnly == Spec => []OnlyAllowedRun
<1>1. Init => OnlyAllowedRun
  BY DEF Init, OnlyAllowedRun, Free
<1>2. TypeOK /\ OnlyAllowedRun /\ [Next]_vars => OnlyAllowedRun'
  <2>. SUFFICES ASSUME TypeOK, OnlyAllowedRun, [Next]_vars,
                       NEW w \in Workers, call'[w].stage = "running"
                PROVE  call'[w].tool \in Allowed[ScopeOf[call'[w].step]]
    BY DEF OnlyAllowedRun
  <2>. USE DEF TypeOK, OnlyAllowedRun
  <2>1. CASE UNCHANGED call
    BY <2>1
  <2>2. ASSUME NEW v \in Workers, NEW s \in Steps, NEW t \in Tools, Ask(v, s, t)
        PROVE  call'[w].tool \in Allowed[ScopeOf[call'[w].step]]
    BY <2>2 DEF Ask
  <2>3. ASSUME NEW v \in Workers, BeforeTool(v)
        PROVE  call'[w].tool \in Allowed[ScopeOf[call'[w].step]]
    <3>1. call'[v].stage # "running"
      <4>1. call[v] \in Asked
        BY <2>3 DEF BeforeTool, Free, Asked, Runs
      <4>. QED
        BY <2>3, <4>1 DEF BeforeTool, Release, Free, Asked
    <3>2. \A u \in Workers \ {v} : call'[u] = call[u]
      BY <2>3 DEF BeforeTool, Release
    <3>. QED  BY <3>1, <3>2
  <2>4. ASSUME NEW v \in Workers, RunTool(v)
        PROVE  call'[w].tool \in Allowed[ScopeOf[call'[w].step]]
    BY <2>4 DEF RunTool, Release, Free
  <2>5. ASSUME NEW v \in Workers, AfterTool(v)
        PROVE  call'[w].tool \in Allowed[ScopeOf[call'[w].step]]
    BY <2>5 DEF AfterTool, Release, Free
  <2>. QED
    BY <2>1, <2>2, <2>3, <2>4, <2>5 DEF Next, vars, Tick, BeginStep, EndStep
<1>. QED
  BY <1>1, <1>2, TypeCorrect, PTL DEF Spec

-----------------------------------------------------------------------------

(* Among numbers there is a least one.                                     *)
LEMMA LeastNumber ==
  ASSUME NEW T \in SUBSET Nat, T # {}
  PROVE  \E n \in T : \A m \in T : n <= m
<1>1. PICK n \in T : \A m \in T : ~(<<m, n>> \in OpToRel(<, Nat))
  BY NatLessThanWellFounded, WFMin
<1>2. \A m \in T : ~(m < n)
  BY <1>1 DEF OpToRel
<1> QED
  BY <1>2

(* A part is a field or an item, and a field is no item.                   *)
LEMMA FieldsAreParts ==
  /\ Fields \subseteq Parts /\ Items \in Parts
  /\ \A name \in Names : Field(name) \in Fields
  /\ \A f \in Fields : f[1] = "field" /\ f[2] \in Names /\ f = Field(f[2])
<1>1. \A f \in Fields : f = <<"field", f[2]>> /\ f[2] \in Names
  BY DEF Fields
<1> QED
  BY <1>1 DEF Fields, Parts, Items, Element, Field

(* A path of fields is a place.                                            *)
LEMMA PathsArePlaces ==
  ASSUME NEW p \in Seq(Fields)
  PROVE  p \in Seq(Parts)
BY FieldsAreParts, SeqMonotonic

(* The schema speaks of a place in a value at the same depth.              *)
LEMMA PlaceIs ==
  ASSUME NEW q \in Seq(Parts)
  PROVE  /\ Place(q) \in Seq(Parts) /\ Len(Place(q)) = Len(q)
         /\ \A i \in 1..Len(q) : Place(q)[i] = IF q[i][1] = "item" THEN Items ELSE q[i]
<1> DEFINE e(i) == IF q[i][1] = "item" THEN Items ELSE q[i]
<1>1. \A i \in 1..Len(q) : e(i) \in Parts
  BY FieldsAreParts, ElementOfSeq
<1>2. Len(q) \in Nat
  BY LenProperties
<1> HIDE DEF e
<1>3. [i \in 1..Len(q) |-> e(i)] \in Seq(Parts)
  BY <1>1, <1>2, IsASeq
<1>4. Place(q) = [i \in 1..Len(q) |-> e(i)]
  BY DEF Place, e
<1>5. Len(Place(q)) = Len(q)
  BY <1>2, <1>3, <1>4, LenProperties
<1> QED
  BY <1>3, <1>4, <1>5 DEF e

(* Below a path of fields the schema speaks of a place below that path.    *)
LEMMA PlaceBelow ==
  ASSUME NEW p \in Seq(Fields), NEW q \in Seq(Parts)
  PROVE  Place(p \o q) = p \o Place(q)
<1>1. p \in Seq(Parts)
  BY PathsArePlaces
<1>2. p \o q \in Seq(Parts) /\ Len(p \o q) = Len(p) + Len(q) /\ Len(p) \in Nat /\ Len(q) \in Nat
  BY <1>1, ConcatProperties, LenProperties
<1>3. /\ Place(p \o q) \in Seq(Parts) /\ Len(Place(p \o q)) = Len(p) + Len(q)
      /\ \A i \in 1..(Len(p) + Len(q)) :
           Place(p \o q)[i] = IF (p \o q)[i][1] = "item" THEN Items ELSE (p \o q)[i]
  BY <1>2, PlaceIs
<1>4. Place(q) \in Seq(Parts) /\ Len(Place(q)) = Len(q)
  BY PlaceIs
<1>5. p \o Place(q) \in Seq(Parts) /\ Len(p \o Place(q)) = Len(p) + Len(q)
  <2>1. \A r \in Seq(Parts) : p \o r \in Seq(Parts) /\ Len(p \o r) = Len(p) + Len(r)
    BY <1>1, ConcatProperties
  <2> QED
    BY <1>4, <2>1
<1>6. ASSUME NEW i \in 1..(Len(p) + Len(q))
      PROVE  Place(p \o q)[i] = (p \o Place(q))[i]
  <2>1. CASE i <= Len(p)
    <3>1. (p \o q)[i] = p[i] /\ (p \o Place(q))[i] = p[i]
      BY <1>1, <1>4, <2>1, ConcatProperties
    <3>2. p[i] \in Fields
      BY <1>2, <2>1, ElementOfSeq
    <3>3. p[i][1] # "item"
      BY <3>2, FieldsAreParts
    <3> QED
      BY <1>3, <3>1, <3>3
  <2>2. CASE i > Len(p)
    <3>1. i - Len(p) \in 1..Len(q)
      BY <1>2, <2>2
    <3>2. (p \o q)[i] = q[i - Len(p)] /\ (p \o Place(q))[i] = Place(q)[i - Len(p)]
      BY <1>1, <1>2, <1>4, <2>2, ConcatProperties
    <3> QED
      BY <1>3, <3>1, <3>2, PlaceIs
  <2>3. i <= Len(p) \/ i > Len(p)
    BY <1>2
  <2> QED
    BY <2>1, <2>2, <2>3
<1> QED
  BY <1>3, <1>5, <1>6, SeqEqual

(* The schema speaks of a path of fields at that path.                     *)
LEMMA PlaceOfPath ==
  ASSUME NEW p \in Seq(Fields)
  PROVE  Place(p) = p
<1>1. p \in Seq(Parts)
  BY PathsArePlaces
<1>2. Place(p) \in Seq(Parts) /\ Len(Place(p)) = Len(p)
  BY <1>1, PlaceIs
<1>3. \A i \in 1..Len(p) : Place(p)[i] = p[i]
  BY <1>1, PlaceIs, ElementOfSeq, FieldsAreParts
<1> QED
  BY <1>1, <1>2, <1>3, SeqEqual

(* What is below a place.                                                  *)
LEMMA BelowIs ==
  ASSUME NEW t, DOMAIN t \subseteq Seq(Parts), NEW p \in Seq(Parts), NEW q
  PROVE  q \in Below(t, p) <=> q \in Seq(Parts) /\ p \o q \in DOMAIN t
<1>0. Len(p) \in Nat
  BY LenProperties
<1>1. ASSUME q \in Below(t, p)
      PROVE  q \in Seq(Parts) /\ p \o q \in DOMAIN t
  <2>1. PICK r \in DOMAIN t : Len(p) <= Len(r) /\ SubSeq(r, 1, Len(p)) = p /\ q = SubSeq(r, Len(p) + 1, Len(r))
    BY <1>1 DEF Below
  <2>2. r \in Seq(Parts) /\ Len(r) \in Nat
    BY <2>1, LenProperties
  <2>3. q \in Seq(Parts)
    <3>1. \A i \in (Len(p) + 1)..Len(r) : r[i] \in Parts
      BY <1>0, <2>2, ElementOfSeq
    <3> QED
      BY <1>0, <2>1, <2>2, <3>1, SubSeqProperties
  <2>4. p \o q = r
    <3>1. SubSeq(r, 1, Len(p)) \o SubSeq(r, Len(p) + 1, Len(r)) = SubSeq(r, 1, Len(r))
      <4>1. 1 \in 1..(Len(r) + 1) /\ Len(p) \in (1 - 1)..Len(r) /\ Len(r) \in Len(p)..Len(r)
        BY <1>0, <2>1, <2>2
      <4> QED
        BY <2>2, <4>1, ConcatAdjacentSubSeq
    <3>2. SubSeq(r, 1, Len(r)) = r
      BY <2>2, SubSeqFull
    <3> QED
      BY <2>1, <3>1, <3>2
  <2> QED
    BY <2>1, <2>3, <2>4
<1>2. ASSUME q \in Seq(Parts), p \o q \in DOMAIN t
      PROVE  q \in Below(t, p)
  <2> DEFINE r == p \o q
  <2>1. /\ r \in Seq(Parts) /\ Len(r) = Len(p) + Len(q) /\ Len(q) \in Nat
        /\ \A i \in 1..(Len(p) + Len(q)) : r[i] = IF i <= Len(p) THEN p[i] ELSE q[i - Len(p)]
    BY <1>2, ConcatProperties, LenProperties
  <2> HIDE DEF r
  <2>2. \A i \in 1..Len(r) : r[i] \in Parts
    BY <2>1, ElementOfSeq
  <2>3. SubSeq(r, 1, Len(p)) = p
    <3>1. /\ SubSeq(r, 1, Len(p)) \in Seq(Parts)
          /\ Len(SubSeq(r, 1, Len(p))) = IF 1 <= Len(p) THEN Len(p) - 1 + 1 ELSE 0
          /\ \A i \in 1..(Len(p) - 1 + 1) : SubSeq(r, 1, Len(p))[i] = r[1 + i - 1]
      <4>1. 1 \in Int /\ Len(p) \in Int /\ \A i \in 1..Len(p) : r[i] \in Parts
        BY <1>0, <2>1, <2>2
      <4> QED
        BY <4>1, SubSeqProperties
    <3>2. Len(SubSeq(r, 1, Len(p))) = Len(p)
      BY <1>0, <3>1
    <3>3. \A i \in 1..Len(p) : SubSeq(r, 1, Len(p))[i] = p[i]
      <4> TAKE i \in 1..Len(p)
      <4>1. SubSeq(r, 1, Len(p))[i] = r[1 + i - 1] /\ 1 + i - 1 = i
        BY <1>0, <3>1
      <4> QED
        BY <1>0, <2>1, <4>1
    <3> QED
      BY <3>1, <3>2, <3>3, SeqEqual
  <2>4. SubSeq(r, Len(p) + 1, Len(r)) = q
    <3> DEFINE m == Len(p) + 1
               n == Len(r)
    <3>0. m \in Int /\ n \in Int /\ n - m + 1 = Len(q) /\ \A i \in m..n : r[i] \in Parts
      BY <1>0, <2>1, <2>2
    <3>1. /\ SubSeq(r, m, n) \in Seq(Parts)
          /\ Len(SubSeq(r, m, n)) = IF m <= n THEN n - m + 1 ELSE 0
          /\ \A i \in 1..(n - m + 1) : SubSeq(r, m, n)[i] = r[m + i - 1]
      <4> HIDE DEF m, n
      <4> QED
        BY <3>0, SubSeqProperties
    <3>2. Len(SubSeq(r, m, n)) = Len(q)
      BY <1>0, <2>1, <3>0, <3>1
    <3>3. \A i \in 1..Len(q) : SubSeq(r, m, n)[i] = q[i]
      <4> TAKE i \in 1..Len(q)
      <4>1. SubSeq(r, m, n)[i] = r[m + i - 1]
        BY <3>0, <3>1
      <4>2. m + i - 1 = Len(p) + i /\ Len(p) + i \in 1..(Len(p) + Len(q)) /\ ~(Len(p) + i <= Len(p)) /\ Len(p) + i - Len(p) = i
        BY <1>0, <2>1
      <4>3. r[Len(p) + i] = q[i]
        BY <2>1, <4>2
      <4> QED
        BY <4>1, <4>2, <4>3
    <3> QED
      BY <1>2, <3>1, <3>2, <3>3, SeqEqual
  <2>5. r \in DOMAIN t /\ Len(p) <= Len(r)
    BY <1>0, <1>2, <2>1 DEF r
  <2> QED
    BY <2>3, <2>4, <2>5 DEF Below
<1> QED
  BY <1>1, <1>2

(* A subtree: its places, what is there, and the properties it has.        *)
LEMMA AtIs ==
  ASSUME NEW t, DOMAIN t \subseteq Seq(Parts), NEW p \in Seq(Parts)
  PROVE  /\ DOMAIN At(t, p) \subseteq Seq(Parts)
         /\ \A q \in Seq(Parts) : q \in DOMAIN At(t, p) <=> p \o q \in DOMAIN t
         /\ \A q \in DOMAIN At(t, p) : At(t, p)[q] = t[p \o q]
<1>1. DOMAIN At(t, p) = Below(t, p) /\ \A q \in Below(t, p) : At(t, p)[q] = t[p \o q]
  BY DEF At
<1> QED
  BY <1>1, BelowIs

(* A part appended below a place.                                          *)
LEMMA AppendBelow ==
  ASSUME NEW p \in Seq(Parts), NEW q \in Seq(Parts), NEW e \in Parts
  PROVE  Append(q, e) \in Seq(Parts) /\ Append(p \o q, e) = p \o Append(q, e)
<1>1. <<e>> \in Seq(Parts) /\ p \o q \in Seq(Parts)
  BY ConcatProperties
<1>2. Append(q, e) \in Seq(Parts) /\ Append(q, e) = q \o <<e>>
  BY AppendProperties, AppendIsConcat
<1>3. Append(p \o q, e) = (p \o q) \o <<e>>
  BY <1>1, AppendIsConcat
<1>4. (p \o q) \o <<e>> = p \o (q \o <<e>>)
  BY <1>1, ConcatAssociative
<1> QED
  BY <1>2, <1>3, <1>4

(* The properties that a subtree has at a place.                           *)
LEMMA PropertiesBelow ==
  ASSUME NEW t, DOMAIN t \subseteq Seq(Parts), NEW p \in Seq(Parts), NEW q \in Seq(Parts)
  PROVE  Properties(At(t, p), q) = Properties(t, p \o q)
<1>1. ASSUME NEW name \in Names
      PROVE  Append(q, Field(name)) \in DOMAIN At(t, p) <=> Append(p \o q, Field(name)) \in DOMAIN t
  <2>1. Append(q, Field(name)) \in Seq(Parts) /\ Append(p \o q, Field(name)) = p \o Append(q, Field(name))
    BY AppendBelow, FieldsAreParts
  <2> QED
    BY <2>1, AtIs
<1> QED
  BY <1>1 DEF Properties

(* A place behind a field.                                                 *)
LEMMA BehindField ==
  ASSUME NEW name \in Names, NEW r \in Seq(Parts)
  PROVE  /\ <<Field(name)>> \in Seq(Fields) /\ <<Field(name)>> \in Seq(Parts)
         /\ Behind(name, <<>>) = <<Field(name)>>
         /\ Behind(name, r) \in Seq(Parts) /\ Behind(name, r) # <<>>
         /\ Head(Behind(name, r)) = Field(name) /\ Tail(Behind(name, r)) = r
<1> DEFINE f == <<Field(name)>>
           q == f \o r
<1>1. f \in Seq(Fields) /\ f \in Seq(Parts) /\ Len(f) = 1 /\ f[1] = Field(name)
  BY FieldsAreParts
<1> HIDE DEF f
<1>2. /\ q \in Seq(Parts) /\ Len(q) = 1 + Len(r) /\ Len(r) \in Nat
      /\ \A i \in 1..(1 + Len(r)) : q[i] = IF i <= 1 THEN f[i] ELSE r[i - 1]
  <2>1. /\ f \o r \in Seq(Parts) /\ Len(f \o r) = Len(f) + Len(r)
        /\ \A i \in 1..(Len(f) + Len(r)) : (f \o r)[i] = IF i <= Len(f) THEN f[i] ELSE r[i - Len(f)]
    BY <1>1, ConcatProperties
  <2> QED
    BY <1>1, <2>1, LenProperties
<1> HIDE DEF q
<1>3. q # <<>>
  BY <1>2, EmptySeq
<1>4. Head(q) = Field(name)
  BY <1>1, <1>2, <1>3
<1>5. Tail(q) = r
  <2>1. /\ Tail(q) \in Seq(Parts) /\ Len(Tail(q)) = Len(q) - 1
        /\ \A i \in 1..Len(Tail(q)) : Tail(q)[i] = q[i + 1]
    BY <1>2, <1>3, HeadTailProperties
  <2>2. Len(Tail(q)) = Len(r)
    BY <1>2, <2>1
  <2>3. \A i \in 1..Len(r) : Tail(q)[i] = r[i]
    <3> TAKE i \in 1..Len(r)
    <3>1. i + 1 \in 1..(1 + Len(r)) /\ ~(i + 1 <= 1) /\ i + 1 - 1 = i
      BY <1>2
    <3> QED
      BY <1>2, <2>1, <2>2, <3>1
  <2> QED
    BY <2>1, <2>2, <2>3, SeqEqual
<1>6. f \o <<>> = f
  BY <1>1, ConcatEmptySeq
<1> QED
  BY <1>1, <1>2, <1>3, <1>4, <1>5, <1>6 DEF f, q, Behind

(* An object: its places are its own and those in its fields.              *)
LEMMA ObjectIs ==
  ASSUME NEW root, NEW f, DOMAIN f \subseteq Names, \A n \in DOMAIN f : DOMAIN f[n] \subseteq Seq(Parts)
  PROVE  /\ DOMAIN Object(root, f) \subseteq Seq(Parts)
         /\ <<>> \in DOMAIN Object(root, f) /\ Object(root, f)[<<>>] = root
         /\ \A n \in Names, r \in Seq(Parts) :
              Behind(n, r) \in DOMAIN Object(root, f) <=> n \in DOMAIN f /\ r \in DOMAIN f[n]
         /\ \A n \in DOMAIN f : \A r \in DOMAIN f[n] : Object(root, f)[Behind(n, r)] = f[n][r]
         /\ \A q \in DOMAIN Object(root, f) :
              q # <<>> => \E n \in DOMAIN f : \E r \in DOMAIN f[n] : q = Behind(n, r)
<1> DEFINE o == Object(root, f)
           D == {<<>>} \cup UNION {{Behind(n, r) : r \in DOMAIN f[n]} : n \in DOMAIN f}
<1>1. DOMAIN o = D /\ \A q \in D : o[q] = IF q = <<>> THEN root ELSE f[Head(q)[2]][Tail(q)]
  BY DEF Object
<1>2. \A q : q \in D <=> q = <<>> \/ \E n \in DOMAIN f : \E r \in DOMAIN f[n] : q = Behind(n, r)
  <2> DEFINE In(n) == {Behind(n, r) : r \in DOMAIN f[n]}
  <2>1. \A n : \A q : q \in In(n) <=> \E r \in DOMAIN f[n] : q = Behind(n, r)
    OBVIOUS
  <2>2. D = {<<>>} \cup UNION {In(n) : n \in DOMAIN f}
    OBVIOUS
  <2> HIDE DEF In, D
  <2>3. \A q : q \in D <=> q = <<>> \/ \E n \in DOMAIN f : q \in In(n)
    BY <2>2
  <2> QED
    BY <2>1, <2>3
<1> HIDE DEF o, D
<1>3. ASSUME NEW n \in Names, NEW r \in Seq(Parts)
      PROVE  Behind(n, r) \in D <=> n \in DOMAIN f /\ r \in DOMAIN f[n]
  <2>1. SUFFICES ASSUME NEW m \in DOMAIN f, NEW x \in DOMAIN f[m], Behind(n, r) = Behind(m, x)
                 PROVE  m = n /\ x = r
    BY <1>2, BehindField
  <2>2. Head(Behind(n, r)) = Field(n) /\ Tail(Behind(n, r)) = r
    BY BehindField
  <2>3. Head(Behind(m, x)) = Field(m) /\ Tail(Behind(m, x)) = x
    BY BehindField
  <2>4. Field(n) = Field(m) => n = m
    BY DEF Field
  <2> QED
    BY <2>1, <2>2, <2>3, <2>4
<1>4. ASSUME NEW n \in DOMAIN f, NEW r \in DOMAIN f[n]
      PROVE  o[Behind(n, r)] = f[n][r]
  <2>1. /\ Behind(n, r) # <<>>
        /\ Head(Behind(n, r)) = Field(n) /\ Tail(Behind(n, r)) = r
    BY BehindField
  <2>2. Field(n)[2] = n
    BY DEF Field
  <2>3. Behind(n, r) \in D
    BY <1>2
  <2> QED
    BY <1>1, <2>1, <2>2, <2>3
<1>5. D \subseteq Seq(Parts)
  <2>1. <<>> \in Seq(Parts)
    BY EmptySeq
  <2>2. \A n \in DOMAIN f : \A r \in DOMAIN f[n] : Behind(n, r) \in Seq(Parts)
    BY BehindField
  <2> SUFFICES ASSUME NEW q \in D PROVE q \in Seq(Parts)
    OBVIOUS
  <2>3. q = <<>> \/ \E n \in DOMAIN f : \E r \in DOMAIN f[n] : q = Behind(n, r)
    BY <1>2
  <2> QED
    BY <2>1, <2>2, <2>3
<1>6. <<>> \in D /\ o[<<>>] = root
  BY <1>1, <1>2
<1> QED
  BY <1>1, <1>2, <1>3, <1>4, <1>5, <1>6 DEF o

(* The properties of an object, and of what is behind its fields.          *)
LEMMA ObjectProperties ==
  ASSUME NEW root, NEW f, DOMAIN f \subseteq Names, \A n \in DOMAIN f : DOMAIN f[n] \subseteq Seq(Parts)
  PROVE  /\ Properties(Object(root, f), <<>>) = {n \in DOMAIN f : <<>> \in DOMAIN f[n]}
         /\ \A n \in DOMAIN f : \A r \in DOMAIN f[n] :
              Properties(Object(root, f), Behind(n, r)) = Properties(f[n], r)
<1>0. \A n \in Names, r \in Seq(Parts) : Behind(n, r) \in DOMAIN Object(root, f) <=> n \in DOMAIN f /\ r \in DOMAIN f[n]
  BY ObjectIs
<1>1. ASSUME NEW name \in Names
      PROVE  Append(<<>>, Field(name)) \in DOMAIN Object(root, f) <=> name \in DOMAIN f /\ <<>> \in DOMAIN f[name]
  <2>1. <<>> \in Seq(Parts) /\ <<Field(name)>> \in Seq(Parts)
    BY FieldsAreParts
  <2>2. Append(<<>>, Field(name)) = Behind(name, <<>>)
    <3>1. Append(<<>>, Field(name)) = <<Field(name)>>
      OBVIOUS
    <3> QED
      BY <2>1, <3>1, BehindField
  <2> QED
    BY <1>0, <2>1, <2>2
<1>2. ASSUME NEW n \in DOMAIN f, NEW r \in DOMAIN f[n], NEW name \in Names
      PROVE  Append(Behind(n, r), Field(name)) \in DOMAIN Object(root, f) <=> Append(r, Field(name)) \in DOMAIN f[n]
  <2>1. <<Field(n)>> \in Seq(Parts) /\ n \in Names /\ r \in Seq(Parts)
    BY FieldsAreParts
  <2>2. /\ Append(r, Field(name)) \in Seq(Parts)
        /\ Append(Behind(n, r), Field(name)) = Behind(n, Append(r, Field(name)))
    BY <2>1, AppendBelow, FieldsAreParts DEF Behind
  <2> QED
    BY <1>0, <2>1, <2>2
<1> QED
  BY <1>1, <1>2 DEF Properties

(* What a field of an object holds.                                        *)
LEMMA FieldOfObject ==
  ASSUME NEW root, NEW f, DOMAIN f \subseteq Names, \A n \in DOMAIN f : DOMAIN f[n] \subseteq Seq(Parts),
         NEW n \in DOMAIN f
  PROVE  /\ DOMAIN At(Object(root, f), <<Field(n)>>) = DOMAIN f[n]
         /\ \A r \in DOMAIN f[n] : At(Object(root, f), <<Field(n)>>)[r] = f[n][r]
<1> DEFINE o == Object(root, f)
           p == <<Field(n)>>
<1>1. p \in Seq(Parts) /\ n \in Names
  BY FieldsAreParts
<1>2. /\ DOMAIN o \subseteq Seq(Parts)
      /\ \A r \in Seq(Parts) : p \o r \in DOMAIN o <=> r \in DOMAIN f[n]
      /\ \A r \in DOMAIN f[n] : o[p \o r] = f[n][r]
  <2>1. \A r : p \o r = Behind(n, r)
    BY DEF Behind
  <2>2. /\ DOMAIN o \subseteq Seq(Parts)
        /\ \A r \in Seq(Parts) : Behind(n, r) \in DOMAIN o <=> r \in DOMAIN f[n]
        /\ \A r \in DOMAIN f[n] : o[Behind(n, r)] = f[n][r]
    BY <1>1, ObjectIs
  <2> HIDE DEF o, p
  <2> QED
    BY <2>1, <2>2
<1> HIDE DEF o, p
<1>3. /\ DOMAIN At(o, p) \subseteq Seq(Parts)
      /\ \A q \in Seq(Parts) : q \in DOMAIN At(o, p) <=> p \o q \in DOMAIN o
      /\ \A q \in DOMAIN At(o, p) : At(o, p)[q] = o[p \o q]
  BY <1>1, <1>2, AtIs
<1> QED
  BY <1>2, <1>3 DEF o, p

(* What a value and its levels look like: the part of IsValue that a       *)
(* composed value inherits from its fields.                                *)
TypedValue(v) ==
  /\ DOMAIN v \subseteq Seq(Parts) /\ <<>> \in DOMAIN v
  /\ \A p \in DOMAIN v : TypedValueLevel(v[p])

(* A part of a value that conforms does, to the part of the schema.        *)
LEMMA ConformsBelow ==
  ASSUME NEW v, TypedValue(v), NEW s, DOMAIN s \subseteq Seq(Parts), Conforms(v, s),
         NEW p \in Seq(Fields), p \in DOMAIN v
  PROVE  TypedValue(At(v, p)) /\ Conforms(At(v, p), At(s, p))
<1>1. p \in Seq(Parts) /\ DOMAIN v \subseteq Seq(Parts) /\ DOMAIN s \subseteq Seq(Parts)
  BY PathsArePlaces DEF TypedValue
<1>2. /\ DOMAIN At(v, p) \subseteq Seq(Parts)
      /\ \A q \in Seq(Parts) : q \in DOMAIN At(v, p) <=> p \o q \in DOMAIN v
      /\ \A q \in DOMAIN At(v, p) : At(v, p)[q] = v[p \o q]
  BY <1>1, AtIs
<1>3. /\ \A q \in Seq(Parts) : q \in DOMAIN At(s, p) <=> p \o q \in DOMAIN s
      /\ \A q \in DOMAIN At(s, p) : At(s, p)[q] = s[p \o q]
  BY <1>1, AtIs
<1>4. <<>> \in Seq(Parts) /\ p \o <<>> = p
  BY <1>1, EmptySeq, ConcatEmptySeq
<1>5. TypedValue(At(v, p))
  BY <1>2, <1>4 DEF TypedValue
<1>6. ASSUME NEW q \in DOMAIN At(v, p)
      PROVE  Place(q) \in DOMAIN At(s, p) /\ LevelConforms(At(v, p), q, At(s, p)[Place(q)])
  <2>1. q \in Seq(Parts) /\ p \o q \in DOMAIN v /\ At(v, p)[q] = v[p \o q]
    BY <1>2
  <2>2. Place(p \o q) = p \o Place(q) /\ Place(q) \in Seq(Parts)
    BY <2>1, PlaceBelow, PlaceIs
  <2>3. p \o Place(q) \in DOMAIN s /\ LevelConforms(v, p \o q, s[p \o Place(q)])
    BY <2>1, <2>2 DEF Conforms
  <2>4. Place(q) \in DOMAIN At(s, p) /\ At(s, p)[Place(q)] = s[p \o Place(q)]
    BY <1>3, <2>2, <2>3
  <2>5. Properties(At(v, p), q) = Properties(v, p \o q)
    BY <1>1, <2>1, PropertiesBelow
  <2> QED
    BY <2>1, <2>3, <2>4, <2>5 DEF LevelConforms
<1> QED
  BY <1>5, <1>6 DEF Conforms

(* The same of a schema.                                                   *)
TypedSchema(s) == DOMAIN s \subseteq Seq(Parts) /\ \A p \in DOMAIN s : TypedSchemaLevel(s[p])

(* What the types of a valid schema admit (validateSchema).                *)
LEMMA ValidType ==
  ASSUME NEW s, ValidSchema(s), NEW p \in DOMAIN s
  PROVE  /\ s[p].type \in Types
         /\ s[p].type = "array" => s[p].maxItems > 0
         /\ s[p].type = "object" => s[p].enum = {}
         /\ s[p].type # "object" => Properties(s, p) = {}
<1>1. ValidShape(s, p)
  BY DEF ValidSchema
<1> QED
  BY <1>1 DEF ValidShape, Types, Numeric

(* A part of a valid schema is valid.                                      *)
LEMMA ValidBelow ==
  ASSUME NEW s, TypedSchema(s), ValidSchema(s), NEW p \in Seq(Parts)
  PROVE  TypedSchema(At(s, p)) /\ ValidSchema(At(s, p))
<1>1. /\ DOMAIN At(s, p) \subseteq Seq(Parts)
      /\ \A q \in Seq(Parts) : q \in DOMAIN At(s, p) <=> p \o q \in DOMAIN s
      /\ \A q \in DOMAIN At(s, p) : At(s, p)[q] = s[p \o q]
  BY AtIs DEF TypedSchema
<1>2. TypedSchema(At(s, p))
  BY <1>1 DEF TypedSchema
<1>3. ASSUME NEW q \in DOMAIN At(s, p)
      PROVE  ValidShape(At(s, p), q)
  <2>1. q \in Seq(Parts) /\ p \o q \in DOMAIN s /\ At(s, p)[q] = s[p \o q]
    BY <1>1
  <2>2. Properties(At(s, p), q) = Properties(s, p \o q)
    BY <2>1, PropertiesBelow DEF TypedSchema
  <2>3. Append(q, Items) \in DOMAIN At(s, p) <=> Append(p \o q, Items) \in DOMAIN s
    <3>1. Append(q, Items) \in Seq(Parts) /\ Append(p \o q, Items) = p \o Append(q, Items)
      BY <2>1, AppendBelow, FieldsAreParts
    <3> QED
      BY <1>1, <3>1
  <2>4. ValidShape(s, p \o q)
    BY <2>1 DEF ValidSchema
  <2> QED
    BY <2>1, <2>2, <2>3, <2>4 DEF ValidShape
<1> QED
  BY <1>2, <1>3 DEF ValidSchema

(* What a schema promises of a level is what an assignable schema asks of  *)
(* it, but for what assignable does not compare.                           *)
LEMMA LevelSound ==
  ASSUME NEW v, NEW q, TypedValueLevel(v[q]),
         NEW a, TypedSchemaLevel(a), NEW b, TypedSchemaLevel(b),
         b.type \in Types, b.type = "array" => b.maxItems > 0,
         LevelConforms(v, q, a), LevelAssignable(a, b), ~LevelUncompared(a, b)
  PROVE  LevelConforms(v, q, b)
<1>1. /\ a.maxLength \in Int /\ a.maxItems \in Int /\ a.minimum \subseteq Int /\ a.maximum \subseteq Int
      /\ b.maxLength \in Int /\ b.maxItems \in Int /\ b.minimum \subseteq Int /\ b.maximum \subseteq Int
      /\ "text" \in DOMAIN v[q] => Len(v[q].text) \in Nat
      /\ "number" \in DOMAIN v[q] => v[q].number \in Int
      /\ "items" \in DOMAIN v[q] => v[q].items \in Nat
  BY DEF TypedSchemaLevel, TypedValueLevel
<1>3. /\ b.type = "string" => ~(b.maxLength > 0 /\ a.maxLength <= 0)
      /\ b.type # "string" => b.enum = {}
  BY DEF LevelUncompared
<1>5. a.type = b.type \/ (a.type = "integer" /\ b.type = "number")
  BY DEF LevelAssignable
<1>6. CASE b.type = "string"
  <2>1. a.type = "string"
    BY <1>5, <1>6
  <2>2. StringAssignable(a, b) /\ "text" \in DOMAIN v[q] /\ (a.maxLength > 0 => Len(v[q].text) <= a.maxLength)
    BY <2>1 DEF LevelAssignable, LevelConforms
  <2>3. b.maxLength > 0 => Len(v[q].text) <= b.maxLength
    BY <1>1, <1>3, <1>6, <2>2 DEF StringAssignable
  <2>4. a.enum # {} => v[q].text \in a.enum
    BY DEF LevelConforms
  <2>5. b.enum # {} => v[q].text \in b.enum
    BY <2>2, <2>4 DEF StringAssignable
  <2> QED
    BY <1>6, <2>2, <2>3, <2>5 DEF LevelConforms, Numeric
<1>7. CASE b.type \in Numeric
  <2>1. a.type \in Numeric
    BY <1>5, <1>7 DEF Numeric
  <2>2. /\ NumericAssignable(a, b) /\ "number" \in DOMAIN v[q]
        /\ WithinNumericBounds(v[q].number, a) /\ (a.type = "integer" => v[q].number % 2 = 0)
    BY <2>1 DEF LevelAssignable, LevelConforms
  <2>3. WithinNumericBounds(v[q].number, b)
    <3>1. ASSUME NEW x \in b.minimum PROVE v[q].number >= x
      BY <1>1, <2>2, <3>1 DEF NumericAssignable, WithinNumericBounds
    <3>2. ASSUME NEW x \in b.maximum PROVE v[q].number <= x
      BY <1>1, <2>2, <3>2 DEF NumericAssignable, WithinNumericBounds
    <3> QED
      BY <3>1, <3>2 DEF WithinNumericBounds
  <2>4. b.type = "integer" => v[q].number % 2 = 0
    BY <1>5, <2>2
  <2>5. b.enum = {} /\ b.type \notin {"string", "boolean", "array", "object"}
    BY <1>3, <1>7 DEF Numeric
  <2> QED
    BY <2>2, <2>3, <2>4, <2>5 DEF LevelConforms
<1>8. CASE b.type = "boolean"
  BY <1>3, <1>5, <1>8 DEF LevelConforms, Numeric
<1>9. CASE b.type = "array"
  <2>1. a.type = "array"
    BY <1>5, <1>9
  <2>2. a.maxItems <= b.maxItems /\ "items" \in DOMAIN v[q] /\ v[q].items <= a.maxItems
    BY <1>1, <1>9, <2>1 DEF LevelAssignable, LevelConforms
  <2>3. v[q].items <= b.maxItems /\ b.enum = {}
    BY <1>1, <1>3, <1>9, <2>2
  <2> QED
    BY <1>9, <2>2, <2>3 DEF LevelConforms, Numeric
<1>10. CASE b.type = "object"
  <2>1. a.type = "object"
    BY <1>5, <1>10
  <2>2. RequiresTheSame(a, b) /\ v[q] = Map /\ a.required \subseteq Properties(v, q)
    BY <2>1 DEF LevelAssignable, LevelConforms
  <2>3. b.required \subseteq Properties(v, q) /\ b.enum = {}
    BY <1>3, <1>10, <2>2 DEF RequiresTheSame
  <2> QED
    BY <1>10, <2>2, <2>3 DEF LevelConforms, Numeric
<1> QED
  BY <1>6, <1>7, <1>8, <1>9, <1>10 DEF Types

(* A value of a schema is one of every schema it is assignable to, but for *)
(* what assignable does not compare.                                       *)
LEMMA AssignableSound ==
  ASSUME NEW v, TypedValue(v), NEW s, TypedSchema(s), NEW t, TypedSchema(t), ValidSchema(t),
         Conforms(v, s), Assignable(s, t), ~Uncompared(s, t)
  PROVE  Conforms(v, t)
<1>1. ASSUME NEW q \in DOMAIN v
      PROVE  Place(q) \in DOMAIN t /\ LevelConforms(v, q, t[Place(q)])
  <2>1. Place(q) \in DOMAIN s /\ LevelConforms(v, q, s[Place(q)])
    BY DEF Conforms
  <2>2. Place(q) \in DOMAIN t
    BY <2>1 DEF Uncompared
  <2>3. LevelAssignable(s[Place(q)], t[Place(q)]) /\ ~LevelUncompared(s[Place(q)], t[Place(q)])
    BY <2>1, <2>2 DEF Assignable, Uncompared
  <2>4. TypedValueLevel(v[q]) /\ TypedSchemaLevel(s[Place(q)]) /\ TypedSchemaLevel(t[Place(q)])
    BY <2>1, <2>2 DEF TypedValue, TypedSchema
  <2>5. t[Place(q)].type \in Types /\ (t[Place(q)].type = "array" => t[Place(q)].maxItems > 0)
    BY <2>2, ValidType
  <2> QED
    BY <2>1, <2>2, <2>3, <2>4, <2>5, LevelSound
<1> QED
  BY <1>1 DEF Conforms

(* A path in a schema goes through objects.                                *)
LEMMA OnPath ==
  ASSUME NEW s, IsSchema(s), ValidSchema(s), NEW path \in Seq(Fields), path \in DOMAIN s, NEW i \in 1..Len(path)
  PROVE  /\ SubSeq(path, 1, i - 1) \in Seq(Fields) /\ SubSeq(path, 1, i - 1) \in DOMAIN s
         /\ s[SubSeq(path, 1, i - 1)].type = "object"
         /\ path[i][2] \in Names
         /\ SubSeq(path, 1, i) = Append(SubSeq(path, 1, i - 1), Field(path[i][2]))
<1> DEFINE p == SubSeq(path, 1, i - 1)
<1>1. Len(path) \in Nat /\ i \in Nat /\ 1 <= i /\ i <= Len(path)
  BY LenProperties
<1>2. path[i] \in Fields /\ path[i][2] \in Names /\ path[i] = Field(path[i][2])
  BY ElementOfSeq, FieldsAreParts
<1>3. p \in Seq(Fields)
  <2>1. 1 \in Int /\ i - 1 \in Int /\ \A j \in 1..(i - 1) : path[j] \in Fields
    BY <1>1, ElementOfSeq
  <2> QED
    BY <2>1, SubSeqProperties
<1>4. SubSeq(path, 1, i) = p \o <<path[i]>>
  <2>1. 1 \in 1..Len(path) /\ i \in 1..Len(path)
    BY <1>1
  <2> QED
    BY <1>1, <2>1, SubSeqRecursiveSecond
<1> HIDE DEF p
<1>5. SubSeq(path, 1, i) = Append(p, Field(path[i][2]))
  BY <1>2, <1>3, <1>4, AppendIsConcat
<1>6. \A n \in 0..Len(path) : SubSeq(path, 1, n) \in DOMAIN s
  BY DEF IsSchema, Tree
<1>7. SubSeq(path, 1, i) \in DOMAIN s /\ p \in DOMAIN s
  BY <1>1, <1>6 DEF p
<1>8. path[i][2] \in Properties(s, p)
  BY <1>2, <1>5, <1>7 DEF Properties
<1>9. s[p].type = "object"
  BY <1>7, <1>8, ValidType
<1> QED
  BY <1>2, <1>3, <1>5, <1>7, <1>9 DEF p

(* So a value of the schema has a map at every place of the path it has.   *)
LEMMA MapOnPath ==
  ASSUME NEW s, IsSchema(s), ValidSchema(s), NEW v, TypedValue(v), Conforms(v, s),
         NEW path \in Seq(Fields), path \in DOMAIN s, NEW i \in 1..Len(path), SubSeq(path, 1, i - 1) \in DOMAIN v
  PROVE  /\ v[SubSeq(path, 1, i - 1)] = Map
         /\ s[SubSeq(path, 1, i - 1)].required \subseteq Properties(v, SubSeq(path, 1, i - 1))
<1> DEFINE p == SubSeq(path, 1, i - 1)
<1>1. p \in Seq(Fields) /\ s[p].type = "object"
  BY OnPath
<1>2. p \in DOMAIN v
  OBVIOUS
<1> HIDE DEF p
<1>3. LevelConforms(v, p, s[p])
  BY <1>1, <1>2, PlaceOfPath DEF Conforms
<1>4. v[p] = Map /\ s[p].required \subseteq Properties(v, p)
  BY <1>1, <1>3 DEF LevelConforms
<1> QED
  BY <1>4 DEF p

(* A path that is required all along leads to something in every value of  *)
(* the schema: the first place that is missing would be required of a map. *)
LEMMA RequiredIsFound ==
  ASSUME NEW s, IsSchema(s), ValidSchema(s), NEW v, TypedValue(v), Conforms(v, s),
         NEW path \in Seq(Fields), path \in DOMAIN s, PathRequired(s, path)
  PROVE  path \in DOMAIN v
<1> DEFINE last == Len(path)
           Start(n) == SubSeq(path, 1, n)
           Missing == {n \in 0..last : Start(n) \notin DOMAIN v}
<1>1. last \in Nat /\ Start(last) = path
  BY LenProperties, SubSeqFull
<1>2. Start(0) \in DOMAIN v
  <2>1. SubSeq(path, 1, 0) = <<>>
    BY SubSeqEmpty
  <2> QED
    BY <2>1 DEF TypedValue
<1>3. ASSUME NEW n \in 1..last, Start(n - 1) \in DOMAIN v
      PROVE  Start(n) \in DOMAIN v
  <2>1. s[Start(n - 1)].required \subseteq Properties(v, Start(n - 1))
    BY <1>3, MapOnPath
  <2>2. path[n][2] \in s[Start(n - 1)].required
    BY DEF PathRequired, RequiredAt
  <2> QED
    BY <2>1, <2>2, OnPath DEF Properties
<1> HIDE DEF last, Start
<1>4. SUFFICES ASSUME path \notin DOMAIN v PROVE FALSE
  OBVIOUS
<1>5. Missing \in SUBSET Nat /\ last \in Missing
  BY <1>1, <1>4
<1>6. PICK n \in Missing : \A m \in Missing : n <= m
  BY <1>5, LeastNumber
<1>7. n \in 1..last /\ n - 1 \in 0..last /\ n - 1 \notin Missing
  BY <1>1, <1>2, <1>6
<1> QED
  BY <1>3, <1>6, <1>7

(* A path of the schema is found in a value of it, and only a required one *)
(* always: then or when it is optional, the walk does not fail.            *)
LEMMA PathIsFollowed ==
  ASSUME NEW s, IsSchema(s), ValidSchema(s), NEW v, TypedValue(v), Conforms(v, s),
         NEW path \in Seq(Fields), path \in DOMAIN s, NEW optional, optional = TRUE \/ PathRequired(s, path)
  PROVE  LET found == FollowPath(v, path, optional) IN
         /\ found.ok
         /\ found.value = {} => ~PathRequired(s, path)
         /\ found.value # {} => found.value = {At(v, path)}
         /\ found.value # {} => TypedValue(At(v, path)) /\ Conforms(At(v, path), At(s, path))
<1>1. CASE path \in DOMAIN v
  BY <1>1, ConformsBelow DEF FollowPath, Found, IsSchema, Tree
<1>2. CASE path \notin DOMAIN v
  <2>1. ~PathRequired(s, path) /\ optional = TRUE
    BY <1>2, RequiredIsFound
  <2>2. ASSUME NEW n \in 0..Len(path), SubSeq(path, 1, n) \in DOMAIN v
        PROVE  v[SubSeq(path, 1, n)] = Map
    <3> DEFINE last == Len(path)
    <3>1. last \in Nat /\ SubSeq(path, 1, last) = path /\ n \in 0..last
      BY LenProperties, SubSeqFull
    <3> HIDE DEF last
    <3>2. n # last
      BY <1>2, <2>2, <3>1
    <3>3. n + 1 \in 1..last /\ n + 1 - 1 = n
      BY <3>1, <3>2
    <3> QED
      BY <2>2, <3>3, MapOnPath DEF last
  <2>3. FollowPath(v, path, optional) = Absent
    BY <1>2, <2>1, <2>2 DEF FollowPath
  <2> QED
    BY <2>1, <2>3 DEF Absent
<1> QED
  BY <1>1, <1>2

-----------------------------------------------------------------------------

(* What the stages leave: admission its checks, the caller his inputs, the *)
(* steps their answers, the gate what it has found.                        *)
Passed == stage \notin {"submitted", "refused"} => SchemasValid /\ BindingsValid

Supplied ==
  stage \notin {"submitted", "refused", "admitted"} => TypedValue(given) /\ Conforms(given, WorkflowInputsSchema)

Answered ==
  \A s \in DOMAIN outputs :
    s \in DOMAIN wf.outputs /\ TypedValue(outputs[s]) /\ Conforms(outputs[s], wf.outputs[s])

BoundStages == {"bound", "entered", "rejected"}

Filled == {n \in DOMAIN wf.with : Bind(wf.with[n]).value # {}}
Inputs == [n \in Filled |-> CHOOSE v \in Bind(wf.with[n]).value : TRUE]

Gathered ==
  /\ stage \in BoundStages \cup {"failed"} => wf.needs[Consumer] \subseteq DOMAIN outputs
  /\ stage = "failed" => \E n \in DOMAIN wf.with : ~Bind(wf.with[n]).ok
  /\ stage \in BoundStages => (\A n \in DOMAIN wf.with : Bind(wf.with[n]).ok) /\ bound = Object(Map, Inputs)

Rejected == stage = "rejected" => ~Conforms(bound, wf.input)

InputsInv == wf \in Workflows /\ Passed /\ Supplied /\ Answered /\ Gathered /\ Rejected

(* The assumptions, for the workflow that is run.                          *)
LEMMA WorkflowIs ==
  ASSUME wf \in Workflows
  PROVE  /\ IsSchema(wf.input) /\ TypedSchema(wf.input)
         /\ DOMAIN wf.inputs \subseteq Names
         /\ \A i \in DOMAIN wf.inputs : IsSchema(wf.inputs[i]) /\ TypedSchema(wf.inputs[i])
         /\ \A s \in DOMAIN wf.outputs : IsSchema(wf.outputs[s]) /\ TypedSchema(wf.outputs[s])
         /\ \A n \in DOMAIN wf.with : IsBinding(wf.with[n])
BY InputsAssumption DEF IsSchema, Tree, TypedSchema

(* A value that a caller or a model answers, and its levels, are typed.    *)
LEMMA ValuesAreTyped == ASSUME NEW v, IsValue(v) PROVE TypedValue(v)
BY DEF IsValue, Tree, TypedValue

(* An object of typed values is one.                                       *)
LEMMA ObjectTyped ==
  ASSUME NEW f, DOMAIN f \subseteq Names, \A n \in DOMAIN f : TypedValue(f[n])
  PROVE  TypedValue(Object(Map, f))
<1>1. \A n \in DOMAIN f : DOMAIN f[n] \subseteq Seq(Parts)
  BY DEF TypedValue
<1>2. /\ DOMAIN Object(Map, f) \subseteq Seq(Parts)
      /\ <<>> \in DOMAIN Object(Map, f) /\ Object(Map, f)[<<>>] = Map
      /\ \A n \in DOMAIN f : \A r \in DOMAIN f[n] : Object(Map, f)[Behind(n, r)] = f[n][r]
      /\ \A q \in DOMAIN Object(Map, f) : q # <<>> => \E n \in DOMAIN f : \E r \in DOMAIN f[n] : q = Behind(n, r)
  BY <1>1, ObjectIs
<1>3. TypedValueLevel(Map)
  BY DEF TypedValueLevel, Map
<1>4. ASSUME NEW q \in DOMAIN Object(Map, f)
      PROVE  TypedValueLevel(Object(Map, f)[q])
  <2>1. CASE q = <<>>
    BY <1>2, <1>3, <2>1
  <2>2. CASE q # <<>>
    <3>1. PICK n \in DOMAIN f : \E r \in DOMAIN f[n] : q = Behind(n, r)
      BY <1>2, <2>2
    <3>2. PICK r \in DOMAIN f[n] : q = Behind(n, r)
      BY <3>1
    <3>3. Object(Map, f)[q] = f[n][r]
      BY <1>2, <3>2
    <3> QED
      BY <3>3 DEF TypedValue
  <2> QED
    BY <2>1, <2>2
<1> QED
  BY <1>2, <1>4 DEF TypedValue

(* What the bindings find depends on nothing else.                         *)
LEMMA SameBindings ==
  ASSUME UNCHANGED <<wf, given, outputs>>
  PROVE  /\ \A n : Bind(wf.with[n])' = Bind(wf.with[n])
         /\ Filled' = Filled /\ Inputs' = Inputs
<1>1. \A n : Bind(wf.with[n])' = Bind(wf.with[n])
  BY DEF Bind
<1>2. Filled' = Filled
  BY <1>1 DEF Filled
<1>3. Inputs' = Inputs
  BY <1>1, <1>2 DEF Inputs
<1> QED
  BY <1>1, <1>2, <1>3

(* The invariant holds of what is submitted.                               *)
LEMMA InputsInvInit == InputsInit => InputsInv
BY DEF InputsInit, InputsInv, Passed, Supplied, Answered, Gathered, Rejected, BoundStages

(* Admission, the caller, the steps, the gate and the consumer keep it.    *)
LEMMA InputsInvNext == InputsInv /\ [InputsNext]_inputVars => InputsInv'
<1> SUFFICES ASSUME InputsInv, [InputsNext]_inputVars PROVE InputsInv'
  OBVIOUS
<1>0. wf \in Workflows /\ Passed /\ Supplied /\ Answered /\ Gathered /\ Rejected
  BY DEF InputsInv
<1>1. CASE Compile
  <2>1. UNCHANGED <<wf, given, outputs, bound>> /\ stage' \in {"admitted", "refused"}
    BY <1>1 DEF Compile
  <2>2. Passed'
    BY <1>1 DEF Compile, Passed, SchemasValid, BindingsValid, BindingValid
  <2>3. Answered'
    BY <1>0, <2>1 DEF Answered
  <2>4. Supplied' /\ Gathered' /\ Rejected'
    BY <2>1 DEF Supplied, Gathered, Rejected, BoundStages
  <2> QED
    BY <1>0, <2>1, <2>2, <2>3, <2>4 DEF InputsInv
<1>2. CASE Supply
  <2>1. UNCHANGED <<wf, outputs, bound>> /\ stage = "admitted" /\ stage' \in {"running", "refused"}
    BY <1>2 DEF Supply
  <2>2. PICK v \in [DOMAIN wf.inputs -> Values] \cup {<<>>} :
          given' = Object(Map, v) /\ stage' = IF Conforms(given', WorkflowInputsSchema) THEN "running" ELSE "refused"
    BY <1>2 DEF Supply
  <2>3. TypedValue(given')
    <3>1. DOMAIN v \subseteq Names /\ \A n \in DOMAIN v : TypedValue(v[n])
      BY <1>0, WorkflowIs, InputsAssumption, ValuesAreTyped
    <3> QED
      BY <2>2, <3>1, ObjectTyped
  <2>4. Supplied'
    <3>1. WorkflowInputsSchema' = WorkflowInputsSchema
      BY <2>1 DEF WorkflowInputsSchema
    <3> QED
      BY <2>2, <2>3, <3>1 DEF Supplied
  <2>5. Passed'
    BY <1>0, <2>1 DEF Passed, SchemasValid, BindingsValid, BindingValid
  <2>6. Answered'
    BY <1>0, <2>1 DEF Answered
  <2>7. Gathered' /\ Rejected'
    BY <2>1 DEF Gathered, Rejected, BoundStages
  <2> QED
    BY <1>0, <2>1, <2>4, <2>5, <2>6, <2>7 DEF InputsInv
<1>3. ASSUME NEW s \in DOMAIN wf.outputs, Finish(s)
      PROVE  InputsInv'
  <2>1. UNCHANGED <<wf, stage, given, bound>> /\ stage = "running"
    BY <1>3 DEF Finish
  <2>2. PICK v \in Values :
          /\ Conforms(v, wf.outputs[s])
          /\ outputs' = [x \in DOMAIN outputs \cup {s} |-> IF x = s THEN v ELSE outputs[x]]
    BY <1>3 DEF Finish
  <2>3. Answered'
    <3>1. TypedValue(v)
      BY InputsAssumption, ValuesAreTyped
    <3> QED
      BY <1>0, <2>1, <2>2, <3>1 DEF Answered
  <2>4. Passed' /\ Supplied'
    BY <1>0, <2>1 DEF Passed, Supplied, SchemasValid, BindingsValid, BindingValid, WorkflowInputsSchema
  <2>5. Gathered' /\ Rejected'
    BY <2>1 DEF Gathered, Rejected, BoundStages
  <2> QED
    BY <1>0, <2>1, <2>3, <2>4, <2>5 DEF InputsInv
<1>4. CASE Gate
  <2> DEFINE at == [n \in DOMAIN wf.with |-> Bind(wf.with[n])]
             present == {n \in DOMAIN at : at[n].value # {}}
  <2>1. /\ UNCHANGED <<wf, given, outputs>> /\ stage = "running"
        /\ wf.needs[Consumer] \subseteq DOMAIN outputs
        /\ IF \A n \in DOMAIN at : at[n].ok
           THEN /\ bound' = Object(Map, [n \in present |-> CHOOSE v \in at[n].value : TRUE])
                /\ stage' = "bound"
           ELSE stage' = "failed" /\ UNCHANGED bound
    BY <1>4 DEF Gate
  <2>2. DOMAIN at = DOMAIN wf.with /\ \A n \in DOMAIN wf.with : at[n] = Bind(wf.with[n])
    OBVIOUS
  <2>3. present = Filled
    BY <2>2 DEF Filled
  <2>4. [n \in present |-> CHOOSE v \in at[n].value : TRUE] = Inputs
    BY <2>2, <2>3 DEF Inputs, Filled
  <2> HIDE DEF at, present
  <2>5. Gathered'
    <3>1. /\ DOMAIN wf'.with = DOMAIN wf.with /\ wf'.needs = wf.needs /\ Inputs' = Inputs
          /\ \A n : Bind(wf.with[n])' = Bind(wf.with[n])
      BY <2>1, SameBindings
    <3>2. CASE \A n \in DOMAIN wf.with : Bind(wf.with[n]).ok
      <4>1. stage' = "bound" /\ bound' = Object(Map, Inputs)
        BY <2>1, <2>2, <2>4, <3>2
      <4> QED
        BY <2>1, <3>1, <3>2, <4>1 DEF Gathered, BoundStages
    <3>3. CASE \E n \in DOMAIN wf.with : ~Bind(wf.with[n]).ok
      <4>1. stage' = "failed"
        BY <2>1, <2>2, <3>3
      <4> QED
        BY <2>1, <3>1, <3>3, <4>1 DEF Gathered, BoundStages
    <3> QED
      BY <3>2, <3>3
  <2>6. Passed' /\ Supplied'
    BY <1>0, <2>1 DEF Passed, Supplied, SchemasValid, BindingsValid, BindingValid, WorkflowInputsSchema
  <2>7. Answered' /\ Rejected'
    BY <1>0, <2>1 DEF Answered, Rejected
  <2> QED
    BY <1>0, <2>1, <2>5, <2>6, <2>7 DEF InputsInv
<1>5. CASE Enter
  <2>1. /\ UNCHANGED <<wf, given, outputs, bound>> /\ stage = "bound"
        /\ stage' = IF Conforms(bound, wf.input) THEN "entered" ELSE "rejected"
    BY <1>5 DEF Enter
  <2>2. Gathered'
    BY <1>0, <2>1, SameBindings DEF Gathered, BoundStages
  <2>3. Passed' /\ Supplied'
    BY <1>0, <2>1 DEF Passed, Supplied, SchemasValid, BindingsValid, BindingValid, WorkflowInputsSchema
  <2>4. Answered' /\ Rejected'
    BY <1>0, <2>1 DEF Answered, Rejected
  <2> QED
    BY <1>0, <2>1, <2>2, <2>3, <2>4 DEF InputsInv
<1>6. CASE UNCHANGED inputVars
  <2>1. UNCHANGED <<wf, stage, given, outputs, bound>>
    BY <1>6 DEF inputVars
  <2>2. Gathered'
    BY <1>0, <2>1, SameBindings DEF Gathered, BoundStages
  <2>3. Passed' /\ Supplied'
    BY <1>0, <2>1 DEF Passed, Supplied, SchemasValid, BindingsValid, BindingValid, WorkflowInputsSchema
  <2>4. Answered' /\ Rejected'
    BY <1>0, <2>1 DEF Answered, Rejected
  <2> QED
    BY <1>0, <2>1, <2>2, <2>3, <2>4 DEF InputsInv
<1> QED
  BY <1>1, <1>2, <1>3, <1>4, <1>5, <1>6 DEF InputsNext

-----------------------------------------------------------------------------

(* The gate has opened, and bound the inputs or failed.                    *)
OpenedStages == BoundStages \cup {"failed"}

(* What the invariant says of a binding behind the gate.                   *)
LEMMA BindingHeld ==
  ASSUME InputsInv, stage \in OpenedStages, NEW n \in DOMAIN wf.with
  PROVE  /\ BindingValid(n, wf.with[n]) /\ IsBinding(wf.with[n])
         /\ n \in Names /\ n \in Properties(wf.input, <<>>)
         /\ <<Field(n)>> \in Seq(Fields) /\ <<Field(n)>> \in Seq(Parts)
         /\ TypedSchema(At(wf.input, <<Field(n)>>)) /\ ValidSchema(At(wf.input, <<Field(n)>>))
         /\ <<>> \in DOMAIN At(wf.input, <<Field(n)>>)
<1>1. wf \in Workflows /\ SchemasValid /\ BindingsValid
  BY DEF InputsInv, Passed, OpenedStages, BoundStages
<1>2. IsSchema(wf.input) /\ TypedSchema(wf.input) /\ IsBinding(wf.with[n])
  BY <1>1, WorkflowIs
<1>3. BindingValid(n, wf.with[n])
  BY <1>1 DEF BindingsValid
<1>4. n \in Names /\ Append(<<>>, Field(n)) \in DOMAIN wf.input /\ n \in Properties(wf.input, <<>>)
  BY <1>3 DEF BindingValid, Properties
<1>5. <<Field(n)>> \in Seq(Fields) /\ <<Field(n)>> \in Seq(Parts)
  BY <1>4, FieldsAreParts
<1>6. <<>> \in Seq(Parts) /\ <<Field(n)>> \o <<>> = <<Field(n)>> /\ Append(<<>>, Field(n)) = <<Field(n)>>
  <2>1. <<>> \in Seq(Parts)
    BY EmptySeq
  <2>2. <<Field(n)>> \o <<>> = <<Field(n)>>
    BY <1>5, ConcatEmptySeq
  <2>3. Append(<<>>, Field(n)) = <<Field(n)>>
    OBVIOUS
  <2> QED
    BY <2>1, <2>2, <2>3
<1> DEFINE p == <<Field(n)>>
           e == <<>>
<1>7. p \in Seq(Parts) /\ e \in Seq(Parts) /\ p \o e \in DOMAIN wf.input
  BY <1>4, <1>5, <1>6
<1>8. ValidSchema(wf.input) /\ DOMAIN wf.input \subseteq Seq(Parts)
  BY <1>1, <1>2 DEF SchemasValid, TypedSchema
<1> HIDE DEF p, e
<1>9. TypedSchema(At(wf.input, p)) /\ ValidSchema(At(wf.input, p)) /\ e \in DOMAIN At(wf.input, p)
  BY <1>2, <1>7, <1>8, ValidBelow, AtIs
<1> QED
  BY <1>2, <1>3, <1>4, <1>5, <1>9 DEF p, e

(* A workflow input is there, and what the caller gave conforms.           *)
LEMMA InputIsFound ==
  ASSUME InputsInv, stage \in OpenedStages, NEW n \in DOMAIN wf.with, wf.with[n].kind = "input"
  PROVE  LET b == wf.with[n] IN
         /\ Bind(b).ok
         /\ TypedSchema(SourceOf(b)) /\ Assignable(SourceOf(b), At(wf.input, <<Field(n)>>))
         /\ \E v : Bind(b).value = {v} /\ TypedValue(v) /\ Conforms(v, SourceOf(b))
<1> DEFINE b == wf.with[n]
           i == b.input
           p == <<Field(i)>>
           s == WorkflowInputsSchema
           root == [Schema("object") EXCEPT !.required = DOMAIN wf.inputs]
<1>1. wf \in Workflows /\ TypedValue(given) /\ Conforms(given, s)
  BY DEF InputsInv, Supplied, OpenedStages, BoundStages
<1>2. i \in DOMAIN wf.inputs /\ Assignable(wf.inputs[i], At(wf.input, <<Field(n)>>))
  BY BindingHeld DEF BindingValid
<1>3. /\ DOMAIN wf.inputs \subseteq Names /\ TypedSchema(wf.inputs[i])
      /\ \A x \in DOMAIN wf.inputs : DOMAIN wf.inputs[x] \subseteq Seq(Parts)
  BY <1>1, <1>2, WorkflowIs DEF TypedSchema
<1>4. root.type = "object" /\ root.required = DOMAIN wf.inputs
  BY DEF Schema
<1>5. s = Object(root, wf.inputs)
  BY DEF WorkflowInputsSchema
<1> HIDE DEF root, s
<1>6. DOMAIN s \subseteq Seq(Parts) /\ <<>> \in DOMAIN s /\ s[<<>>] = root
  BY <1>3, <1>5, ObjectIs
<1>7. Place(<<>>) = <<>>
  BY PlaceOfPath, EmptySeq
<1>8. LevelConforms(given, <<>>, root)
  BY <1>1, <1>6, <1>7 DEF Conforms, TypedValue
<1>9. i \in Properties(given, <<>>)
  BY <1>2, <1>4, <1>8 DEF LevelConforms
<1>10. p \in Seq(Fields) /\ p \in DOMAIN given
  <2>1. Append(<<>>, Field(i)) = p
    OBVIOUS
  <2> QED
    BY <1>9, <2>1, FieldsAreParts DEF Properties
<1>11. TypedValue(At(given, p)) /\ Conforms(At(given, p), At(s, p))
  <2> HIDE DEF p
  <2> QED
    BY <1>1, <1>6, <1>10, ConformsBelow
<1>12. DOMAIN At(s, p) = DOMAIN wf.inputs[i] /\ \A r \in DOMAIN wf.inputs[i] : At(s, p)[r] = wf.inputs[i][r]
  BY <1>2, <1>3, <1>5, FieldOfObject
<1>13. Conforms(At(given, p), wf.inputs[i])
  <2> HIDE DEF p
  <2> QED
    BY <1>11, <1>12 DEF Conforms
<1>14. Bind(b) = Found(At(given, p)) /\ SourceOf(b) = wf.inputs[i]
  BY <1>9 DEF Bind, SourceOf
<1> HIDE DEF b, p, i
<1>15. Bind(b).ok /\ Bind(b).value = {At(given, p)}
  BY <1>14 DEF Found
<1> QED
  BY <1>2, <1>3, <1>11, <1>13, <1>14, <1>15 DEF b

(* A property of the output of a need is there if it is required, and what *)
(* is there conforms.                                                      *)
LEMMA OutputIsFound ==
  ASSUME InputsInv, stage \in OpenedStages, NEW n \in DOMAIN wf.with, wf.with[n].kind = "output",
         wf.with[n].step \in wf.needs[Consumer]
  PROVE  LET b == wf.with[n] IN
         /\ Bind(b).ok
         /\ Bind(b).value = {} => n \notin wf.input[<<>>].required
         /\ TypedSchema(SourceOf(b)) /\ Assignable(SourceOf(b), At(wf.input, <<Field(n)>>))
         /\ Bind(b).value # {} =>
              \E v : Bind(b).value = {v} /\ TypedValue(v) /\ Conforms(v, SourceOf(b))
<1> DEFINE b == wf.with[n]
           s == wf.outputs[b.step]
           v == outputs[b.step]
           path == b.path
           target == At(wf.input, <<Field(n)>>)
<1>1. wf \in Workflows /\ SchemasValid /\ wf.needs[Consumer] \subseteq DOMAIN outputs /\ Answered
  BY DEF InputsInv, Passed, Gathered, OpenedStages, BoundStages
<1>2. b.step \in DOMAIN wf.outputs /\ TypedValue(v) /\ Conforms(v, s)
  BY <1>1 DEF Answered
<1>3. IsSchema(s) /\ TypedSchema(s) /\ ValidSchema(s)
  BY <1>1, <1>2, WorkflowIs DEF SchemasValid
<1>4. path \in Seq(Fields)
  BY BindingHeld DEF IsBinding
<1>5. /\ OutputPathSchema(s, path).found /\ Assignable(OutputPathSchema(s, path).schema, target)
      /\ IF b.optional THEN n \notin wf.input[<<>>].required ELSE OutputPathSchema(s, path).required
  BY BindingHeld DEF BindingValid
<1>6. /\ Bind(b) = FollowPath(v, path, b.optional)
      /\ SourceOf(b) = OutputPathSchema(s, path).schema
  BY DEF Bind, SourceOf
<1> HIDE DEF b, s, v, path, target
<1>7. path \in DOMAIN s /\ OutputPathSchema(s, path).schema = At(s, path)
  BY <1>5 DEF OutputPathSchema
<1>8. OutputPathSchema(s, path).required = PathRequired(s, path)
  BY <1>7 DEF OutputPathSchema
<1>9. b.optional = TRUE \/ PathRequired(s, path)
  BY <1>5, <1>8
<1>10. /\ Bind(b).ok
       /\ Bind(b).value = {} => ~PathRequired(s, path)
       /\ Bind(b).value # {} => Bind(b).value = {At(v, path)} /\ TypedValue(At(v, path)) /\ Conforms(At(v, path), At(s, path))
  <2> DEFINE found == FollowPath(v, path, b.optional)
  <2>1. /\ found.ok
        /\ found.value = {} => ~PathRequired(s, path)
        /\ found.value # {} => found.value = {At(v, path)}
        /\ found.value # {} => TypedValue(At(v, path)) /\ Conforms(At(v, path), At(s, path))
    BY <1>2, <1>3, <1>4, <1>7, <1>9, PathIsFollowed
  <2>2. Bind(b) = found
    BY <1>6
  <2> HIDE DEF found
  <2> QED
    BY <2>1, <2>2
<1>11. Bind(b).value = {} => n \notin wf.input[<<>>].required
  BY <1>5, <1>8, <1>10
<1>12. TypedSchema(At(s, path))
  BY <1>3, <1>4, PathsArePlaces, ValidBelow
<1> QED
  BY <1>5, <1>6, <1>7, <1>10, <1>11, <1>12 DEF b, target

(* A literal is there, and admission has compared it.                      *)
LEMMA LiteralIsFound ==
  ASSUME InputsInv, stage \in OpenedStages, NEW n \in DOMAIN wf.with, wf.with[n].kind = "literal"
  PROVE  LET b == wf.with[n] IN
         /\ Bind(b).ok /\ Bind(b).value = {b.literal}
         /\ TypedValue(b.literal) /\ LiteralAssignable(b.literal, At(wf.input, <<Field(n)>>))
<1>1. Bind(wf.with[n]) = Found(wf.with[n].literal)
  BY DEF Bind
<1>2. IsValue(wf.with[n].literal) /\ LiteralAssignable(wf.with[n].literal, At(wf.input, <<Field(n)>>))
  BY BindingHeld DEF BindingValid, IsBinding
<1> QED
  BY <1>1, <1>2, ValuesAreTyped DEF Found

(* A literal conforms, but to an enum that its type does not admit.        *)
LEMMA LiteralSound ==
  ASSUME NEW b, IsBinding(b), b.kind = "literal", NEW t, TypedSchema(t), ValidSchema(t), <<>> \in DOMAIN t,
         LiteralAssignable(b.literal, t), t[<<>>].type = "string" \/ t[<<>>].enum = {}
  PROVE  Conforms(b.literal, t)
<1> DEFINE v == b.literal
           level == t[<<>>]
           w == v[<<>>]
<1>1. DOMAIN v = {<<>>} /\ \E kind \in {"text", "flag", "number"} : DOMAIN w = {kind}
  BY DEF IsBinding
<1>2. Place(<<>>) = <<>>
  BY PlaceOfPath, EmptySeq
<1>3. level.maxLength \in Int
  BY DEF TypedSchema, TypedSchemaLevel
<1>4. LevelConforms(v, <<>>, level)
  <2>1. CASE DOMAIN w = {"text"}
    <3>1. /\ level.type = "string" /\ (level.maxLength = 0 \/ Len(w.text) <= level.maxLength)
          /\ level.enum = {} \/ w.text \in level.enum
      BY <2>1 DEF LiteralAssignable
    <3> QED
      BY <1>3, <2>1, <3>1 DEF LevelConforms, Numeric
  <2>2. CASE DOMAIN w = {"flag"}
    <3>1. level.type = "boolean"
      BY <2>2 DEF LiteralAssignable
    <3> QED
      BY <2>2, <3>1 DEF LevelConforms, Numeric
  <2>3. CASE DOMAIN w = {"number"}
    <3>1. /\ level.type = "number" \/ (level.type = "integer" /\ w.number % 2 = 0)
          /\ WithinNumericBounds(w.number, level)
      BY <2>3 DEF LiteralAssignable
    <3> QED
      BY <2>3, <3>1 DEF LevelConforms, Numeric
  <2> QED
    BY <1>1, <2>1, <2>2, <2>3
<1> QED
  BY <1>1, <1>2, <1>4 DEF Conforms

(* A step does not bind itself to what it does not need, or the gate fails.*)
LEMMA FailsForAStranger ==
  ASSUME InputsInv, stage \in OpenedStages, NEW n \in DOMAIN wf.with, ~Bind(wf.with[n]).ok
  PROVE  wf.with[n].kind = "output" /\ wf.with[n].step \notin wf.needs[Consumer]
<1>1. wf.with[n].kind \in {"input", "output", "literal"}
  BY BindingHeld DEF IsBinding
<1> QED
  BY <1>1, InputIsFound, OutputIsFound, LiteralIsFound

(* What is required is bound to something.                                 *)
LEMMA RequiredIsFilled ==
  ASSUME InputsInv, stage \in BoundStages
  PROVE  wf.input[<<>>].required \subseteq Filled
<1> SUFFICES ASSUME NEW n \in wf.input[<<>>].required PROVE n \in Filled
  OBVIOUS
<1>1. BindingsValid /\ \A m \in DOMAIN wf.with : Bind(wf.with[m]).ok
  BY DEF InputsInv, Passed, Gathered, BoundStages
<1>2. n \in DOMAIN wf.with
  BY <1>1 DEF BindingsValid
<1>3. wf.with[n].kind \in {"input", "output", "literal"} /\ stage \in OpenedStages
  BY <1>2, BindingHeld DEF IsBinding, OpenedStages
<1>4. CASE wf.with[n].kind = "input"
  BY <1>2, <1>3, <1>4, InputIsFound DEF Filled
<1>5. CASE wf.with[n].kind = "output"
  <2>1. wf.with[n].step \in wf.needs[Consumer]
    <3>1. wf.with[n].step \notin wf.needs[Consumer] => Bind(wf.with[n]) = Failed
      BY <1>5 DEF Bind
    <3> QED
      BY <1>1, <1>2, <3>1 DEF Failed
  <2> QED
    BY <1>2, <1>3, <1>5, <2>1, OutputIsFound DEF Filled
<1>6. CASE wf.with[n].kind = "literal"
  BY <1>2, <1>3, <1>6, LiteralIsFound DEF Filled
<1> QED
  BY <1>3, <1>4, <1>5, <1>6

(* What is bound to a property is a value, and conforms to its schema.     *)
LEMMA InputConforms ==
  ASSUME InputsInv, stage \in BoundStages, NEW n \in Filled
  PROVE  /\ n \in Names /\ TypedValue(Inputs[n])
         /\ ~LeftOut(n) => Conforms(Inputs[n], At(wf.input, <<Field(n)>>))
<1> DEFINE b == wf.with[n]
           t == At(wf.input, <<Field(n)>>)
<1>1. n \in DOMAIN wf.with /\ Bind(b).value # {} /\ Inputs[n] = CHOOSE v \in Bind(b).value : TRUE
  BY DEF Filled, Inputs
<1>2. stage \in OpenedStages /\ Bind(b).ok
  BY <1>1 DEF InputsInv, Gathered, OpenedStages
<1>3. /\ IsBinding(b) /\ n \in Names
      /\ TypedSchema(t) /\ ValidSchema(t) /\ <<>> \in DOMAIN t
  BY <1>1, <1>2, BindingHeld
<1>4. CASE b.kind \in {"input", "output"}
  <2>1. /\ TypedSchema(SourceOf(b)) /\ Assignable(SourceOf(b), t)
        /\ \E v : Bind(b).value = {v} /\ TypedValue(v) /\ Conforms(v, SourceOf(b))
    <3>1. CASE b.kind = "input"
      BY <1>1, <1>2, <3>1, InputIsFound
    <3>2. CASE b.kind = "output"
      <4>1. b.step \notin wf.needs[Consumer] => Bind(b) = Failed
        BY <3>2 DEF Bind
      <4>2. b.step \in wf.needs[Consumer]
        BY <1>2, <4>1 DEF Failed
      <4> QED
        BY <1>1, <1>2, <3>2, <4>2, OutputIsFound
    <3> QED
      BY <1>4, <3>1, <3>2
  <2>2. TypedValue(Inputs[n]) /\ Conforms(Inputs[n], SourceOf(b))
    BY <1>1, <2>1
  <2>3. ~LeftOut(n) => ~Uncompared(SourceOf(b), t)
    BY <1>4 DEF LeftOut
  <2> HIDE DEF b, t
  <2>4. ~LeftOut(n) => Conforms(Inputs[n], t)
    BY <1>3, <2>1, <2>2, <2>3, AssignableSound
  <2> QED
    BY <1>3, <2>2, <2>4 DEF t
<1>5. CASE b.kind = "literal"
  <2>1. Bind(b).value = {b.literal} /\ TypedValue(b.literal) /\ LiteralAssignable(b.literal, t)
    BY <1>1, <1>2, <1>5, LiteralIsFound
  <2>2. Inputs[n] = b.literal
    BY <1>1, <2>1
  <2>3. ~LeftOut(n) => t[<<>>].type = "string" \/ t[<<>>].enum = {}
    BY <1>5 DEF LeftOut
  <2>4. b.kind = "literal"
    BY <1>5
  <2> HIDE DEF b, t
  <2>5. ~LeftOut(n) => Conforms(b.literal, t)
    BY <1>3, <2>1, <2>3, <2>4, LiteralSound
  <2> QED
    BY <1>3, <2>1, <2>2, <2>5 DEF t
<1> QED
  BY <1>3, <1>4, <1>5 DEF IsBinding

(* What the gate has gathered: an object of typed values that has the      *)
(* properties that are bound.                                              *)
LEMMA GatheredIs ==
  ASSUME InputsInv, stage \in BoundStages
  PROVE  /\ bound = Object(Map, Inputs) /\ DOMAIN Inputs = Filled /\ Filled \subseteq Names
         /\ \A n \in Filled : DOMAIN Inputs[n] \subseteq Seq(Parts) /\ <<>> \in DOMAIN Inputs[n]
         /\ Properties(bound, <<>>) = Filled
<1>1. bound = Object(Map, Inputs) /\ DOMAIN Inputs = Filled
  BY DEF InputsInv, Gathered, Inputs
<1>2. /\ Filled \subseteq Names
      /\ \A n \in Filled : DOMAIN Inputs[n] \subseteq Seq(Parts) /\ <<>> \in DOMAIN Inputs[n]
  BY InputConforms DEF TypedValue
<1>3. Properties(Object(Map, Inputs), <<>>) = {n \in Filled : <<>> \in DOMAIN Inputs[n]}
  BY <1>1, <1>2, ObjectProperties
<1> QED
  BY <1>1, <1>2, <1>3

(* The object that is bound conforms when each of its fields does.         *)
LEMMA BoundConforms ==
  ASSUME InputsInv, stage \in BoundStages, \A n \in DOMAIN wf.with : ~LeftOut(n)
  PROVE  Conforms(bound, wf.input)
<1>1. /\ bound = Object(Map, Inputs) /\ DOMAIN Inputs = Filled /\ Filled \subseteq Names
      /\ \A n \in Filled : DOMAIN Inputs[n] \subseteq Seq(Parts)
      /\ Properties(bound, <<>>) = Filled
  BY GatheredIs
<1>2. /\ bound[<<>>] = Map
      /\ \A n \in Filled : \A r \in DOMAIN Inputs[n] : bound[Behind(n, r)] = Inputs[n][r]
      /\ \A q \in DOMAIN bound : q # <<>> => \E n \in Filled : \E r \in DOMAIN Inputs[n] : q = Behind(n, r)
  BY <1>1, ObjectIs
<1>3. \A n \in Filled : \A r \in DOMAIN Inputs[n] : Properties(bound, Behind(n, r)) = Properties(Inputs[n], r)
  BY <1>1, ObjectProperties
<1>4. /\ IsSchema(wf.input) /\ TypedSchema(wf.input) /\ ValidSchema(wf.input)
      /\ wf.input[<<>>].type = "object"
  BY WorkflowIs DEF InputsInv, Passed, SchemasValid, BindingsValid, BoundStages
<1>5. ASSUME NEW q \in DOMAIN bound
      PROVE  Place(q) \in DOMAIN wf.input /\ LevelConforms(bound, q, wf.input[Place(q)])
  <2>1. CASE q = <<>>
    <3>1. <<>> \in DOMAIN wf.input /\ Place(<<>>) = <<>>
      BY <1>4, PlaceOfPath, EmptySeq DEF IsSchema, Tree
    <3>2. wf.input[<<>>].enum = {}
      BY <1>4, <3>1, ValidType
    <3>3. wf.input[<<>>].required \subseteq Properties(bound, <<>>)
      BY <1>1, RequiredIsFilled
    <3>4. LevelConforms(bound, <<>>, wf.input[<<>>])
      BY <1>2, <1>4, <3>2, <3>3 DEF LevelConforms, Numeric
    <3> QED
      BY <2>1, <3>1, <3>4
  <2>2. CASE q # <<>>
    <3>1. PICK n \in Filled : \E r \in DOMAIN Inputs[n] : q = Behind(n, r)
      BY <1>2, <2>2
    <3>2. PICK r \in DOMAIN Inputs[n] : q = Behind(n, r)
      BY <3>1
    <3> DEFINE p == <<Field(n)>>
               t == At(wf.input, p)
    <3>3. n \in DOMAIN wf.with /\ stage \in OpenedStages /\ r \in Seq(Parts)
      BY <1>1 DEF Filled, OpenedStages
    <3>4. p \in Seq(Fields) /\ p \in Seq(Parts)
      BY <3>3, BindingHeld
    <3>5. Conforms(Inputs[n], t)
      BY <3>3, InputConforms
    <3>6. q = p \o r
      BY <3>2 DEF Behind
    <3> HIDE DEF p, t
    <3>7. Place(q) = p \o Place(r)
      BY <3>3, <3>4, <3>6, PlaceBelow
    <3>8. Place(r) \in DOMAIN t /\ LevelConforms(Inputs[n], r, t[Place(r)])
      BY <3>5 DEF Conforms
    <3>9. Place(r) \in Seq(Parts)
      BY <3>3, PlaceIs
    <3>10. p \o Place(r) \in DOMAIN wf.input /\ t[Place(r)] = wf.input[p \o Place(r)]
      <4>1. /\ \A x \in Seq(Parts) : x \in DOMAIN t <=> p \o x \in DOMAIN wf.input
            /\ \A x \in DOMAIN t : t[x] = wf.input[p \o x]
        BY <1>4, <3>4, AtIs DEF t, TypedSchema
      <4> QED
        BY <3>8, <3>9, <4>1
    <3>11. bound[q] = Inputs[n][r] /\ Properties(bound, q) = Properties(Inputs[n], r)
      BY <1>2, <1>3, <3>2
    <3>12. LevelConforms(bound, q, wf.input[Place(q)])
      BY <3>7, <3>8, <3>10, <3>11 DEF LevelConforms
    <3> QED
      BY <3>7, <3>10, <3>12
  <2> QED
    BY <2>1, <2>2
<1> QED
  BY <1>5 DEF Conforms

(* The invariant implies that what is required is bound.                   *)
LEMMA InvRequired == InputsInv => RequiredIsBound
<1> SUFFICES ASSUME InputsInv PROVE RequiredIsBound
  OBVIOUS
<1>1. ASSUME stage = "failed"
      PROVE  \E n \in DOMAIN wf.with :
               wf.with[n].kind = "output" /\ wf.with[n].step \notin wf.needs[Consumer]
  <2>1. stage \in OpenedStages /\ \E n \in DOMAIN wf.with : ~Bind(wf.with[n]).ok
    BY <1>1 DEF InputsInv, Gathered, OpenedStages
  <2> QED
    BY <2>1, FailsForAStranger
<1>2. ASSUME stage \in BoundStages
      PROVE  wf.input[<<>>].required \subseteq Properties(bound, <<>>)
  BY <1>2, GatheredIs, RequiredIsFilled
<1> QED
  BY <1>1, <1>2 DEF RequiredIsBound, BoundStages

(* The invariant implies that only what is left out is refused.            *)
LEMMA InvSound == InputsInv => AssignableIsSound
<1> SUFFICES ASSUME InputsInv, stage = "rejected" PROVE \E n \in DOMAIN wf.with : LeftOut(n)
  BY DEF AssignableIsSound
<1>1. ~Conforms(bound, wf.input) /\ stage \in BoundStages
  BY DEF InputsInv, Rejected, BoundStages
<1> QED
  BY <1>1, BoundConforms

(* Whatever is submitted and answered: what admission accepts, the gate    *)
(* binds, but for a step that the consumer does not itself need            *)
(* (outputPathSchema against bindStepInputs).                              *)
THEOREM BindsWhatIsRequired == InputsSpec => []RequiredIsBound
<1>1. InputsSpec => []InputsInv
  BY InputsInvInit, InputsInvNext, PTL DEF InputsSpec
<1> QED
  BY <1>1, InvRequired, PTL

(* Whatever the schemas, how deep they are and what is answered: a step is *)
(* refused its inputs for nothing but what assignable does not compare     *)
(* (assignable, literalAssignable against toJSONSchema).                   *)
THEOREM AssignableConforms == InputsSpec => []AssignableIsSound
<1>1. InputsSpec => []InputsInv
  BY InputsInvInit, InputsInvNext, PTL DEF InputsSpec
<1> QED
  BY <1>1, InvSound, PTL
=============================================================================
