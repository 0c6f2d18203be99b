---------------------------- MODULE MCStepInputs ----------------------------
(* Every pair of small schemas, bound in every way a binding can be.       *)
EXTENDS StepInputs

Leaf(level) == [p \in {<<>>} |-> level]
Text(max, enum) == Leaf([Schema("string") EXCEPT !.maxLength = max, !.enum = enum])
Number(type, min, max) == Leaf([Schema(type) EXCEPT !.minimum = min, !.maximum = max])
Array(item, max) ==
  [p \in {<<>>} \cup {<<Items>> \o q : q \in DOMAIN item} |->
     IF p = <<>> THEN [Schema("array") EXCEPT !.maxItems = max] ELSE item[Tail(p)]]
Record(properties, required) == Object([Schema("object") EXCEPT !.required = required], properties)

Strings == {Text(1, {}), Text(3, {}), Text(0, {"a"}), Text(0, {"a", "abc"}), Text(1, {"a"}), Text(-1, {"abc"}), Text(0, {})}
Simple  == Strings \cup {Leaf(Schema("boolean")), Leaf([Schema("integer") EXCEPT !.enum = {"a"}])} \cup
           {Number(t, min, max) : t \in Numeric, min \in {{}, {0}, {2}}, max \in {{}, {1}, {2}}}
Objects == {Record([p |-> s], r) : s \in {Text(1, {}), Text(3, {}), Leaf(Schema("integer"))}, r \in SUBSET {"p"}} \cup
           {Record([p |-> s, q |-> Text(3, {})], r) :
              s \in {Text(1, {}), Leaf(Schema("integer"))}, r \in SUBSET {"p", "q"}}
Schemas == Simple \cup Objects \cup {Array(s, max) : s \in {Text(1, {}), Text(3, {})}, max \in 0..2}

List(elements) ==
  [q \in {<<>>} \cup {<<Element(i)>> : i \in 1..Len(elements)} |->
     IF q = <<>> THEN [items |-> Len(elements)] ELSE elements[q[1][2]][<<>>]]

Texts   == {Leaf([text |-> t]) : t \in {"a", "abc"}}
Numbers == {Leaf([number |-> n]) : n \in 0..2}
Flag    == Leaf([flag |-> TRUE])
Leaves  ==
  Texts \cup Numbers \cup {Flag} \cup
  {List(i) : i \in UNION {[1..n -> Texts] : n \in 0..2}} \cup
  {Object(Map, f) : f \in UNION {[d -> Texts \cup {Leaf([number |-> 2])}] : d \in SUBSET {"p", "q"}}}
Outcome == Leaf([text |-> "ok"])
NamesDef == {"p", "q", "in", "x", "out", "outcome"}
ValuesDef ==
  Leaves \cup {Object(Map, [outcome |-> Outcome])} \cup
  {Object(Map, [outcome |-> Outcome, out |-> v]) : v \in Leaves}

Output(s, required) ==
  Record([outcome |-> Text(0, {"ok"}), out |-> s], {"outcome"} \cup required)
Plain == Record([outcome |-> Text(0, {"ok"})], {"outcome"})

None == [kind |-> "none", input |-> "", step |-> "", path |-> <<>>, optional |-> FALSE, literal |-> Outcome]
FromInput(name)  == [None EXCEPT !.kind = "input", !.input = name]
FromOutput(step, path, optional) ==
  [None EXCEPT !.kind = "output", !.step = step, !.path = path, !.optional = optional]
Literal(v) == [None EXCEPT !.kind = "literal", !.literal = v]

Needs(consumer) == [first |-> {}, second |-> {"first"}, consumer |-> consumer]
Workflow(inputs, s, required, needs, target, wanted, binding) ==
  [inputs |-> inputs, outputs |-> [first |-> Output(s, required), second |-> Plain],
   needs |-> Needs(needs), input |-> Record([x |-> target], wanted), with |-> [x |-> binding]]

Path == <<Field("out")>>
Deep == <<Field("out"), Field("p")>>
Bindings == {FromInput("in")} \cup {FromOutput("first", path, o) : path \in {Path, Deep}, o \in BOOLEAN}

(* All pairs of schemas; the steps that may be bound; literals.            *)
WorkflowsDef ==
  {Workflow([in |-> s], s, r, {"first"}, t, w, b) :
     s \in Schemas, t \in Schemas, r \in {{}, {"out"}}, w \in {{}, {"x"}}, b \in Bindings} \cup
  {Workflow(<<>>, Text(1, {}), {"out"}, needs, Text(1, {}), {"x"}, b) :
     needs \in SUBSET {"first", "second"},
     b \in {FromInput("in")} \cup {FromOutput(step, Path, FALSE) : step \in {"first", "second", Consumer}}} \cup
  {Workflow(<<>>, Text(1, {}), {}, {}, t, {}, Literal(v)) :
     t \in {Text(1, {}), Text(0, {"a"}), Leaf(Schema("boolean")), Number("integer", {}, {1}), Number("number", {1}, {}),
             Leaf([Schema("integer") EXCEPT !.enum = {"a"}])},
     v \in Texts \cup Numbers \cup {Flag}} \cup
  {[Workflow(<<>>, Text(1, {}), {}, {}, Text(1, {}), w, None) EXCEPT !.with = <<>>] : w \in {{}, {"x"}}}
=============================================================================
