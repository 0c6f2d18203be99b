----------------------------- MODULE StepInputs -----------------------------
(***************************************************************************)
(* The typed inputs of a step: what admission checks of its bindings       *)
(* (internal/plan/schema.go, plan.go compileBindings), and what the run    *)
(* then binds (internal/compiler compiler.go, node.go).  A workflow has    *)
(* steps that answer any value of their output schema and a last step,     *)
(* Consumer, whose inputs are bound to workflow inputs, to the outputs of  *)
(* other steps and to literals.  Numbers are counted in halves.            *)
(*                                                                         *)
(* A schema and a value are trees: functions from the places in them to    *)
(* what is there, a place being the sequence of the fields and items that  *)
(* lead to it.  What the code finds by recursion, level by level, is said  *)
(* here of every place.                                                    *)
(***************************************************************************)
EXTENDS Integers, Sequences, Reachability

CONSTANTS
  Names,      \* of properties, inputs and fields
  Workflows,  \* what is submitted
  Values      \* JSON values a caller or a model may answer

Consumer == "consumer"

VARIABLES
  wf,       \* [inputs, outputs, needs, input, with]
  stage,
  given,    \* the workflow's inputs
  outputs,  \* [step -> output], of the steps that are done
  bound     \* the consumer's inputs

inputVars == <<wf, stage, given, outputs, bound>>

-----------------------------------------------------------------------------

(* The parts of a place; an item of a schema is that of every element.     *)
Field(name) == <<"field", name>>
Element(i)  == <<"item", i>>
Items       == Element(0)

Fields == {"field"} \X Names
Parts  == Fields \cup {"item"} \X Nat

Tree(t) ==
  /\ DOMAIN t \subseteq Seq(Parts) /\ <<>> \in DOMAIN t
  /\ \A p \in DOMAIN t : \A n \in 0..Len(p) : SubSeq(p, 1, n) \in DOMAIN t

Properties(t, p) == {name \in Names : Append(p, Field(name)) \in DOMAIN t}

(* What is below a place.                                                  *)
Below(t, p) ==
  {SubSeq(q, Len(p) + 1, Len(q)) : q \in {q \in DOMAIN t : Len(p) <= Len(q) /\ SubSeq(q, 1, Len(p)) = p}}
At(t, p) == [q \in Below(t, p) |-> t[p \o q]]

(* The object with these fields; root is what is said of itself.           *)
Behind(name, p) == <<Field(name)>> \o p
Object(root, fields) ==
  [q \in {<<>>} \cup UNION {{Behind(name, r) : r \in DOMAIN fields[name]} : name \in DOMAIN fields} |->
     IF q = <<>> THEN root ELSE fields[Head(q)[2]][Tail(q)]]

(* One level of a schema; a bound that is absent is an empty set.  What is *)
(* decoded may be negative.                                                *)
Schema(type) ==
  [type |-> type, required |-> {}, maxLength |-> 0, maxItems |-> 0, enum |-> {}, minimum |-> {}, maximum |-> {}]

Numeric == {"integer", "number"}
Types   == Numeric \cup {"object", "array", "string", "boolean"}

TypedSchemaLevel(level) ==
  /\ level.maxLength \in Int /\ level.maxItems \in Int
  /\ level.minimum \subseteq Int /\ level.maximum \subseteq Int

IsSchema(s) ==
  /\ Tree(s)
  /\ \A p \in DOMAIN s : TypedSchemaLevel(s[p])

(* One level of a value: [text], [number], [flag], [items], a length, or   *)
(* a map.                                                                  *)
Map == [map |-> TRUE]

TypedValueLevel(level) ==
  /\ "text" \in DOMAIN level => Len(level.text) \in Nat
  /\ "number" \in DOMAIN level => level.number \in Int
  /\ "items" \in DOMAIN level => level.items \in Nat

IsValue(v) ==
  /\ Tree(v)
  /\ \A p \in DOMAIN v : TypedValueLevel(v[p])

(* A binding has one of three kinds, and a literal is a YAML scalar.       *)
IsBinding(b) ==
  /\ b.kind \in {"input", "output", "literal"}
  /\ b.path \in Seq(Fields)
  /\ b.kind = "literal" =>
       /\ IsValue(b.literal) /\ DOMAIN b.literal = {<<>>}
       /\ \E kind \in {"text", "flag", "number"} : DOMAIN b.literal[<<>>] = {kind}

ASSUME InputsAssumption ==
  /\ \A v \in Values : IsValue(v)
  /\ \A w \in Workflows :
       /\ IsSchema(w.input)
       /\ DOMAIN w.inputs \subseteq Names
       /\ \A i \in DOMAIN w.inputs : IsSchema(w.inputs[i])
       /\ \A s \in DOMAIN w.outputs : IsSchema(w.outputs[s])
       /\ \A n \in DOMAIN w.with : IsBinding(w.with[n])

-----------------------------------------------------------------------------

(* validateSchema: a field of another type is refused, but for the enum of *)
(* an array or a number.                                                   *)
ValidShape(s, p) ==
  LET level == s[p] hasItems == Append(p, Items) \in DOMAIN s IN
  /\ level.type \in Types
  /\ level.type # "object" => Properties(s, p) = {}
  /\ level.type # "array"  => ~hasItems /\ level.maxItems = 0
  /\ level.type # "string" => level.maxLength = 0
  /\ CASE level.type = "object"  -> /\ level.enum = {} /\ level.minimum = {} /\ level.maximum = {}
                                    /\ level.required \subseteq Properties(s, p)
       [] level.type = "array"   -> hasItems /\ level.maxItems > 0
       [] level.type = "string"  -> level.maxLength > 0 \/ level.enum # {}
       [] level.type \in Numeric -> \A a \in level.minimum, b \in level.maximum : a <= b
       [] level.type = "boolean" -> level.minimum = {} /\ level.maximum = {} /\ level.enum = {}

(* compileSchema                                                           *)
ValidSchema(s) == \A p \in DOMAIN s : ValidShape(s, p)

(* validateOutcome                                                         *)
ValidOutcome(s) ==
  /\ s[<<>>].type = "object" /\ "outcome" \in s[<<>>].required
  /\ s[<<Field("outcome")>>].type = "string" /\ s[<<Field("outcome")>>].enum # {}

WithinNumericBounds(n, level) == (\A a \in level.minimum : n >= a) /\ (\A b \in level.maximum : n <= b)

(* What a validator answers of a value under toJSONSchema: objects are     *)
(* closed, and an enum holds strings whatever the type is.                 *)
LevelConforms(v, q, level) ==
  /\ level.enum # {} => "text" \in DOMAIN v[q] /\ v[q].text \in level.enum
  /\ level.type = "string" =>
       /\ "text" \in DOMAIN v[q]
       /\ level.maxLength > 0 => Len(v[q].text) <= level.maxLength
  /\ level.type \in Numeric =>
       /\ "number" \in DOMAIN v[q]
       /\ level.type = "integer" => v[q].number % 2 = 0
       /\ WithinNumericBounds(v[q].number, level)
  /\ level.type = "boolean" => "flag" \in DOMAIN v[q]
  /\ level.type = "array"   => "items" \in DOMAIN v[q] /\ v[q].items <= level.maxItems
  /\ level.type = "object"  => v[q] = Map /\ level.required \subseteq Properties(v, q)

(* Where the schema speaks of a place in a value.                          *)
Place(q) == [i \in 1..Len(q) |-> IF q[i][1] = "item" THEN Items ELSE q[i]]

Conforms(v, s) == \A q \in DOMAIN v : Place(q) \in DOMAIN s /\ LevelConforms(v, q, s[Place(q)])

-----------------------------------------------------------------------------

StringAssignable(source, target) ==
  /\ target.maxLength > 0 => source.maxLength <= target.maxLength
  /\ target.enum # {} => source.enum # {} /\ source.enum \subseteq target.enum

NumericAssignable(source, target) ==
  /\ \A a \in target.minimum : \E b \in source.minimum : b >= a
  /\ \A a \in target.maximum : \E b \in source.maximum : b <= a

(* Mutant: a property may be required by the target only.                  *)
BugRequiresTheSame(source, target) == TRUE

RequiresTheSame(source, target) == target.required \subseteq source.required

LevelAssignable(source, target) ==
  /\ source.type = target.type \/ (source.type = "integer" /\ target.type = "number")
  /\ source.type = "string"  => StringAssignable(source, target)
  /\ source.type = "array"   => target.maxItems = 0 \/ source.maxItems <= target.maxItems
  /\ source.type = "object"  => RequiresTheSame(source, target)
  /\ source.type \in Numeric => NumericAssignable(source, target)

(* assignable, of valid schemas: the properties and the items of the target*)
(* are among those of the source.                                          *)
Assignable(source, target) ==
  \A p \in DOMAIN target : p \in DOMAIN source /\ LevelAssignable(source[p], target[p])

(* A literal is a YAML scalar.                                             *)
LiteralAssignable(literal, s) ==
  LET v == literal[<<>>] level == s[<<>>] IN
  CASE "text" \in DOMAIN v   -> /\ level.type = "string"
                                /\ level.maxLength = 0 \/ Len(v.text) <= level.maxLength
                                /\ level.enum = {} \/ v.text \in level.enum
    [] "flag" \in DOMAIN v   -> level.type = "boolean"
    [] "number" \in DOMAIN v -> /\ level.type = "number" \/ (level.type = "integer" /\ v.number % 2 = 0)
                                /\ WithinNumericBounds(v.number, level)

(* The property that a part of a path names is required where it is found. *)
RequiredAt(output, path, i) == path[i][2] \in output[SubSeq(path, 1, i - 1)].required

(* Mutant: only the last property of a path must be required.              *)
BugPathRequired(output, path) == path # <<>> => RequiredAt(output, path, Len(path))

(* A path is required when every property on it is.                        *)
PathRequired(output, path) == \A i \in 1..Len(path) : RequiredAt(output, path, i)

(* outputPathSchema: only objects have properties.                         *)
OutputPathSchema(output, path) ==
  IF path \in DOMAIN output
  THEN [found |-> TRUE, required |-> PathRequired(output, path), schema |-> At(output, path)]
  ELSE [found |-> FALSE, required |-> FALSE, schema |-> output]

(* compileBindings                                                         *)
BindingValid(name, b) ==
  /\ name \in Properties(wf.input, <<>>)
  /\ LET target == At(wf.input, <<Field(name)>>) IN
     CASE b.kind = "input"   -> b.input \in DOMAIN wf.inputs /\ Assignable(wf.inputs[b.input], target)
       [] b.kind = "output"  ->
            /\ b.step \in DOMAIN wf.outputs
            /\ Reaches(wf.needs, Consumer, b.step)
            /\ LET source == OutputPathSchema(wf.outputs[b.step], b.path) IN
                 /\ source.found /\ Assignable(source.schema, target)
                 /\ IF b.optional THEN name \notin wf.input[<<>>].required ELSE source.required
       [] b.kind = "literal" -> LiteralAssignable(b.literal, target)

BindingsValid ==
  /\ wf.input[<<>>].type = "object"
  /\ \A name \in DOMAIN wf.with : BindingValid(name, wf.with[name])
  /\ wf.input[<<>>].required \subseteq DOMAIN wf.with

SchemasValid ==
  /\ \A i \in DOMAIN wf.inputs : ValidSchema(wf.inputs[i])
  /\ \A s \in DOMAIN wf.outputs : ValidSchema(wf.outputs[s]) /\ ValidOutcome(wf.outputs[s])
  /\ ValidSchema(wf.input)

-----------------------------------------------------------------------------

Nothing == Object(Map, <<>>)

InputsInit ==
  /\ wf \in Workflows
  /\ stage = "submitted"
  /\ given = Nothing /\ outputs = <<>> /\ bound = Nothing

Compile ==
  /\ stage = "submitted"
  /\ stage' = IF SchemasValid /\ BindingsValid THEN "admitted" ELSE "refused"
  /\ UNCHANGED <<wf, given, outputs, bound>>

(* workflowInputsSchema: every workflow input is required.                 *)
WorkflowInputsSchema ==
  Object([Schema("object") EXCEPT !.required = DOMAIN wf.inputs], wf.inputs)

(* ValidateInputs                                                          *)
Supply ==
  /\ stage = "admitted"
  /\ \E v \in [DOMAIN wf.inputs -> Values] \cup {<<>>} :
       /\ given' = Object(Map, v)
       /\ stage' = IF Conforms(given', WorkflowInputsSchema) THEN "running" ELSE "refused"
  /\ UNCHANGED <<wf, outputs, bound>>

Waiting(s) == s \notin DOMAIN outputs /\ wf.needs[s] \subseteq DOMAIN outputs

(* The node of a step fails when its output does not conform.              *)
Finish(s) ==
  /\ stage = "running" /\ s \in DOMAIN wf.outputs /\ Waiting(s)
  /\ \E v \in Values :
       /\ Conforms(v, wf.outputs[s])
       /\ outputs' = [x \in DOMAIN outputs \cup {s} |-> IF x = s THEN v ELSE outputs[x]]
  /\ UNCHANGED <<wf, stage, given, bound>>

(* bindStepInputs: what a binding finds at the gate.  The predecessors of a*)
(* step are its needs.                                                     *)
Absent == [ok |-> TRUE, value |-> {}]
Failed == [ok |-> FALSE, value |-> {}]
Found(v) == [ok |-> TRUE, value |-> {v}]

(* The path ends at the first of its parts that is not found, and a part   *)
(* is looked for in a map only.                                            *)
FollowPath(output, path, optional) ==
  IF path \in DOMAIN output THEN Found(At(output, path))
  ELSE LET met == {n \in 0..Len(path) : SubSeq(path, 1, n) \in DOMAIN output} IN
       IF optional /\ \A n \in met : output[SubSeq(path, 1, n)] = Map THEN Absent ELSE Failed

Bind(b) ==
  CASE b.kind = "input"   -> IF b.input \in Properties(given, <<>>)
                             THEN Found(At(given, <<Field(b.input)>>)) ELSE Failed
    [] b.kind = "output"  -> IF b.step \in wf.needs[Consumer]
                             THEN FollowPath(outputs[b.step], b.path, b.optional) ELSE Failed
    [] b.kind = "literal" -> Found(b.literal)

(* newInputGate behind the join of the consumer's needs.                   *)
Gate ==
  /\ stage = "running" /\ wf.needs[Consumer] \subseteq DOMAIN outputs
  /\ LET at == [n \in DOMAIN wf.with |-> Bind(wf.with[n])]
         present == {n \in DOMAIN at : at[n].value # {}}
     IN  IF \A n \in DOMAIN at : at[n].ok
         THEN /\ bound' = Object(Map, [n \in present |-> CHOOSE v \in at[n].value : TRUE])
              /\ stage' = "bound"
         ELSE stage' = "failed" /\ UNCHANGED bound
  /\ UNCHANGED <<wf, given, outputs>>

(* NewAgentNodeWithSchemas validates the inputs of the node.               *)
Enter ==
  /\ stage = "bound"
  /\ stage' = IF Conforms(bound, wf.input) THEN "entered" ELSE "rejected"
  /\ UNCHANGED <<wf, given, outputs, bound>>

InputsNext == Compile \/ Supply \/ (\E s \in DOMAIN wf.outputs : Finish(s)) \/ Gate \/ Enter
InputsSpec == InputsInit /\ [][InputsNext]_inputVars

-----------------------------------------------------------------------------

(* The schema of what a binding is bound to.                               *)
SourceOf(b) ==
  IF b.kind = "input" THEN wf.inputs[b.input] ELSE OutputPathSchema(wf.outputs[b.step], b.path).schema

(* What assignable does not compare: the strings of an enum with a length, *)
(* the properties of a source that a closed target has not, and an enum of *)
(* a type that is no string.                                               *)
LevelUncompared(source, target) ==
  \/ target.type = "string" /\ target.maxLength > 0 /\ source.maxLength <= 0
  \/ target.type # "string" /\ target.enum # {}

Uncompared(source, target) ==
  \E p \in DOMAIN source : p \notin DOMAIN target \/ LevelUncompared(source[p], target[p])

(* What admission accepts binds: a gate fails for a step that the consumer *)
(* depends on and does not itself need, and for no property that a path    *)
(* does not find, and what is bound is all the consumer requires           *)
(* (outputPathSchema against bindStepInputs).                              *)
RequiredIsBound ==
  /\ stage = "failed" => \E n \in DOMAIN wf.with :
       wf.with[n].kind = "output" /\ wf.with[n].step \notin wf.needs[Consumer]
  /\ stage \in {"bound", "entered", "rejected"} => wf.input[<<>>].required \subseteq Properties(bound, <<>>)

(* What admission leaves out of the input that is bound to a property.     *)
LeftOut(n) ==
  LET b == wf.with[n] target == At(wf.input, <<Field(n)>>) IN
  IF b.kind = "literal" THEN target[<<>>].type # "string" /\ target[<<>>].enum # {}
                        ELSE Uncompared(SourceOf(b), target)

(* A value of the source is a value of the target: a step is refused its   *)
(* inputs at run time for nothing but what assignable leaves out           *)
(* (compileBindings, assignable against toJSONSchema).                     *)
AssignableIsSound == stage = "rejected" => \E n \in DOMAIN wf.with : LeftOut(n)

(* README.md: a binding is a workflow input, an ancestor output property   *)
(* path, or a literal.  The gate knows the outputs of the direct needs.    *)
AncestorsCanBeBound == stage # "failed"

(* ADR 006: source and target schemas are structurally assignable.         *)
BoundInputsConform == stage # "rejected"
=============================================================================
