\* Pairs of schemas, bound from an input, an output, a path or a literal.
CONSTANTS
  Names <- NamesDef
  Workflows <- WorkflowsDef
  Values <- ValuesDef
SPECIFICATION InputsSpec
INVARIANTS
  RequiredIsBound
  AssignableIsSound
CHECK_DEADLOCK FALSE
