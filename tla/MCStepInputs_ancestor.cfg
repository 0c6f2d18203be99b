\* A binding of a step the consumer depends on.
CONSTANTS
  Names <- NamesDef
  Workflows <- WorkflowsDef
  Values <- ValuesDef
SPECIFICATION InputsSpec
INVARIANT AncestorsCanBeBound
CHECK_DEADLOCK FALSE
