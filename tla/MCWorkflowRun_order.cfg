\* Two conditions shared by two terminal pairs.
CONSTANTS
  yes = yes  no = no  None = None  any = any
  N = 3  MaxNeeds = 3
  Steps <- StepsDef
  Outcomes = {yes, no}
  Enum <- EnumDef
  Workflows <- WorkflowsDef
  MaxConcurrency = 2
  MaxAttempts <- AttemptsDef
SPECIFICATION Spec
INVARIANT
  AdmissionIsDeterministic
CHECK_DEADLOCK FALSE
