\* Every admitted graph of four steps and up to four needs, one step retried.
CONSTANTS
  yes = yes  no = no  None = None  any = any
  N = 4  MaxNeeds = 4
  Steps <- StepsDef
  Outcomes = {yes, no}
  Enum <- EnumDef
  Workflows <- WorkflowsDef
  MaxConcurrency = 2
  MaxAttempts <- AttemptsDef
SPECIFICATION FairSpec
INVARIANTS
  TypeOK
  AtMostOneTerminal
  RunsOnTakenBranch
  UnrunWasSkipped
  ChainsSelectOne
PROPERTY
  RunEnds
CHECK_DEADLOCK FALSE
