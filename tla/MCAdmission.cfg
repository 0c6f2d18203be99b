\* Every configuration, workflow and control evidence of the instance.
CONSTANTS
  MaxAdmission = 6
  Configs <- ConfigsDef
  Workflows <- WorkflowsDef
  Evidences <- EvidencesDef
  Now = {2}
SPECIFICATION Spec
INVARIANTS
  MutationNeedsTrust
  
  UnsafeIsSequential
  PublishesWhatItAuthors
CHECK_DEADLOCK FALSE
