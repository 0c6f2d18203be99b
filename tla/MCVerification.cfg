\* The bundles of two runs arriving in any order, and every publisher of the instance.
CONSTANTS
  MaxAdmission = 6
  Staged <- StagedDef
  Policies <- PoliciesDef
  Currents <- CurrentsDef
  Heads = {"c1", "c2"}
  Now = {2, 3}
  MaxCopies = 2
SPECIFICATION Spec
INVARIANTS
  PublishesItsOwn
  FreshEvidence
  RefusedForCause
CHECK_DEADLOCK FALSE
