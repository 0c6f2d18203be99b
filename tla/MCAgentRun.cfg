\* An agent tree whose agents may all write, under one and two workers.
CONSTANTS
  Root = "lead"
  Agents <- AgentsDef
  Subagents <- SubagentsDef
  Names <- NamesDef
  Limits <- LimitsDef
  RunToolCalls = 3
  RunModelCalls = 2
  Parallel = {1, 2}
  Batch = 2
SPECIFICATION FairSpec
INVARIANTS
  ChildCallsBounded
  SequentialRunIsAlone
PROPERTY RunEnds
CHECK_DEADLOCK FALSE
