----------------------------- MODULE MCAgentRun -----------------------------
(* A chat agent over a chain of two.                                       *)
EXTENDS AgentRun

AgentsDef    == {"lead", "mid", "leaf"}
SubagentsDef == [lead |-> {"mid"}, mid |-> {"leaf"}, leaf |-> {}]
NamesDef     == [lead |-> {"files.write"}, mid |-> {"files.write"}, leaf |-> {"files.write"}]
LimitsDef    == [lead |-> [MaxModelCalls |-> 2, MaxToolCalls |-> 2, MaxParallelCalls |-> 1],
                 mid  |-> [MaxModelCalls |-> 2, MaxToolCalls |-> 2, MaxParallelCalls |-> 1],
                 leaf |-> [MaxModelCalls |-> 1, MaxToolCalls |-> 1, MaxParallelCalls |-> 1]]
=============================================================================
