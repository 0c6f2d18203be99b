---------------------------- MODULE MCAdmission ----------------------------
(* Configurations, workflows and control evidence for Admission.  The      *)
(* times are hours.                                                        *)
EXTENDS Admission

Unlimited == [Timeout |-> 2, MaxIterations |-> 3, MaxModelCalls |-> 2, MaxToolCalls |-> 2,
              MaxConcurrency |-> 2, MaxParallelCalls |-> 2, MaxArtifactBytes |-> 0]
Inherit  == [f \in RunFields |-> 0]
Serial   == [Inherit EXCEPT !.MaxParallelCalls = 1]
Wider    == [Inherit EXCEPT !.MaxParallelCalls = 3]

OneCall  == [MaxCalls |-> 1, Timeout |-> 5, MaxRequestBytes |-> 1024, MaxResultBytes |-> 4096]
Trusted(catalog) == [t \in catalog |-> IF t \in M3Tools THEN OneCall ELSE [OneCall EXCEPT !.MaxCalls = 2]]

Policy == [id |-> "m3", contexts |-> MayMutate, capabilities |-> GrantCapabilities \cup StagedCapabilities,
           operationSets |-> {"conversation-reply", "branch-pr"}, workspace |-> "tree"]

Plain == [m3 |-> FALSE, policy |-> Policy, evidenceDirectory |-> TRUE, ceiling |-> <<"*">>,
          profiles |-> [look |-> <<"files.*">>], toolLimits |-> Trusted(BuiltinCatalog),
          bindings |-> [files |-> "tree", git |-> "tree", shell |-> "tree"],
          workspaces |-> [tree |-> "read", notes |-> "read"], models |-> {"default"}]
Full  == [Plain EXCEPT !.m3 = TRUE, !.toolLimits = Trusted(Catalog(TRUE)),
                       !.workspaces = [tree |-> "write", notes |-> "read"]]

ConfigsDef ==
  {Plain, Full,
   [Plain EXCEPT !.workspaces.tree = "write"],
   [Plain EXCEPT !.ceiling = <<"files.*", "git.read.*">>],
   [Full EXCEPT !.workspaces.notes = "write"],
   [Full EXCEPT !.policy.contexts = {"scheduled", "local"}],
   [Full EXCEPT !.policy.capabilities = {"workspace.mutate", "git.mutate", "git.publish"}],
   [Full EXCEPT !.policy.operationSets = {"conversation-reply"}],
   [Full EXCEPT !.ceiling = <<"files.read", "shell.run">>],
   [Full EXCEPT !.toolLimits["git.write.commit"].MaxCalls = 2],
   [Full EXCEPT !.toolLimits = Trusted({"files.read", "files.write", "git.write.commit"})]}

At(repository, sha) == [repository |-> repository, ref |-> "main", sha |-> sha]
Event(name, kind, head) ==
  [name |-> name, subject |-> [kind |-> kind, number |-> IF kind = "none" THEN 0 ELSE 1],
   base |-> At("own", "c1"), head |-> head]
Local == [parses |-> TRUE, version |-> 1, spelled |-> TRUE, source |-> "local", repository |-> "own",
          event |-> NoEvent, run |-> NoRun, operator |-> TRUE, checkout |-> [ref |-> "main", sha |-> "c1"],
          id |-> "m3", key |-> "k", issued |-> 1, expires |-> 3]
GitHub(name, kind, head) ==
  [Local EXCEPT !.source = "github", !.operator = FALSE, !.run = [id |-> 1, attempt |-> 1],
                !.event = Event(name, kind, head)]
EvidencesDef ==
  {GitHub(n, k, At(r, s)) : n \in {"pull_request", "schedule", "push", "issues"},
                            k \in {"none", "issue", "pull_request"},
                            r \in {"own", "fork"}, s \in {"c1"}} \cup
  {GitHub("workflow_dispatch", "none", At("own", "c2")),
   Local, [Local EXCEPT !.parses = FALSE], [Local EXCEPT !.expires = 1],
   [Local EXCEPT !.issued = 3, !.expires = 4], [Local EXCEPT !.id = "other"],
   [Local EXCEPT !.issued = 0, !.expires = 9],
   [GitHub("push", "none", At("own", "c1")) EXCEPT !.checkout.sha = "c2"]}

Select(add)    == [from |-> "empty", addProfiles |-> <<>>, add |-> add, removeProfiles |-> <<>>, remove |-> <<>>]
Parent(remove) == [from |-> "parent", addProfiles |-> <<>>, add |-> <<>>, removeProfiles |-> <<>>, remove |-> remove]
NoRetry   == [attempts |-> 0, initial |-> 0, max |-> 0]
Twice     == [attempts |-> 2, initial |-> 1, max |-> 1]
Ref(name, access) == [name |-> name, access |-> access]

Part(tools, access, limits) ==
  [tools |-> tools, toolLimits |-> <<>>, limits |-> limits, workspaces |-> {Ref("tree", access)},
   files |-> {}]
Step(id, needs, part, retry) == [id |-> id, agent |-> "", needs |-> needs, retry |-> retry] @@ part
Use(id, agent) == [id |-> id, agent |-> agent, needs |-> {}]
Agent(mode, subagents, part) == [mode |-> mode, subagents |-> subagents] @@ part

Authored  == <<"files.read", "files.write", "git.write.commit">>
Published == Authored \o <<Branch, DraftPR>>
ToolsDef  == {<<"files.*">>, <<"files.read", "shell.run">>, Published, <<"files.read", Reply>>,
              <<"files.read", "files.write", "git.write.commit", Reply>>, <<"files.read", Branch>>}

Base(add) == [tools |-> Select(add), profiles |-> <<>>, toolLimits |-> <<>>, limits |-> Unlimited,
              models |-> {"default"}, agents |-> <<>>, steps |-> <<>>, result |-> "s1"]

Reading  == Part(Select(<<"files.read">>), "read", Inherit)
Once     == [Reading EXCEPT !.toolLimits = "files.read" :> [NotRequested EXCEPT !.MaxCalls = 1]]
Notes    == [Reading EXCEPT !.workspaces = {Ref("notes", "read")}]
All(limits) == {Part(Parent(<<>>), access, limits) : access \in {"read", "write"}}

(* One step; two steps, ordered or not; a chat agent over a chain of two.  *)
WorkflowsDef ==
  {[Base(add) EXCEPT !.steps = <<Step("s1", {}, p, r)>>] :
     add \in ToolsDef, p \in All(Serial) \cup All(Inherit) \cup All(Wider), r \in {NoRetry, Twice}} \cup
  {[Base(add) EXCEPT !.steps = <<Step("s1", {}, Reading, NoRetry), Step("s2", needs, p, NoRetry)>>] :
     add \in ToolsDef, p \in All(Serial), needs \in {{}, {"s1"}}} \cup
  {[Base(add) EXCEPT !.steps = <<Use("s1", "lead")>>,
                     !.agents = [lead |-> Agent("chat", {"mid"}, p),
                                 mid  |-> Agent(mode, sub, q),
                                 leaf |-> Agent("single_turn", {}, q2)]] :
     add \in {Published, <<"files.read", "shell.run">>}, p \in All(Serial) \cup All(Inherit) \cup {Reading, Once},
     mode \in {"task", "single_turn"}, sub \in {{}, {"leaf"}, {"mid"}},
     q \in All(Serial) \cup {Reading}, q2 \in All(Serial) \cup {Reading, Notes}} \cup
  {[Base(Published) EXCEPT !.steps = <<Step("s1", {}, Part(Parent(remove), access, Serial), NoRetry)>>] :
     remove \in {<<"files.*", "files.read">>, <<"files.read", "files.*">>}, access \in {"read", "write"}} \cup
  {[Base(<<>>) EXCEPT !.tools.addProfiles = <<"look">>, !.profiles = p,
                      !.steps = <<Step("s1", {}, Reading, NoRetry)>>] :
     p \in {<<>>, [look |-> <<"files.read">>], [more |-> <<"files.read">>]}}
=============================================================================
