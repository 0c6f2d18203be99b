----------------------------- MODULE ToolScopes -----------------------------
(***************************************************************************)
(* Exact tool scopes and their limits (internal/tool/catalog.go, resolve   *)
(* .go, internal/plan/tools.go compileToolScope, plan.go compileLimits).   *)
(* A scope is written as selectors and compiled to names, each with the    *)
(* limits of its parent or narrower ones.  An operator that can fail       *)
(* answers a record whose "ok" is false.                                   *)
(***************************************************************************)
EXTENDS Integers, Sequences, SequencesExt

FilesRead  == {"files.find", "files.grep", "files.read"}
GitRead    == {"git.read.blame", "git.read.diff", "git.read.log", "git.read.show"}
GitHubRead == {"github.read.changed-files", "github.read.checks", "github.read.comments",
               "github.read.diff", "github.read.issue", "github.read.pr",
               "github.read.reviews", "github.read.search-issues"}
BuiltinCatalog == FilesRead \cup GitRead \cup GitHubRead \cup {"shell.run", "web.fetch"}

Branch    == "safe-output.branch"
DraftPR   == "safe-output.draft-pr"
Reply     == "safe-output.conversation-reply"
SafeOutput == {Branch, DraftPR, Reply}
M3Tools    == SafeOutput \cup {"files.write", "git.write.commit"}
Catalog(m3) == IF m3 THEN BuiltinCatalog \cup M3Tools ELSE BuiltinCatalog

CapabilityOf(tool) ==
  CASE tool \in FilesRead  -> "workspace.read"
    [] tool \in GitRead    -> "git.read"
    [] tool \in GitHubRead -> "github.read"
    [] tool = "web.fetch"  -> "network.read"
    [] tool = "shell.run"  -> "process.exec"
    [] tool = "files.write"      -> "workspace.mutate"
    [] tool = "git.write.commit" -> "git.mutate"
    [] tool = Branch             -> "git.publish"
    [] tool \in {DraftPR, Reply} -> "github.mutate"

CapabilitiesOf(tools) == {CapabilityOf(t) : t \in tools}

(* A side effect other than "read".                                        *)
UnsafeTools == M3Tools \cup {"shell.run"}
UnsafeScope(names) == names \cap UnsafeTools # {}

(* The binding of the configuration a tool is served by.                   *)
FamilyOf(tool) ==
  CASE tool \in FilesRead \cup {"files.write"}    -> "files"
    [] tool \in GitRead \cup {"git.write.commit"} -> "git"
    [] tool \in GitHubRead -> "github"
    [] tool = "web.fetch"  -> "web"
    [] tool = "shell.run"  -> "shell"
    [] tool \in SafeOutput -> "safe-output"

-----------------------------------------------------------------------------

(* A family selector takes every name of the catalog with its prefix: with *)
(* an m3 policy "files.*" takes files.write too.                           *)
Expand(selector, catalog) ==
  catalog \cap
  CASE selector = "*"             -> catalog
    [] selector = "files.*"       -> FilesRead \cup {"files.write"}
    [] selector = "git.read.*"    -> GitRead
    [] selector = "github.read.*" -> GitHubRead
    [] OTHER                      -> {selector}

(* "*" is for the trusted ceiling only; a selector that matches nothing is *)
(* an error.                                                               *)
Matches(selector, catalog, trusted) ==
  Expand(selector, catalog) # {} /\ (selector = "*" => trusted)

ResolveCeiling(selectors, catalog) ==
  [ok    |-> \A s \in ToSet(selectors) : Matches(s, catalog, TRUE),
   names |-> UNION {Expand(s, catalog) : s \in ToSet(selectors)}]

(* A portable profile may not have the name of a trusted one.              *)
MergeProfiles(trusted, portable) ==
  [ok       |-> DOMAIN trusted \cap DOMAIN portable = {},
   profiles |-> [p \in DOMAIN trusted \cup DOMAIN portable |->
                   IF p \in DOMAIN trusted THEN trusted[p] ELSE portable[p]]]

(* Profiles are applied before the selectors, in their order.              *)
Known(names, profiles) == ToSet(names) \subseteq DOMAIN profiles
Selectors(names, selectors, profiles) ==
  FlattenSeq([i \in DOMAIN names |-> profiles[names[i]]]) \o selectors

(* removeNames: every selector must remove a name that is still there.     *)
RemoveNames(left, selector, catalog) ==
  LET matches == Expand(selector, catalog)
  IN  [ok    |-> left.ok /\ left.names \cap matches # {},
       names |-> left.names \ matches]

RemoveAll(names, selectors, catalog) ==
  FoldLeft(LAMBDA left, s : RemoveNames(left, s, catalog), [ok |-> TRUE, names |-> names], selectors)

(* requireSubset of the parent; the workflow's own scope has none.         *)
WithinParent(names, parent, root) == root \/ names \subseteq parent

(* Every error of ResolveScope; the adds of a scope that is refused are    *)
(* never looked at.                                                        *)
ResolveScope(x, profiles, catalog, ceiling, parent, root) ==
  IF ~Known(x.addProfiles, profiles) \/ ~Known(x.removeProfiles, profiles)
  THEN [ok |-> FALSE, names |-> {}]
  ELSE
  LET adds    == Selectors(x.addProfiles, x.add, profiles)
      removes == Selectors(x.removeProfiles, x.remove, profiles)
      added   == (IF x.from = "parent" THEN parent ELSE {}) \cup
                 UNION {Expand(s, catalog) : s \in ToSet(adds)}
      left    == RemoveAll(added, removes, catalog)
  IN  [ok    |-> /\ ~(root /\ x.from = "parent")
                 /\ \A s \in ToSet(adds \o removes) : Matches(s, catalog, FALSE)
                 /\ left.ok
                 /\ left.names \subseteq ceiling
                 /\ WithinParent(left.names, parent, root),
       names |-> left.names]

-----------------------------------------------------------------------------

(* Limits: 0 is "not given", and what is given may only narrow.            *)
ToolFields == {"MaxCalls", "Timeout", "MaxRequestBytes", "MaxResultBytes"}
RunFields  == {"Timeout", "MaxIterations", "MaxModelCalls", "MaxToolCalls",
               "MaxConcurrency", "MaxParallelCalls", "MaxArtifactBytes"}

Narrows(requested, parent) ==
  \A f \in DOMAIN parent : requested[f] >= 0 /\ requested[f] <= parent[f]
Narrowed(requested, parent) ==
  [f \in DOMAIN parent |-> IF requested[f] = 0 THEN parent[f] ELSE requested[f]]

NotRequested == [f \in ToolFields |-> 0]
RequestOf(requested, tool) == IF tool \in DOMAIN requested THEN requested[tool] ELSE NotRequested

(* compileTrustedToolLimits                                                *)
TrustedLimitsValid(limits, catalog) ==
  /\ DOMAIN limits \subseteq catalog
  /\ \A t \in DOMAIN limits :
       /\ limits[t].MaxCalls > 0 /\ limits[t].Timeout > 0 /\ limits[t].MaxResultBytes > 0
       /\ limits[t].MaxRequestBytes >= 0

(* validM3ToolLimits; timeouts in seconds.                                 *)
M3Maximum ==
  [t \in M3Tools |->
     LET of(calls, timeout, request, result) ==
           [MaxCalls |-> calls, Timeout |-> timeout, MaxRequestBytes |-> request,
            MaxResultBytes |-> result]
     IN  CASE t = "files.write"      -> of(64, 15, 1049600, 4096)
           [] t = "git.write.commit" -> of(1, 30, 65536, 8192)
           [] t = Reply              -> of(1, 5, 33792, 4096)
           [] t = Branch             -> of(1, 5, 1024, 4096)
           [] t = DraftPR            -> of(1, 5, 67584, 4096)]
ValidM3ToolLimits(limits) ==
  \A t \in DOMAIN limits \cap M3Tools : \A f \in ToolFields :
    limits[t][f] > 0 /\ limits[t][f] <= M3Maximum[t][f]

CompileToolScope(x, requested, profiles, catalog, ceiling, parent, parentLimits, root, limits) ==
  LET scope == ResolveScope(x, profiles, catalog, ceiling, parent, root)
  IN  [ok     |-> /\ scope.ok
                  /\ scope.names # {} => limits.MaxToolCalls > 0
                  /\ DOMAIN requested \subseteq scope.names
                  /\ scope.names \subseteq DOMAIN parentLimits
                  /\ \A t \in scope.names : Narrows(RequestOf(requested, t), parentLimits[t]),
       names  |-> scope.names,
       limits |-> [t \in scope.names \cap DOMAIN parentLimits |->
                     Narrowed(RequestOf(requested, t), parentLimits[t])]]

(* compileWorkflowLimits; compileStepLimits is Narrows and Narrowed.       *)
WorkflowLimitsValid(limits) ==
  /\ \A f \in {"Timeout", "MaxIterations", "MaxModelCalls", "MaxConcurrency", "MaxParallelCalls"} :
       limits[f] > 0
  /\ limits.MaxToolCalls >= 0 /\ limits.MaxArtifactBytes >= 0

(* compileRetry: attempts = 0 is "not given".  Unsafe tools are never      *)
(* tried again.                                                            *)
RetryValid(r, names) ==
  r.attempts # 0 => /\ r.attempts >= 1
                    /\ r.initial > 0 /\ r.max >= r.initial
                    /\ r.attempts > 1 => ~UnsafeScope(names)
Attempts(r) == IF r.attempts = 0 THEN 1 ELSE r.attempts
=============================================================================
