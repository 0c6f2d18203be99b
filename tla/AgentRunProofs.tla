--------------------------- MODULE AgentRunProofs ---------------------------
(***************************************************************************)
(* Proofs about AgentRun for any tree of agents, any limits, any size of a *)
(* response and any number of workers.  Two facts carry the rest: the      *)
(* calls that are under way form a tree whose inner nodes all wait for     *)
(* their batch, and every call that was counted and not yet compared has a *)
(* number of its own.                                                      *)
(***************************************************************************)
EXTENDS AgentRun, SequenceTheorems, FiniteSetTheorems, TLAPS

Paths  == Seq(Nat)
Things == Agents \cup UNION {Names[a] : a \in Agents}
Pcs    == {"queued", "before", "counted", "body", "model", "calling", "answered"}
Nodes  == [what : Things, pc : Pcs, local : Nat, failed : BOOLEAN, batch : Nat]

Typed ==
  /\ parallel \in Parallel
  /\ DOMAIN nodes \subseteq Paths
  /\ nodes \in [DOMAIN nodes -> Nodes]
  /\ modelCalls \in [Agents -> Nat] /\ localCalls \in [Agents -> Nat]
  /\ scopeTools \in [Agents -> Nat]
  /\ runCalls \in Nat /\ runTools \in Nat
  /\ cancelled \in BOOLEAN

(* What a node holds by itself.                                            *)
Held ==
  \A i \in DOMAIN nodes :
    /\ nodes[i].pc # "calling" => nodes[i].batch = 0
    /\ nodes[i].pc \in {"counted", "model", "calling"} => nodes[i].what \in Agents
    /\ nodes[i].pc = "body" => nodes[i].what \notin Agents

(* Every node but the root is one of the batch that the node above it waits*)
(* for, and so are all on the way to the root; a batch is there as a whole.*)
Tree ==
  /\ <<>> \in DOMAIN nodes /\ nodes[<<>>].pc \in {"model", "calling", "answered"}
  /\ \A i \in DOMAIN nodes : i # <<>> =>
       /\ i[Len(i)] \in 1..nodes[Front(i)].batch
       /\ nodes[i].what \in Subagents[nodes[Front(i)].what] \cup Names[nodes[Front(i)].what]
  /\ \A i \in DOMAIN nodes : \A n \in 0..(Len(i) - 1) :
       SubSeq(i, 1, n) \in DOMAIN nodes /\ nodes[SubSeq(i, 1, n)].pc = "calling"
  /\ \A i \in DOMAIN nodes : \A k \in 1..nodes[i].batch : Append(i, k) \in DOMAIN nodes

Shape == Typed /\ Held /\ Tree

-----------------------------------------------------------------------------
(* Paths.                                                                  *)

LEMMA AppendIs ==
  ASSUME NEW i \in Paths, NEW k \in Nat
  PROVE  /\ Append(i, k) \in Paths /\ Append(i, k) # <<>>
         /\ Len(i) \in Nat /\ Len(Append(i, k)) = Len(i) + 1
         /\ Append(i, k)[Len(i) + 1] = k
         /\ \A n \in 1..Len(i) : Append(i, k)[n] = i[n]
BY AppendProperties, LenProperties DEF Paths

LEMMA PrefixIs ==
  ASSUME NEW i \in Paths, NEW n \in 0..Len(i)
  PROVE  /\ SubSeq(i, 1, n) \in Paths /\ Len(SubSeq(i, 1, n)) = n /\ Len(i) \in Nat
         /\ \A m \in 1..n : SubSeq(i, 1, n)[m] = i[m]
<1>1. Len(i) \in Nat /\ \A m \in 1..Len(i) : i[m] \in Nat
  BY ElementOfSeq, LenProperties DEF Paths
<1>2. \A m \in 1..n : i[m] \in Nat
  BY <1>1
<1>3. SubSeq(i, 1, n) \in Seq(Nat) /\ Len(SubSeq(i, 1, n)) = IF 1 <= n THEN n - 1 + 1 ELSE 0
  BY <1>1, <1>2, SubSeqProperties
<1>4. \A m \in 1..(n - 1 + 1) : SubSeq(i, 1, n)[m] = i[1 + m - 1]
  BY <1>1, <1>2, SubSeqProperties
<1>5. \A m \in 1..n : SubSeq(i, 1, n)[m] = i[m]
  <2> TAKE m \in 1..n
  <2>1. m \in 1..(n - 1 + 1) /\ 1 + m - 1 = m
    BY <1>1
  <2> QED
    BY <1>4, <2>1
<1> QED
  BY <1>1, <1>3, <1>5 DEF Paths

LEMMA SamePath ==
  ASSUME NEW i \in Paths, NEW j \in Paths, Len(i) = Len(j), \A n \in 1..Len(i) : i[n] = j[n]
  PROVE  i = j
BY SeqEqual DEF Paths

LEMMA WholePath == ASSUME NEW i \in Paths PROVE SubSeq(i, 1, Len(i)) = i
BY SubSeqFull DEF Paths

(* The prefixes of a child are the parent and the parent's.                *)
LEMMA AppendPrefix ==
  ASSUME NEW i \in Paths, NEW k \in Nat, NEW n \in 0..Len(i)
  PROVE  SubSeq(Append(i, k), 1, n) = SubSeq(i, 1, n)
<1>1. Append(i, k) \in Paths /\ n \in 0..Len(Append(i, k)) /\ n \in Nat
  BY AppendIs
<1>2. \A m \in 1..n : SubSeq(Append(i, k), 1, n)[m] = SubSeq(i, 1, n)[m]
  <2> TAKE m \in 1..n
  <2>1. m \in 1..Len(i)
    BY AppendIs
  <2> QED
    BY <1>1, <2>1, AppendIs, PrefixIs
<1> QED
  BY <1>1, <1>2, PrefixIs, SamePath

LEMMA PrefixPrefix ==
  ASSUME NEW i \in Paths, NEW n \in 0..Len(i), NEW m \in 0..n
  PROVE  SubSeq(SubSeq(i, 1, n), 1, m) = SubSeq(i, 1, m)
<1> DEFINE j == SubSeq(i, 1, n)
<1>1. j \in Paths /\ Len(j) = n /\ Len(i) \in Nat /\ \A x \in 1..n : j[x] = i[x]
  BY PrefixIs
<1> HIDE DEF j
<1>2. m \in 0..Len(i) /\ m \in 0..Len(j) /\ m \in Nat
  BY <1>1
<1>3. SubSeq(j, 1, m) \in Paths /\ Len(SubSeq(j, 1, m)) = m /\ \A x \in 1..m : SubSeq(j, 1, m)[x] = j[x]
  BY <1>1, <1>2, PrefixIs
<1>4. SubSeq(i, 1, m) \in Paths /\ Len(SubSeq(i, 1, m)) = m /\ \A x \in 1..m : SubSeq(i, 1, m)[x] = i[x]
  BY <1>1, <1>2, PrefixIs
<1>5. \A x \in 1..m : SubSeq(j, 1, m)[x] = SubSeq(i, 1, m)[x]
  <2> TAKE x \in 1..m
  <2>1. x \in 1..n
    BY <1>1
  <2> QED
    BY <1>1, <1>3, <1>4, <2>1
<1>6. SubSeq(j, 1, m) = SubSeq(i, 1, m)
  BY <1>3, <1>4, <1>5, SamePath
<1> QED
  BY <1>6 DEF j

LEMMA FrontIs ==
  ASSUME NEW i \in Paths, i # <<>>
  PROVE  /\ Len(i) \in Nat \ {0} /\ Len(i) - 1 \in 0..(Len(i) - 1)
         /\ Front(i) = SubSeq(i, 1, Len(i) - 1)
         /\ Front(i) \in Paths /\ Len(Front(i)) = Len(i) - 1
         /\ i[Len(i)] \in Nat /\ i = Append(Front(i), i[Len(i)])
<1>1. Len(i) \in Nat \ {0}
  BY EmptySeq DEF Paths
<1>2. Front(i) = SubSeq(i, 1, Len(i) - 1) /\ Len(i) - 1 \in 0..Len(i)
  BY <1>1 DEF Front
<1>3. Front(i) \in Paths /\ Len(Front(i)) = Len(i) - 1 /\ \A m \in 1..(Len(i) - 1) : Front(i)[m] = i[m]
  BY <1>2, PrefixIs
<1>4. i[Len(i)] \in Nat
  BY <1>1, ElementOfSeq DEF Paths
<1> DEFINE j == Append(Front(i), i[Len(i)])
<1>5. j \in Paths /\ Len(j) = Len(i) /\ j[Len(i)] = i[Len(i)] /\ \A m \in 1..(Len(i) - 1) : j[m] = i[m]
  <2>1. Len(Front(i)) + 1 = Len(i)
    BY <1>1, <1>3
  <2>2. /\ j \in Paths /\ Len(j) = Len(Front(i)) + 1 /\ j[Len(Front(i)) + 1] = i[Len(i)]
        /\ \A m \in 1..Len(Front(i)) : j[m] = Front(i)[m]
    BY <1>3, <1>4, AppendIs
  <2> HIDE DEF j
  <2> QED
    BY <1>3, <2>1, <2>2
<1> HIDE DEF j
<1>6. \A m \in 1..Len(j) : j[m] = i[m]
  <2> TAKE m \in 1..Len(j)
  <2>1. m = Len(i) \/ m \in 1..(Len(i) - 1)
    BY <1>1, <1>5
  <2> QED
    BY <1>5, <2>1
<1>7. j = i
  BY <1>5, <1>6, SamePath
<1> QED
  BY <1>1, <1>2, <1>3, <1>4, <1>7 DEF j

LEMMA FrontAppend ==
  ASSUME NEW i \in Paths, NEW k \in Nat
  PROVE  Front(Append(i, k)) = i
<1> DEFINE j == Append(i, k)
<1>1. j \in Paths /\ j # <<>> /\ Len(j) - 1 = Len(i) /\ Len(i) \in Nat
  <2>1. j \in Paths /\ j # <<>> /\ Len(j) = Len(i) + 1 /\ Len(i) \in Nat
    BY AppendIs
  <2> HIDE DEF j
  <2> QED
    BY <2>1
<1>2. SubSeq(j, 1, Len(i)) = SubSeq(i, 1, Len(i))
  BY <1>1, AppendPrefix
<1> HIDE DEF j
<1>3. Front(j) = SubSeq(j, 1, Len(i))
  BY <1>1, FrontIs
<1>4. Front(j) = i
  BY <1>2, <1>3, WholePath
<1> QED
  BY <1>4 DEF j

-----------------------------------------------------------------------------
(* The tree.                                                               *)

LEMMA NodeIs ==
  ASSUME Shape, NEW i \in DOMAIN nodes
  PROVE  /\ i \in Paths /\ nodes[i] \in Nodes /\ nodes[i].batch \in Nat
         /\ i # <<>> => /\ Front(i) \in DOMAIN nodes /\ nodes[Front(i)].pc = "calling"
                        /\ Front(i) # i /\ nodes[Front(i)].what \in Agents
<1>1. i \in Paths /\ nodes[i] \in Nodes
  BY DEF Shape, Typed
<1>2. ASSUME i # <<>>
      PROVE  /\ Front(i) \in DOMAIN nodes /\ nodes[Front(i)].pc = "calling"
             /\ Front(i) # i /\ nodes[Front(i)].what \in Agents
  <2>1. /\ Front(i) = SubSeq(i, 1, Len(i) - 1) /\ Len(i) - 1 \in 0..(Len(i) - 1)
        /\ Len(i) \in Nat /\ Len(Front(i)) = Len(i) - 1
    BY <1>1, <1>2, FrontIs
  <2>2. Front(i) \in DOMAIN nodes /\ nodes[Front(i)].pc = "calling"
    BY <2>1 DEF Shape, Tree
  <2> QED
    BY <2>1, <2>2 DEF Shape, Held
<1> QED
  BY <1>1, <1>2 DEF Nodes

(* A step that changes one node that waits for no batch, and leaves it so. *)
LEMMA MoveShape ==
  ASSUME Shape, NEW i \in DOMAIN nodes, NEW v \in Nodes, nodes' = [nodes EXCEPT ![i] = v],
         v.what = nodes[i].what, nodes[i].pc # "calling", v.pc # "calling", v.batch = 0,
         v.pc \in {"counted", "model"} => v.what \in Agents,
         v.pc = "body" => v.what \notin Agents,
         i = <<>> => v.pc \in {"model", "answered"}
  PROVE  Held' /\ Tree' /\ DOMAIN nodes' = DOMAIN nodes /\ nodes' \in [DOMAIN nodes' -> Nodes]
<1>1. /\ DOMAIN nodes' = DOMAIN nodes /\ nodes' \in [DOMAIN nodes' -> Nodes] /\ nodes'[i] = v
      /\ \A j \in DOMAIN nodes : j # i => nodes'[j] = nodes[j]
  BY DEF Shape, Typed
<1>2. nodes[i].batch = 0
  BY DEF Shape, Held
<1>3. \A j \in DOMAIN nodes : /\ nodes'[j].what = nodes[j].what /\ nodes'[j].batch = nodes[j].batch
                              /\ nodes'[j].pc = "calling" <=> nodes[j].pc = "calling"
  BY <1>1, <1>2
<1>4. Held'
  BY <1>1, v \in Nodes DEF Shape, Held
<1>5. <<>> \in DOMAIN nodes' /\ nodes'[<<>>].pc \in {"model", "calling", "answered"}
  BY <1>1 DEF Shape, Tree
<1>6. ASSUME NEW j \in DOMAIN nodes', j # <<>>
      PROVE  /\ j[Len(j)] \in 1..nodes'[Front(j)].batch
             /\ nodes'[j].what \in Subagents[nodes'[Front(j)].what] \cup Names[nodes'[Front(j)].what]
  <2>1. j \in DOMAIN nodes /\ Front(j) \in DOMAIN nodes
    BY <1>1, <1>6, NodeIs
  <2> QED
    BY <1>3, <1>6, <2>1 DEF Shape, Tree
<1>7. ASSUME NEW j \in DOMAIN nodes', NEW n \in 0..(Len(j) - 1)
      PROVE  SubSeq(j, 1, n) \in DOMAIN nodes' /\ nodes'[SubSeq(j, 1, n)].pc = "calling"
  <2>1. SubSeq(j, 1, n) \in DOMAIN nodes /\ nodes[SubSeq(j, 1, n)].pc = "calling"
    BY <1>1 DEF Shape, Tree
  <2> QED
    BY <1>1, <1>3, <2>1
<1>8. ASSUME NEW j \in DOMAIN nodes', NEW k \in 1..nodes'[j].batch
      PROVE  Append(j, k) \in DOMAIN nodes'
  <2>1. j \in DOMAIN nodes /\ k \in 1..nodes[j].batch
    BY <1>1, <1>3
  <2> QED
    BY <1>1, <2>1 DEF Shape, Tree
<1>9. Tree'
  BY <1>5, <1>6, <1>7, <1>8 DEF Tree
<1> QED
  BY <1>1, <1>4, <1>9

(* The nodes of the others are left alone, and what a node is stays.       *)
Keeps(i) ==
  /\ DOMAIN nodes' = DOMAIN nodes
  /\ \A j \in DOMAIN nodes : nodes'[j].what = nodes[j].what /\ (j # i => nodes'[j] = nodes[j])

LEMMA MoveIs ==
  ASSUME Shape, NEW i \in DOMAIN nodes, NEW v \in Nodes, nodes' = [nodes EXCEPT ![i] = v],
         v.what = nodes[i].what
  PROVE  Keeps(i) /\ nodes'[i] = v
BY DEF Keeps, Shape, Typed

LEMMA AnswerIs ==
  ASSUME Shape, NEW i \in DOMAIN nodes, NEW failed \in BOOLEAN, nodes[i].pc # "calling",
         nodes' = Answer(i, failed)
  PROVE  /\ Held' /\ Tree' /\ nodes' \in [DOMAIN nodes' -> Nodes] /\ Keeps(i)
         /\ nodes'[i].pc = "answered"
<1> DEFINE v == [nodes[i] EXCEPT !.pc = "answered", !.failed = failed]
<1>1. nodes[i] \in Nodes /\ nodes[i].batch = 0
  BY DEF Shape, Typed, Held
<1>2. v \in Nodes /\ v.what = nodes[i].what /\ v.pc = "answered" /\ v.batch = 0
  BY <1>1 DEF Nodes, Pcs
<1>3. nodes' = [nodes EXCEPT ![i] = v]
  BY DEF Answer, Shape, Typed
<1> HIDE DEF v
<1>4. Held' /\ Tree' /\ nodes' \in [DOMAIN nodes' -> Nodes]
  BY <1>2, <1>3, MoveShape
<1>5. Keeps(i) /\ nodes'[i] = v
  BY <1>2, <1>3, MoveIs
<1> QED
  BY <1>2, <1>4, <1>5

LEMMA TakeIs ==
  ASSUME Shape, NEW i \in DOMAIN nodes, Take(i)
  PROVE  Shape' /\ Keeps(i) /\ nodes'[i].pc = "before"
<1> DEFINE v == [nodes[i] EXCEPT !.pc = "before"]
<1>1. nodes[i] \in Nodes /\ nodes[i].batch = 0 /\ i # <<>> /\ nodes[i].pc # "calling"
  BY DEF Shape, Typed, Held, Take
<1>2. v \in Nodes /\ v.what = nodes[i].what /\ v.pc = "before" /\ v.batch = 0
  BY <1>1 DEF Nodes, Pcs
<1>3. nodes' = [nodes EXCEPT ![i] = v]
  BY DEF Take
<1> HIDE DEF v
<1>4. Held' /\ Tree' /\ DOMAIN nodes' = DOMAIN nodes /\ nodes' \in [DOMAIN nodes' -> Nodes]
  BY <1>1, <1>2, <1>3, MoveShape
<1>5. Typed'
  BY <1>4 DEF Shape, Typed, Take, counters
<1>6. Keeps(i) /\ nodes'[i] = v
  BY <1>2, <1>3, MoveIs
<1> QED
  BY <1>2, <1>4, <1>5, <1>6 DEF Shape

LEMMA CountLocalIs ==
  ASSUME Shape, NEW i \in DOMAIN nodes, CountLocal(i)
  PROVE  LET a == nodes[Front(i)].what
         IN  /\ Shape' /\ Keeps(i) /\ nodes'[i].pc = "counted" /\ i # <<>> /\ a \in Agents
             /\ nodes'[i].local = localCalls[a] + 1
<1> DEFINE a == nodes[Front(i)].what
           v == [nodes[i] EXCEPT !.pc = "counted", !.local = localCalls[a] + 1]
<1>1. /\ nodes[i] \in Nodes /\ nodes[i].batch = 0 /\ nodes[i].pc = "before" /\ i # <<>>
      /\ nodes[i].what \in Agents
  BY DEF Shape, Typed, Held, Tree, CountLocal
<1>2. a \in Agents /\ localCalls[a] \in Nat
  BY <1>1, NodeIs DEF Shape, Typed
<1>3. /\ v \in Nodes /\ v.what = nodes[i].what /\ v.pc = "counted" /\ v.batch = 0
      /\ v.local = localCalls[a] + 1
  <2>1. ASSUME NEW n \in Nat
        PROVE  LET w == [nodes[i] EXCEPT !.pc = "counted", !.local = n]
               IN  w \in Nodes /\ w.what = nodes[i].what /\ w.pc = "counted" /\ w.batch = 0 /\ w.local = n
    BY <1>1 DEF Nodes, Pcs
  <2>2. localCalls[a] + 1 \in Nat
    BY <1>2
  <2> QED
    BY <2>1, <2>2
<1>4. nodes' = [nodes EXCEPT ![i] = v]
  BY DEF CountLocal, Shape, Typed
<1> HIDE DEF v
<1>5. Held' /\ Tree' /\ DOMAIN nodes' = DOMAIN nodes /\ nodes' \in [DOMAIN nodes' -> Nodes]
  BY <1>1, <1>3, <1>4, MoveShape
<1>6. localCalls' \in [Agents -> Nat]
  BY <1>2 DEF CountLocal, Shape, Typed
<1>7. Typed'
  BY <1>5, <1>6 DEF Shape, Typed, CountLocal
<1>8. Keeps(i) /\ nodes'[i] = v
  BY <1>3, <1>4, MoveIs
<1> QED
  BY <1>1, <1>2, <1>3, <1>5, <1>7, <1>8 DEF Shape

LEMMA CountTotalIs ==
  ASSUME Shape, NEW i \in DOMAIN nodes, CountTotal(i)
  PROVE  /\ Shape' /\ Keeps(i) /\ nodes[i].pc = "counted" /\ nodes'[i].pc \in {"model", "answered"}
         /\ i # <<>> /\ nodes[Front(i)].what \in Agents /\ nodes[i].local \in Nat
<1> DEFINE a == nodes[Front(i)].what
           v == Running(nodes[i].what)
<1>1. /\ nodes[i] \in Nodes /\ nodes[i].batch = 0 /\ nodes[i].pc = "counted" /\ i # <<>>
      /\ nodes[i].what \in Agents
  BY DEF Shape, Typed, Held, Tree, CountTotal
<1>2. a \in Agents /\ nodes[i].local \in Nat
  BY <1>1, NodeIs DEF Nodes
<1>3. v \in Nodes /\ v.what = nodes[i].what /\ v.pc = "model" /\ v.batch = 0
  BY <1>1 DEF Nodes, Pcs, Running, Queued
<1>4. nodes' = [nodes EXCEPT ![i] = v] \/ nodes' = Answer(i, FALSE)
  BY DEF CountTotal
<1> HIDE DEF v
<1>5. /\ Held' /\ Tree' /\ nodes' \in [DOMAIN nodes' -> Nodes] /\ Keeps(i)
      /\ nodes'[i].pc \in {"model", "answered"}
  <2>1. CASE nodes' = [nodes EXCEPT ![i] = v]
    BY <1>1, <1>3, <2>1, MoveShape, MoveIs
  <2>2. CASE nodes' = Answer(i, FALSE)
    BY <1>1, <2>2, AnswerIs
  <2> QED
    BY <1>4, <2>1, <2>2
<1>6. Typed'
  BY <1>5 DEF Shape, Typed, CountTotal, Keeps
<1> QED
  BY <1>1, <1>2, <1>5, <1>6 DEF Shape

LEMMA GuardToolIs ==
  ASSUME Shape, NEW i \in DOMAIN nodes, GuardTool(i)
  PROVE  /\ Shape' /\ Keeps(i) /\ nodes'[i].pc \in {"body", "answered"} /\ nodes[i].pc = "before"
<1> DEFINE a == nodes[Front(i)].what
           v == [nodes[i] EXCEPT !.pc = "body"]
<1>1. /\ nodes[i] \in Nodes /\ nodes[i].batch = 0 /\ nodes[i].pc = "before" /\ i # <<>>
      /\ nodes[i].what \notin Agents
  BY DEF Shape, Typed, Held, Tree, GuardTool
<1>2. a \in Agents /\ scopeTools[a] \in Nat
  BY <1>1, NodeIs DEF Shape, Typed
<1>3. v \in Nodes /\ v.what = nodes[i].what /\ v.pc = "body" /\ v.batch = 0
  BY <1>1 DEF Nodes, Pcs
<1>4. nodes' = [nodes EXCEPT ![i] = v] \/ nodes' = Answer(i, FALSE)
  BY DEF GuardTool, Shape, Typed
<1> HIDE DEF v
<1>5. /\ Held' /\ Tree' /\ nodes' \in [DOMAIN nodes' -> Nodes] /\ Keeps(i)
      /\ nodes'[i].pc \in {"body", "answered"}
  <2>1. CASE nodes' = [nodes EXCEPT ![i] = v]
    BY <1>1, <1>3, <2>1, MoveShape, MoveIs
  <2>2. CASE nodes' = Answer(i, FALSE)
    BY <1>1, <2>2, AnswerIs
  <2> QED
    BY <1>4, <2>1, <2>2
<1>6. scopeTools' \in [Agents -> Nat] /\ runTools' \in Nat
  <2>1. \/ UNCHANGED <<scopeTools, runTools>>
        \/ scopeTools' = [scopeTools EXCEPT ![a] = @ + 1] /\ runTools' = runTools + 1
    BY DEF GuardTool
  <2>2. scopeTools \in [Agents -> Nat] /\ runTools \in Nat
    BY DEF Shape, Typed
  <2> HIDE DEF a
  <2> QED
    BY <1>2, <2>1, <2>2
<1>7. Typed'
  BY <1>5, <1>6 DEF Shape, Typed, GuardTool, Keeps
<1> QED
  BY <1>1, <1>5, <1>7 DEF Shape

LEMMA FinishToolIs ==
  ASSUME Shape, NEW i \in DOMAIN nodes, FinishTool(i)
  PROVE  Shape' /\ Keeps(i) /\ nodes'[i].pc = "answered"
<1>1. /\ Held' /\ Tree' /\ nodes' \in [DOMAIN nodes' -> Nodes] /\ Keeps(i)
      /\ nodes'[i].pc = "answered"
  BY AnswerIs DEF FinishTool
<1>2. Typed'
  BY <1>1 DEF Shape, Typed, FinishTool, counters, Keeps
<1> QED
  BY <1>1, <1>2 DEF Shape

(* A response: the node waits, and its batch is new.                       *)
Asks(i, n) ==
  /\ nodes[i].pc = "model" /\ nodes[i].what \in Agents
  /\ DOMAIN nodes' = DOMAIN nodes \cup {Append(i, k) : k \in 1..n}
  /\ \A j \in DOMAIN nodes : nodes'[j].what = nodes[j].what /\ (j # i => nodes'[j] = nodes[j])
  /\ nodes'[i] \in Nodes /\ nodes'[i].pc = "calling" /\ nodes'[i].batch = n
  /\ \A k \in 1..n :
       /\ Append(i, k) \notin DOMAIN nodes /\ nodes'[Append(i, k)] \in Nodes
       /\ nodes'[Append(i, k)].pc = "queued" /\ nodes'[Append(i, k)].batch = 0
       /\ nodes'[Append(i, k)].what \in Subagents[nodes[i].what] \cup Names[nodes[i].what]

LEMMA NoBatchYet ==
  ASSUME Shape, NEW i \in DOMAIN nodes, nodes[i].pc # "calling", NEW k \in Nat
  PROVE  Append(i, k) \notin DOMAIN nodes
<1>1. i \in Paths
  BY NodeIs
<1>2. Append(i, k) # <<>> /\ Front(Append(i, k)) = i
  BY <1>1, AppendIs, FrontAppend
<1> QED
  BY <1>2, NodeIs

LEMMA AsksIs ==
  ASSUME Shape, NEW i \in DOMAIN nodes, nodes[i].pc = "model", NEW n \in 1..Batch,
         NEW asked \in [1..n -> Subagents[nodes[i].what] \cup Names[nodes[i].what]],
         nodes' = [j \in DOMAIN nodes \cup {Append(i, k) : k \in 1..n} |->
                     IF j = i THEN [nodes[i] EXCEPT !.pc = "calling", !.batch = n]
                     ELSE IF j \in DOMAIN nodes THEN nodes[j]
                     ELSE Queued(asked[j[Len(j)]])]
  PROVE  Asks(i, n)
<1>1. i \in Paths /\ nodes[i] \in Nodes /\ nodes[i].what \in Agents /\ n \in Nat
  BY NodeIs, TreeAdmitted DEF Shape, Held
<1>2. DOMAIN nodes' = DOMAIN nodes \cup {Append(i, k) : k \in 1..n}
  OBVIOUS
<1>3. \A j \in DOMAIN nodes : j # i => nodes'[j] = nodes[j]
  OBVIOUS
<1>4. nodes'[i] = [nodes[i] EXCEPT !.pc = "calling", !.batch = n]
  OBVIOUS
<1>5. nodes'[i] \in Nodes /\ nodes'[i].pc = "calling" /\ nodes'[i].batch = n /\ nodes'[i].what = nodes[i].what
  BY <1>1, <1>4 DEF Nodes, Pcs
<1>6. ASSUME NEW k \in 1..n
      PROVE  /\ Append(i, k) \notin DOMAIN nodes /\ nodes'[Append(i, k)] \in Nodes
             /\ nodes'[Append(i, k)].pc = "queued" /\ nodes'[Append(i, k)].batch = 0
             /\ nodes'[Append(i, k)].what \in Subagents[nodes[i].what] \cup Names[nodes[i].what]
  <2> DEFINE c == Append(i, k)
  <2>1. c \notin DOMAIN nodes
    BY NoBatchYet
  <2>2. c[Len(c)] = k
    <3>1. Len(c) = Len(i) + 1 /\ c[Len(i) + 1] = k
      BY <1>1, AppendIs
    <3> HIDE DEF c
    <3> QED
      BY <3>1
  <2>3. c \in DOMAIN nodes \cup {Append(i, m) : m \in 1..n}
    OBVIOUS
  <2> HIDE DEF c
  <2>4. nodes'[c] = Queued(asked[k])
    BY <2>1, <2>2, <2>3
  <2>5. asked[k] \in Subagents[nodes[i].what] \cup Names[nodes[i].what]
    OBVIOUS
  <2>6. asked[k] \in Things
    BY <1>1, <2>5, TreeAdmitted DEF Things
  <2>7. /\ Queued(asked[k]) \in Nodes /\ Queued(asked[k]).pc = "queued"
        /\ Queued(asked[k]).batch = 0 /\ Queued(asked[k]).what = asked[k]
    BY <2>6 DEF Queued, Nodes, Pcs
  <2> QED
    BY <2>1, <2>4, <2>5, <2>7 DEF c
<1> QED
  BY <1>1, <1>2, <1>3, <1>5, <1>6 DEF Asks

LEMMA AsksShape ==
  ASSUME Shape, NEW i \in DOMAIN nodes, NEW n \in Nat, Asks(i, n)
  PROVE  Held' /\ Tree' /\ DOMAIN nodes' \subseteq Paths /\ \A j \in DOMAIN nodes' : nodes'[j] \in Nodes
<1> DEFINE new == {Append(i, k) : k \in 1..n}
<1>1. i \in Paths /\ nodes[i].batch = 0 /\ DOMAIN nodes \subseteq Paths /\ nodes \in [DOMAIN nodes -> Nodes]
  BY NodeIs DEF Shape, Typed, Held, Asks
<1>2. DOMAIN nodes' = DOMAIN nodes \cup new /\ \A j \in DOMAIN nodes : j # i => nodes'[j] = nodes[j]
  BY DEF Asks
<1>3. \A k \in 1..n : Append(i, k) \in Paths
  BY <1>1, AppendIs
<1>4. \A j \in DOMAIN nodes' : j \in Paths /\ nodes'[j] \in Nodes
  BY <1>1, <1>2, <1>3 DEF Asks
<1>5. Held'
  BY <1>1, <1>2 DEF Shape, Held, Asks
<1>6. <<>> \in DOMAIN nodes' /\ nodes'[<<>>].pc \in {"model", "calling", "answered"}
  BY <1>2 DEF Shape, Tree, Asks
<1>7. \A j \in DOMAIN nodes : nodes'[j].what = nodes[j].what /\ (nodes[j].pc = "calling" => nodes'[j] = nodes[j])
  BY <1>2 DEF Asks
<1>8. ASSUME NEW j \in DOMAIN nodes', j # <<>>
      PROVE  /\ j[Len(j)] \in 1..nodes'[Front(j)].batch
             /\ nodes'[j].what \in Subagents[nodes'[Front(j)].what] \cup Names[nodes'[Front(j)].what]
  <2>1. CASE j \in DOMAIN nodes
    <3>1. Front(j) \in DOMAIN nodes /\ nodes[Front(j)].pc = "calling"
      BY <1>8, <2>1, NodeIs
    <3>2. /\ nodes'[Front(j)] = nodes[Front(j)] /\ nodes'[j].what = nodes[j].what
      BY <1>7, <2>1, <3>1
    <3> QED
      BY <1>8, <2>1, <3>2 DEF Shape, Tree
  <2>2. CASE j \notin DOMAIN nodes
    <3>1. PICK k \in 1..n : j = Append(i, k)
      BY <1>2, <2>2
    <3>2. Front(j) = i /\ j[Len(j)] = k
      <4>1. Front(j) = i /\ Len(j) = Len(i) + 1 /\ j[Len(i) + 1] = k
        BY <1>1, <3>1, FrontAppend, AppendIs
      <4> QED
        BY <4>1
    <3> QED
      BY <3>1, <3>2 DEF Asks
  <2> QED
    BY <2>1, <2>2
<1>9. ASSUME NEW j \in DOMAIN nodes', NEW m \in 0..(Len(j) - 1)
      PROVE  SubSeq(j, 1, m) \in DOMAIN nodes' /\ nodes'[SubSeq(j, 1, m)].pc = "calling"
  <2>1. CASE j \in DOMAIN nodes
    <3>1. SubSeq(j, 1, m) \in DOMAIN nodes /\ nodes[SubSeq(j, 1, m)].pc = "calling"
      BY <2>1 DEF Shape, Tree
    <3> QED
      BY <1>2, <1>7, <3>1
  <2>2. CASE j \notin DOMAIN nodes
    <3>1. PICK k \in 1..n : j = Append(i, k)
      BY <1>2, <2>2
    <3>2. Len(i) \in Nat /\ m \in 0..Len(i)
      <4>1. Len(j) = Len(i) + 1 /\ Len(i) \in Nat
        BY <1>1, <3>1, AppendIs
      <4> QED
        BY <4>1
    <3>3. SubSeq(j, 1, m) = SubSeq(i, 1, m)
      BY <1>1, <3>1, <3>2, AppendPrefix
    <3>4. CASE m = Len(i)
      BY <1>1, <1>2, <3>3, <3>4, WholePath DEF Asks
    <3>5. CASE m # Len(i)
      <4>1. m \in 0..(Len(i) - 1)
        BY <3>2, <3>5
      <4>2. SubSeq(i, 1, m) \in DOMAIN nodes /\ nodes[SubSeq(i, 1, m)].pc = "calling"
        BY <4>1 DEF Shape, Tree
      <4> QED
        BY <1>2, <1>7, <3>3, <4>2
    <3> QED
      BY <3>4, <3>5
  <2> QED
    BY <2>1, <2>2
<1>10. ASSUME NEW j \in DOMAIN nodes', NEW k \in 1..nodes'[j].batch
       PROVE  Append(j, k) \in DOMAIN nodes'
  <2>1. CASE j = i
    BY <1>2, <2>1 DEF Asks
  <2>2. CASE j \in DOMAIN nodes /\ j # i
    BY <1>2, <2>2 DEF Shape, Tree
  <2>3. CASE j \notin DOMAIN nodes
    <3>1. PICK m \in 1..n : j = Append(i, m)
      BY <1>2, <2>3
    <3>2. nodes'[j].batch = 0
      BY <3>1 DEF Asks
    <3> QED
      BY <3>2
  <2> QED
    BY <2>1, <2>2, <2>3
<1>11. Tree'
  BY <1>6, <1>8, <1>9, <1>10 DEF Tree
<1> QED
  BY <1>4, <1>5, <1>11

LEMMA CallModelIs ==
  ASSUME Shape, NEW i \in DOMAIN nodes, CallModel(i)
  PROVE  /\ Shape' /\ nodes[i].pc = "model"
         /\ \/ Keeps(i) /\ nodes'[i].pc = "answered"
            \/ \E n \in Nat : Asks(i, n)
<1> DEFINE a == nodes[i].what
<1>1. nodes[i].pc = "model" /\ a \in Agents
  BY DEF CallModel, Shape, Held
<1>2. \/ \E failed \in BOOLEAN : nodes' = Answer(i, failed)
      \/ \E n \in 1..Batch : \E asked \in [1..n -> Subagents[a] \cup Names[a]] :
           nodes' = [j \in DOMAIN nodes \cup {Append(i, k) : k \in 1..n} |->
                       IF j = i THEN [nodes[i] EXCEPT !.pc = "calling", !.batch = n]
                       ELSE IF j \in DOMAIN nodes THEN nodes[j]
                       ELSE Queued(asked[j[Len(j)]])]
  BY Zenon DEF CallModel
<1>3. modelCalls' \in [Agents -> Nat]
  <2>1. modelCalls' = [modelCalls EXCEPT ![a] = @ + 1] /\ modelCalls \in [Agents -> Nat]
    BY DEF CallModel, Shape, Typed
  <2> HIDE DEF a
  <2> QED
    BY <1>1, <2>1
<1>4. CASE \E failed \in BOOLEAN : nodes' = Answer(i, failed)
  <2>1. /\ Held' /\ Tree' /\ nodes' \in [DOMAIN nodes' -> Nodes] /\ Keeps(i)
        /\ nodes'[i].pc = "answered"
    BY <1>1, <1>4, AnswerIs
  <2>2. Typed'
    BY <1>3, <2>1 DEF Shape, Typed, CallModel, Keeps
  <2> QED
    BY <1>1, <2>1, <2>2 DEF Shape
<1>5. ASSUME NEW n \in 1..Batch, NEW asked \in [1..n -> Subagents[a] \cup Names[a]],
             nodes' = [j \in DOMAIN nodes \cup {Append(i, k) : k \in 1..n} |->
                         IF j = i THEN [nodes[i] EXCEPT !.pc = "calling", !.batch = n]
                         ELSE IF j \in DOMAIN nodes THEN nodes[j]
                         ELSE Queued(asked[j[Len(j)]])]
      PROVE  Shape' /\ \E m \in Nat : Asks(i, m)
  <2>1. n \in Nat
    BY TreeAdmitted
  <2>6. Asks(i, n)
    BY <1>1, <1>5, AsksIs
  <2>2. Held' /\ Tree' /\ DOMAIN nodes' \subseteq Paths /\ \A j \in DOMAIN nodes' : nodes'[j] \in Nodes
    BY <2>1, <2>6, AsksShape
  <2>3. nodes' = [j \in DOMAIN nodes' |-> nodes'[j]]
    BY <1>5
  <2>4. nodes' \in [DOMAIN nodes' -> Nodes]
    BY <2>2, <2>3
  <2>5. Typed'
    BY <1>3, <2>2, <2>4 DEF Shape, Typed, CallModel
  <2> QED
    BY <2>1, <2>2, <2>5, <2>6 DEF Shape
<1> QED
  BY <1>1, <1>2, <1>4, <1>5

(* The batch is over: its nodes go, and the one above is asked again.      *)
Resumes(i) ==
  /\ nodes[i].pc = "calling" /\ nodes[i].what \in Agents
  /\ DOMAIN nodes' = DOMAIN nodes \ BatchOf(i) /\ i \in DOMAIN nodes'
  /\ \A j \in BatchOf(i) : nodes[j].pc = "answered"
  /\ \A j \in DOMAIN nodes' : nodes'[j].what = nodes[j].what /\ (j # i => nodes'[j] = nodes[j])
  /\ nodes'[i] \in Nodes /\ nodes'[i].pc \in {"model", "answered"} /\ nodes'[i].batch = 0

LEMMA NotInItsBatch == ASSUME NEW i \in Paths PROVE i \notin BatchOf(i)
<1>1. SUFFICES ASSUME NEW k \in Nat, Append(i, k) = i PROVE FALSE
  <2>1. nodes[i].batch \in Nat \/ nodes[i].batch \notin Nat
    OBVIOUS
  <2> QED
    BY DEF BatchOf
<1>2. Len(i) \in Nat /\ Len(Append(i, k)) = Len(i) + 1
  BY AppendIs
<1>3. Len(i) = Len(i) + 1
  BY <1>1, <1>2
<1> QED
  BY <1>2, <1>3
LEMMA ResumesIs ==
  ASSUME Shape, NEW i \in DOMAIN nodes, Resume(i)
  PROVE  Resumes(i) /\ nodes' \in [DOMAIN nodes' -> Nodes]
<1> DEFINE rest == DOMAIN nodes \ BatchOf(i)
           left == [j \in rest |-> nodes[j]]
<1>1. i \in Paths /\ nodes[i] \in Nodes /\ nodes[i].pc = "calling" /\ nodes[i].what \in Agents
  BY NodeIs DEF Shape, Held, Resume
<1>2. i \in rest
  BY <1>1, NotInItsBatch, NodeIs
<1>3. /\ DOMAIN left = rest /\ \A j \in rest : left[j] = nodes[j] /\ nodes[j] \in Nodes
      /\ left \in [rest -> Nodes]
  BY DEF Shape, Typed
<1>4. \E v \in Nodes : /\ v.what = nodes[i].what /\ v.pc \in {"model", "answered"} /\ v.batch = 0
                       /\ nodes' = [left EXCEPT ![i] = v]
  <2> DEFINE v == [nodes[i] EXCEPT !.pc = "model", !.batch = 0]
             w == [nodes[i] EXCEPT !.pc = "answered", !.failed = TRUE, !.batch = 0]
  <2>1. /\ v \in Nodes /\ v.what = nodes[i].what /\ v.pc \in {"model", "answered"} /\ v.batch = 0
        /\ w \in Nodes /\ w.what = nodes[i].what /\ w.pc \in {"model", "answered"} /\ w.batch = 0
    BY <1>1 DEF Nodes, Pcs
  <2>2. \/ nodes' = [left EXCEPT ![i].pc = "model", ![i].batch = 0]
        \/ nodes' = [left EXCEPT ![i].pc = "answered", ![i].failed = TRUE, ![i].batch = 0]
    BY DEF Resume
  <2> HIDE DEF left
  <2>3. nodes' = [left EXCEPT ![i] = v] \/ nodes' = [left EXCEPT ![i] = w]
    BY <1>2, <1>3, <2>2
  <2> HIDE DEF v, w
  <2> QED
    BY <2>1, <2>3
<1> HIDE DEF left
<1>5. PICK v \in Nodes : /\ v.what = nodes[i].what /\ v.pc \in {"model", "answered"} /\ v.batch = 0
                         /\ nodes' = [left EXCEPT ![i] = v]
  BY <1>4
<1>6. /\ DOMAIN nodes' = rest /\ nodes'[i] = v /\ \A j \in rest : j # i => nodes'[j] = nodes[j]
      /\ nodes' \in [rest -> Nodes]
  BY <1>2, <1>3, <1>5
<1>7. \A j \in BatchOf(i) : nodes[j].pc = "answered"
  BY DEF Resume, BatchAnswered
<1> QED
  BY <1>1, <1>2, <1>5, <1>6, <1>7 DEF Resumes

LEMMA ResumesShape ==
  ASSUME Shape, NEW i \in DOMAIN nodes, Resumes(i)
  PROVE  Held' /\ Tree'
<1>1. i \in Paths /\ nodes[i].batch \in Nat
  BY NodeIs
<1>2. \A j \in DOMAIN nodes' : j \in DOMAIN nodes /\ j \in Paths /\ j \notin BatchOf(i) /\ (j # i => nodes'[j] = nodes[j])
  BY NodeIs DEF Resumes
<1>3. Held'
  BY <1>2 DEF Shape, Held, Resumes
<1>4. <<>> \in DOMAIN nodes' /\ nodes'[<<>>].pc \in {"model", "calling", "answered"}
  <2>1. \A k \in 1..nodes[i].batch : Append(i, k) # <<>>
    <3>1. \A k \in Nat : Append(i, k) # <<>>
      BY <1>1, AppendIs
    <3> QED
      BY <1>1, <3>1
  <2>2. <<>> \in DOMAIN nodes'
    BY <2>1 DEF Shape, Tree, Resumes, BatchOf
  <2> QED
    BY <2>2 DEF Shape, Tree, Resumes
\* A child of i is of its batch.
<1>5. ASSUME NEW j \in DOMAIN nodes, j # <<>>, Front(j) = i
      PROVE  j \in BatchOf(i)
  <2>1. j = Append(i, j[Len(j)]) /\ j[Len(j)] \in 1..nodes[i].batch
    BY <1>5, NodeIs, FrontIs DEF Shape, Tree
  <2> QED
    BY <2>1 DEF BatchOf
<1>6. ASSUME NEW j \in DOMAIN nodes, nodes[j].pc = "calling", j # i
      PROVE  j \in DOMAIN nodes' /\ nodes'[j] = nodes[j]
  BY <1>6 DEF Resumes
<1>7. ASSUME NEW j \in DOMAIN nodes', j # <<>>
      PROVE  /\ j[Len(j)] \in 1..nodes'[Front(j)].batch
             /\ nodes'[j].what \in Subagents[nodes'[Front(j)].what] \cup Names[nodes'[Front(j)].what]
  <2>1. j \in DOMAIN nodes /\ Front(j) # i
    BY <1>2, <1>5, <1>7
  <2>2. Front(j) \in DOMAIN nodes /\ nodes[Front(j)].pc = "calling"
    BY <1>7, <2>1, NodeIs
  <2>3. nodes'[Front(j)] = nodes[Front(j)] /\ nodes'[j].what = nodes[j].what
    BY <1>6, <2>1, <2>2 DEF Resumes
  <2> QED
    BY <1>7, <2>1, <2>3 DEF Shape, Tree
<1>8. ASSUME NEW j \in DOMAIN nodes', NEW n \in 0..(Len(j) - 1)
      PROVE  SubSeq(j, 1, n) \in DOMAIN nodes' /\ nodes'[SubSeq(j, 1, n)].pc = "calling"
  <2> DEFINE p == SubSeq(j, 1, n)
             q == SubSeq(j, 1, n + 1)
  <2>1. j \in DOMAIN nodes /\ j \in Paths /\ j \notin BatchOf(i)
    BY <1>2
  <2>2. Len(j) \in Nat /\ n \in Nat /\ n \in 0..Len(j) /\ n + 1 \in 0..Len(j) /\ n \in 0..(n + 1)
    BY <2>1, LenProperties DEF Paths
  <2>3. p \in DOMAIN nodes /\ nodes[p].pc = "calling"
    BY <2>1 DEF Shape, Tree
  <2>4. q \in Paths /\ Len(q) = n + 1 /\ SubSeq(q, 1, n) = p
    BY <2>1, <2>2, PrefixIs, PrefixPrefix
  <2>5. q \in DOMAIN nodes /\ (q = j \/ nodes[q].pc = "calling")
    <3>1. CASE n + 1 = Len(j)
      BY <2>1, <3>1, WholePath
    <3>2. CASE n + 1 # Len(j)
      <4>1. n + 1 \in 0..(Len(j) - 1)
        BY <2>2, <3>2
      <4> QED
        BY <2>1, <4>1 DEF Shape, Tree
    <3> QED
      BY <3>1, <3>2
  <2> HIDE DEF p, q
  <2>6. q # <<>> /\ Front(q) = p
    <3>1. q # <<>>
      BY <2>2, <2>4, EmptySeq
    <3>2. Front(q) = SubSeq(q, 1, Len(q) - 1)
      BY <2>4, <3>1, FrontIs
    <3>3. Len(q) - 1 = n
      BY <2>2, <2>4
    <3> QED
      BY <2>4, <3>1, <3>2, <3>3
  <2>7. p # i
    BY <1>5, <2>1, <2>5, <2>6 DEF Resumes
  <2> QED
    BY <1>6, <2>3, <2>7 DEF p
<1>9. ASSUME NEW j \in DOMAIN nodes', NEW k \in 1..nodes'[j].batch
      PROVE  Append(j, k) \in DOMAIN nodes'
  <2>1. j # i /\ j \in DOMAIN nodes /\ j \in Paths /\ k \in 1..nodes[j].batch /\ k \in Nat
    BY <1>2 DEF Resumes
  <2>2. Append(j, k) \in DOMAIN nodes
    BY <2>1 DEF Shape, Tree
  <2>3. ASSUME NEW m \in 1..nodes[i].batch PROVE Append(j, k) # Append(i, m)
    <3>1. Front(Append(j, k)) = j /\ Front(Append(i, m)) = i
      BY <1>1, <2>1, FrontAppend
    <3> QED
      BY <2>1, <3>1
  <2> QED
    BY <2>2, <2>3 DEF Resumes, BatchOf
<1>10. Tree'
  BY <1>4, <1>7, <1>8, <1>9 DEF Tree
<1> QED
  BY <1>3, <1>10

LEMMA ResumeIs ==
  ASSUME Shape, NEW i \in DOMAIN nodes, Resume(i)
  PROVE  Shape' /\ Resumes(i)
<1>1. Resumes(i) /\ nodes' \in [DOMAIN nodes' -> Nodes]
  BY ResumesIs
<1>2. Held' /\ Tree'
  BY <1>1, ResumesShape
<1>3. Typed'
  BY <1>1 DEF Shape, Typed, Resume, counters, Resumes
<1> QED
  BY <1>1, <1>2, <1>3 DEF Shape

-----------------------------------------------------------------------------
(* One worker: at every depth one node at most is under way.               *)

Busy(pc) == pc \notin {"queued", "answered"}

OnePerDepth ==
  parallel = 1 =>
    \A i, j \in DOMAIN nodes :
      Busy(nodes[i].pc) /\ Busy(nodes[j].pc) /\ Len(i) = Len(j) => i = j

LEMMA NoMoreBusy ==
  ASSUME OnePerDepth, parallel' = parallel,
         \A j \in DOMAIN nodes' : Busy(nodes'[j].pc) => j \in DOMAIN nodes /\ Busy(nodes[j].pc)
  PROVE  OnePerDepth'
BY DEF OnePerDepth

LEMMA BatchIsFinite == ASSUME Shape, NEW i \in DOMAIN nodes PROVE IsFiniteSet(BatchOf(i))
<1> DEFINE n == nodes[i].batch
           f == [k \in 1..n |-> Append(i, k)]
<1>1. n \in Nat
  BY NodeIs
<1>2. IsFiniteSet(1..n)
  <2>1. n \in Int /\ 1 \in Int
    BY <1>1
  <2> HIDE DEF n
  <2> QED
    BY <2>1, FS_Interval
<1>3. BatchOf(i) = {Append(i, k) : k \in 1..n}
  BY DEF BatchOf
<1>4. f \in Surjection(1..n, BatchOf(i))
  BY <1>3 DEF Surjection
<1> HIDE DEF f, n
<1> QED
  BY <1>2, <1>4, FS_Surjection

(* The worker that takes a call finds the others of its batch idle; at the *)
(* same depth in another batch there is nobody, since the nodes that wait  *)
(* for the two batches are under way at one depth.                         *)
LEMMA TakeAlone ==
  ASSUME Shape, OnePerDepth, NEW i \in DOMAIN nodes, Take(i)
  PROVE  OnePerDepth'
<1>1. Keeps(i) /\ i # <<>> /\ nodes[i].pc = "queued" /\ i \in Paths
  BY TakeIs, NodeIs DEF Take
<1>2. parallel' = parallel
  BY DEF Take
<1>3. ASSUME parallel = 1, NEW j \in DOMAIN nodes, j # i, Busy(nodes[j].pc), Len(j) = Len(i)
      PROVE  FALSE
  <2>1. j \in Paths /\ j # <<>>
    <3>1. Len(i) # 0
      BY <1>1, FrontIs
    <3> QED
      BY <1>3, <3>1, NodeIs, EmptySeq
  <2>2. /\ Front(i) \in DOMAIN nodes /\ nodes[Front(i)].pc = "calling"
        /\ Front(j) \in DOMAIN nodes /\ nodes[Front(j)].pc = "calling"
    BY <1>1, <2>1, NodeIs
  <2>3. Len(Front(i)) = Len(Front(j))
    BY <1>1, <1>3, <2>1, FrontIs
  <2>4. Front(i) = Front(j)
    BY <1>3, <2>2, <2>3 DEF OnePerDepth, Busy
  <2>5. j \in BatchOf(Front(i))
    <3>1. j = Append(Front(j), j[Len(j)]) /\ j[Len(j)] \in 1..nodes[Front(j)].batch
      BY <2>1, FrontIs DEF Shape, Tree
    <3> QED
      BY <2>4, <3>1 DEF BatchOf
  <2> DEFINE B == {x \in BatchOf(Front(i)) : Active(x)}
  <2>6. j \in B
    BY <1>3, <2>5 DEF Active, Busy
  <2>7. IsFiniteSet(BatchOf(Front(i)))
    BY <2>2, BatchIsFinite
  <2>8. IsFiniteSet(B) /\ Cardinality(B) \in Nat /\ Cardinality(B) # 0
    BY <2>6, <2>7, FS_Subset, FS_CardinalityType, FS_EmptySet
  <2>9. Cardinality(B) < 1
    BY <1>3 DEF Take, Workers
  <2> QED
    BY <2>8, <2>9
<1>4. DOMAIN nodes' = DOMAIN nodes /\ \A j \in DOMAIN nodes : j # i => nodes'[j] = nodes[j]
  BY <1>1 DEF Keeps
<1>5. SUFFICES ASSUME parallel = 1, NEW j \in DOMAIN nodes, NEW k \in DOMAIN nodes,
                      Busy(nodes'[j].pc), Busy(nodes'[k].pc), Len(j) = Len(k)
               PROVE  j = k
  BY <1>2, <1>4 DEF OnePerDepth
<1>6. CASE j # i /\ k # i
  BY <1>4, <1>5, <1>6 DEF OnePerDepth
<1>7. CASE j = i /\ k # i
  BY <1>3, <1>4, <1>5, <1>7
<1>8. CASE j # i /\ k = i
  BY <1>3, <1>4, <1>5, <1>8
<1> QED
  BY <1>6, <1>7, <1>8

LEMMA StepAlone ==
  ASSUME Shape, OnePerDepth, NEW i \in DOMAIN nodes, Step(i)
  PROVE  OnePerDepth'
<1>1. CASE CallModel(i)
  <2>1. nodes[i].pc = "model" /\ ((Keeps(i) /\ nodes'[i].pc = "answered") \/ \E n \in Nat : Asks(i, n))
    BY <1>1, CallModelIs
  <2>2. \A j \in DOMAIN nodes' : Busy(nodes'[j].pc) => j \in DOMAIN nodes /\ Busy(nodes[j].pc)
    <3>1. CASE Keeps(i) /\ nodes'[i].pc = "answered"
      BY <3>1 DEF Keeps, Busy
    <3>2. CASE \E n \in Nat : Asks(i, n)
      <4>1. PICK n \in Nat : Asks(i, n)
        BY <3>2
      <4> TAKE j \in DOMAIN nodes'
      <4>2. CASE j \in DOMAIN nodes /\ j # i
        BY <4>1, <4>2 DEF Asks
      <4>3. CASE j = i
        BY <2>1, <4>3 DEF Busy
      <4>4. CASE j \notin DOMAIN nodes
        <5>1. PICK k \in 1..n : j = Append(i, k)
          BY <4>1, <4>4 DEF Asks
        <5>2. nodes'[j].pc = "queued"
          BY <4>1, <5>1 DEF Asks
        <5> QED
          BY <5>2 DEF Busy
      <4> QED
        BY <4>2, <4>3, <4>4
    <3> QED
      BY <2>1, <3>1, <3>2
  <2> QED
    BY <1>1, <2>2, NoMoreBusy DEF CallModel
<1>2. CASE Take(i)
  BY <1>2, TakeAlone
<1>3. CASE CountLocal(i)
  <2>1. Keeps(i) /\ Busy(nodes[i].pc) /\ parallel' = parallel
    BY <1>3, CountLocalIs DEF CountLocal, Busy
  <2> QED
    BY <2>1, NoMoreBusy DEF Keeps
<1>4. CASE CountTotal(i)
  <2>1. Keeps(i) /\ Busy(nodes[i].pc) /\ parallel' = parallel
    BY <1>4, CountTotalIs DEF CountTotal, Busy
  <2> QED
    BY <2>1, NoMoreBusy DEF Keeps
<1>5. CASE GuardTool(i)
  <2>1. Keeps(i) /\ Busy(nodes[i].pc) /\ parallel' = parallel
    BY <1>5, GuardToolIs DEF GuardTool, Busy
  <2> QED
    BY <2>1, NoMoreBusy DEF Keeps
<1>6. CASE FinishTool(i)
  <2>1. Keeps(i) /\ Busy(nodes[i].pc) /\ parallel' = parallel
    BY <1>6, FinishToolIs DEF FinishTool, Busy
  <2> QED
    BY <2>1, NoMoreBusy DEF Keeps
<1>7. CASE Resume(i)
  <2>1. Resumes(i) /\ parallel' = parallel
    BY <1>7, ResumeIs DEF Resume
  <2>2. \A j \in DOMAIN nodes' : Busy(nodes'[j].pc) => j \in DOMAIN nodes /\ Busy(nodes[j].pc)
    BY <2>1 DEF Resumes, Busy
  <2> QED
    BY <2>1, <2>2, NoMoreBusy
<1> QED
  BY <1>1, <1>2, <1>3, <1>4, <1>5, <1>6, <1>7 DEF Step

LEMMA InitShape == Init => Shape /\ OnePerDepth
<1> SUFFICES ASSUME Init PROVE Shape /\ OnePerDepth
  OBVIOUS
<1>1. <<>> \in Paths /\ Len(<<>>) = 0
  BY EmptySeq DEF Paths
<1>2. Running(Root) \in Nodes /\ Running(Root).pc = "model" /\ Running(Root).batch = 0 /\ Running(Root).what = Root
  BY TreeAdmitted DEF Running, Queued, Nodes, Pcs, Things
<1>3. DOMAIN nodes = {<<>>} /\ nodes[<<>>] = Running(Root) /\ nodes \in [{<<>>} -> Nodes]
  BY <1>2 DEF Init
<1>4. Typed
  BY <1>1, <1>3 DEF Init, Typed
<1>5. Held
  BY <1>2, <1>3, TreeAdmitted DEF Held
<1>6. Tree
  BY <1>1, <1>2, <1>3 DEF Tree
<1>7. OnePerDepth
  BY <1>3 DEF OnePerDepth
<1> QED
  BY <1>4, <1>5, <1>6, <1>7 DEF Shape

LEMMA SameNodes ==
  ASSUME Shape, OnePerDepth, UNCHANGED <<parallel, nodes, counters>>, cancelled' \in BOOLEAN
  PROVE  Shape' /\ OnePerDepth'
BY DEF Shape, Typed, Held, Tree, OnePerDepth, counters

LEMMA NextShape == Shape /\ OnePerDepth /\ [Next]_vars => Shape' /\ OnePerDepth'
<1> SUFFICES ASSUME Shape, OnePerDepth, [Next]_vars PROVE Shape' /\ OnePerDepth'
  OBVIOUS
<1>1. ASSUME NEW i \in DOMAIN nodes, Step(i) PROVE Shape' /\ OnePerDepth'
  BY <1>1, StepAlone, CallModelIs, TakeIs, CountLocalIs, CountTotalIs, GuardToolIs, FinishToolIs, ResumeIs DEF Step
<1>2. CASE Cancel
  BY <1>2, SameNodes DEF Cancel
<1>3. CASE UNCHANGED vars
  <2>1. cancelled' \in BOOLEAN
    BY <1>3 DEF vars, Shape, Typed
  <2> QED
    BY <1>3, <2>1, SameNodes DEF vars
<1> QED
  BY <1>1, <1>2, <1>3 DEF Next

-----------------------------------------------------------------------------
(* Delegations.                                                            *)

(* The calls of an agent that were counted and not yet compared, by their  *)
(* numbers; those above the limit cannot be let through.                   *)
Waiting(a) ==
  {n \in 1..localCalls[a] :
     /\ n <= Limits[a].MaxToolCalls
     /\ \E i \in DOMAIN nodes : /\ nodes[i].pc = "counted" /\ nodes[i].local = n
                                /\ nodes[Front(i)].what = a}

(* No two calls of an agent have one number.                               *)
Numbers ==
  \A i \in DOMAIN nodes : nodes[i].pc = "counted" =>
    /\ nodes[i].local \in 1..localCalls[nodes[Front(i)].what]
    /\ \A j \in DOMAIN nodes :
         /\ nodes[j].pc = "counted" /\ nodes[j].local = nodes[i].local
         /\ nodes[Front(j)].what = nodes[Front(i)].what
         => i = j

(* Every activation is counted once.                                       *)
EachOnce ==
  /\ IsFiniteSet(activations)
  /\ activations \subseteq Agents \X Nat
  /\ \A x \in activations : x[2] <= Cardinality(StartedBy(x[1]))

Within ==
  /\ Cardinality(activations) <= runCalls
  /\ Cardinality(activations) <= Limits[Root].MaxToolCalls
  /\ \A a \in Agents :
       /\ Cardinality(StartedBy(a)) + Cardinality(Waiting(a)) <= localCalls[a]
       /\ Cardinality(StartedBy(a)) + Cardinality(Waiting(a)) <= Limits[a].MaxToolCalls

Counts == Numbers /\ EachOnce /\ Within

LEMMA LimitIs == ASSUME NEW a \in Agents PROVE Limits[a].MaxToolCalls \in Nat
BY TreeAdmitted

LEMMA WaitingIs ==
  ASSUME Shape, NEW a \in Agents
  PROVE  IsFiniteSet(Waiting(a)) /\ Cardinality(Waiting(a)) \in Nat
<1>1. IsFiniteSet(1..localCalls[a])
  <2>1. localCalls[a] \in Int /\ 1 \in Int
    BY DEF Shape, Typed
  <2> QED
    BY <2>1, FS_Interval
<1>2. Waiting(a) \in SUBSET (1..localCalls[a])
  BY DEF Waiting
<1> QED
  BY <1>1, <1>2, FS_Subset, FS_CardinalityType

LEMMA StartedIs ==
  ASSUME EachOnce, NEW a
  PROVE  /\ IsFiniteSet(StartedBy(a)) /\ Cardinality(StartedBy(a)) \in Nat
         /\ Cardinality(activations) \in Nat
<1>1. StartedBy(a) \in SUBSET activations
  BY DEF StartedBy
<1> QED
  BY <1>1, FS_Subset, FS_CardinalityType DEF EachOnce

LEMMA FewerWaiting ==
  ASSUME Shape, NEW a \in Agents, NEW W \in SUBSET Waiting(a)
  PROVE  IsFiniteSet(W) /\ Cardinality(W) \in Nat /\ Cardinality(W) <= Cardinality(Waiting(a))
BY WaitingIs, FS_Subset, FS_CardinalityType

(* A step that counts nothing, of the calls that were counted.             *)
CountedKept ==
  /\ UNCHANGED <<localCalls, runCalls, activations>>
  /\ \A j \in DOMAIN nodes' : nodes'[j].pc = "counted" =>
       /\ j \in DOMAIN nodes /\ nodes[j].pc = "counted" /\ nodes'[j].local = nodes[j].local
       /\ nodes'[Front(j)].what = nodes[Front(j)].what

LEMMA CountsKept ==
  ASSUME Shape, Counts, CountedKept
  PROVE  Counts'
<1>1. Numbers'
  BY DEF Counts, Numbers, CountedKept
<1>2. EachOnce'
  BY DEF Counts, EachOnce, StartedBy, CountedKept
<1>3. \A a : StartedBy(a)' = StartedBy(a)
  BY DEF StartedBy, CountedKept
<1>4. \A a : Waiting(a)' \subseteq Waiting(a)
  BY DEF Waiting, CountedKept
<1>5. ASSUME NEW a \in Agents
      PROVE  /\ Cardinality(StartedBy(a)') + Cardinality(Waiting(a)') <= localCalls'[a]
             /\ Cardinality(StartedBy(a)') + Cardinality(Waiting(a)') <= Limits[a].MaxToolCalls
  <2>1. Cardinality(Waiting(a)') \in Nat /\ Cardinality(Waiting(a)') <= Cardinality(Waiting(a))
    BY <1>4, FewerWaiting
  <2>2. Cardinality(StartedBy(a)) \in Nat /\ Cardinality(Waiting(a)) \in Nat
    BY StartedIs, WaitingIs DEF Counts
  <2>3. localCalls' = localCalls /\ localCalls[a] \in Nat /\ Limits[a].MaxToolCalls \in Nat
    BY LimitIs DEF CountedKept, Shape, Typed
  <2>4. /\ Cardinality(StartedBy(a)) + Cardinality(Waiting(a)) <= localCalls[a]
        /\ Cardinality(StartedBy(a)) + Cardinality(Waiting(a)) <= Limits[a].MaxToolCalls
    BY DEF Counts, Within
  <2> QED
    BY <1>3, <2>1, <2>2, <2>3, <2>4
<1>6. Within'
  BY <1>5 DEF Counts, Within, CountedKept
<1> QED
  BY <1>1, <1>2, <1>6 DEF Counts

LEMMA KeepsCounted ==
  ASSUME Shape, NEW i \in DOMAIN nodes, Keeps(i), nodes'[i].pc # "counted",
         UNCHANGED <<localCalls, runCalls, activations>>
  PROVE  CountedKept
<1>1. ASSUME NEW j \in DOMAIN nodes', nodes'[j].pc = "counted"
      PROVE  /\ j \in DOMAIN nodes /\ nodes[j].pc = "counted" /\ nodes'[j].local = nodes[j].local
             /\ nodes'[Front(j)].what = nodes[Front(j)].what
  <2>1. j # i /\ j \in DOMAIN nodes /\ nodes'[j] = nodes[j]
    BY <1>1 DEF Keeps
  <2>2. j # <<>>
    BY <1>1, <2>1 DEF Shape, Tree
  <2>3. Front(j) \in DOMAIN nodes
    BY <2>1, <2>2, NodeIs
  <2> QED
    BY <1>1, <2>1, <2>3 DEF Keeps
<1> QED
  BY <1>1 DEF CountedKept

LEMMA AsksCounted ==
  ASSUME Shape, NEW i \in DOMAIN nodes, NEW n \in Nat, Asks(i, n),
         UNCHANGED <<localCalls, runCalls, activations>>
  PROVE  CountedKept
<1>1. ASSUME NEW j \in DOMAIN nodes', nodes'[j].pc = "counted"
      PROVE  /\ j \in DOMAIN nodes /\ nodes[j].pc = "counted" /\ nodes'[j].local = nodes[j].local
             /\ nodes'[Front(j)].what = nodes[Front(j)].what
  <2>1. j # i
    BY <1>1 DEF Asks
  <2>2. j \in DOMAIN nodes
    <3>1. ASSUME j \notin DOMAIN nodes PROVE FALSE
      <4>1. PICK k \in 1..n : j = Append(i, k)
        BY <3>1 DEF Asks
      <4> QED
        BY <1>1, <4>1 DEF Asks
    <3> QED
      BY <3>1
  <2>3. nodes'[j] = nodes[j]
    BY <2>1, <2>2 DEF Asks
  <2>4. j # <<>>
    BY <1>1, <2>3 DEF Shape, Tree
  <2>5. Front(j) \in DOMAIN nodes
    BY <2>2, <2>4, NodeIs
  <2> QED
    BY <1>1, <2>2, <2>3, <2>5 DEF Asks
<1> QED
  BY <1>1 DEF CountedKept

LEMMA ResumesCounted ==
  ASSUME Shape, NEW i \in DOMAIN nodes, Resumes(i),
         UNCHANGED <<localCalls, runCalls, activations>>
  PROVE  CountedKept
<1>1. ASSUME NEW j \in DOMAIN nodes', nodes'[j].pc = "counted"
      PROVE  /\ j \in DOMAIN nodes /\ nodes[j].pc = "counted" /\ nodes'[j].local = nodes[j].local
             /\ nodes'[Front(j)].what = nodes[Front(j)].what
  <2>1. j # i /\ j \in DOMAIN nodes /\ nodes'[j] = nodes[j]
    BY <1>1 DEF Resumes
  <2>2. j # <<>>
    BY <1>1, <2>1 DEF Shape, Tree
  <2>3. Front(j) \in DOMAIN nodes /\ nodes[Front(j)].pc = "calling"
    BY <2>1, <2>2, NodeIs
  <2>4. Front(j) \in DOMAIN nodes'
    BY <2>3 DEF Resumes
  <2> QED
    BY <1>1, <2>1, <2>4 DEF Resumes
<1> QED
  BY <1>1 DEF CountedKept

(* A call takes the next number of its agent.                              *)
LEMMA CountLocalCounts ==
  ASSUME Shape, Counts, NEW i \in DOMAIN nodes, CountLocal(i)
  PROVE  Counts'
<1> DEFINE a == nodes[Front(i)].what
           n == localCalls[a] + 1
<1>1. /\ Shape' /\ Keeps(i) /\ nodes'[i].pc = "counted" /\ i # <<>> /\ a \in Agents
      /\ nodes'[i].local = n
  BY CountLocalIs
<1>2. localCalls' = [localCalls EXCEPT ![a] = n] /\ UNCHANGED <<runCalls, activations>>
  BY DEF CountLocal
<1>3. localCalls \in [Agents -> Nat] /\ localCalls[a] \in Nat /\ n \in Nat /\ n > localCalls[a] /\ n >= 1
  BY <1>1 DEF Shape, Typed
<1> HIDE DEF n
<1>4. localCalls'[a] = n /\ \A b \in Agents : b # a => localCalls'[b] = localCalls[b]
  BY <1>1, <1>2, <1>3
<1>5. ASSUME NEW j \in DOMAIN nodes', nodes'[j].pc = "counted"
      PROVE  /\ j \in DOMAIN nodes /\ nodes'[Front(j)].what = nodes[Front(j)].what
             /\ nodes[Front(j)].what \in Agents
             /\ j # i => nodes[j].pc = "counted" /\ nodes'[j].local = nodes[j].local
  <2>1. j \in DOMAIN nodes /\ j # <<>>
    BY <1>1, <1>5 DEF Keeps, Shape, Tree
  <2>2. Front(j) \in DOMAIN nodes /\ nodes[Front(j)].what \in Agents
    BY <2>1, NodeIs
  <2> QED
    BY <1>1, <1>5, <2>1, <2>2 DEF Keeps
<1>6. ASSUME NEW j \in DOMAIN nodes, j # i, nodes[j].pc = "counted", nodes[Front(j)].what = a
      PROVE  nodes[j].local < n
  BY <1>3, <1>6 DEF Counts, Numbers
<1>7. Numbers'
  <2>1. ASSUME NEW j \in DOMAIN nodes', nodes'[j].pc = "counted"
        PROVE  nodes'[j].local \in 1..localCalls'[nodes'[Front(j)].what]
    <3>1. CASE j = i
      <4>1. nodes'[Front(i)].what = a
        BY <1>5, <2>1, <3>1
      <4> QED
        BY <1>1, <1>3, <1>4, <3>1, <4>1
    <3>2. CASE j # i
      <4>1. nodes[j].local \in 1..localCalls[nodes[Front(j)].what] /\ nodes[Front(j)].what \in Agents
        BY <1>5, <2>1, <3>2 DEF Counts, Numbers
      <4>2. localCalls[nodes[Front(j)].what] <= localCalls'[nodes[Front(j)].what]
        BY <1>3, <1>4, <4>1
      <4>3. nodes[j].local \in 1..localCalls'[nodes[Front(j)].what]
        BY <1>3, <1>4, <4>1, <4>2
      <4> QED
        BY <1>5, <2>1, <3>2, <4>3
    <3> QED
      BY <3>1, <3>2
  <2>2. ASSUME NEW j \in DOMAIN nodes', NEW k \in DOMAIN nodes', nodes'[j].pc = "counted",
               nodes'[k].pc = "counted", nodes'[k].local = nodes'[j].local,
               nodes'[Front(k)].what = nodes'[Front(j)].what
        PROVE  j = k
    <3>1. CASE j # i /\ k # i
      BY <1>5, <2>2, <3>1 DEF Counts, Numbers
    <3>2. CASE j = i /\ k # i
      <4>1. nodes[k].local < n /\ nodes'[k].local = nodes[k].local
        BY <1>5, <1>6, <2>2, <3>2
      <4> QED
        BY <1>1, <1>3, <2>2, <3>2, <4>1
    <3>3. CASE j # i /\ k = i
      <4>1. nodes[j].local < n /\ nodes'[j].local = nodes[j].local
        BY <1>5, <1>6, <2>2, <3>3
      <4> QED
        BY <1>1, <1>3, <2>2, <3>3, <4>1
    <3> QED
      BY <3>1, <3>2, <3>3
  <2> QED
    BY <2>1, <2>2 DEF Numbers
<1>8. EachOnce'
  BY <1>2 DEF Counts, EachOnce, StartedBy
<1>9. \A b : StartedBy(b)' = StartedBy(b)
  BY <1>2 DEF StartedBy
<1>10. ASSUME NEW b \in Agents, NEW m \in Waiting(b)'
       PROVE  m \in Waiting(b) \/ (b = a /\ m = n /\ n <= Limits[a].MaxToolCalls)
  <2>1. m \in 1..localCalls'[b] /\ m <= Limits[b].MaxToolCalls
    BY DEF Waiting
  <2>2. PICK j \in DOMAIN nodes' : nodes'[j].pc = "counted" /\ nodes'[j].local = m /\ nodes'[Front(j)].what = b
    BY DEF Waiting
  <2>3. CASE j = i
    BY <1>1, <1>5, <2>1, <2>2, <2>3
  <2>4. CASE j # i
    <3>1. /\ j \in DOMAIN nodes /\ nodes[j].pc = "counted" /\ nodes[j].local = m /\ nodes[Front(j)].what = b
      BY <1>5, <2>2, <2>4
    <3>2. m \in 1..localCalls[b]
      BY <3>1 DEF Counts, Numbers
    <3> QED
      BY <2>1, <3>1, <3>2 DEF Waiting
  <2> QED
    BY <2>3, <2>4
<1>11. ASSUME NEW b \in Agents
       PROVE  /\ Cardinality(StartedBy(b)') + Cardinality(Waiting(b)') <= localCalls'[b]
              /\ Cardinality(StartedBy(b)') + Cardinality(Waiting(b)') <= Limits[b].MaxToolCalls
  <2>1. /\ Cardinality(StartedBy(b)) \in Nat /\ Cardinality(Waiting(b)) \in Nat /\ IsFiniteSet(Waiting(b))
        /\ localCalls[b] \in Nat /\ Limits[b].MaxToolCalls \in Nat
    BY <1>3, StartedIs, WaitingIs, LimitIs DEF Counts
  <2>2. /\ Cardinality(StartedBy(b)) + Cardinality(Waiting(b)) <= localCalls[b]
        /\ Cardinality(StartedBy(b)) + Cardinality(Waiting(b)) <= Limits[b].MaxToolCalls
    BY DEF Counts, Within
  <2>3. localCalls'[b] \in Nat /\ localCalls[b] <= localCalls'[b]
    BY <1>3, <1>4
  <2>4. CASE b = a /\ n <= Limits[a].MaxToolCalls
    <3>1. Waiting(b)' \in SUBSET (Waiting(b) \cup {n})
      BY <1>10, <2>4
    <3>2. IsFiniteSet(Waiting(b) \cup {n}) /\ Cardinality(Waiting(b) \cup {n}) <= Cardinality(Waiting(b)) + 1
      BY <2>1, FS_AddElement
    <3>3. /\ Cardinality(Waiting(b)') <= Cardinality(Waiting(b)) + 1 /\ Cardinality(Waiting(b)') \in Nat
          /\ Cardinality(Waiting(b) \cup {n}) \in Nat
      <4>1. IsFiniteSet(Waiting(b)') /\ Cardinality(Waiting(b)') <= Cardinality(Waiting(b) \cup {n})
        BY <3>1, <3>2, FS_Subset
      <4>2. Cardinality(Waiting(b)') \in Nat /\ Cardinality(Waiting(b) \cup {n}) \in Nat
        BY <3>2, <4>1, FS_CardinalityType
      <4> QED
        BY <2>1, <3>2, <4>1, <4>2
    <3>4. localCalls'[b] = localCalls[b] + 1 /\ n = localCalls[b] + 1 /\ n <= Limits[b].MaxToolCalls
      BY <1>4, <2>4 DEF n
    <3> QED
      BY <1>9, <2>1, <2>2, <3>3, <3>4
  <2>5. CASE ~(b = a /\ n <= Limits[a].MaxToolCalls)
    <3>1. Waiting(b)' \in SUBSET Waiting(b)
      BY <1>10, <2>5
    <3>2. Cardinality(Waiting(b)') \in Nat /\ Cardinality(Waiting(b)') <= Cardinality(Waiting(b))
      BY <3>1, FewerWaiting
    <3> QED
      BY <1>9, <2>1, <2>2, <2>3, <3>2
  <2> QED
    BY <2>4, <2>5
<1>12. Within'
  BY <1>2, <1>11 DEF Counts, Within
<1> QED
  BY <1>7, <1>8, <1>12 DEF Counts

(* An activation starts under a number within its agent's limit, which it  *)
(* takes from those that wait, and under a count of the run within the     *)
(* root's.                                                                 *)
LEMMA CountTotalCounts ==
  ASSUME Shape, Counts, NEW i \in DOMAIN nodes, CountTotal(i)
  PROVE  Counts'
<1>11. /\ Shape' /\ Keeps(i) /\ nodes[i].pc = "counted" /\ nodes'[i].pc \in {"model", "answered"}
       /\ i # <<>> /\ nodes[Front(i)].what \in Agents /\ nodes[i].local \in Nat
  BY CountTotalIs
<1>12. PICK a \in Agents : a = nodes[Front(i)].what
  BY <1>11
<1>13. PICK n \in Nat : n = nodes[i].local
  BY <1>11
<1>14. PICK s \in Nat : s = Cardinality(StartedBy(a)) + 1
  BY StartedIs DEF Counts
<1>1. /\ Shape' /\ Keeps(i) /\ nodes[i].pc = "counted" /\ nodes'[i].pc \in {"model", "answered"}
      /\ i # <<>> /\ a = nodes[Front(i)].what /\ n = nodes[i].local
  BY <1>11, <1>12, <1>13
<1>2. localCalls' = localCalls /\ runCalls' = runCalls + 1 /\ runCalls \in Nat /\ localCalls \in [Agents -> Nat]
  BY DEF CountTotal, Shape, Typed
<1>3. \/ UNCHANGED activations
      \/ activations' = activations \cup {<<a, s>>} /\ n <= Limits[a].MaxToolCalls /\ runCalls + 1 <= Limits[Root].MaxToolCalls
  BY <1>1, <1>14 DEF CountTotal, Allowed
<1>4. Cardinality(activations) \in Nat /\ IsFiniteSet(activations)
  BY StartedIs DEF Counts, EachOnce
<1>5. ASSUME NEW j \in DOMAIN nodes', nodes'[j].pc = "counted"
      PROVE  /\ j # i /\ j \in DOMAIN nodes /\ nodes[j].pc = "counted" /\ nodes'[j].local = nodes[j].local
             /\ nodes'[Front(j)].what = nodes[Front(j)].what
  <2>1. j # i /\ j \in DOMAIN nodes /\ nodes'[j] = nodes[j]
    BY <1>1, <1>5 DEF Keeps
  <2>2. Front(j) \in DOMAIN nodes
    BY <1>5, <2>1, NodeIs DEF Shape, Tree
  <2> QED
    BY <1>1, <1>5, <2>1, <2>2 DEF Keeps
<1>6. Numbers'
  BY <1>2, <1>5 DEF Counts, Numbers
<1>7. \A b \in Agents : Waiting(b)' \subseteq Waiting(b)
  BY <1>2, <1>5 DEF Waiting
<1>8. n \notin Waiting(a)'
  <2>1. SUFFICES ASSUME NEW j \in DOMAIN nodes', nodes'[j].pc = "counted", nodes'[j].local = n,
                        nodes'[Front(j)].what = a
                 PROVE  FALSE
    BY DEF Waiting
  <2>2. /\ j # i /\ j \in DOMAIN nodes /\ nodes[j].pc = "counted" /\ nodes[j].local = n
        /\ nodes[Front(j)].what = a
    BY <1>5, <2>1
  <2> QED
    BY <1>1, <2>2 DEF Counts, Numbers
<1>9. CASE UNCHANGED activations
  <2>1. EachOnce'
    BY <1>9 DEF Counts, EachOnce, StartedBy
  <2>2. ASSUME NEW b \in Agents
        PROVE  /\ Cardinality(StartedBy(b)') + Cardinality(Waiting(b)') <= localCalls'[b]
               /\ Cardinality(StartedBy(b)') + Cardinality(Waiting(b)') <= Limits[b].MaxToolCalls
    <3>1. StartedBy(b)' = StartedBy(b)
      BY <1>9 DEF StartedBy
    <3>2. Cardinality(Waiting(b)') \in Nat /\ Cardinality(Waiting(b)') <= Cardinality(Waiting(b))
      BY <1>7, FewerWaiting
    <3>3. /\ Cardinality(StartedBy(b)) \in Nat /\ Cardinality(Waiting(b)) \in Nat
          /\ localCalls[b] \in Nat /\ Limits[b].MaxToolCalls \in Nat
      BY <1>2, StartedIs, WaitingIs, LimitIs DEF Counts
    <3>4. /\ Cardinality(StartedBy(b)) + Cardinality(Waiting(b)) <= localCalls[b]
          /\ Cardinality(StartedBy(b)) + Cardinality(Waiting(b)) <= Limits[b].MaxToolCalls
      BY DEF Counts, Within
    <3> QED
      BY <1>2, <3>1, <3>2, <3>3, <3>4
  <2>3. Within'
    BY <1>2, <1>4, <1>9, <2>2 DEF Counts, Within
  <2> QED
    BY <1>6, <2>1, <2>3 DEF Counts
<1>10. CASE activations' = activations \cup {<<a, s>>} /\ n <= Limits[a].MaxToolCalls /\ runCalls + 1 <= Limits[Root].MaxToolCalls
  <2>1. <<a, s>> \notin activations
    <3>1. ASSUME <<a, s>> \in activations PROVE FALSE
      <4>1. s <= Cardinality(StartedBy(a))
        BY <3>1 DEF Counts, EachOnce
      <4>2. Cardinality(StartedBy(a)) \in Nat
        BY StartedIs DEF Counts
      <4> QED
        BY <1>14, <4>1, <4>2
    <3> QED
      BY <3>1
  <2>2. StartedBy(a)' = StartedBy(a) \cup {<<a, s>>} /\ \A b \in Agents : b # a => StartedBy(b)' = StartedBy(b)
    <3> QED
      BY <1>10 DEF StartedBy
  <2>3. Cardinality(StartedBy(a)') = s
    <3>1. IsFiniteSet(StartedBy(a)) /\ <<a, s>> \notin StartedBy(a)
      BY <2>1, StartedIs DEF Counts, StartedBy
    <3> QED
      BY <1>14, <2>2, <3>1, FS_AddElement
  <2>4. IsFiniteSet(activations') /\ Cardinality(activations') = Cardinality(activations) + 1
    <3> QED
      BY <1>4, <1>10, <2>1, FS_AddElement
  <2>5. EachOnce'
    <3>1. activations' \subseteq Agents \X Nat
      <4> QED
        BY <1>1, <1>4, <1>10 DEF Counts, EachOnce
    <3>2. ASSUME NEW x \in activations' PROVE x[2] <= Cardinality(StartedBy(x[1])')
      <4>1. CASE x = <<a, s>>
        BY <1>4, <2>3, <4>1
      <4>2. CASE x # <<a, s>>
        <5>1. x \in activations /\ x[2] <= Cardinality(StartedBy(x[1])) /\ x[1] \in Agents /\ x[2] \in Nat
          <6> QED
            BY <1>10, <4>2 DEF Counts, EachOnce
        <5>2. CASE x[1] = a
          <6>1. Cardinality(StartedBy(a)) \in Nat /\ Cardinality(StartedBy(a)') = Cardinality(StartedBy(a)) + 1
            BY <1>14, <2>3, StartedIs DEF Counts
          <6>2. StartedBy(x[1])' = StartedBy(a)' /\ StartedBy(x[1]) = StartedBy(a)
            BY <5>2
          <6> QED
            BY <5>1, <6>1, <6>2
        <5>3. CASE x[1] # a
          BY <2>2, <5>1, <5>3
        <5> QED
          BY <5>2, <5>3
      <4> QED
        BY <4>1, <4>2
    <3> QED
      BY <2>4, <3>1, <3>2 DEF EachOnce
  <2>6. n \in Waiting(a)
    BY <1>1, <1>10 DEF Waiting, Counts, Numbers
  <2>7. Cardinality(Waiting(a)') \in Nat /\ Cardinality(Waiting(a)') <= Cardinality(Waiting(a)) - 1
    <3>1. Waiting(a)' \in SUBSET (Waiting(a) \ {n})
      BY <1>1, <1>7, <1>8
    <3>2. /\ IsFiniteSet(Waiting(a) \ {n}) /\ Cardinality(Waiting(a) \ {n}) = Cardinality(Waiting(a)) - 1
      BY <1>1, <2>6, WaitingIs, FS_RemoveElement
    <3> QED
      BY <3>1, <3>2, FS_Subset, FS_CardinalityType
  <2>8. ASSUME NEW b \in Agents
        PROVE  /\ Cardinality(StartedBy(b)') + Cardinality(Waiting(b)') <= localCalls'[b]
               /\ Cardinality(StartedBy(b)') + Cardinality(Waiting(b)') <= Limits[b].MaxToolCalls
    <3>1. /\ Cardinality(StartedBy(b)) \in Nat /\ Cardinality(Waiting(b)) \in Nat
          /\ localCalls[b] \in Nat /\ Limits[b].MaxToolCalls \in Nat
      BY <1>2, StartedIs, WaitingIs, LimitIs DEF Counts
    <3>2. /\ Cardinality(StartedBy(b)) + Cardinality(Waiting(b)) <= localCalls[b]
          /\ Cardinality(StartedBy(b)) + Cardinality(Waiting(b)) <= Limits[b].MaxToolCalls
      BY DEF Counts, Within
    <3>3. CASE b = a
      <4>1. /\ Cardinality(StartedBy(b)') = Cardinality(StartedBy(b)) + 1
            /\ Cardinality(Waiting(b)') \in Nat /\ Cardinality(Waiting(b)') <= Cardinality(Waiting(b)) - 1
        BY <1>14, <2>3, <2>7, <3>3
      <4> QED
        BY <1>2, <3>1, <3>2, <4>1
    <3>4. CASE b # a
      <4>1. Cardinality(Waiting(b)') \in Nat /\ Cardinality(Waiting(b)') <= Cardinality(Waiting(b))
        BY <1>7, FewerWaiting
      <4>2. StartedBy(b)' = StartedBy(b)
        BY <2>2, <3>4
      <4> QED
        BY <1>2, <3>1, <3>2, <4>1, <4>2
    <3> QED
      BY <3>3, <3>4
  <2>9. Cardinality(activations') <= runCalls' /\ Cardinality(activations') <= Limits[Root].MaxToolCalls
    <3>1. Cardinality(activations) <= runCalls /\ Limits[Root].MaxToolCalls \in Nat
      BY LimitIs, TreeAdmitted DEF Counts, Within
    <3> QED
      BY <1>2, <1>4, <1>10, <2>4, <3>1
  <2>10. Within'
    BY <2>8, <2>9 DEF Within
  <2> QED
    BY <1>6, <2>5, <2>10 DEF Counts
<1> QED
  BY <1>3, <1>9, <1>10

LEMMA StepCounts ==
  ASSUME Shape, Counts, NEW i \in DOMAIN nodes, Step(i)
  PROVE  Counts'
<1>1. CASE CallModel(i)
  <2>1. UNCHANGED <<localCalls, runCalls, activations>>
    BY <1>1 DEF CallModel
  <2>2. \/ Keeps(i) /\ nodes'[i].pc = "answered"
        \/ \E n \in Nat : Asks(i, n)
    BY <1>1, CallModelIs
  <2>3. CountedKept
    BY <2>1, <2>2, KeepsCounted, AsksCounted
  <2> QED
    BY <2>3, CountsKept
<1>2. CASE Take(i)
  BY <1>2, TakeIs, KeepsCounted, CountsKept DEF Take, counters
<1>3. CASE CountLocal(i)
  BY <1>3, CountLocalCounts
<1>4. CASE CountTotal(i)
  BY <1>4, CountTotalCounts
<1>5. CASE GuardTool(i)
  BY <1>5, GuardToolIs, KeepsCounted, CountsKept DEF GuardTool
<1>6. CASE FinishTool(i)
  BY <1>6, FinishToolIs, KeepsCounted, CountsKept DEF FinishTool, counters
<1>7. CASE Resume(i)
  BY <1>7, ResumeIs, ResumesCounted, CountsKept DEF Resume, counters
<1> QED
  BY <1>1, <1>2, <1>3, <1>4, <1>5, <1>6, <1>7 DEF Step

-----------------------------------------------------------------------------
(* The invariant and what follows from it.                                 *)

IInv == Shape /\ OnePerDepth /\ Counts

LEMMA InitIInv == Init => IInv
<1> SUFFICES ASSUME Init PROVE Counts
  BY InitShape DEF IInv
<1>1. DOMAIN nodes = {<<>>} /\ nodes[<<>>].pc = "model"
  BY DEF Init, Running, Queued
<1>2. Numbers
  BY <1>1 DEF Numbers
<1>3. activations = {} /\ runCalls = 0 /\ localCalls = [a \in Agents |-> 0]
  BY DEF Init
<1>4. EachOnce
  BY <1>3, FS_EmptySet DEF EachOnce
<1>5. \A a \in Agents : StartedBy(a) = {} /\ Waiting(a) = {}
  BY <1>1, <1>3 DEF StartedBy, Waiting
<1>6. Within
  <2>1. \A a \in Agents : localCalls[a] = 0 /\ Limits[a].MaxToolCalls \in Nat
    BY <1>3, LimitIs
  <2>2. Cardinality({}) = 0
    BY FS_EmptySet
  <2> QED
    <3>1. Root \in Agents /\ Limits[Root].MaxToolCalls \in Nat
      BY <2>1, TreeAdmitted
    <3>2. Cardinality(activations) = 0
      BY <1>3, <2>2
    <3>3. \A a \in Agents : Cardinality(StartedBy(a)) = 0 /\ Cardinality(Waiting(a)) = 0
      BY <1>5, <2>2
    <3> QED
      BY <1>3, <2>1, <3>1, <3>2, <3>3 DEF Within
<1> QED
  BY <1>2, <1>4, <1>6 DEF Counts

LEMMA NextIInv == IInv /\ [Next]_vars => IInv'
<1> SUFFICES ASSUME IInv, [Next]_vars PROVE Counts'
  BY NextShape DEF IInv
<1>1. CASE \E i \in DOMAIN nodes : Step(i)
  BY <1>1, StepCounts DEF IInv
<1>2. ASSUME UNCHANGED <<parallel, nodes, counters>>
      PROVE  Counts'
  <2>1. CountedKept
    BY <1>2 DEF CountedKept, counters
  <2> QED
    BY <2>1, CountsKept DEF IInv
<1>3. CASE Cancel
  BY <1>2, <1>3 DEF Cancel
<1>4. CASE UNCHANGED vars
  BY <1>2, <1>4 DEF vars
<1> QED
  BY <1>1, <1>3, <1>4 DEF Next

(* Calls form a tree of batches, at one worker one node of a depth is under*)
(* way, and every delegation is counted once: in every reachable state     *)
(* (buildNamedAgentTree, boundedTaskRunner, newSubagentCallLimiter).       *)
THEOREM Invariant == Spec => []IInv
<1>1. Init => IInv
  BY InitIInv
<1>2. IInv /\ [Next]_vars => IInv'
  BY NextIInv
<1> QED
  BY <1>1, <1>2, PTL DEF Spec

(* The type invariant: every node is a call its parent may make, and a     *)
(* batch is there as a whole until it has returned (boundedTaskRunner).    *)
THEOREM TypeCorrect == Spec => []TypeOK
<1>1. ASSUME IInv PROVE TypeOK
  <2>1. Shape /\ EachOnce
    BY <1>1 DEF IInv, Counts
  <2>2. ASSUME NEW i \in DOMAIN nodes
        PROVE  /\ i # <<>> => Front(i) \in DOMAIN nodes /\ nodes[i].what \in
                    Subagents[nodes[Front(i)].what] \cup Names[nodes[Front(i)].what]
               /\ BatchOf(i) \subseteq DOMAIN nodes
    BY <2>1, NodeIs DEF Shape, Tree, BatchOf
  <2> QED
    BY <2>1, <2>2 DEF TypeOK, Shape, Typed, EachOnce
<1> QED
  BY <1>1, Invariant, PTL

(* However the agents are arranged and their calls interleave, the agents  *)
(* below the root are activated at most as often as the root's limit and   *)
(* as the limit of the agent that asks (newSubagentCallLimiter).           *)
THEOREM DelegationIsBounded == Spec => []ChildCallsBounded
<1>1. ASSUME IInv PROVE ChildCallsBounded
  <2>1. ASSUME NEW a \in Agents PROVE Cardinality(StartedBy(a)) <= Limits[a].MaxToolCalls
    <3>1. Cardinality(StartedBy(a)) \in Nat /\ Cardinality(Waiting(a)) \in Nat /\ Limits[a].MaxToolCalls \in Nat
      BY <1>1, StartedIs, WaitingIs, LimitIs DEF IInv, Counts
    <3>2. Cardinality(StartedBy(a)) + Cardinality(Waiting(a)) <= Limits[a].MaxToolCalls
      BY <1>1 DEF IInv, Counts, Within
    <3> QED
      BY <3>1, <3>2
  <2> QED
    BY <1>1, <2>1 DEF ChildCallsBounded, IInv, Counts, Within
<1> QED
  BY <1>1, Invariant, PTL

(* Of two bodies that run, the deeper one has a node at the depth of the   *)
(* other that waits for it, and with one worker that is the other.         *)
LEMMA OneBody ==
  ASSUME IInv, parallel = 1, NEW i \in Bodies, NEW j \in Bodies, Len(i) <= Len(j)
  PROVE  i = j
<1>1. /\ i \in DOMAIN nodes /\ nodes[i].pc = "body" /\ i \in Paths /\ Len(i) \in Nat
      /\ j \in DOMAIN nodes /\ nodes[j].pc = "body" /\ j \in Paths /\ Len(j) \in Nat
  BY NodeIs, LenProperties DEF Bodies, IInv, Paths
<1>2. CASE Len(i) = Len(j)
  BY <1>1, <1>2 DEF IInv, OnePerDepth, Busy
<1>3. CASE Len(i) # Len(j)
  <2> DEFINE p == SubSeq(j, 1, Len(i))
  <2>1. Len(i) \in 0..(Len(j) - 1) /\ Len(i) \in 0..Len(j)
    BY <1>1, <1>3
  <2>2. p \in DOMAIN nodes /\ nodes[p].pc = "calling"
    BY <1>1, <2>1 DEF IInv, Shape, Tree
  <2>3. Len(p) = Len(i)
    BY <1>1, <2>1, PrefixIs
  <2> HIDE DEF p
  <2>4. p = i
    BY <1>1, <2>2, <2>3 DEF IInv, OnePerDepth, Busy
  <2> QED
    BY <1>1, <2>2, <2>4
<1> QED
  BY <1>2, <1>3

(* With max_parallel_calls: 1 on the workflow an unsafe call runs alone, at*)
(* every depth, though each batch has its own workers (boundedTaskRunner). *)
THEOREM OneWorkerIsAlone == Spec => []SequentialRunIsAlone
<1>1. ASSUME IInv PROVE SequentialRunIsAlone
  <2>1. SUFFICES ASSUME parallel = 1, NEW i \in Bodies, NEW j \in Bodies PROVE i = j
    BY DEF SequentialRunIsAlone, UnsafeCallsAlone
  <2>2. Len(i) \in Nat /\ Len(j) \in Nat
    BY <1>1, NodeIs, LenProperties DEF Bodies, IInv, Paths
  <2>3. CASE Len(i) <= Len(j)
    BY <1>1, <2>1, <2>3, OneBody
  <2>4. CASE Len(j) <= Len(i)
    BY <1>1, <2>1, <2>4, OneBody
  <2> QED
    BY <2>2, <2>3, <2>4
<1> QED
  BY <1>1, Invariant, PTL

=============================================================================
