-------------------------- MODULE ExperimentProofs --------------------------
(***************************************************************************)
(* Proofs about the experiment scripts, for every sequence of samples.     *)
(*                                                                         *)
(* The logs on disk are always those of one simulation, because one that   *)
(* writes anything writes the log of every host; it may be one of an       *)
(* earlier invocation.  A report therefore reads either those of its own   *)
(* simulation or, throughout, those of one earlier simulation; and it gets *)
(* to its end only if that had enough hosts.                               *)
(***************************************************************************)
EXTENDS Experiment, FiniteSetTheorems, TLAPS

-----------------------------------------------------------------------------
(***************************************************************************)
(* The topology: connect_graph, for every number of nodes and of peers.    *)
(*                                                                         *)
(* Call a node settled when it is in base_set or has been rewired in this  *)
(* pass.  That base_set stays connected, and rewired nodes stay reachable, *)
(* follows from a stronger fact about the settled nodes alone: going along *)
(* edges between settled nodes only, every node of base_set reaches all of *)
(* them.  An edge v -> u that is cut was either no such edge, or is        *)
(* replaced by v -> node -> u, which are; and what a node loses when it is *)
(* rewired was no such edge either, for it was not settled yet.            *)
(***************************************************************************)

Settled == Node \ todo

(* S is closed under the edges between settled nodes.                      *)
ClosedWithin(S) == \A n \in S \cap Settled : graph[n] \cap Settled \subseteq S

SettledInv ==
  base # {} => \A S \in SUBSET Node :
                  ClosedWithin(S) /\ S \cap base # {} => Settled \subseteq S

(* The degrees, as facts about sets.                                       *)
DegreeInv == \A n \in Node : graph[n] # {} /\ Cardinality(graph[n]) <= peer_cnt

TopologyInv == TypeOK /\ DegreeInv /\ SettledInv

-------------------------------------------------------------------------------
LEMMA NodeIsFinite ==
  ASSUME node_num \in Nat
  PROVE  IsFiniteSet(Node)
BY FS_Interval DEF Node

(* Exchanging an element of a set for another does not make it larger, nor *)
(* empty.                                                                  *)
LEMMA Exchange ==
  ASSUME NEW S, IsFiniteSet(S), NEW k \in Nat, Cardinality(S) <= k, NEW x \in S, NEW y
  PROVE  (S \ {x}) \cup {y} # {} /\ Cardinality((S \ {x}) \cup {y}) <= k
<1>1. IsFiniteSet(S \ {x}) /\ Cardinality(S \ {x}) = Cardinality(S) - 1
  BY FS_RemoveElement
<1>2. /\ IsFiniteSet((S \ {x}) \cup {y})
      /\ Cardinality((S \ {x}) \cup {y}) = Cardinality(S \ {x})
         \/ Cardinality((S \ {x}) \cup {y}) = Cardinality(S \ {x}) + 1
  BY <1>1, FS_AddElement
<1>3. Cardinality(S) \in Nat
  BY FS_CardinalityType
<1> QED  BY <1>1, <1>2, <1>3

(* What one rewiring does to the rows of the matrix.                       *)
Rewired(node, peer, v, u) ==
  /\ v # node /\ v \in Node /\ node \in Node /\ u \in Node
  /\ u \in graph[v]
  /\ graph' \in [Node -> SUBSET Node]
  /\ graph'[v] = (graph[v] \ {u}) \cup {node}
  /\ graph'[node] = (graph[node] \ {peer}) \cup {u}
  /\ \A n \in Node \ {v, node} : graph'[n] = graph[n]

LEMMA RewireStep ==
  ASSUME TypeOK, NEW node \in todo, Rewire(node)
  PROVE  \E peer \in graph[node], v \in base : \E u \in graph[v] : Rewired(node, peer, v, u)
<1> PICK peer \in graph[node], v \in base :
         \E u \in [graph EXCEPT ![node] = @ \ {peer}][v] :
            graph' = Splice([graph EXCEPT ![node] = @ \ {peer}], v, u, node)
  BY DEF Rewire
<1> DEFINE g == [graph EXCEPT ![node] = @ \ {peer}]
<1>0. v # node /\ v \in Node /\ node \in Node
  BY DEF TypeOK
<1>1. graph \in [Node -> SUBSET Node]
  BY DEF TypeOK
<1>2. /\ g \in [Node -> SUBSET Node] /\ g[v] = graph[v]
      /\ g[node] = graph[node] \ {peer}
      /\ \A n \in Node \ {node} : g[n] = graph[n]
  BY <1>0, <1>1
<1> PICK u \in g[v] : graph' = Splice(g, v, u, node)
  OBVIOUS
<1> HIDE DEF g
<1>3. u \in graph[v] /\ u \in Node
  BY <1>0, <1>1, <1>2
<1>4. graph' = [g EXCEPT ![v] = (@ \ {u}) \cup {node}, ![node] = @ \cup {u}]
  BY DEF Splice
<1>5. (g[v] \ {u}) \cup {node} \in SUBSET Node /\ g[node] \cup {u} \in SUBSET Node
  BY <1>0, <1>2, <1>3
<1>6. graph' \in [Node -> SUBSET Node]
  <2>1. [g EXCEPT ![v] = (@ \ {u}) \cup {node}] \in [Node -> SUBSET Node]
    BY <1>0, <1>2, <1>5
  <2> QED  BY <1>0, <1>2, <1>4, <1>5, <2>1
<1>7. graph'[v] = (g[v] \ {u}) \cup {node}
  BY <1>0, <1>2, <1>4
<1>8. graph'[node] = g[node] \cup {u}
  BY <1>0, <1>2, <1>4
<1>9. \A n \in Node \ {v, node} : graph'[n] = g[n]
  BY <1>0, <1>2, <1>4
<1>10. Rewired(node, peer, v, u)
  BY <1>0, <1>2, <1>3, <1>6, <1>7, <1>8, <1>9 DEF Rewired
<1> QED  BY <1>3, <1>10

LEMMA InitInv == Init => TopologyInv
<1> SUFFICES ASSUME Init  PROVE TopologyInv
  OBVIOUS
<1>1. <<node_num, peer_cnt>> \in Arguments /\ node_num \in Nat /\ peer_cnt \in Nat
      /\ peer_cnt >= 1
  BY TopologyAssumption DEF Init
<1>2. graph \in [Node -> SUBSET Node] /\ \A n \in Node : Cardinality(graph[n]) = peer_cnt
  BY DEF Init, generate_graph, Rows
<1>3. TypeOK
  BY <1>1, <1>2 DEF Init, TypeOK
<1>4. ASSUME NEW n \in Node  PROVE graph[n] # {}
  BY <1>1, <1>2, FS_EmptySet
<1>5. DegreeInv
  BY <1>1, <1>2, <1>4 DEF DegreeInv
<1>6. SettledInv
  BY DEF Init, SettledInv
<1> QED  BY <1>3, <1>5, <1>6 DEF TopologyInv

(* A component is connected by the edges between its own nodes.            *)
LEMMA ComponentIsConnected ==
  ASSUME TypeOK, NEW r \in Node, NEW S \in SUBSET Node,
         \A n \in S \cap Component(graph, r) : graph[n] \cap Component(graph, r) \subseteq S,
         S \cap Component(graph, r) # {}
  PROVE  Component(graph, r) \subseteq S
<1> DEFINE c == Component(graph, r)
<1>0. c \subseteq Node
  BY DEF Component
<1> PICK m \in S \cap c : TRUE
  OBVIOUS
<1>1. ASSUME NEW n \in c  PROVE Reaches(graph, m, n)
  <2>1. Reaches(graph, m, r) /\ Reaches(graph, r, n)
    BY DEF Component
  <2> QED  BY <2>1 DEF Reaches
<1>2. ASSUME NEW x \in Node, NEW y \in c, Reaches(graph, m, x), Reaches(graph, x, y)
      PROVE  x \in c
  <2>1. Reaches(graph, r, m) /\ Reaches(graph, y, r)
    BY DEF Component
  <2>2. Reaches(graph, r, x)
    BY <1>2, <2>1 DEF Reaches
  <2>3. Reaches(graph, x, r)
    BY <1>2, <2>1 DEF Reaches
  <2> QED  BY <2>2, <2>3 DEF Component
<1>3. ASSUME NEW x \in Node, NEW y \in graph[x], Reaches(graph, m, x)
      PROVE  y \in Node /\ Reaches(graph, m, y) /\ Reaches(graph, x, y)
  BY <1>3 DEF Reaches, Closed, TypeOK
<1> DEFINE T == (S \cap c) \cup {x \in Node \ c : Reaches(graph, m, x)}
<1>4. T \in SUBSET Node /\ m \in T
  BY <1>0
<1>5. ASSUME NEW x \in T, NEW y \in graph[x]  PROVE y \in T
  <2>1. x \in Node /\ Reaches(graph, m, x)
    BY <1>0, <1>1
  <2>2. y \in Node /\ Reaches(graph, m, y) /\ Reaches(graph, x, y)
    BY <1>3, <2>1
  <2>3. CASE y \notin c
    BY <2>2, <2>3
  <2>4. CASE y \in c
    <3>1. x \in c
      BY <1>2, <2>1, <2>2, <2>4
    <3>2. x \in S \cap c
      BY <3>1
    <3> QED  BY <2>4, <3>2
  <2> QED  BY <2>3, <2>4
<1>6. Closed(graph, T)
  BY <1>5 DEF Closed
<1> HIDE DEF T
<1>7. \A n \in c : n \in T
  BY <1>1, <1>4, <1>6 DEF Reaches
<1> QED  BY <1>7 DEF T

LEMMA CheckKeepsInv == TopologyInv /\ CheckComponents => TopologyInv'
<1> SUFFICES ASSUME TopologyInv, CheckComponents  PROVE TopologyInv'
  OBVIOUS
<1>0. TypeOK /\ Node' = Node
  BY DEF TopologyInv, CheckComponents, Node
<1> PICK r \in Node : IF Component(graph, r) = Node
                      THEN pc' = "done" /\ UNCHANGED <<base, todo>>
                      ELSE pc' = "rewire" /\ base' = Component(graph, r)
                           /\ todo' = Others(Component(graph, r))
  BY DEF CheckComponents
<1>1. Component(graph, r) \subseteq Node
  BY DEF Component
<1>2. TypeOK'
  BY <1>0, <1>1 DEF TypeOK, CheckComponents, Others
<1>3. DegreeInv'
  BY <1>0 DEF TopologyInv, DegreeInv, CheckComponents
<1>4. SettledInv'
  <2>1. CASE Component(graph, r) = Node
    BY <1>0, <2>1 DEF TopologyInv, SettledInv, ClosedWithin, Settled, CheckComponents
  <2>2. CASE Component(graph, r) # Node
    <3>1. base' = Component(graph, r) /\ Settled' = Component(graph, r) /\ graph' = graph
      BY <1>0, <1>1, <2>2 DEF Others, Settled, CheckComponents
    <3>2. SUFFICES ASSUME NEW S \in SUBSET Node, ClosedWithin(S)', S \cap base' # {}
                   PROVE  Settled' \subseteq S
      BY <1>0 DEF SettledInv
    <3>3. \A n \in S \cap Component(graph, r) : graph[n] \cap Component(graph, r) \subseteq S
      BY <3>1, <3>2 DEF ClosedWithin
    <3> QED  BY <1>0, <3>1, <3>2, <3>3, ComponentIsConnected
  <2> QED  BY <2>1, <2>2
<1> QED  BY <1>2, <1>3, <1>4 DEF TopologyInv

LEMMA RewireKeepsInv ==
  ASSUME TopologyInv, NEW node \in todo, Rewire(node)
  PROVE  TopologyInv'
<1>0. TypeOK /\ Node' = Node /\ node_num \in Nat /\ peer_cnt \in Nat
  BY TopologyAssumption DEF TopologyInv, TypeOK, Rewire, Node
<1>1. PICK peer \in graph[node], v \in base : \E u \in graph[v] : Rewired(node, peer, v, u)
  BY <1>0, RewireStep
<1>2. PICK u \in graph[v] : Rewired(node, peer, v, u)
  BY <1>1
<1>3. /\ v # node /\ v \in Node /\ node \in Node /\ u \in Node
      /\ u \in graph[v]
      /\ graph' \in [Node -> SUBSET Node]
      /\ graph'[v] = (graph[v] \ {u}) \cup {node}
      /\ graph'[node] = (graph[node] \ {peer}) \cup {u}
      /\ \A n \in Node \ {v, node} : graph'[n] = graph[n]
  BY <1>2 DEF Rewired
<1>4. /\ todo' = todo \ {node} /\ base' = base
      /\ peer_cnt' = peer_cnt /\ node_num' = node_num /\ pc' \in {"check", "rewire"}
  BY DEF Rewire
<1>5. TypeOK'
  BY <1>0, <1>3, <1>4 DEF TypeOK
<1>6. DegreeInv'
  <2>1. ASSUME NEW n \in Node
        PROVE  graph'[n] # {} /\ Cardinality(graph'[n]) <= peer_cnt
    <3>1. IsFiniteSet(graph[n]) /\ Cardinality(graph[n]) <= peer_cnt /\ graph[n] # {}
      BY <1>0, NodeIsFinite, FS_Subset DEF TopologyInv, DegreeInv, TypeOK
    <3>2. CASE n = v
      <4>1. u \in graph[n]
        BY <1>3, <3>2
      <4>2. (graph[n] \ {u}) \cup {node} # {} /\ Cardinality((graph[n] \ {u}) \cup {node}) <= peer_cnt
        BY <1>0, <3>1, <4>1, Exchange
      <4> QED  BY <1>3, <3>2, <4>2
    <3>3. CASE n = node
      <4>1. peer \in graph[n]
        BY <1>1, <3>3
      <4>2. (graph[n] \ {peer}) \cup {u} # {} /\ Cardinality((graph[n] \ {peer}) \cup {u}) <= peer_cnt
        BY <1>0, <3>1, <4>1, Exchange
      <4> QED  BY <1>3, <3>3, <4>2
    <3>4. CASE n \notin {v, node}
      BY <1>3, <3>1, <3>4
    <3> QED  BY <3>2, <3>3, <3>4
  <2> QED  BY <1>0, <1>4, <2>1 DEF DegreeInv
<1>7. SettledInv'
  <2>1. SUFFICES ASSUME NEW S \in SUBSET Node, ClosedWithin(S)', S \cap base # {}
                 PROVE  Settled' \subseteq S
    BY <1>0, <1>4 DEF SettledInv
  <2>2. Settled' = Settled \cup {node} /\ node \notin Settled /\ v \in Settled
    BY <1>0, <1>3, <1>4 DEF Settled, TypeOK
  <2>3. ClosedWithin(S)
    <3> SUFFICES ASSUME NEW n \in S \cap Settled, NEW x \in graph[n] \cap Settled
                 PROVE  x \in S
      BY DEF ClosedWithin
    <3>1. n \in Node /\ n # node
      BY <2>2
    <3>2. \A k \in S \cap Settled' : graph'[k] \cap Settled' \subseteq S
      BY <2>1 DEF ClosedWithin
    <3>3. CASE x \in graph'[n]
      BY <2>2, <3>2, <3>3
    <3>4. CASE x \notin graph'[n]
      <4>1. n = v /\ x = u
        BY <1>3, <3>1, <3>4
      <4>2. node \in graph'[n] /\ node \in Settled'
        BY <1>3, <2>2, <4>1
      <4>3. node \in S
        BY <2>2, <3>2, <4>2
      <4>4. u \in graph'[node] /\ u \in Settled'
        BY <1>3, <2>2, <4>1
      <4> QED  BY <2>2, <3>2, <4>1, <4>3, <4>4
    <3> QED  BY <3>3, <3>4
  <2>4. Settled \subseteq S
    BY <2>1, <2>3 DEF TopologyInv, SettledInv
  <2>5. v \in S \cap Settled' /\ node \in graph'[v] /\ node \in Settled'
    BY <1>3, <2>2, <2>4
  <2>6. node \in S
    BY <2>1, <2>5 DEF ClosedWithin
  <2> QED  BY <2>2, <2>4, <2>6
<1> QED  BY <1>5, <1>6, <1>7 DEF TopologyInv

-------------------------------------------------------------------------------
(* The invariant of connect_graph holds at every step.                     *)
THEOREM TopologyCorrect == Spec => []TopologyInv
<1>1. Init => TopologyInv
  BY InitInv
<1>2. TopologyInv /\ [Next]_vars => TopologyInv'
  <2> SUFFICES ASSUME TopologyInv, [Next]_vars  PROVE TopologyInv'
    OBVIOUS
  <2>1. CASE CheckComponents
    BY <2>1, CheckKeepsInv
  <2>2. ASSUME NEW node \in todo, Rewire(node)  PROVE TopologyInv'
    BY <2>2, RewireKeepsInv
  <2>3. CASE UNCHANGED vars
    BY <2>3 DEF vars, TopologyInv, TypeOK, DegreeInv, SettledInv, ClosedWithin, Settled, Node
  <2> QED  BY <2>1, <2>2, <2>3 DEF Next, connect_graph
<1> QED  BY <1>1, <1>2, PTL DEF Spec

(* The matrix, base_set and the list of nodes to visit keep their type.    *)
THEOREM TypeCorrect == Spec => []TypeOK
<1>1. TopologyInv => TypeOK
  BY DEF TopologyInv
<1> QED  BY <1>1, TopologyCorrect, PTL

(* No node ever runs out of peers or gets more than it was asked for, so   *)
(* random.choice never raises.                                             *)
THEOREM DegreeCorrect == Spec => []DegreeWithinBounds
<1>1. TopologyInv => DegreeWithinBounds
  <2> SUFFICES ASSUME TopologyInv, NEW n \in Node
               PROVE  Cardinality(graph[n]) \in 1..peer_cnt
    BY DEF DegreeWithinBounds
  <2>1. /\ IsFiniteSet(graph[n]) /\ graph[n] # {} /\ Cardinality(graph[n]) <= peer_cnt
        /\ peer_cnt \in Nat
    BY TopologyAssumption, NodeIsFinite, FS_Subset DEF TopologyInv, DegreeInv, TypeOK
  <2>2. Cardinality(graph[n]) \in Nat /\ Cardinality(graph[n]) # 0
    BY <2>1, FS_CardinalityType, FS_EmptySet
  <2> QED  BY <2>1, <2>2
<1> QED  BY <1>1, TopologyCorrect, PTL

(* Rewiring never disconnects base_set.                                    *)
THEOREM BaseCorrect == Spec => []BaseStaysConnected
<1>1. TopologyInv => BaseStaysConnected
  <2> SUFFICES ASSUME TopologyInv, NEW m \in base, NEW n \in base,
                      NEW S \in SUBSET Node, m \in S, Closed(graph, S)
               PROVE  n \in S
    BY DEF BaseStaysConnected, Reaches
  <2>1. ClosedWithin(S)
    BY DEF ClosedWithin, Closed
  <2>2. n \in Settled
    BY DEF TopologyInv, TypeOK, Settled
  <2> QED  BY <2>1, <2>2 DEF TopologyInv, SettledInv
<1> QED  BY <1>1, TopologyCorrect, PTL

(* Nodes that have been rewired stay reachable from base_set.              *)
THEOREM RewiredCorrect == Spec => []RewiredStaysReachable
<1>1. TopologyInv => RewiredStaysReachable
  <2> SUFFICES ASSUME TopologyInv, base # {}, NEW n \in Node \ todo
               PROVE  \E m \in base : Reaches(graph, m, n)
    BY DEF RewiredStaysReachable
  <2> PICK m \in base : TRUE
    OBVIOUS
  <2>1. ASSUME NEW S \in SUBSET Node, m \in S, Closed(graph, S)  PROVE n \in S
    <3>1. ClosedWithin(S)
      BY <2>1 DEF ClosedWithin, Closed
    <3> QED  BY <2>1, <3>1 DEF TopologyInv, SettledInv, Settled
  <2> QED  BY <2>1 DEF Reaches
<1> QED  BY <1>1, TopologyCorrect, PTL

-----------------------------------------------------------------------------
(* The experiment.                                                         *)

(* The logs are those of sample j, or of an earlier invocation.            *)
LogsOf(j) ==
  /\ j > 0 => DOMAIN logs = 0..(plan[j][1] - 1)
  /\ \A p \in DOMAIN logs : logs[p].sample = j

(* Nodes and peers are numbers that generate_graph can do with.            *)
PlanInv ==
  /\ plan \in Plans
  /\ exp \in 0..Len(plan)
  /\ at \in {"next", "graph", "shadow", "report", "failed"}
  /\ at \in {"graph", "shadow", "report"} =>
       exp \in 1..Len(plan) /\ node_num = plan[exp][1] /\ peer_cnt = plan[exp][2]

GraphInv ==
  at = "graph" => TopologyInv /\ (pc = "done" => \A p \in Node : Reaches(graph, 0, p))

DataInv ==
  at = "shadow" =>
    /\ hosts = Node
    /\ data \in [Node -> SUBSET Node]
    /\ \A p \in Node : data[p] # {} /\ Reaches(data, 0, p)

(* All rows since then hold their figures.                                 *)
RowsOf(j) == \A h \in 1..Len(rows) : h >= j => rows[h].of = {j}

(* What RowIsBacked says of row i of rs, read under plan p and faults f.   *)
IsBacked(rs, p, f, i) ==
  \E k \in 0..i : /\ rs[i].of = {k}
                  /\ k > 0 => p[k][1] >= rs[i].nodenum
                  /\ k < i => "fails" \in f
                  /\ \A h \in 1..i : h >= k => rs[h].of = {k}

LogsInv == \E j \in 0..exp : LogsOf(j) /\ RowsOf(j)

ReportInv ==
  at = "report" =>
    /\ node_id \in 1..node_num
    /\ node_id = 1 => samples = {}
    /\ node_id > 1 => \E j \in 0..exp : LogsOf(j) /\ samples = {j} /\ node_id - 1 \in DOMAIN logs
    /\ "fails" \notin faults => LogsOf(exp)
    /\ faults = {} => \A p \in 1..(node_num - 1) : logs[p].line

RowsInv ==
  /\ rows \in Seq([nodenum : Nat, peercnt : Nat, of : SUBSET Nat])
  /\ Len(rows) = IF at = "next" THEN exp ELSE exp - 1
  /\ RowIsBacked
  /\ NoSampleFails

ExperimentInv ==
  PlanInv /\ GraphInv /\ DataInv /\ LogsInv /\ ReportInv /\ RowsInv

-----------------------------------------------------------------------------
LEMMA SampleIsLegal ==
  ASSUME PlanInv, NEW i \in 1..Len(plan)
  PROVE  /\ plan[i] \in Arguments
         /\ plan[i][1] \in Nat /\ plan[i][2] \in Nat
         /\ plan[i][1] >= 2 /\ plan[i][2] >= 1
<1>1. plan \in Seq(Arguments)
  BY ExperimentAssumption DEF PlanInv
<1>2. plan[i] \in Arguments
  BY <1>1
<1> QED  BY <1>2, TopologyAssumption

LEMMA ExperimentInitInv == ExperimentInit => ExperimentInv
<1> SUFFICES ASSUME ExperimentInit  PROVE ExperimentInv
  OBVIOUS
<1>1. plan \in Seq(Arguments)
  BY ExperimentAssumption DEF ExperimentInit
<1>2. PlanInv /\ GraphInv /\ DataInv /\ ReportInv
  BY <1>1 DEF ExperimentInit, PlanInv, GraphInv, DataInv, ReportInv
<1>3. LogsInv
  <2>1. \A p \in DOMAIN logs : logs[p].sample = 0
    <3>1. PICK n \in Earlier : \E printed \in SUBSET (1..(n - 1)) :
            logs = [p \in 0..(n - 1) |-> [sample |-> 0, line |-> p \in printed]]
      BY DEF ExperimentInit, EarlierLogs
    <3>2. PICK printed \in SUBSET (1..(n - 1)) :
            logs = [p \in 0..(n - 1) |-> [sample |-> 0, line |-> p \in printed]]
      BY <3>1
    <3> QED  BY <3>2
  <2>2. LogsOf(0) /\ RowsOf(0) /\ 0 \in 0..exp
    BY <2>1 DEF ExperimentInit, LogsOf, RowsOf
  <2> QED  BY <2>2 DEF LogsInv
<1>4. RowsInv
  BY DEF ExperimentInit, RowsInv, RowIsBacked, NoSampleFails
<1> QED  BY <1>2, <1>3, <1>4 DEF ExperimentInv

(* What leaves plan, exp, logs and rows alone keeps what is said of them.  *)
LEMMA LogsStay ==
  ASSUME UNCHANGED <<plan, logs>>
  PROVE  \A j : LogsOf(j)' <=> LogsOf(j)
BY DEF LogsOf

LEMMA LogsInvStays ==
  ASSUME PlanInv, LogsInv, UNCHANGED <<plan, logs, rows>>, exp' = exp \/ exp' = exp + 1
  PROVE  LogsInv'
<1>1. PICK j \in 0..exp : LogsOf(j) /\ RowsOf(j)
  BY DEF LogsInv
<1>2. j \in 0..exp'
  BY DEF PlanInv
<1>3. LogsOf(j)' /\ RowsOf(j)'
  BY <1>1, LogsStay DEF RowsOf
<1> QED  BY <1>2, <1>3 DEF LogsInv

LEMMA BackedStays ==
  ASSUME RowIsBacked, NoSampleFails, UNCHANGED <<plan, faults, rows>>,
         at' = "failed" => at = "failed" \/ faults # {}
  PROVE  RowIsBacked' /\ NoSampleFails'
<1>1. rows' = rows /\ plan' = plan /\ faults' = faults
  OBVIOUS
<1>2. RowIsBacked'
  BY <1>1 DEF RowIsBacked
<1>3. NoSampleFails'
  BY <1>1 DEF NoSampleFails
<1> QED  BY <1>2, <1>3

LEMMA RowsStay ==
  ASSUME RowsInv, UNCHANGED <<plan, faults, exp, rows>>, at # "next", at' # "next",
         at' = "failed" => faults # {}
  PROVE  RowsInv'
<1>1. rows' = rows /\ plan' = plan /\ faults' = faults /\ exp' = exp
  OBVIOUS
<1> QED  BY <1>1, BackedStays DEF RowsInv

LEMMA NextSampleKeepsInv == ExperimentInv /\ NextSample => ExperimentInv'
<1> SUFFICES ASSUME ExperimentInv, NextSample  PROVE ExperimentInv'
  OBVIOUS
<1>0. /\ PlanInv /\ LogsInv /\ RowsInv
      /\ at = "next" /\ at' = "graph" /\ exp' = exp + 1 /\ exp' \in 1..Len(plan)
      /\ UNCHANGED <<plan, faults, node_id, samples, rows, hosts, data, logs>>
  BY DEF ExperimentInv, NextSample, disk, PlanInv
<1>1. PlanInv'
  BY <1>0 DEF PlanInv, NextSample
<1>2. GraphInv'
  <2>1. /\ <<node_num', peer_cnt'>> \in Arguments
        /\ node_num' = plan[exp'][1] /\ peer_cnt' = plan[exp'][2]
        /\ plan[exp'] \in Nat \X Nat
    BY <1>0, SampleIsLegal, TopologyAssumption DEF NextSample
  <2>2. Init'
    BY <2>1 DEF Init, NextSample
  <2>3. Init' => TopologyInv'
    BY InitInv, PTL
  <2> QED  BY <2>2, <2>3 DEF GraphInv, NextSample
<1>3. DataInv' /\ ReportInv'
  BY <1>0 DEF DataInv, ReportInv
<1>4. LogsInv'
  BY <1>0, LogsInvStays
<1>5. RowsInv'
  <2>1. rows' = rows /\ plan' = plan /\ faults' = faults
    BY <1>0
  <2>2. Len(rows) = exp /\ exp \in Int
    BY <1>0 DEF RowsInv, PlanInv
  <2>3. Len(rows') = exp' - 1
    BY <1>0, <2>1, <2>2
  <2>4. RowIsBacked' /\ NoSampleFails'
    BY <1>0, <2>1, BackedStays DEF RowsInv
  <2> QED  BY <1>0, <2>1, <2>3, <2>4 DEF RowsInv
<1> QED  BY <1>1, <1>2, <1>3, <1>4, <1>5 DEF ExperimentInv

LEMMA ConnectGraphKeepsInv == ExperimentInv /\ ConnectGraph => ExperimentInv'
<1> SUFFICES ASSUME ExperimentInv, ConnectGraph  PROVE ExperimentInv'
  OBVIOUS
<1>0. /\ PlanInv /\ LogsInv /\ RowsInv /\ TopologyInv
      /\ at = "graph" /\ UNCHANGED <<script, disk, node_num, peer_cnt>> /\ connect_graph
  BY DEF ExperimentInv, ConnectGraph, GraphInv, connect_graph, CheckComponents, Rewire
<1>a. UNCHANGED <<plan, faults, exp, at, node_id, samples, rows, hosts, data, logs>>
  BY <1>0 DEF script, disk
<1>b. PlanInv' /\ DataInv' /\ ReportInv'
  BY <1>0, <1>a DEF PlanInv, DataInv, ReportInv
<1>c. LogsInv'
  BY <1>0, <1>a, LogsInvStays
<1>d. RowsInv'
  BY <1>0, <1>a, RowsStay
<1>1. PlanInv' /\ LogsInv' /\ RowsInv' /\ DataInv' /\ ReportInv'
  BY <1>b, <1>c, <1>d
<1>2. TopologyInv'
  <2>1. CASE CheckComponents
    BY <1>0, <2>1, CheckKeepsInv
  <2>2. ASSUME NEW node \in todo, Rewire(node)  PROVE TopologyInv'
    BY <1>0, <2>2, RewireKeepsInv
  <2> QED  BY <1>0, <2>1, <2>2 DEF connect_graph
<1>3. ASSUME pc' = "done", NEW p \in Node'  PROVE Reaches(graph, 0, p)' 
  <2>1. CheckComponents
    BY <1>0, <1>3 DEF connect_graph, Rewire
  <2>2. PICK n \in Node : Component(graph, n) = Node
    BY <1>3, <2>1 DEF CheckComponents
  <2>3. node_num \in Nat /\ node_num >= 2
    BY <1>0, SampleIsLegal DEF PlanInv
  <2>4. Node' = Node /\ graph' = graph /\ 0 \in Node /\ p \in Node
    BY <1>0, <2>1, <2>3 DEF Node, CheckComponents
  <2>5. Reaches(graph, 0, n) /\ Reaches(graph, n, p)
    BY <2>2, <2>4 DEF Component
  <2> QED  BY <2>4, <2>5 DEF Reaches, Closed
<1>4. GraphInv'
  BY <1>2, <1>3 DEF GraphInv
<1> QED  BY <1>1, <1>4 DEF ExperimentInv

LEMMA SetupNodesKeepsInv == ExperimentInv /\ SetupNodes => ExperimentInv'
<1> SUFFICES ASSUME ExperimentInv, SetupNodes  PROVE ExperimentInv'
  OBVIOUS
<1>0. /\ PlanInv /\ LogsInv /\ RowsInv /\ TopologyInv
      /\ \A p \in Node : Reaches(graph, 0, p)
      /\ at = "graph" /\ at' = "shadow"
      /\ UNCHANGED <<plan, faults, exp, rows, logs, node_num, peer_cnt>>
      /\ hosts' = Node /\ data' = [p \in Node |-> graph[p]]
  BY DEF ExperimentInv, GraphInv, SetupNodes, topology, ConfigFiles
<1>1. PlanInv' /\ GraphInv' /\ ReportInv'
  BY <1>0 DEF PlanInv, GraphInv, ReportInv
<1>2. LogsInv'
  BY <1>0, LogsInvStays
<1>3. RowsInv'
  BY <1>0, RowsStay
<1>4. DataInv'
  <2>1. Node' = Node
    BY <1>0 DEF Node
  <2>2. graph \in [Node -> SUBSET Node] /\ \A p \in Node : graph[p] # {}
    BY <1>0 DEF TopologyInv, TypeOK, DegreeInv
  <2>3. data' = graph
    BY <1>0, <2>2
  <2>4. ASSUME NEW p \in Node  PROVE Reaches(data, 0, p)'
    BY <1>0, <2>1, <2>3 DEF Reaches, Closed
  <2> QED  BY <1>0, <2>1, <2>2, <2>3, <2>4 DEF DataInv
<1> QED  BY <1>1, <1>2, <1>3, <1>4 DEF ExperimentInv

LEMMA ShadowKeepsInv == ExperimentInv /\ run_shadow => ExperimentInv'
<1> SUFFICES ASSUME ExperimentInv, run_shadow  PROVE ExperimentInv'
  OBVIOUS
<1>0. /\ PlanInv /\ LogsInv /\ RowsInv /\ DataInv
      /\ at = "shadow" /\ at' = "report" /\ node_id' = 1 /\ samples' = {}
      /\ UNCHANGED <<plan, faults, exp, rows, node_num, peer_cnt>>
      /\ exp \in 1..Len(plan) /\ node_num = plan[exp][1] /\ node_num \in Nat /\ node_num >= 2
  <2>1. PlanInv /\ at = "shadow"
    BY DEF ExperimentInv, run_shadow
  <2>2. exp \in 1..Len(plan) /\ node_num = plan[exp][1]
    BY <2>1 DEF PlanInv
  <2> QED  BY <2>1, <2>2, SampleIsLegal DEF ExperimentInv, run_shadow, topology, NoSamples
<1>1. PlanInv' /\ GraphInv' /\ DataInv'
  BY <1>0 DEF PlanInv, GraphInv, DataInv
<1>2. RowsInv'
  BY <1>0, RowsStay
<1>3. Flooded = Node \ {0}
  <2>1. \A p \in Node : Runs(p)
    BY <1>0 DEF DataInv, Runs
  <2>2. [p \in Node |-> IF Runs(p) THEN data[p] ELSE {}] = data
    BY <1>0, <2>1 DEF DataInv
  <2> QED  BY <1>0, <2>1, <2>2 DEF Flooded, DataInv
<1>4. CASE "fails" \in faults /\ UNCHANGED logs
  <2>1. LogsInv'
    BY <1>0, <1>4, LogsInvStays
  <2>2. ReportInv'
    BY <1>0, <1>4 DEF ReportInv
  <2> QED  BY <1>1, <1>2, <2>1, <2>2 DEF ExperimentInv
<1>5. ASSUME NEW printed \in IF "stoptime" \in faults THEN SUBSET Flooded ELSE {Flooded},
             logs' = [p \in hosts |-> [sample |-> exp, line |-> p \in printed]]
      PROVE  ExperimentInv'
  <2>1. DOMAIN logs' = 0..(plan[exp][1] - 1) /\ \A p \in DOMAIN logs' : logs'[p].sample = exp
    BY <1>0, <1>5 DEF DataInv, Node
  <2>2. LogsOf(exp)'
    BY <1>0, <2>1 DEF LogsOf
  <2>3. LogsInv'
    <3>1. rows' = rows /\ Len(rows) = exp - 1 /\ exp' = exp /\ exp \in Nat
      BY <1>0 DEF RowsInv
    <3>2. \A h \in 1..Len(rows) : ~ (h >= exp)
      BY <3>1
    <3>3. RowsOf(exp)'
      BY <3>1, <3>2 DEF RowsOf
    <3>4. exp \in 0..exp'
      BY <3>1
    <3> QED  BY <2>2, <3>1, <3>3, <3>4 DEF LogsInv
  <2>4. faults = {} => \A p \in 1..(node_num - 1) : logs'[p].line
    <3> SUFFICES ASSUME faults = {}, NEW p \in 1..(node_num - 1)  PROVE logs'[p].line
      OBVIOUS
    <3>1. printed = Flooded
      BY <1>5
    <3>2. p \in hosts /\ p \in Flooded
      BY <1>0, <1>3 DEF DataInv, Node
    <3>3. logs'[p] = [sample |-> exp, line |-> p \in printed]
      BY <1>5, <3>2
    <3>4. [sample |-> exp, line |-> p \in printed].line = (p \in printed)
      OBVIOUS
    <3>5. logs'[p].line = (p \in printed)
      BY <3>3, <3>4, Zenon
    <3> QED  BY <3>1, <3>2, <3>5
  <2>5. ReportInv'
    BY <1>0, <2>2, <2>4 DEF ReportInv
  <2> QED  BY <1>1, <1>2, <2>3, <2>5 DEF ExperimentInv
<1> QED  BY <1>4, <1>5 DEF run_shadow

LEMMA ParseLogKeepsInv == ExperimentInv /\ parse_log => ExperimentInv'
<1> SUFFICES ASSUME ExperimentInv, parse_log  PROVE ExperimentInv'
  OBVIOUS
<1>0. /\ PlanInv /\ LogsInv /\ RowsInv /\ ReportInv
      /\ at = "report" /\ node_id < node_num
      /\ UNCHANGED <<plan, faults, exp, rows, hosts, data, logs, node_num, peer_cnt>>
      /\ exp \in 1..Len(plan) /\ node_num = plan[exp][1] /\ node_num \in Nat /\ node_num >= 2
      /\ node_id \in 1..node_num
  <2>1. PlanInv /\ at = "report"
    BY DEF ExperimentInv, parse_log
  <2>2. exp \in 1..Len(plan) /\ node_num = plan[exp][1]
    BY <2>1 DEF PlanInv
  <2> QED  BY <2>1, <2>2, SampleIsLegal DEF ExperimentInv, parse_log, topology, disk, ReportInv
<1>1. at' \in {"report", "failed"}
  BY <1>0 DEF parse_log
<1>2. PlanInv' /\ GraphInv' /\ DataInv'
  BY <1>0, <1>1 DEF PlanInv, GraphInv, DataInv
<1>3. LogsInv'
  BY <1>0, LogsInvStays
<1>4. CASE node_id \in DOMAIN logs /\ logs[node_id].line
  <2>1. /\ samples' = samples \cup {logs[node_id].sample} /\ node_id' = node_id + 1 /\ at' = at
    BY <1>4 DEF parse_log
  <2>2. PICK j \in 0..exp : LogsOf(j)
    BY <1>0, <1>4 DEF LogsInv
  <2>4. logs[node_id].sample = j
    BY <1>0, <1>4, <2>2 DEF LogsOf
  <2>5. samples \subseteq {j}
    <3>1. CASE node_id = 1
      BY <1>0, <3>1 DEF ReportInv
    <3>2. CASE node_id > 1
      <4>1. PICK k \in 0..exp : LogsOf(k) /\ samples = {k}
        BY <1>0, <3>2 DEF ReportInv
      <4>2. logs[node_id].sample = k
        BY <1>4, <4>1 DEF LogsOf
      <4> QED  BY <2>4, <4>1, <4>2
    <3> QED  BY <1>0, <3>1, <3>2
  <2>6. samples' = {j}
    BY <2>1, <2>4, <2>5
  <2>7. ReportInv'
    <3>1. node_id' \in 1..node_num' /\ node_id' > 1
      BY <1>0, <2>1
    <3>2. LogsOf(j)' /\ samples' = {j} /\ node_id' - 1 \in DOMAIN logs'
      BY <1>0, <1>4, <2>1, <2>2, <2>6, LogsStay
    <3>3. /\ "fails" \notin faults' => LogsOf(exp)'
          /\ faults' = {} => \A p \in 1..(node_num' - 1) : logs'[p].line
      BY <1>0, LogsStay DEF ReportInv
    <3>4. j \in 0..exp' /\ exp' = exp
      BY <1>0, <2>2
    <3> QED  BY <3>1, <3>2, <3>3, <3>4 DEF ReportInv
  <2>8. RowsInv'
    BY <1>0, <2>1, RowsStay
  <2> QED  BY <1>2, <1>3, <2>7, <2>8 DEF ExperimentInv
<1>5. CASE ~(node_id \in DOMAIN logs /\ logs[node_id].line)
  <2>1. at' = "failed"
    BY <1>5 DEF parse_log
  <2>2. faults # {}
    <3>1. /\ "fails" \notin faults => LogsOf(exp)
          /\ faults = {} => \A p \in 1..(node_num - 1) : logs[p].line
      BY <1>0 DEF ReportInv
    <3>2. node_id \in 1..(node_num - 1) /\ node_id \in 0..(plan[exp][1] - 1) /\ exp > 0
      BY <1>0
    <3> QED  BY <1>5, <3>1, <3>2 DEF LogsOf
  <2>3. RowsInv'
    BY <1>0, <2>1, <2>2, RowsStay
  <2> QED  BY <1>2, <1>3, <2>1, <2>3 DEF ExperimentInv, ReportInv
<1> QED  BY <1>4, <1>5

LEMMA WriteRowKeepsInv == ExperimentInv /\ WriteRow => ExperimentInv'
<1> SUFFICES ASSUME ExperimentInv, WriteRow  PROVE ExperimentInv'
  OBVIOUS
<1>0. /\ PlanInv /\ LogsInv /\ RowsInv /\ ReportInv
      /\ at = "report" /\ at' = "next" /\ node_id = node_num
      /\ UNCHANGED <<plan, faults, exp, hosts, data, logs>>
      /\ rows' = Append(rows, [nodenum |-> node_num, peercnt |-> peer_cnt, of |-> samples])
      /\ exp \in 1..Len(plan) /\ node_num = plan[exp][1] /\ node_num \in Nat /\ node_num >= 2
      /\ peer_cnt \in Nat
  <2>1. PlanInv /\ at = "report"
    BY DEF ExperimentInv, WriteRow
  <2>2. exp \in 1..Len(plan) /\ node_num = plan[exp][1] /\ peer_cnt = plan[exp][2]
    BY <2>1 DEF PlanInv
  <2> QED  BY <2>1, <2>2, SampleIsLegal DEF ExperimentInv, WriteRow, disk
<1>1. PlanInv' /\ GraphInv' /\ DataInv' /\ ReportInv'
  BY <1>0 DEF PlanInv, GraphInv, DataInv, ReportInv
<1>3. PICK j \in 0..exp : LogsOf(j) /\ samples = {j} /\ node_num - 1 \in DOMAIN logs
  BY <1>0 DEF ReportInv
<1>4. "fails" \notin faults => j = exp
  <2> SUFFICES ASSUME "fails" \notin faults  PROVE j = exp
    OBVIOUS
  <2>1. LogsOf(exp)
    BY <1>0 DEF ReportInv
  <2> QED  BY <1>3, <2>1 DEF LogsOf
<1>6. RowsOf(j)
  <2>1. PICK k \in 0..exp : LogsOf(k) /\ RowsOf(k)
    BY <1>0 DEF LogsInv
  <2>2. k = j
    BY <1>3, <2>1 DEF LogsOf
  <2> QED  BY <2>1, <2>2
<1>7. j > 0 => plan[j][1] >= node_num
  <2> SUFFICES ASSUME j > 0  PROVE plan[j][1] >= node_num
    OBVIOUS
  <2>1. j \in 1..Len(plan) /\ plan[j][1] \in Nat
    BY <1>0, SampleIsLegal DEF PlanInv
  <2>2. node_num - 1 \in 0..(plan[j][1] - 1)
    BY <1>3 DEF LogsOf
  <2> QED  BY <1>0, <2>1, <2>2
<1>5. RowsInv'
  <2>1. /\ rows' \in Seq([nodenum : Nat, peercnt : Nat, of : SUBSET Nat])
        /\ Len(rows') = Len(rows) + 1 /\ Len(rows) + 1 = exp
        /\ \A i \in 1..Len(rows) : rows'[i] = rows[i]
        /\ rows'[exp] = [nodenum |-> node_num, peercnt |-> peer_cnt, of |-> {j}]
    BY <1>0, <1>3 DEF RowsInv
  <2> DEFINE row == rows'[exp]
  <2>a. row.of = {j} /\ row.nodenum = node_num
    BY <2>1
  <2>b. ASSUME NEW i \in 1..exp, i # exp  PROVE i \in 1..Len(rows) /\ rows'[i] = rows[i]
    BY <2>1, <2>b, <1>0
  <2>c. ASSUME NEW h \in 1..exp, h >= j  PROVE rows'[h].of = {j}
    <3>1. CASE h = exp
      BY <2>a, <3>1
    <3>2. CASE h # exp
      BY <1>6, <2>b, <2>c, <3>2 DEF RowsOf
    <3> QED  BY <3>1, <3>2
  <2>2. RowIsBacked'
    <3>back. ASSUME NEW i \in 1..exp
             PROVE  IsBacked(rows', plan, faults, i)
      <4>1. CASE i = exp
        <5>1. j \in 0..i /\ rows'[i].of = {j} /\ rows'[i].nodenum = node_num
          BY <1>3, <2>a, <4>1
        <5>2. j < i => "fails" \in faults
          BY <1>4, <4>1, <5>1
        <5> QED  BY <1>7, <2>c, <4>1, <5>1, <5>2 DEF IsBacked
      <4>2. CASE i # exp
        <5>1. i \in 1..Len(rows) /\ rows'[i] = rows[i]
          BY <2>b, <4>2
        <5>2. PICK k \in 0..i : /\ rows[i].of = {k}
                                /\ k > 0 => plan[k][1] >= rows[i].nodenum
                                /\ k < i => "fails" \in faults
                                /\ \A h \in 1..i : h >= k => rows[h].of = {k}
          BY <1>0, <5>1 DEF RowsInv, RowIsBacked
        <5>3. \A h \in 1..i : h \in 1..exp /\ h # exp /\ rows'[h] = rows[h]
          BY <1>0, <2>b, <4>2
        <5>4. rows'[i].of = {k} /\ (k > 0 => plan[k][1] >= rows'[i].nodenum)
          BY <5>1, <5>2
        <5>5. \A h \in 1..i : h >= k => rows'[h].of = {k}
          <6> SUFFICES ASSUME NEW h \in 1..i, h >= k  PROVE rows'[h].of = {k}
            OBVIOUS
          <6>1. rows[h].of = {k}
            BY <5>2
          <6> QED  BY <5>3, <6>1
        <5> QED  BY <5>2, <5>4, <5>5 DEF IsBacked
      <4> QED  BY <4>1, <4>2
    <3>1. Len(rows') = exp /\ plan' = plan /\ faults' = faults
      BY <1>0, <2>1
    <3>2. \A i \in 1..Len(rows') : IsBacked(rows', plan', faults', i)
      BY <3>back, <3>1
    <3> QED  BY <3>2 DEF RowIsBacked, IsBacked
  <2>3. NoSampleFails'
    <3> SUFFICES ASSUME faults = {}, NEW i \in 1..exp  PROVE rows'[i].of = {i}
      BY <1>0, <2>1 DEF NoSampleFails
    <3>1. CASE i = exp
      BY <1>4, <2>a, <3>1
    <3>2. CASE i # exp
      BY <1>0, <2>b, <3>2 DEF RowsInv, NoSampleFails
    <3> QED  BY <3>1, <3>2
  <2> QED  BY <1>0, <2>1, <2>2, <2>3 DEF RowsInv
<1>2. LogsInv'
  <2>1. LogsOf(j)' /\ j \in 0..exp'
    BY <1>0, <1>3, LogsStay
  <2>2. RowsOf(j)'
    <3>1. /\ Len(rows') = exp /\ Len(rows) = exp - 1 /\ rows'[exp].of = {j}
          /\ \A h \in 1..Len(rows) : rows'[h] = rows[h]
      BY <1>0, <1>3 DEF RowsInv
    <3>2. \A h \in 1..exp : h # exp => h \in 1..Len(rows)
      BY <1>0, <3>1
    <3> QED  BY <1>6, <3>1, <3>2 DEF RowsOf
  <2> QED  BY <2>1, <2>2 DEF LogsInv
<1> QED  BY <1>1, <1>2, <1>5 DEF ExperimentInv

-----------------------------------------------------------------------------
(* The invariant of the scripts holds at every step.                       *)
THEOREM ExperimentCorrect == ExperimentSpec => []ExperimentInv
<1>1. ExperimentInit => ExperimentInv
  BY ExperimentInitInv
<1>2. ExperimentInv /\ [ExperimentNext]_<<script, disk, topology>> => ExperimentInv'
  <2> SUFFICES ASSUME ExperimentInv, [ExperimentNext]_<<script, disk, topology>>
               PROVE  ExperimentInv'
    OBVIOUS
  <2>1. CASE UNCHANGED <<script, disk, topology>>
    <3>1. /\ UNCHANGED <<plan, faults, exp, at, node_id, samples, rows, hosts, data, logs>>
          /\ UNCHANGED <<node_num, peer_cnt, graph, base, todo, pc>>
      BY <2>1 DEF script, disk, topology
    <3>2. /\ PlanInv /\ GraphInv /\ DataInv /\ LogsInv /\ ReportInv /\ RowsInv
      BY DEF ExperimentInv
    <3>3. PlanInv'
      BY <3>1, <3>2 DEF PlanInv
    <3>4. Node' = Node
      BY <3>1 DEF Node
    <3>5. TopologyInv => TopologyInv'
      BY <3>1 DEF TopologyInv, TypeOK, DegreeInv, SettledInv, ClosedWithin, Settled, Node
    <3>6. \A p \in Node : Reaches(graph, 0, p)' = Reaches(graph, 0, p)
      BY <3>1, <3>4 DEF Reaches, Closed
    <3>7. GraphInv'
      BY <3>1, <3>2, <3>4, <3>5, <3>6 DEF GraphInv
    <3>8. DataInv'
      <4>1. \A p \in Node : Reaches(data, 0, p)' = Reaches(data, 0, p)
        BY <3>1, <3>4 DEF Reaches, Closed
      <4> QED  BY <3>1, <3>2, <3>4, <4>1 DEF DataInv
    <3>9. LogsInv' /\ ReportInv'
      BY <3>1, <3>2, LogsStay, LogsInvStays DEF ReportInv
    <3>10. RowsInv'
      BY <3>1, <3>2, BackedStays DEF RowsInv
    <3> QED  BY <3>3, <3>7, <3>8, <3>9, <3>10 DEF ExperimentInv
  <2> QED
    BY <2>1, NextSampleKeepsInv, ConnectGraphKeepsInv, SetupNodesKeepsInv, ShadowKeepsInv,
       ParseLogKeepsInv, WriteRowKeepsInv DEF ExperimentNext
<1> QED  BY <1>1, <1>2, PTL DEF ExperimentSpec

(* Every configuration file the scripts write names a peer, and only peers *)
(* that are hosts.                                                         *)
THEOREM DeployableCorrect == ExperimentSpec => []ConfigsAreDeployable
<1>1. ExperimentInv => ConfigsAreDeployable
  BY DEF ExperimentInv, DataInv, ConfigsAreDeployable, Runs
<1> QED  BY <1>1, ExperimentCorrect, PTL

(* A sample fails only when its simulation does, and otherwise its row     *)
(* holds its own figures.                                                  *)
THEOREM SampleCorrect == ExperimentSpec => []NoSampleFails
<1>1. ExperimentInv => NoSampleFails
  BY DEF ExperimentInv, RowsInv
<1> QED  BY <1>1, ExperimentCorrect, PTL

(* A row holds the figures of exactly one simulation, of at least as many  *)
(* hosts, whatever an earlier invocation has left and whatever fails; they *)
(* are older than the row only if a simulation wrote nothing, and then all *)
(* rows since hold the same.                                               *)
THEOREM BackedCorrect == ExperimentSpec => []RowIsBacked
<1>1. ExperimentInv => RowIsBacked
  BY DEF ExperimentInv, RowsInv
<1> QED  BY <1>1, ExperimentCorrect, PTL
=============================================================================
