------------------------------ MODULE DataFlow ------------------------------
(***************************************************************************)
(* The data-flow service of fwk, fwk/dflow.go, with the cycle detection of *)
(* fwk/utils/tarjan: which component reads and writes which port of the    *)
(* event store, and when an application is refused.                        *)
(***************************************************************************)
EXTENDS Integers, Sequences, FiniteSets, Functions

CONSTANTS Comps,   \* the components that may declare ports
          Ports,   \* names of ports
          Types,   \* types of the values of a port
          NoType   \* the entry of a map that has none

ASSUME DataFlowAssumption == NoType \notin Types

VARIABLES in,      \* node.in of each component: port name to type
          out,     \* node.out of each component
          edges    \* dflowsvc.edges: port name to type

flowVars == <<in, out, edges>>

PortMap == [Ports -> Types \cup {NoType}]
NoPorts == [p \in Ports |-> NoType]
Keys(m) == {p \in Ports : m[p] # NoType}

FlowTypeOK ==
  /\ in \in [Comps -> PortMap]
  /\ out \in [Comps -> PortMap]
  /\ edges \in PortMap

FlowInit ==
  /\ in = [c \in Comps |-> NoPorts]
  /\ out = [c \in Comps |-> NoPorts]
  /\ edges = NoPorts

-----------------------------------------------------------------------------
(* Declaring ports.  ok is whether the call returns without an error. *)

addInNode(c, p, t, ok) ==
  IF in[c][p] # NoType
    THEN ~ok /\ UNCHANGED flowVars
    ELSE /\ in' = [in EXCEPT ![c][p] = t]
         /\ UNCHANGED out
         /\ ok = (edges[p] \in {NoType, t})
         /\ edges' = IF ok THEN [edges EXCEPT ![p] = t] ELSE edges

\* The type is not compared with that of an in-port declared before.
addOutNode(c, p, t, ok) ==
  IF out[c][p] # NoType
    THEN ~ok /\ UNCHANGED flowVars
    ELSE /\ out' = [out EXCEPT ![c][p] = t]
         /\ UNCHANGED in
         /\ ok = (edges[p] = NoType \/ \A d \in Comps \ {c} : out[d][p] = NoType)
         /\ edges' = IF ok THEN [edges EXCEPT ![p] = t] ELSE edges

-----------------------------------------------------------------------------
(* tarjan.Connections.  d is the struct data; what strongConnect returns,  *)
(* a pointer into d.nodes, is d.nodes[d.index[v]].                          *)

Data(V) == [index : [V -> Nat], nodes : Seq([lowlink : Nat, stacked : BOOLEAN]),
            stack : Seq(V), output : Seq(SUBSET V)]

\* The vertices above and including v on the stack form a component.
PopComponent(d, v) ==
  LET i == CHOOSE j \in DOMAIN d.stack : d.stack[j] = v
      vertices == {d.stack[j] : j \in i .. Len(d.stack)}
  IN  [d EXCEPT !.stack = SubSeq(@, 1, i - 1),
                !.output = Append(@, vertices),
                !.nodes = [k \in DOMAIN @ |->
                  IF \E w \in vertices : d.index[w] = k
                    THEN [@[k] EXCEPT !.stacked = FALSE] ELSE @[k]]]

Lower(d, k, low) == [d EXCEPT !.nodes[k].lowlink = IF low < @ THEN low ELSE @]

\* d once every element of s, in order, has been through op.
ForRange(op(_, _), d, s) ==
  LET last(S) == CHOOSE i \in S : \A j \in S : j <= i
  IN  MapThenFoldSet(LAMBDA x, e : op(e, x), d, LAMBDA i : s[i], last, DOMAIN s)

\* graph[v] is the sequence of the successors of v; an index of 0 is "not seen".
Connections(V, graph, order) ==
  LET strongConnect[a \in V \X Data(V)] ==
        LET v == a[1]
            index == Len(a[2].nodes) + 1
            d0 == [a[2] EXCEPT !.index[v] = index,
                               !.stack = Append(@, v),
                               !.nodes = Append(@, [lowlink |-> index, stacked |-> TRUE])]
            visit(d, w) ==
              IF d.index[w] = 0
                THEN LET e == strongConnect[<<w, d>>]
                     IN  Lower(e, index, e.nodes[e.index[w]].lowlink)
                ELSE IF d.nodes[d.index[w]].stacked THEN Lower(d, index, d.index[w]) ELSE d
            d1 == ForRange(visit, d0, graph[v])
        IN  IF d1.nodes[index].lowlink = index THEN PopComponent(d1, v) ELSE d1
      start == [index |-> [v \in V |-> 0], nodes |-> <<>>, stack |-> <<>>, output |-> <<>>]
      root(d, v) == IF d.index[v] = 0 THEN strongConnect[<<v, d>>] ELSE d
  IN  ForRange(root, start, order).output

-----------------------------------------------------------------------------
(* dflowsvc.StartSvc *)

\* Only components that declared a port have a node.
Nodes == {c \in Comps : Keys(in[c]) \cup Keys(out[c]) # {}}

Duplicate == \E c, d \in Nodes : c # d /\ Keys(out[c]) \cap Keys(out[d]) # {}

Missing == \E c \in Nodes : \E p \in Keys(in[c]) : \A d \in Nodes : p \notin Keys(out[d])

\* The orders in which a map with the keys S may be walked.
Orders(S) == Bijection(1 .. Cardinality(S), S)

\* The producers of what n reads, n itself left out.
Graph ==
  [n \in Nodes |-> CHOOSE s \in Orders({o \in Nodes \ {n} : Keys(in[n]) \cap Keys(out[o]) # {}}) :
                     TRUE]

\* Defect: a cycle of two components is let through.
StartSvcPairs(order) ==
  /\ ~Duplicate /\ ~Missing
  /\ LET cycles == Connections(Nodes, Graph, order)
     IN  \A i \in DOMAIN cycles : Cardinality(cycles[i]) <= 2

\* Whether StartSvc returns without an error, when the map of nodes is walked in
\* the given order.
StartSvc(order) ==
  /\ ~Duplicate /\ ~Missing
  /\ LET cycles == Connections(Nodes, Graph, order)
     IN  \A i \in DOMAIN cycles : Cardinality(cycles[i]) <= 1

=============================================================================
