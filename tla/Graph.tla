------------------------------- MODULE Graph ---------------------------------
(***************************************************************************)
(* graph.c: labelled nodes with ordered connections to other nodes.  The   *)
(* nodes are kept in a hash table, here a function from labels.            *)
(*                                                                         *)
(* A node is a number above 0; 0 is NULL.                                  *)
(***************************************************************************)
EXTENDS Integers, SequencesExt

CONSTANTS
  Labels,      \* the labels clients use
  Weights,     \* what choosers return
  MaxConns     \* the most connections of a node

VARIABLE graph

NoChooser == -100
Node == 1 .. Cardinality(Labels) + 1   \* enough for one more than the labels

\* released are the nodes a call destroys, whose values go to free_value_cb.
graph_create == [nodes |-> <<>>, connections |-> <<>>, missed |-> FALSE, released |-> {}]

Live(g) == DOMAIN g.connections
graph_node_get(g, l) == IF l \in DOMAIN g.nodes THEN g.nodes[l] ELSE 0

\* A node goes with its connections, not with those that lead to it.
graph_node_destroy(g, n) ==
  [g EXCEPT !.connections = [x \in Live(g) \ {n} |-> g.connections[x]], !.released = @ \union ({n} \ {0})]

\* ht_set: the node stored under the label before is destroyed.
ht_set(g, l, n) ==
  [graph_node_destroy(g, graph_node_get(g, l)) EXCEPT
     !.nodes = [x \in DOMAIN g.nodes \union {l} |-> IF x = l THEN n ELSE g.nodes[x]]]

graph_node_add(g, l, n) ==
  ht_set([g EXCEPT !.connections = [x \in Live(g) \union {n} |-> IF x = n THEN <<>> ELSE g.connections[x]]], l, n)

graph_node_connect(g, n1, n2, chooser) ==
  [g EXCEPT !.connections[n1] = Append(@, [destination |-> n2, chooser |-> chooser])]

\* The place of the first connection to n2, 0 if there is none.
FirstTo(s, n2) == SelectInSeq(s, LAMBDA c : c.destination = n2)

graph_node_disconnectAll(g, n1, n2) ==
  [g EXCEPT !.connections[n1] = SelectSeq(@, LAMBDA c : c.destination # n2), !.missed = @ \/ FirstTo(g.connections[n1], n2) = 0]
graph_node_disconnect(g, n1, n2) ==
  IF FirstTo(g.connections[n1], n2) = 0 THEN [g EXCEPT !.missed = TRUE]
  ELSE [g EXCEPT !.connections[n1] = RemoveAt(@, FirstTo(@, n2))]

\* The choice of the loop so far, and one more connection.
Choose(s, c) ==
  IF c.chooser = NoChooser THEN IF s.weight = 0 THEN [s EXCEPT !.selected = c.destination] ELSE s
  ELSE IF c.chooser > s.weight THEN [weight |-> c.chooser, selected |-> c.destination] ELSE s
graph_node_next(g, n) == FoldLeft(Choose, [weight |-> 0, selected |-> 0], g.connections[n]).selected

graph_node_connections_get(g, n, max) ==
  [i \in 1 .. IF Len(g.connections[n]) < max THEN Len(g.connections[n]) ELSE max |-> g.connections[n][i].destination]

graph_error_reset(g) == [g EXCEPT !.missed = FALSE]

-----------------------------------------------------------------------------

\* Clients do not add a label again while another node has a connection to the
\* node that has it: the node is freed and the connection stays.
Addable(l) == \A n \in Live(graph) \ {graph_node_get(graph, l)} : FirstTo(graph.connections[n], graph_node_get(graph, l)) = 0

Quiet(g) == [g EXCEPT !.released = {}]

Init == graph = graph_create
Add == \E l \in Labels : LET n == Min(Node \ Live(graph)) IN
         Addable(l) /\ graph' = Quiet(graph_node_add(graph, l, n))
Connect == \E n1, n2 \in Live(graph), chooser \in Weights \union {NoChooser} :
             Len(graph.connections[n1]) < MaxConns /\ graph' = graph_node_connect(graph, n1, n2, chooser)
Disconnect == \E n1, n2 \in Live(graph) : graph' = graph_node_disconnect(graph, n1, n2)
Reset == graph' = graph_error_reset(graph)

\* graph_destroy, and graph_create for the next graph.
Destroy == graph' = graph_create

Next == Add \/ Connect \/ Disconnect \/ Reset \/ Destroy
Spec == Init /\ [][Next]_graph


-----------------------------------------------------------------------------

\* What graph.h says of the choice: the greatest positive weight wins, the
\* first of several; without one, the last connection that needs no chooser.
Chosen(s) ==
  LET positive == {i \in DOMAIN s : s[i].chooser > 0}
      free == {i \in DOMAIN s : s[i].chooser = NoChooser}
      best == {i \in positive : \A j \in positive : s[i].chooser >= s[j].chooser}
  IN  IF positive # {} THEN s[Min(best)].destination ELSE IF free # {} THEN s[Max(free)].destination ELSE 0

\* b is a without its first connection to n.
OneLess(a, b, n) ==
  /\ SelectSeq(a, LAMBDA c : c.destination # n) = SelectSeq(b, LAMBDA c : c.destination # n)
  /\ LET old == SelectSeq(a, LAMBDA c : c.destination = n)
     IN  SelectSeq(b, LAMBDA c : c.destination = n) = IF old = <<>> THEN <<>> ELSE Tail(old)

\* The nodes that live are those with a label and connections lead only to
\* them; adding a label again destroys exactly the node that had it, and
\* disconnecting takes away exactly the oldest connection; graph_node_next
\* makes the documented choice.
GraphRight ==
  /\ Range(graph.nodes) = Live(graph) /\ Cardinality(Live(graph)) = Cardinality(DOMAIN graph.nodes)
  /\ \A n \in Live(graph) : /\ \A i \in DOMAIN graph.connections[n] : graph.connections[n][i].destination \in Live(graph)
                            /\ graph_node_next(graph, n) = Chosen(graph.connections[n])
  /\ \A l \in Labels : \E g \in {graph_node_add(graph, l, Min(Node \ Live(graph)))} :
       /\ g.released = {graph_node_get(graph, l)} \ {0}
       /\ graph_node_connections_get(g, graph_node_get(g, l), MaxConns) = <<>>
  /\ \A n1, n2 \in Live(graph) : \E g \in {graph_node_disconnect(graph, n1, n2)} :
       /\ OneLess(graph.connections[n1], g.connections[n1], n2)
       /\ g.missed = (graph.missed \/ FirstTo(graph.connections[n1], n2) = 0)
=============================================================================
