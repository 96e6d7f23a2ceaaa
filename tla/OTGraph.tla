-------------------------------- MODULE OTGraph --------------------------------
(***************************************************************************)
(* OpenTracker's data flow graph (core/Graph.cxx, core/Node.cxx): nodes    *)
(* are added, connected and removed while the program runs, by the XML     *)
(* parsers and by UbitrackClient, and the main loop visits them in the     *)
(* order of their traversal numbers, which updateTraversalOrder keeps up   *)
(* to date by calling itself on every parent.  A child is a node whose     *)
(* events its parents receive.                                             *)
(*                                                                         *)
(* children and parents are vectors in the code.  Their order and the      *)
(* repetition of an element decide only in which order the recursive calls *)
(* are made: here they are sets, and the outstanding calls may return in   *)
(* any order.  The context's mutex lets one operation of the graph happen  *)
(* at a time.  Every node is also held by a module (a Node::Ptr, as        *)
(* TestModule.h:75 has), so that leaving the list does not destroy it.     *)
(***************************************************************************)
EXTENDS Integers, Sequences, FiniteSets

CONSTANTS
  Nodes,   \* the node objects
  None     \* no node

ASSUME NodesAssumption == IsFiniteSet(Nodes) /\ None \notin Nodes

VARIABLES
  children, parents,   \* Node::children, Node::parents
  traversalorder,      \* Node::traversalorder
  members,             \* the nodes whose Node::graph is this graph
  nodes,               \* Graph::nodes
  changed,             \* Graph::changed
  calls,               \* how many calls of updateTraversalOrder a node still has before it
  op,                  \* the operation whose call is on: see Ops
  upper, lower         \* its parent and child; the node that leaves is lower

linkVars == <<children, parents>>
listVars == <<members, nodes, changed>>
opVars == <<op, upper, lower>>
vars == <<linkVars, traversalorder, listVars, calls, opVars>>

(* "addChild" and "addParent": connectNodes has made that call and waits for
   it to return; "leave": remNode, in disconnect(). *)
Ops == {"none", "addChild", "addParent", "leave"}

Listed == {nodes[i] : i \in DOMAIN nodes}

(* The number updateTraversalOrder gives a node that has the children S. *)
IsAbove(k, order, S) ==
  IF S = {} THEN k = 0
  ELSE (\A m \in S : order[m] < k) /\ (\E m \in S : order[m] = k - 1)

TypeOK ==
  /\ children \in [Nodes -> SUBSET Nodes] /\ parents \in [Nodes -> SUBSET Nodes]
  /\ traversalorder \in [Nodes -> Nat]
  /\ members \subseteq Nodes /\ nodes \in Seq(Nodes) /\ changed \in BOOLEAN
  /\ calls \in [Nodes -> Nat]
  /\ op \in Ops /\ upper \in Nodes \cup {None} /\ lower \in Nodes \cup {None}

Init ==
  /\ children = [n \in Nodes |-> {}] /\ parents = [n \in Nodes |-> {}]
  /\ traversalorder = [n \in Nodes |-> 0]
  /\ members = {} /\ nodes = <<>> /\ changed = FALSE
  /\ calls = [n \in Nodes |-> 0]
  /\ op = "none" /\ upper = None /\ lower = None

(* No call of updateTraversalOrder is outstanding; no operation is on. *)
Returned == \A n \in Nodes : calls[n] = 0
Idle == op = "none"

(* updateTraversalOrder is called on one more node, or on several. *)
Call(S) == [n \in Nodes |-> calls[n] + (IF n \in S THEN 1 ELSE 0)]
-----------------------------------------------------------------------------
(* Mutant: addNode does not ask whether the node has this graph already. *)
Added_Always(list, have, n) == Append(list, n)

(* addNode: a node that has this graph already is left alone. *)
Added(list, have, n) == IF n \in have THEN list ELSE Append(list, n)

AddNode(n) ==
  /\ Idle /\ n \notin members
  /\ members' = members \cup {n}
  /\ nodes' = Added(nodes, members, n)
  /\ changed' = TRUE
  /\ UNCHANGED <<linkVars, traversalorder, calls, opVars>>

(* The nodes whose events reach n, n among them. *)
Below(n) ==
  {m \in Nodes : \A S \in SUBSET Nodes :
                    (n \in S /\ \A x \in S : children[x] \subseteq S) => m \in S}

(* connectNodes.  A configuration's elements are nested, and a Ubitrack server
   answers with a flow without cycles; the code tests neither, and on a cycle
   updateTraversalOrder would not return. *)
ConnectNodes(p, c) ==
  /\ Idle /\ p \notin Below(c)
  /\ members' = members \cup {p, c}
  /\ nodes' = Added(Added(nodes, members, p), members \cup {p}, c)
  /\ changed' = (changed \/ ~({p, c} \subseteq members))
  /\ children' = [children EXCEPT ![p] = @ \cup {c}]
  /\ calls' = Call({p})
  /\ op' = "addChild" /\ upper' = p /\ lower' = c
  /\ UNCHANGED <<parents, traversalorder>>

(* Mutant: a changed number is not passed on to the parents. *)
UpdateTraversalOrder_Alone(n) ==
  /\ calls[n] > 0
  /\ \E k \in 0..Cardinality(Nodes) :
       /\ IsAbove(k, traversalorder, children[n])
       /\ traversalorder' = [traversalorder EXCEPT ![n] = k]
       /\ calls' = [calls EXCEPT ![n] = @ - 1]
  /\ UNCHANGED <<linkVars, listVars, opVars>>

(* One call of updateTraversalOrder: when the node's number changes, it calls
   all its parents. *)
UpdateTraversalOrder(n) ==
  /\ calls[n] > 0
  /\ \E k \in 0..Cardinality(Nodes) :
       /\ IsAbove(k, traversalorder, children[n])
       /\ traversalorder' = [traversalorder EXCEPT ![n] = k]
       /\ calls' = [m \in Nodes |->
            calls[m] - (IF m = n THEN 1 ELSE 0)
                     + (IF k # traversalorder[n] /\ m \in parents[n] THEN 1 ELSE 0)]
  /\ UNCHANGED <<linkVars, listVars, opVars>>

(* addChild has returned: connectNodes calls addParent. *)
AddParent ==
  /\ op = "addChild" /\ Returned
  /\ parents' = [parents EXCEPT ![lower] = @ \cup {upper}]
  /\ calls' = Call({upper})
  /\ op' = "addParent"
  /\ UNCHANGED <<children, traversalorder, listVars, upper, lower>>

(* Mutant: connectNodes does not mark the graph as changed. *)
Connected_Unmarked ==
  /\ op = "addParent" /\ Returned
  /\ op' = "none" /\ upper' = None /\ lower' = None
  /\ UNCHANGED <<linkVars, traversalorder, listVars, calls>>

Connected ==
  /\ op = "addParent" /\ Returned
  /\ changed' = TRUE
  /\ op' = "none" /\ upper' = None /\ lower' = None
  /\ UNCHANGED <<linkVars, traversalorder, members, nodes, calls>>
-----------------------------------------------------------------------------
(* Mutant: disconnect() does not tell the children. *)
RemNode_KeepParents(n) ==
  /\ Idle /\ n \in Listed
  /\ members' = members \ {n}
  /\ children' = [children EXCEPT ![n] = {}]
  /\ op' = "leave" /\ lower' = n
  /\ UNCHANGED <<parents, traversalorder, nodes, changed, calls, upper>>

(* remNode: setGraph(0) resets the node's graph and calls remNode again, which
   disconnects the node: first its children forget it ... *)
RemNode(n) ==
  /\ Idle /\ n \in Listed
  /\ members' = members \ {n}
  /\ parents' = [m \in Nodes |-> IF m \in children[n] THEN parents[m] \ {n} ELSE parents[m]]
  /\ children' = [children EXCEPT ![n] = {}]
  /\ op' = "leave" /\ lower' = n
  /\ UNCHANGED <<traversalorder, nodes, changed, calls, upper>>

(* ... then its parents, one after the other, each with a new number. *)
LeaveParent(p) ==
  /\ op = "leave" /\ Returned /\ p \in parents[lower]
  /\ children' = [children EXCEPT ![p] = @ \ {lower}]
  /\ parents' = [parents EXCEPT ![lower] = @ \ {p}]
  /\ calls' = IF lower \in children[p] THEN Call({p}) ELSE calls
  /\ UNCHANGED <<traversalorder, listVars, opVars>>

(* s without its i-th element. *)
Without(s, i) == [j \in 1..(Len(s) - 1) |-> IF j < i THEN s[j] ELSE s[j + 1]]

(* The inner remNode erases the node's place and returns into the outer one,
   which erases the same place once more: by now that of the next node, if
   there is one, else the end, where the erasure is undefined and takes the last
   element or none.  The object is dropped; its value stands from now on for the
   next one to be made. *)
Erase ==
  /\ op = "leave" /\ Returned /\ parents[lower] = {}
  /\ \E i \in DOMAIN nodes :
       LET once == Without(nodes, i)
           again == IF i <= Len(once) THEN {i} ELSE {Len(once), 0} IN
         /\ nodes[i] = lower
         /\ \E j \in again : nodes' = IF j = 0 THEN once ELSE Without(once, j)
  /\ changed' = TRUE
  /\ traversalorder' = [traversalorder EXCEPT ![lower] = 0]
  /\ op' = "none" /\ lower' = None
  /\ UNCHANGED <<linkVars, members, calls, upper>>

(* disconnectNodes refuses the nodes that do belong to the graph; two that do
   not are not connected, and only changed is set. *)
DisconnectNodes(p, c) ==
  /\ Idle /\ p \notin members /\ c \notin members
  /\ children' = [children EXCEPT ![p] = @ \ {c}]
  /\ parents' = [parents EXCEPT ![c] = @ \ {p}]
  /\ changed' = TRUE
  /\ UNCHANGED <<traversalorder, members, nodes, calls, opVars>>
-----------------------------------------------------------------------------
(* s holds what old holds, in the order of the traversal numbers; the sort is
   not stable. *)
IsSortOf(s, old) ==
  /\ \E from \in [DOMAIN old -> DOMAIN old] :
       /\ \A i, j \in DOMAIN old : i # j => from[i] # from[j]
       /\ \A i \in DOMAIN old : s[i] = old[from[i]]
  /\ \A i, j \in DOMAIN s : i < j => traversalorder[s[i]] <= traversalorder[s[j]]

(* pushEvents and pullEvents: the list is sorted when the graph has changed,
   and visited from its front to its end. *)
PushEvents ==
  /\ Idle
  /\ IF changed THEN \E s \in [DOMAIN nodes -> Listed] : IsSortOf(s, nodes) /\ nodes' = s
                ELSE nodes' = nodes
  /\ changed' = FALSE
  /\ UNCHANGED <<linkVars, traversalorder, members, calls, opVars>>

Next ==
  \/ \E n \in Nodes : AddNode(n) \/ UpdateTraversalOrder(n) \/ RemNode(n) \/ LeaveParent(n)
  \/ \E p, c \in Nodes : ConnectNodes(p, c) \/ DisconnectNodes(p, c)
  \/ AddParent \/ Connected \/ Erase \/ PushEvents

Spec == Init /\ [][Next]_vars
-----------------------------------------------------------------------------
(* Node.h:129-135: a node's number is one more than the greatest of its
   children's, whatever was connected and removed, at whatever depth. *)
OrderCorrect ==
  Idle => \A n \in Nodes : IsAbove(traversalorder[n], traversalorder, children[n])

(* Node.h:133-134, "new events are propagated from source nodes to sink nodes
   in only one traversal": in every traversal a node comes after its children. *)
ChildrenFirst ==
  Idle /\ ~changed => \A i, j \in DOMAIN nodes : nodes[i] \in children[nodes[j]] => i < j

(* connectNodes and disconnect keep both ends of every connection: a node calls
   exactly the parents that count it as a child, and a removed node is called
   and counted by nobody. *)
EdgesMirror ==
  Idle => \A n, m \in Nodes : /\ m \in children[n] <=> n \in parents[m]
                              /\ m \in children[n] => {n, m} \subseteq members

(* A traversal pushes the events of a node at most once, and only those of
   nodes of this graph. *)
VisitedOnce ==
  Idle => /\ Listed \subseteq members
          /\ \A i, j \in DOMAIN nodes : nodes[i] = nodes[j] => i = j

(* A node that belongs to the graph is visited by its traversals.  It is not:
   removing one node takes the next one off the list as well. *)
MembersVisited == Idle => members \subseteq Listed
=============================================================================
