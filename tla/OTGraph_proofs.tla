---------------------------- MODULE OTGraph_proofs ----------------------------
(***************************************************************************)
(* The invariants of OTGraph, for every finite set of nodes.  The numbers  *)
(* are right although updateTraversalOrder works on a graph that is being  *)
(* changed: a node whose number is wrong has a call before it, or is the   *)
(* parent being connected, which addParent will call, or is the node that  *)
(* leaves (OrderInv).  That a changed number reaches everybody needs both  *)
(* ends of the connections (EdgeInv).                                      *)
(***************************************************************************)
EXTENDS OTGraph, FiniteSetTheorems, TLAPS

LEMMA SizeIsNat == Cardinality(Nodes) \in Nat
  BY NodesAssumption, FS_CardinalityType

LEMMA ListIsSeq == ASSUME NEW n \in Nat, NEW s \in [1..n -> Nodes] PROVE s \in Seq(Nodes)
  OBVIOUS

(* Taking one element out of a list. *)
LEMMA WithoutType ==
  ASSUME NEW s \in Seq(Nodes), NEW i \in DOMAIN s
  PROVE  /\ Without(s, i) \in Seq(Nodes)
         /\ Len(Without(s, i)) = Len(s) - 1
         /\ DOMAIN Without(s, i) = 1..(Len(s) - 1)
         /\ \A j \in 1..(Len(s) - 1) :
              Without(s, i)[j] = s[IF j < i THEN j ELSE j + 1]
<1>1. Len(s) \in Nat /\ DOMAIN s = 1..Len(s)
  OBVIOUS
<1>2. \A j \in 1..(Len(s) - 1) : Without(s, i)[j] = s[IF j < i THEN j ELSE j + 1]
  BY DEF Without
<1>3. DOMAIN Without(s, i) = 1..(Len(s) - 1)
  BY DEF Without
<1>4. \A j \in 1..(Len(s) - 1) : Without(s, i)[j] \in Nodes
  BY <1>1, <1>2
<1>5. Without(s, i) \in [1..(Len(s) - 1) -> Nodes]
  BY <1>3, <1>4 DEF Without
<1>6. Len(s) - 1 \in Nat
  BY <1>1
<1>7. QED
  BY <1>2, <1>3, <1>5, <1>6

(* The operation that is on knows the nodes it is about. *)
OpInv ==
  /\ op \in {"addChild", "addParent"} => upper \in Nodes /\ lower \in Nodes
  /\ op = "leave" => lower \in Nodes

TypeInv == TypeOK /\ OpInv

LEMMA TypeInit == Init => TypeInv
<1> SUFFICES ASSUME Init PROVE TypeInv
  OBVIOUS
<1>1. children \in [Nodes -> SUBSET Nodes] /\ parents \in [Nodes -> SUBSET Nodes]
  BY DEF Init
<1>2. traversalorder \in [Nodes -> Nat] /\ calls \in [Nodes -> Nat]
  BY DEF Init
<1>3. <<>> \in Seq(Nodes)
  OBVIOUS
<1>4. members \subseteq Nodes /\ nodes \in Seq(Nodes) /\ changed \in BOOLEAN
  BY <1>3 DEF Init
<1>5. QED
  BY <1>1, <1>2, <1>4 DEF Init, TypeInv, TypeOK, OpInv, Ops

LEMMA TypeStep == ASSUME TypeInv, [Next]_vars PROVE TypeInv'
<1> USE DEF TypeInv, OpInv, TypeOK, Ops, linkVars, listVars, opVars
<1>1. ASSUME NEW S \in SUBSET Nodes PROVE Call(S) \in [Nodes -> Nat]
  BY DEF Call
<1>2. ASSUME NEW n \in Nodes, AddNode(n) PROVE TypeInv'
  BY <1>2 DEF AddNode, Added
<1>3. ASSUME NEW n \in Nodes, UpdateTraversalOrder(n) PROVE TypeInv'
  <2>1. PICK k \in 0..Cardinality(Nodes) :
          /\ traversalorder' = [traversalorder EXCEPT ![n] = k]
          /\ calls' = [m \in Nodes |->
               calls[m] - (IF m = n THEN 1 ELSE 0)
                        + (IF k # traversalorder[n] /\ m \in parents[n] THEN 1 ELSE 0)]
    BY <1>3 DEF UpdateTraversalOrder
  <2>2. k \in Nat
    BY SizeIsNat
  <2>3. calls' \in [Nodes -> Nat]
    BY <1>3, <2>1 DEF UpdateTraversalOrder
  <2>4. traversalorder' \in [Nodes -> Nat]
    BY <2>1, <2>2
  <2>5. QED
    BY <1>3, <2>3, <2>4 DEF UpdateTraversalOrder
<1>4. ASSUME NEW n \in Nodes, RemNode(n) PROVE TypeInv'
  <2>1. parents' \in [Nodes -> SUBSET Nodes] /\ children' \in [Nodes -> SUBSET Nodes]
    BY <1>4 DEF RemNode
  <2>2. QED
    BY <1>4, <2>1 DEF RemNode
<1>5. ASSUME NEW n \in Nodes, LeaveParent(n) PROVE TypeInv'
  <2>1. calls' \in [Nodes -> Nat]
    BY <1>1, <1>5 DEF LeaveParent
  <2>2. parents' \in [Nodes -> SUBSET Nodes] /\ children' \in [Nodes -> SUBSET Nodes]
    BY <1>5 DEF LeaveParent
  <2>3. QED
    BY <1>5, <2>1, <2>2 DEF LeaveParent
<1>6. ASSUME NEW p \in Nodes, NEW c \in Nodes, ConnectNodes(p, c) PROVE TypeInv'
  <2>1. calls' \in [Nodes -> Nat]
    BY <1>1, <1>6 DEF ConnectNodes
  <2>2. nodes' \in Seq(Nodes) /\ members' \subseteq Nodes /\ changed' \in BOOLEAN
    BY <1>6 DEF ConnectNodes, Added
  <2>3. children' \in [Nodes -> SUBSET Nodes]
    BY <1>6 DEF ConnectNodes
  <2>4. QED
    BY <1>6, <2>1, <2>2, <2>3 DEF ConnectNodes
<1>7. ASSUME NEW p \in Nodes, NEW c \in Nodes, DisconnectNodes(p, c) PROVE TypeInv'
  BY <1>7 DEF DisconnectNodes
<1>8. CASE AddParent
  <2>1. calls' \in [Nodes -> Nat]
    BY <1>1, <1>8 DEF AddParent
  <2>2. parents' \in [Nodes -> SUBSET Nodes]
    BY <1>8 DEF AddParent
  <2>3. QED
    BY <1>8, <2>1, <2>2 DEF AddParent
<1>9. CASE Connected
  BY <1>9 DEF Connected
<1>10. CASE Erase
  <2>1. nodes' \in Seq(Nodes)
    BY <1>10, WithoutType DEF Erase
  <2>2. QED
    BY <1>10, <2>1 DEF Erase
<1>11. CASE PushEvents
  <2>1. CASE changed
    <3>1. PICK s \in [DOMAIN nodes -> Listed] : nodes' = s
      BY <1>11, <2>1 DEF PushEvents
    <3>2. Listed \subseteq Nodes
      BY DEF Listed
    <3>3. DOMAIN nodes = 1..Len(nodes) /\ Len(nodes) \in Nat
      OBVIOUS
    <3>4. s \in [1..Len(nodes) -> Nodes]
      BY <3>2, <3>3
    <3>5. s \in Seq(Nodes)
      BY ONLY <3>3, <3>4, ListIsSeq
    <3>6. QED
      BY <1>11, <3>1, <3>5 DEF PushEvents
  <2>2. CASE ~changed
    BY <1>11, <2>2 DEF PushEvents
  <2>3. QED
    BY <2>1, <2>2
<1>12. CASE UNCHANGED vars
  BY <1>12 DEF vars
<1>13. QED
  BY <1>2, <1>3, <1>4, <1>5, <1>6, <1>7, <1>8, <1>9, <1>10, <1>11, <1>12 DEF Next

(* Type correctness, the outstanding calls of updateTraversalOrder included. *)
THEOREM TypeCorrect == Spec => []TypeOK
<1>1. TypeInv => TypeOK
  BY DEF TypeInv
<1>2. QED
  BY <1>1, TypeInit, TypeStep, PTL DEF Spec
-----------------------------------------------------------------------------
(* Both ends of a connection know of it, except that the child being connected
   does not know its parent before addParent; connected nodes are members,
   except that the node that leaves has parents until they have forgotten it. *)
EdgeInv ==
  /\ \A n, m \in Nodes : n \in parents[m] => m \in children[n]
  /\ \A n, m \in Nodes : m \in children[n] =>
       n \in parents[m] \/ (op = "addChild" /\ n = upper /\ m = lower)
  /\ \A n, m \in Nodes : m \in children[n] =>
       n \in members /\ (m \in members \/ (op = "leave" /\ m = lower))
  /\ op \in {"addChild", "addParent"} => upper \in members /\ lower \in members
  /\ op = "addChild" => lower \in children[upper]
  /\ op = "leave" => children[lower] = {} /\ lower \notin members

LEMMA EdgeInit == Init => EdgeInv
  BY DEF Init, EdgeInv

LEMMA EdgeStep == ASSUME TypeInv, EdgeInv, [Next]_vars PROVE EdgeInv'
<1> USE DEF TypeInv, OpInv, TypeOK, EdgeInv, linkVars, listVars, opVars, Idle
<1>1. ASSUME NEW n \in Nodes, AddNode(n) PROVE EdgeInv'
  BY <1>1 DEF AddNode
<1>2. ASSUME NEW n \in Nodes, UpdateTraversalOrder(n) PROVE EdgeInv'
  BY <1>2 DEF UpdateTraversalOrder
<1>3. ASSUME NEW n \in Nodes, RemNode(n) PROVE EdgeInv'
  <2>1. \A m \in Nodes : \A x : x \in parents'[m] <=> x \in parents[m] /\ ~(m \in children[n] /\ x = n)
    BY <1>3 DEF RemNode
  <2>2. \A m \in Nodes : \A x : x \in children'[m] <=> x \in children[m] /\ m # n
    BY <1>3 DEF RemNode
  <2>3. op = "none" /\ op' = "leave" /\ lower' = n /\ members' = members \ {n}
    BY <1>3 DEF RemNode
  <2>4. QED
    BY <2>1, <2>2, <2>3
<1>4. ASSUME NEW n \in Nodes, LeaveParent(n) PROVE EdgeInv'
  <2>1. op = "leave" /\ n \in parents[lower] /\ lower \in Nodes
    BY <1>4 DEF LeaveParent
  <2>2. \A m \in Nodes : \A x : x \in parents'[m] <=> x \in parents[m] /\ ~(m = lower /\ x = n)
    BY <1>4, <2>1 DEF LeaveParent
  <2>3. \A m \in Nodes : \A x : x \in children'[m] <=> x \in children[m] /\ ~(m = n /\ x = lower)
    BY <1>4, <2>1 DEF LeaveParent
  <2>4. op' = op /\ lower' = lower /\ members' = members
    BY <1>4 DEF LeaveParent
  <2>5. QED
    BY <2>1, <2>2, <2>3, <2>4
<1>5. ASSUME NEW p \in Nodes, NEW c \in Nodes, ConnectNodes(p, c) PROVE EdgeInv'
  <2>1. \A m \in Nodes : \A x : x \in children'[m] <=> x \in children[m] \/ (m = p /\ x = c)
    BY <1>5 DEF ConnectNodes
  <2>2. /\ op = "none" /\ op' = "addChild" /\ upper' = p /\ lower' = c
        /\ members' = members \cup {p, c} /\ parents' = parents
    BY <1>5 DEF ConnectNodes
  <2>3. QED
    BY <2>1, <2>2
<1>6. ASSUME NEW p \in Nodes, NEW c \in Nodes, DisconnectNodes(p, c) PROVE EdgeInv'
  <2>1. \A m \in Nodes : \A x : x \in children'[m] <=> x \in children[m] /\ ~(m = p /\ x = c)
    BY <1>6 DEF DisconnectNodes
  <2>2. \A m \in Nodes : \A x : x \in parents'[m] <=> x \in parents[m] /\ ~(m = c /\ x = p)
    BY <1>6 DEF DisconnectNodes
  <2>3. op = "none" /\ op' = op /\ members' = members
    BY <1>6 DEF DisconnectNodes
  <2>4. QED
    BY <2>1, <2>2, <2>3
<1>7. CASE AddParent
  <2>1. op = "addChild" /\ upper \in Nodes /\ lower \in Nodes
    BY <1>7 DEF AddParent
  <2>2. \A m \in Nodes : \A x : x \in parents'[m] <=> x \in parents[m] \/ (m = lower /\ x = upper)
    BY <1>7, <2>1 DEF AddParent
  <2>3. /\ op' = "addParent" /\ upper' = upper /\ lower' = lower
        /\ children' = children /\ members' = members
    BY <1>7 DEF AddParent
  <2>4. QED
    BY <2>1, <2>2, <2>3
<1>8. CASE Connected
  BY <1>8 DEF Connected
<1>9. CASE Erase
  <2>1. op = "leave" /\ parents[lower] = {} /\ lower \in Nodes
    BY <1>9 DEF Erase
  <2>2. op' = "none" /\ children' = children /\ parents' = parents /\ members' = members
    BY <1>9 DEF Erase
  <2>3. QED
    BY <2>1, <2>2
<1>10. CASE PushEvents
  BY <1>10 DEF PushEvents
<1>11. CASE UNCHANGED vars
  BY <1>11 DEF vars
<1>12. QED
  BY <1>1, <1>2, <1>3, <1>4, <1>5, <1>6, <1>7, <1>8, <1>9, <1>10, <1>11 DEF Next

(* Both ends of every connection are kept, and nobody keeps a connection to a
   removed node (EdgesMirror): a child calls the parents that count it. *)
THEOREM BothEnds == Spec => []EdgesMirror
<1>1. TypeInv /\ EdgeInv => EdgesMirror
  BY DEF EdgeInv, EdgesMirror, Idle
<1>2. QED
  BY <1>1, TypeInit, TypeStep, EdgeInit, EdgeStep, PTL DEF Spec
-----------------------------------------------------------------------------
(* The number of n is right. *)
Right(n) == IsAbove(traversalorder[n], traversalorder, children[n])

(* A node without a call before it has the right number, except the parent
   between addChild and addParent and the node that leaves; no call outlives
   its operation. *)
OrderInv ==
  /\ \A n \in Nodes : calls[n] = 0 =>
       Right(n) \/ (op = "addChild" /\ n = upper) \/ (op = "leave" /\ n = lower)
  /\ Idle => Returned

LEMMA OrderInit == Init => OrderInv
  BY DEF Init, OrderInv, Right, IsAbove, Returned

(* A step that leaves the numbers and the children of n alone. *)
LEMMA RightKept ==
  ASSUME NEW n \in Nodes, Right(n), children'[n] = children[n],
         traversalorder'[n] = traversalorder[n],
         \A m \in children[n] : traversalorder'[m] = traversalorder[m]
  PROVE  Right(n)'
  BY DEF Right, IsAbove

(* A call that finds another number reaches every parent, so that nobody's
   number becomes wrong without a call before it. *)
LEMMA UpdateKeepsOrder ==
  ASSUME TypeInv, EdgeInv, OrderInv, NEW n \in Nodes, UpdateTraversalOrder(n)
  PROVE  OrderInv'
<1> USE DEF TypeInv, OpInv, TypeOK
<1>1. PICK k \in 0..Cardinality(Nodes) :
        /\ IsAbove(k, traversalorder, children[n])
        /\ traversalorder' = [traversalorder EXCEPT ![n] = k]
        /\ calls' = [m \in Nodes |->
             calls[m] - (IF m = n THEN 1 ELSE 0)
                      + (IF k # traversalorder[n] /\ m \in parents[n] THEN 1 ELSE 0)]
  BY DEF UpdateTraversalOrder
<1>2. /\ calls[n] > 0 /\ op' = op /\ upper' = upper /\ lower' = lower
      /\ children' = children /\ parents' = parents
  BY DEF UpdateTraversalOrder, linkVars, opVars
<1>3. ~ Idle
  BY <1>2 DEF OrderInv, Returned
<1>4. /\ traversalorder'[n] = k
      /\ \A m \in Nodes \ {n} : traversalorder'[m] = traversalorder[m]
  BY <1>1
<1>5. ASSUME NEW m \in Nodes, calls'[m] = 0,
             ~ (op = "addChild" /\ m = upper), ~ (op = "leave" /\ m = lower)
      PROVE  Right(m)'
  <2>1. CASE k = traversalorder[n]
    <3>1. \A x \in Nodes : traversalorder'[x] = traversalorder[x]
      BY <1>4, <2>1
    <3>2. Right(m)
      <4>1. CASE m = n
        BY <1>1, <2>1, <4>1 DEF Right
      <4>2. CASE m # n
        <5>1. calls[m] = 0
          BY <1>1, <1>5, <2>1, <4>2
        <5>2. QED
          BY <1>5, <5>1 DEF OrderInv
      <4>3. QED
        BY <4>1, <4>2
    <3>3. QED
      BY <1>2, <3>1, <3>2, RightKept
  <2>2. CASE k # traversalorder[n]
    <3>1. m \notin parents[n]
      <4>1. calls[m] \in Nat /\ (m = n => calls[m] > 0)
        BY <1>2
      <4>2. QED
        BY <1>1, <1>5, <2>2, <4>1
    <3>2. n \notin children[m]
      BY <1>5, <3>1, <1>2 DEF EdgeInv
    <3>3. \A x \in children[m] : traversalorder'[x] = traversalorder[x]
      BY <1>4, <3>2
    <3>4. CASE m = n
      BY <1>1, <1>2, <1>4, <3>3, <3>4 DEF Right, IsAbove
    <3>5. CASE m # n
      <4>1. calls[m] = 0
        BY <1>1, <1>5, <3>1, <3>5
      <4>2. Right(m)
        BY <1>5, <4>1 DEF OrderInv
      <4>3. QED
        BY <1>2, <1>4, <3>3, <3>5, <4>2, RightKept
    <3>6. QED
      BY <3>4, <3>5
  <2>3. QED
    BY <2>1, <2>2
<1>6. QED
  BY <1>2, <1>3, <1>5 DEF OrderInv, Idle

LEMMA OrderStep == ASSUME TypeInv, EdgeInv, OrderInv, [Next]_vars PROVE OrderInv'
<1> USE DEF TypeInv, OpInv, TypeOK, linkVars, listVars, opVars, Idle
<1>1. ASSUME NEW n \in Nodes, AddNode(n) PROVE OrderInv'
  BY <1>1 DEF AddNode, OrderInv, Right, IsAbove, Returned
<1>2. ASSUME NEW n \in Nodes, UpdateTraversalOrder(n) PROVE OrderInv'
  BY <1>2, UpdateKeepsOrder
<1>3. ASSUME NEW n \in Nodes, RemNode(n) PROVE OrderInv'
  <2>1. /\ op = "none" /\ op' = "leave" /\ lower' = n /\ calls' = calls
        /\ traversalorder' = traversalorder
        /\ \A m \in Nodes \ {n} : children'[m] = children[m]
    BY <1>3 DEF RemNode
  <2>2. ASSUME NEW m \in Nodes \ {n}, calls'[m] = 0 PROVE Right(m)'
    <3>1. Right(m)
      BY <2>1, <2>2 DEF OrderInv
    <3>2. QED
      BY <2>1, <3>1, RightKept
  <2>3. QED
    BY <2>1, <2>2 DEF OrderInv
<1>4. ASSUME NEW p \in Nodes, LeaveParent(p) PROVE OrderInv'
  <2>1. /\ op = "leave" /\ op' = op /\ upper' = upper /\ lower' = lower
        /\ traversalorder' = traversalorder /\ Returned /\ p \in parents[lower]
        /\ \A m \in Nodes \ {p} : children'[m] = children[m]
    BY <1>4 DEF LeaveParent
  <2>2. lower \in children[p]
    BY <2>1 DEF EdgeInv
  <2>3. \A m \in Nodes : calls'[m] = IF m = p THEN 1 ELSE 0
    BY <1>4, <2>1, <2>2 DEF LeaveParent, Call, Returned
  <2>4. ASSUME NEW m \in Nodes \ {p}, m # lower PROVE Right(m)'
    <3>1. Right(m)
      BY <2>1, <2>4 DEF OrderInv, Returned
    <3>2. QED
      BY <2>1, <3>1, RightKept
  <2>5. QED
    BY <2>1, <2>3, <2>4 DEF OrderInv
<1>5. ASSUME NEW p \in Nodes, NEW c \in Nodes, ConnectNodes(p, c) PROVE OrderInv'
  <2>1. /\ op = "none" /\ op' = "addChild" /\ traversalorder' = traversalorder
        /\ \A m \in Nodes \ {p} : children'[m] = children[m]
    BY <1>5 DEF ConnectNodes
  <2>2. \A m \in Nodes : calls'[m] = IF m = p THEN 1 ELSE 0
    BY <1>5 DEF ConnectNodes, Call, OrderInv, Returned
  <2>3. ASSUME NEW m \in Nodes \ {p} PROVE Right(m)'
    <3>1. Right(m)
      BY <2>1 DEF OrderInv, Returned
    <3>2. QED
      BY <2>1, <3>1, RightKept
  <2>4. QED
    BY <2>1, <2>2, <2>3 DEF OrderInv
<1>6. ASSUME NEW p \in Nodes, NEW c \in Nodes, DisconnectNodes(p, c) PROVE OrderInv'
  <2>1. /\ op = "none" /\ op' = op /\ traversalorder' = traversalorder /\ calls' = calls
        /\ c \notin members
    BY <1>6 DEF DisconnectNodes
  <2>2. c \notin children[p]
    BY <2>1 DEF EdgeInv
  <2>3. children' = children
    BY <1>6, <2>2 DEF DisconnectNodes
  <2>4. QED
    BY <2>1, <2>3 DEF OrderInv, Right, IsAbove, Returned
<1>7. CASE AddParent
  <2>1. /\ op = "addChild" /\ Returned /\ op' = "addParent" /\ upper' = upper
        /\ traversalorder' = traversalorder /\ children' = children
    BY <1>7 DEF AddParent
  <2>2. \A m \in Nodes : calls'[m] = IF m = upper THEN 1 ELSE 0
    BY <1>7, <2>1 DEF AddParent, Call, Returned
  <2>3. ASSUME NEW m \in Nodes, m # upper PROVE Right(m)'
    <3>1. Right(m)
      BY <2>1, <2>3 DEF OrderInv, Returned
    <3>2. QED
      BY <2>1, <3>1, RightKept
  <2>4. QED
    BY <2>1, <2>2, <2>3 DEF OrderInv
<1>8. CASE Connected
  BY <1>8 DEF Connected, OrderInv, Right, IsAbove, Returned
<1>9. CASE Erase
  <2>1. /\ op = "leave" /\ op' = "none" /\ Returned /\ calls' = calls /\ children' = children
        /\ parents[lower] = {} /\ lower \in Nodes
        /\ traversalorder'[lower] = 0
        /\ \A m \in Nodes \ {lower} : traversalorder'[m] = traversalorder[m]
    BY <1>9 DEF Erase
  <2>2. children[lower] = {} /\ \A m \in Nodes : lower \notin children[m]
    BY <2>1 DEF EdgeInv
  <2>3. ASSUME NEW m \in Nodes, m = lower PROVE Right(m)'
    BY <2>1, <2>2, <2>3 DEF Right, IsAbove
  <2>4. ASSUME NEW m \in Nodes, m # lower PROVE Right(m)'
    <3>1. Right(m)
      BY <2>1, <2>4 DEF OrderInv, Returned
    <3>2. \A x \in children[m] : traversalorder'[x] = traversalorder[x]
      BY <2>1, <2>2
    <3>3. QED
      BY <2>1, <2>4, <3>1, <3>2, RightKept
  <2>5. QED
    BY <2>1, <2>3, <2>4 DEF OrderInv, Returned
<1>10. CASE PushEvents
  BY <1>10 DEF PushEvents, OrderInv, Right, IsAbove, Returned
<1>11. CASE UNCHANGED vars
  BY <1>11 DEF vars, OrderInv, Right, IsAbove, Returned
<1>12. QED
  BY <1>1, <1>2, <1>3, <1>4, <1>5, <1>6, <1>7, <1>8, <1>9, <1>10, <1>11 DEF Next

(* Whatever is connected and removed, every node's number is one more than the
   greatest of its children's (OrderCorrect). *)
THEOREM NumbersRight == Spec => []OrderCorrect
<1>1. OrderInv => OrderCorrect
  BY DEF OrderInv, OrderCorrect, Right, Idle, Returned
<1>2. QED
  BY <1>1, TypeInit, TypeStep, EdgeInit, EdgeStep, OrderInit, OrderStep, PTL DEF Spec
-----------------------------------------------------------------------------
(* The list is in the order of the numbers unless changed is set or an operation
   is on. *)
SortedInv ==
  Idle /\ ~changed => \A i, j \in DOMAIN nodes :
    i < j => traversalorder[nodes[i]] <= traversalorder[nodes[j]]

LEMMA SortedStep == ASSUME TypeInv, SortedInv, OrderInv, [Next]_vars PROVE SortedInv'
<1> USE DEF TypeInv, OpInv, TypeOK, linkVars, listVars, opVars, Idle
<1>1. ASSUME NEW n \in Nodes, AddNode(n) PROVE SortedInv'
  BY <1>1 DEF AddNode, SortedInv
<1>2. ASSUME NEW n \in Nodes, UpdateTraversalOrder(n) PROVE SortedInv'
  <2>1. op # "none" /\ op' = op
    BY <1>2 DEF UpdateTraversalOrder, OrderInv, Returned
  <2>2. QED
    BY <2>1 DEF SortedInv
<1>3. ASSUME NEW n \in Nodes, RemNode(n) PROVE SortedInv'
  BY <1>3 DEF RemNode, SortedInv
<1>4. ASSUME NEW n \in Nodes, LeaveParent(n) PROVE SortedInv'
  BY <1>4 DEF LeaveParent, SortedInv
<1>5. ASSUME NEW p \in Nodes, NEW c \in Nodes, ConnectNodes(p, c) PROVE SortedInv'
  BY <1>5 DEF ConnectNodes, SortedInv
<1>6. ASSUME NEW p \in Nodes, NEW c \in Nodes, DisconnectNodes(p, c) PROVE SortedInv'
  BY <1>6 DEF DisconnectNodes, SortedInv
<1>7. CASE AddParent
  BY <1>7 DEF AddParent, SortedInv
<1>8. CASE Connected
  BY <1>8 DEF Connected, SortedInv
<1>9. CASE Erase
  BY <1>9 DEF Erase, SortedInv
<1>10. CASE PushEvents
  BY <1>10 DEF PushEvents, IsSortOf, SortedInv
<1>11. CASE UNCHANGED vars
  BY <1>11 DEF vars, SortedInv
<1>12. QED
  BY <1>1, <1>2, <1>3, <1>4, <1>5, <1>6, <1>7, <1>8, <1>9, <1>10, <1>11 DEF Next

(* In every traversal a node comes after its children (ChildrenFirst): what a
   source generates reaches the sinks in one traversal. *)
THEOREM OneTraversal == Spec => []ChildrenFirst
<1>1. TypeInv /\ OrderInv /\ SortedInv => ChildrenFirst
  <2> SUFFICES ASSUME TypeInv, OrderInv, SortedInv, Idle, ~changed,
                      NEW i \in DOMAIN nodes, NEW j \in DOMAIN nodes,
                      nodes[i] \in children[nodes[j]]
               PROVE  i < j
    BY DEF ChildrenFirst
  <2>0. nodes \in Seq(Nodes)
    BY DEF TypeInv, TypeOK
  <2>1. i \in Nat /\ j \in Nat /\ nodes[i] \in Nodes /\ nodes[j] \in Nodes
    BY ONLY <2>0, i \in DOMAIN nodes, j \in DOMAIN nodes
  <2>2. Right(nodes[j])
    BY <2>1 DEF OrderInv, Idle, Returned
  <2>3. traversalorder[nodes[i]] < traversalorder[nodes[j]]
    BY <2>2 DEF Right, IsAbove
  <2>4. traversalorder[nodes[i]] \in Nat /\ traversalorder[nodes[j]] \in Nat
    BY <2>1 DEF TypeInv, TypeOK
  <2>5. ~ (j < i)
    BY <2>3, <2>4 DEF SortedInv
  <2>6. i # j
    BY <2>3, <2>4
  <2>7. QED
    BY <2>1, <2>5, <2>6
<1>2. Init => SortedInv
  BY DEF Init, SortedInv
<1>3. QED
  BY <1>1, <1>2, TypeInit, TypeStep, EdgeInit, EdgeStep, OrderInit, OrderStep, SortedStep, PTL
     DEF Spec
-----------------------------------------------------------------------------
(* The list holds every element once, and besides members only the node that
   is leaving. *)
Once(s) == \A i, j \in DOMAIN s : s[i] = s[j] => i = j

ListInv ==
  /\ Once(nodes)
  /\ \A i \in DOMAIN nodes : nodes[i] \in members \/ (op = "leave" /\ nodes[i] = lower)

LEMMA WithoutOnce ==
  ASSUME NEW s \in Seq(Nodes), NEW i \in DOMAIN s, Once(s)
  PROVE  /\ Once(Without(s, i))
         /\ \A j \in DOMAIN Without(s, i) :
              /\ \E k \in DOMAIN s : Without(s, i)[j] = s[k]
              /\ Without(s, i)[j] # s[i]
<1> DEFINE w == Without(s, i)
           Place(j) == IF j < i THEN j ELSE j + 1
<1>1. Len(s) \in Nat /\ DOMAIN s = 1..Len(s) /\ i \in 1..Len(s)
  OBVIOUS
<1>2. DOMAIN w = 1..(Len(s) - 1) /\ \A j \in 1..(Len(s) - 1) : w[j] = s[Place(j)]
  BY WithoutType
<1>3. \A j \in 1..(Len(s) - 1) : Place(j) \in DOMAIN s /\ Place(j) # i
  BY <1>1
<1>4. \A j, k \in 1..(Len(s) - 1) : Place(j) = Place(k) => j = k
  BY <1>1
<1> HIDE DEF w, Place
<1>5. \A j \in DOMAIN w : w[j] # s[i]
  BY <1>2, <1>3 DEF Once
<1>6. Once(w)
  BY <1>2, <1>3, <1>4 DEF Once
<1>7. QED
  BY <1>2, <1>3, <1>5, <1>6 DEF w

(* addNode adds a node that the list does not hold. *)
LEMMA AddedOnce ==
  ASSUME NEW s \in Seq(Nodes), NEW have \in SUBSET Nodes, NEW n \in Nodes, Once(s),
         \A i \in DOMAIN s : s[i] \in have
  PROVE  /\ Added(s, have, n) \in Seq(Nodes) /\ Once(Added(s, have, n))
         /\ \A i \in DOMAIN Added(s, have, n) : Added(s, have, n)[i] \in have \cup {n}
<1>1. CASE n \in have
  BY <1>1 DEF Added
<1>2. CASE n \notin have
  <2> DEFINE t == Append(s, n)
  <2>1. t \in Seq(Nodes) /\ DOMAIN t = 1..(Len(s) + 1) /\ t[Len(s) + 1] = n
    OBVIOUS
  <2>2. DOMAIN s = 1..Len(s) /\ Len(s) \in Nat /\ \A i \in 1..Len(s) : t[i] = s[i]
    OBVIOUS
  <2>3. Added(s, have, n) = t
    BY <1>2 DEF Added
  <2> HIDE DEF t
  <2>4. \A i \in DOMAIN t : i = Len(s) + 1 \/ (i \in DOMAIN s /\ t[i] \in have)
    BY <2>1, <2>2
  <2>5. Once(t)
    BY <1>2, <2>1, <2>2, <2>4 DEF Once
  <2>6. QED
    BY <2>1, <2>3, <2>4, <2>5
<1>3. QED
  BY <1>1, <1>2

LEMMA ListStep == ASSUME TypeInv, EdgeInv, ListInv, [Next]_vars PROVE ListInv'
<1> USE DEF TypeInv, OpInv, TypeOK, ListInv, linkVars, listVars, opVars, Idle
<1>1. ASSUME NEW n \in Nodes, AddNode(n) PROVE ListInv'
  <2>1. op = "none" /\ \A i \in DOMAIN nodes : nodes[i] \in members
    BY <1>1 DEF AddNode
  <2>2. members' = members \cup {n} /\ nodes' = Added(nodes, members, n)
    BY <1>1 DEF AddNode
  <2>3. QED
    BY <2>1, <2>2, AddedOnce
<1>2. ASSUME NEW n \in Nodes, UpdateTraversalOrder(n) PROVE ListInv'
  BY <1>2 DEF UpdateTraversalOrder
<1>3. ASSUME NEW n \in Nodes, RemNode(n) PROVE ListInv'
  BY <1>3 DEF RemNode
<1>4. ASSUME NEW n \in Nodes, LeaveParent(n) PROVE ListInv'
  BY <1>4 DEF LeaveParent
<1>5. ASSUME NEW p \in Nodes, NEW c \in Nodes, ConnectNodes(p, c) PROVE ListInv'
  <2> DEFINE first == Added(nodes, members, p)
             have == members \cup {p}
  <2>1. op = "none" /\ \A i \in DOMAIN nodes : nodes[i] \in members
    BY <1>5 DEF ConnectNodes
  <2>2. /\ first \in Seq(Nodes) /\ Once(first)
        /\ \A i \in DOMAIN first : first[i] \in have
    BY <2>1, AddedOnce
  <2>3. members' = have \cup {c} /\ nodes' = Added(first, have, c) /\ have \in SUBSET Nodes
    BY <1>5 DEF ConnectNodes
  <2> HIDE DEF first, have
  <2>4. QED
    BY <2>2, <2>3, AddedOnce
<1>6. ASSUME NEW p \in Nodes, NEW c \in Nodes, DisconnectNodes(p, c) PROVE ListInv'
  BY <1>6 DEF DisconnectNodes
<1>7. CASE AddParent
  BY <1>7 DEF AddParent
<1>8. CASE Connected
  BY <1>8 DEF Connected
<1>9. CASE Erase
  <2>1. PICK i \in DOMAIN nodes :
          /\ nodes[i] = lower
          /\ \E j \in IF i <= Len(Without(nodes, i)) THEN {i} ELSE {Len(Without(nodes, i)), 0} :
               nodes' = IF j = 0 THEN Without(nodes, i) ELSE Without(Without(nodes, i), j)
    BY <1>9 DEF Erase
  <2> DEFINE w == Without(nodes, i)
  <2>2. op = "leave" /\ members' = members
    BY <1>9 DEF Erase
  <2>3. w \in Seq(Nodes) /\ Once(w) /\ \A j \in DOMAIN w : w[j] \in members
    BY <2>1, <2>2, WithoutType, WithoutOnce
  <2>4. nodes' = w \/ \E j \in DOMAIN w : nodes' = Without(w, j)
    <3>0. DOMAIN w = 1..Len(w) /\ Len(w) \in Nat
      BY ONLY <2>3
    <3>1. i \in Nat /\ i >= 1
      BY ONLY nodes \in Seq(Nodes), i \in DOMAIN nodes
    <3>2. PICK j : /\ j \in IF i <= Len(w) THEN {i} ELSE {Len(w), 0}
                   /\ nodes' = IF j = 0 THEN w ELSE Without(w, j)
      BY <2>1
    <3>3. (j = i /\ i <= Len(w)) \/ j = Len(w) \/ j = 0
      BY <3>2
    <3>4. j = 0 \/ j \in DOMAIN w
      BY <3>0, <3>1, <3>3
    <3>5. QED
      BY <3>2, <3>4
  <2> HIDE DEF w
  <2>5. ASSUME NEW j \in DOMAIN w, nodes' = Without(w, j) PROVE ListInv'
    BY <2>2, <2>3, <2>5, WithoutOnce
  <2>6. QED
    BY <2>2, <2>3, <2>4, <2>5
<1>10. CASE PushEvents
  <2>1. CASE changed
    <3>1. PICK from \in [DOMAIN nodes -> DOMAIN nodes] :
            /\ \A i, j \in DOMAIN nodes : i # j => from[i] # from[j]
            /\ \A i \in DOMAIN nodes : nodes'[i] = nodes[from[i]]
      BY <1>10, <2>1 DEF PushEvents, IsSortOf
    <3>2. DOMAIN nodes' = DOMAIN nodes /\ op = "none" /\ members' = members
      BY <1>10, <2>1 DEF PushEvents
    <3>3. Once(nodes')
      BY <3>1, <3>2 DEF Once
    <3>4. QED
      BY <3>1, <3>2, <3>3
  <2>2. QED
    BY <1>10, <2>1 DEF PushEvents
<1>11. CASE UNCHANGED vars
  BY <1>11 DEF vars
<1>12. QED
  BY <1>1, <1>2, <1>3, <1>4, <1>5, <1>6, <1>7, <1>8, <1>9, <1>10, <1>11 DEF Next

(* A traversal visits a node at most once, and only nodes of the graph
   (VisitedOnce), although remNode erases twice. *)
THEOREM OneVisit == Spec => []VisitedOnce
<1>1. Init => ListInv
  BY DEF Init, ListInv, Once
<1>2. ListInv => VisitedOnce
  BY DEF ListInv, Once, VisitedOnce, Listed, Idle
<1>3. QED
  BY <1>1, <1>2, TypeInit, TypeStep, EdgeInit, EdgeStep, ListStep, PTL DEF Spec
=============================================================================
