-------------------------------- MODULE OVGraph --------------------------------
(***************************************************************************)
(* How OpenVideo's Manager builds its graph and brings it up: the parser   *)
(* walks over the XML elements (parseConfiguration, addNode,               *)
(* buildSubGraph), initTraversal sorts the nodes topologically, then every *)
(* node's init() and then every node's start() is called in that order.    *)
(* An element with USE names an earlier one with DEF instead of making a   *)
(* node.  The Manager's documentation asks for an acyclic graph            *)
(* (Manager.h:66) and the code does not test it: the parser of this model  *)
(* meets only such configurations.                                         *)
(*                                                                         *)
(* Init, Next and the like carry the name Graph: OVManager, the Manager's  *)
(* main loop, has its own, and OVManager_proofs is about both.             *)
(***************************************************************************)
EXTENDS Naturals, Sequences, FiniteSets

CONSTANTS
  MaxNodes,   \* bound: elements without USE
  MaxUses     \* bound: elements with USE

ASSUME BoundAssumption == MaxNodes \in Nat /\ MaxUses \in Nat

VARIABLES
  phase,           \* "parse", "sort", "init", "start", "run"
  open,            \* the XML elements being read, outermost first, as nodes
  nodes,           \* Manager::nodes
  defs,            \* the nodes in Manager::defNodes
  outputs, inputs, \* Node::outputs and Node::inputs
  curInDegree,     \* Node::curInDegree
  sorted,          \* sortedNodes of the sort
  initialized, started,   \* how many nodes of the list init() and start() have reached
  made, uses       \* nodes made so far; bound

graph == <<defs, outputs, inputs, made, uses>>
graphVars == <<phase, open, nodes, curInDegree, sorted, initialized, started, graph>>

Made == 1..made
Members(s) == {s[i] : i \in DOMAIN s}

(* How often x occurs in s. *)
Count(s, x) == Cardinality({i \in DOMAIN s : s[i] = x})

(* How many entries of s are not in S. *)
Outside(s, S) == Cardinality({i \in DOMAIN s : s[i] \notin S})

GraphTypeOK ==
  /\ phase \in {"parse", "sort", "init", "start", "run"}
  /\ made \in 0..MaxNodes /\ uses \in 0..MaxUses
  /\ open \in Seq(Made) /\ nodes \in Seq(Made) /\ sorted \in Seq(Made) /\ defs \subseteq Made
  /\ outputs \in [Made -> Seq(Made)] /\ inputs \in [Made -> Seq(Made)]
  /\ curInDegree \in [Made -> Nat]
  /\ initialized \in 0..made /\ started \in 0..made

GraphInit ==
  /\ phase = "parse"
  /\ open = <<>> /\ nodes = <<>> /\ defs = {}
  /\ outputs = <<>> /\ inputs = <<>> /\ curInDegree = <<>>
  /\ sorted = <<>> /\ initialized = 0 /\ started = 0
  /\ made = 0 /\ uses = 0
-----------------------------------------------------------------------------
(* parentNode->addOutput(curNode); curNode->addInput(parentNode): the graph with
   the node n below the innermost open element, if there is one. *)
Connect(n, outs, ins, degrees) ==
  IF open = <<>>
  THEN /\ outputs' = outs /\ inputs' = ins /\ curInDegree' = degrees
  ELSE LET p == open[Len(open)] IN
       /\ outputs' = [outs EXCEPT ![p] = Append(@, n)]
       /\ inputs' = [ins EXCEPT ![n] = Append(@, p)]
       /\ curInDegree' = [degrees EXCEPT ![n] = @ + 1]

(* An element without USE: a factory makes its node. *)
AddNode(def) ==
  /\ phase = "parse" /\ made < MaxNodes
  /\ LET n == made + 1 IN
       /\ made' = n
       /\ nodes' = Append(nodes, n)
       /\ defs' = IF def THEN defs \cup {n} ELSE defs
       /\ open' = Append(open, n)
       /\ Connect(n, Append(outputs, <<>>), Append(inputs, <<>>), Append(curInDegree, 0))
  /\ UNCHANGED <<phase, sorted, initialized, started, uses>>

(* Does m reach n along the outputs?  n is then in every set that m is in and
   that has the outputs of its members. *)
Closed(S) == \A x \in S : Members(outputs[x]) \subseteq S
Reaches(m, n) == \A S \in SUBSET Made : m \in S /\ Closed(S) => n \in S

(* Mutant: a USE puts its node into the list again. *)
UseNode_Again(n) ==
  /\ phase = "parse" /\ uses < MaxUses /\ n \in defs
  /\ open # <<>> => ~Reaches(n, open[Len(open)])
  /\ uses' = uses + 1
  /\ nodes' = Append(nodes, n)
  /\ open' = Append(open, n)
  /\ Connect(n, outputs, inputs, curInDegree)
  /\ UNCHANGED <<phase, defs, sorted, initialized, started, made>>

(* An element with USE: the node of an earlier DEF. *)
UseNode(n) ==
  /\ phase = "parse" /\ uses < MaxUses /\ n \in defs
  /\ open # <<>> => ~Reaches(n, open[Len(open)])
  /\ uses' = uses + 1
  /\ open' = Append(open, n)
  /\ Connect(n, outputs, inputs, curInDegree)
  /\ UNCHANGED <<phase, nodes, defs, sorted, initialized, started, made>>

(* The children of the innermost element are done. *)
CloseElement ==
  /\ phase = "parse" /\ open # <<>>
  /\ open' = SubSeq(open, 1, Len(open) - 1)
  /\ UNCHANGED <<phase, nodes, curInDegree, sorted, initialized, started, graph>>

EndParse ==
  /\ phase = "parse" /\ open = <<>>
  /\ phase' = "sort"
  /\ UNCHANGED <<open, nodes, curInDegree, sorted, initialized, started, graph>>
-----------------------------------------------------------------------------
(* initTopologicalSortedTraversal: the first node of the list whose in-degree is
   zero moves to the sorted list, and its outputs' in-degrees drop. *)
Without(s, i) == SubSeq(s, 1, i - 1) \o SubSeq(s, i + 1, Len(s))

IsFirstFree(i) ==
  /\ curInDegree[nodes[i]] = 0
  /\ \A j \in 1..(i - 1) : curInDegree[nodes[j]] # 0

(* Mutant: an output that is connected twice is counted once. *)
SortStep_CountOnce ==
  /\ phase = "sort"
  /\ \E i \in DOMAIN nodes :
       /\ IsFirstFree(i)
       /\ sorted' = Append(sorted, nodes[i])
       /\ nodes' = Without(nodes, i)
       /\ curInDegree' = [n \in Made |-> IF n \in Members(outputs[nodes[i]])
                                         THEN curInDegree[n] - 1 ELSE curInDegree[n]]
  /\ UNCHANGED <<phase, open, initialized, started, graph>>

SortStep ==
  /\ phase = "sort"
  /\ \E i \in DOMAIN nodes :
       /\ IsFirstFree(i)
       /\ sorted' = Append(sorted, nodes[i])
       /\ nodes' = Without(nodes, i)
       /\ curInDegree' = [n \in Made |-> curInDegree[n] - Count(outputs[nodes[i]], n)]
  /\ UNCHANGED <<phase, open, initialized, started, graph>>

(* Mutant: the sorted list is written back in reverse. *)
WriteBack_Reversed ==
  /\ phase = "sort" /\ nodes = <<>>
  /\ nodes' = [i \in DOMAIN sorted |-> sorted[Len(sorted) + 1 - i]]
  /\ phase' = "init"
  /\ UNCHANGED <<open, curInDegree, sorted, initialized, started, graph>>

WriteBack ==
  /\ phase = "sort" /\ nodes = <<>>
  /\ nodes' = sorted /\ phase' = "init"
  /\ UNCHANGED <<open, curInDegree, sorted, initialized, started, graph>>

(* nodes->at(i)->init() for every node, then nodes->at(i)->start(). *)
InitNode ==
  /\ phase = "init"
  /\ IF initialized < Len(nodes) THEN initialized' = initialized + 1 /\ UNCHANGED phase
                                 ELSE phase' = "start" /\ UNCHANGED initialized
  /\ UNCHANGED <<open, nodes, curInDegree, sorted, started, graph>>

StartNode ==
  /\ phase = "start"
  /\ IF started < Len(nodes) THEN started' = started + 1 /\ UNCHANGED phase
                             ELSE phase' = "run" /\ UNCHANGED started
  /\ UNCHANGED <<open, nodes, curInDegree, sorted, initialized, graph>>
-----------------------------------------------------------------------------
Parse == (\E def \in BOOLEAN : AddNode(def)) \/ (\E n \in Made : UseNode(n))
         \/ CloseElement \/ EndParse
BringUp == SortStep \/ WriteBack \/ InitNode \/ StartNode

GraphNext == Parse \/ BringUp

GraphSpec == GraphInit /\ [][GraphNext]_graphVars
FairGraphSpec == GraphSpec /\ WF_graphVars(BringUp)
-----------------------------------------------------------------------------
(* Properties.                                                             *)

(* The counters the sort relies on: during the sort a node's in-degree is the
   number of its inputs that are not sorted yet, each counted as often as the
   configuration connects it. *)
InDegreeExact ==
  \A n \in Made : curInDegree[n] = Outside(inputs[n], Members(sorted))

(* The sort loses no node and repeats none. *)
NothingLost ==
  phase \in {"init", "start", "run"} =>
    Len(nodes) = made /\ Members(nodes) = Made

(* "while nodes->size() > 0" finds a node to move in every turn. *)
NeverStuck == phase = "sort" /\ nodes # <<>> => \E i \in DOMAIN nodes : IsFirstFree(i)

(* The sort works on exact counters, always finds a next node, and gives back
   all nodes, each once. *)
SortSafe == GraphTypeOK /\ InDegreeExact /\ NeverStuck /\ NothingLost

(* A node is initialised after all its inputs: VideoSink::init and
   GLUTSink::init read the state of their first input. *)
InputsFirst ==
  phase \in {"init", "start", "run"} =>
    \A i \in 1..initialized :
      Members(inputs[nodes[i]]) \subseteq {nodes[j] : j \in 1..(i - 1)}

(* The loop "while nodes->size() > 0" ends, and every node is started. *)
ComesUp == phase = "sort" ~> phase = "run" /\ started = made
=============================================================================
