---------------------------- MODULE WorkflowGraph ----------------------------
(***************************************************************************)
(* The workflow graph of kavalai/workflow/models.py: the shape of a node,  *)
(* the targets it may transition to, the validator that a graph passes     *)
(* before an engine is built on it, and the engine's routing rule.         *)
(*                                                                         *)
(* A node is a record.  Every node has a name and a type; the other fields *)
(* depend on the type, as in the source:                                   *)
(*   start              next                                               *)
(*   llm agent function next, output                                       *)
(*   if                 then, else                                         *)
(*   switch             cases (a function from strings), default           *)
(*   end                output                                             *)
(* A graph is a record: nodes (a sequence), start (a name or None) and     *)
(* data_types (the declared data type names).                              *)
(***************************************************************************)
EXTENDS Naturals, Sequences

CONSTANTS None     \* Python's None

\* Nodes whose execution has an effect; the others only route.
WorkTypes == {"llm", "agent", "function"}
NodeTypes == {"start", "end", "if", "switch"} \cup WorkTypes

NodesOf(g) == {g.nodes[i] : i \in DOMAIN g.nodes}
NameSet(g) == {node.name : node \in NodesOf(g)}
OfType(g, t) == {node \in NodesOf(g) : node.type = t}

\* Mutant: the default of a switch node is not a target.
CaseTargets(node) ==
  CASE node.type = "if" -> {node.then, node.else}
    [] node.type = "switch" -> {node.cases[v] : v \in DOMAIN node.cases}
    [] node.type = "end" -> {}
    [] OTHER -> {node.next}

\* WorkflowGraph._transition_targets
TransitionTargets(node) ==
  CASE node.type = "if" -> {node.then, node.else}
    [] node.type = "switch" ->
         {node.cases[v] : v \in DOMAIN node.cases} \cup ({node.default} \ {None})
    [] node.type = "end" -> {}
    [] OTHER -> {node.next}

\* validate_graph, one conjunct per check, in the order of the source.  That the
\* start node type need not be the entry point is the code's rule too.
UniqueNames(g) ==
  \A i, j \in DOMAIN g.nodes : g.nodes[i].name = g.nodes[j].name => i = j

EntryPointResolves(g) ==
  IF g.start # None
  THEN g.start \in NameSet(g)
  ELSE \A n, m \in OfType(g, "start") : n = m

TargetsExist(g) ==
  \A node \in NodesOf(g) : TransitionTargets(node) \subseteq NameSet(g)

OutputsDeclared(g) ==
  \A node \in NodesOf(g) :
    node.type \in WorkTypes \cup {"end"} => node.output \in g.data_types

ValidateGraph(g) ==
  /\ UniqueNames(g)
  /\ OfType(g, "start") # {}
  /\ OfType(g, "end") # {}
  /\ EntryPointResolves(g)
  /\ TargetsExist(g)
  /\ OutputsDeclared(g)

\* The value validate_graph leaves in graph.start.
StartName(g) ==
  IF g.start # None THEN g.start ELSE (CHOOSE n \in OfType(g, "start") : TRUE).name

\* graph.node_map[name]
NodeMap(g, name) == CHOOSE node \in NodesOf(g) : node.name = name

\* Mutant: a switch node that matches no case is its own next node.
NextOrSelf(node, value) ==
  CASE node.type = "end" -> None
    [] node.type = "if" -> IF value = "True" THEN node.then ELSE node.else
    [] node.type = "switch" ->
         IF value \in DOMAIN node.cases THEN node.cases[value]
         ELSE IF node.default = None THEN node.name ELSE node.default
    [] OTHER -> node.next

\* WorkflowEngine._next_node: what `value`, the result of evaluating the branch
\* expression of the node, selects.  None means that there is no next node.
NextNode(node, value) ==
  CASE node.type = "end" -> None
    [] node.type = "if" -> IF value = "True" THEN node.then ELSE node.else
    [] node.type = "switch" ->
         IF value \in DOMAIN node.cases THEN node.cases[value] ELSE node.default
    [] OTHER -> node.next

\* The values a branch expression of the node can have: evaluate_bool for an if
\* node, any of the case labels or something else for a switch node.
BranchValues(node) ==
  CASE node.type = "if" -> {"True", "False"}
    [] node.type = "switch" -> DOMAIN node.cases \cup {"no such case"}
    [] OTHER -> {"unused"}

\* n is reached from m by one transition of g.
Transition(g, m, n) == n \in TransitionTargets(NodeMap(g, m))
==============================================================================
