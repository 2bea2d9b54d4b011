--------------------------- MODULE MCWorkflowEngine ---------------------------
(***************************************************************************)
(* Instances of WorkflowEngine for TLC: the candidate graphs.              *)
(***************************************************************************)
EXTENDS WorkflowEngine

Start_(n, nx) == [name |-> n, type |-> "start", next |-> nx]
End_(n, out) == [name |-> n, type |-> "end", output |-> out]
Work_(n, t, out, nx) ==
  [name |-> n, type |-> t, output |-> out, next |-> nx, max_steps |-> 2]
If_(n, a, b) == [name |-> n, type |-> "if", then |-> a, else |-> b]
Switch_(n, c, d) == [name |-> n, type |-> "switch", cases |-> c, default |-> d]
Graph_(nodes, start) ==
  [nodes |-> nodes, start |-> start, data_types |-> {"input", "output", "doc"}]

\* start -> function -> switch (no default) -> end
ToolGraph ==
  Graph_(<<Start_("s", "f"), Work_("f", "function", "doc", "w"),
           Switch_("w", [x |-> "e"], None), End_("e", "doc")>>, None)

\* start -> llm -> if -> (back to the llm | end): a cycle
LoopGraph ==
  Graph_(<<Start_("s", "m"), Work_("m", "llm", "output", "c"),
           If_("c", "m", "e"), End_("e", "output")>>, "s")

\* start -> agent -> end, and an end node that no node leads to
AgentGraph ==
  Graph_(<<Start_("s", "a"), Work_("a", "agent", "output", "e"),
           End_("e", "output"), End_("d", "doc")>>, None)

\* Definitions validate_graph rejects: an unknown default target, an unknown if
\* target, two entry points, no end node, a duplicate name, an undeclared output.
RejectedGraphs ==
  {Graph_(<<Start_("s", "w"), Switch_("w", [x |-> "e"], "ghost"), End_("e", "doc")>>, None),
   Graph_(<<Start_("s", "c"), If_("c", "ghost", "e"), End_("e", "doc")>>, None),
   Graph_(<<Start_("s", "e"), Start_("t", "e"), End_("e", "doc")>>, None),
   Graph_(<<Start_("s", "e"), End_("e", "doc")>>, "ghost"),
   Graph_(<<Start_("s", "s")>>, None),
   Graph_(<<Start_("s", "e"), End_("e", "doc"), End_("e", "output")>>, None),
   Graph_(<<Start_("s", "e"), End_("e", "other")>>, None)}

MCGraphs == {ToolGraph, LoopGraph, AgentGraph} \cup RejectedGraphs
MCLlmGraphs == {LoopGraph}
MCAgentGraphs == {AgentGraph}
MCToolGraphs == {ToolGraph}
==============================================================================
