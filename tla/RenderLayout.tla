---------------------------- MODULE RenderLayout ----------------------------
(***************************************************************************)
(* The layout of a workflow diagram (workflow/render.py): which arrows     *)
(* close a loop, found by a depth-first search, and the row of each node,  *)
(* its longest path from the start over the others.  Node i is the i-th of *)
(* the document; an arrow may name a node that is not in it.  The search   *)
(* runs over every graph of a bounded set, one step per turn of its loop.  *)
(***************************************************************************)
EXTENDS Integers, Sequences, FiniteSetsExt

CONSTANTS NodeCount, Graphs  \* per node, the targets of its arrows in order

Names == 1 .. NodeCount
Targets == 1 .. NodeCount + 1  \* the last one is not a node of the document

ASSUME LayoutAssumption == NodeCount \in Nat \ {0} /\ Graphs \subseteq [Names -> Seq(Targets)]

VARIABLES
  arrows,    \* the graph
  color,     \* 0 = new, 1 = on the stack, 2 = done
  stack,     \* <<node, arrows of it not yet followed>>
  back,      \* loop-closing arrows
  depth,     \* rows; 0 .. in the code, -1 for a node without one
  pass,      \* passes of the relaxation done
  layout     \* "search", "relax", "park", "done"

layoutVars == <<arrows, color, stack, back, depth, pass, layout>>

LayoutInit ==
  /\ arrows \in Graphs
  /\ color = [n \in Names |-> 0] /\ stack = <<>> /\ back = {}
  /\ depth = [n \in Targets |-> IF n = 1 THEN 0 ELSE -1]
  /\ pass = 0
  /\ layout = "search"

\* Node 1 is the start; the others follow in document order.
Visit ==
  /\ layout = "search" /\ stack = <<>>
  /\ LET new == {n \in Names : color[n] = 0}
     IN  IF new = {} THEN layout' = "relax" /\ UNCHANGED <<color, stack>>
         ELSE /\ stack' = <<[node |-> Min(new), left |-> arrows[Min(new)]]>>
              /\ color' = [color EXCEPT ![Min(new)] = 1]
              /\ UNCHANGED layout
  /\ UNCHANGED <<arrows, back, depth, pass>>

\* Mutant: an arrow to any node that was met before closes a loop.
MetBefore(t) == color[t] # 0

OnPath(t) == color[t] = 1

Follow ==
  /\ layout = "search" /\ stack # <<>>
  /\ LET top == stack[Len(stack)]
         below == SubSeq(stack, 1, Len(stack) - 1)
         t == Head(top.left)
         rest == Append(below, [top EXCEPT !.left = Tail(@)])
     IN  IF top.left = <<>>
         THEN color' = [color EXCEPT ![top.node] = 2] /\ stack' = below /\ UNCHANGED back
         ELSE /\ back' = IF t \in Names /\ OnPath(t) THEN back \cup {<<top.node, t>>} ELSE back
              /\ IF t \in Names /\ color[t] = 0
                 THEN color' = [color EXCEPT ![t] = 1] /\ stack' = Append(rest, [node |-> t, left |-> arrows[t]])
                 ELSE stack' = rest /\ UNCHANGED color
  /\ UNCHANGED <<arrows, depth, pass, layout>>

IsArrow(n, t) == \E i \in DOMAIN arrows[n] : arrows[n][i] = t
Forward == {arrow \in Names \X Targets : IsArrow(arrow[1], arrow[2]) /\ arrow \notin back}

\* A pass of the loop of _assign_depths.  Every arrow sees the rows from before the
\* pass: the slowest of the orders in which the code may take them.
Lowered(t) == Max({depth[t]} \cup {depth[n] + 1 : n \in {m \in Names : depth[m] # -1 /\ <<m, t>> \in Forward}})

Relax ==
  /\ layout = "relax"
  /\ depth' = [t \in Targets |-> Lowered(t)]
  /\ pass' = pass + 1
  /\ layout' = IF depth' = depth \/ pass' = NodeCount THEN "park" ELSE layout
  /\ UNCHANGED <<arrows, color, stack, back>>

\* What is not reached gets a row of its own, in document order.
Park ==
  /\ layout = "park"
  /\ LET lost == {n \in Names : depth[n] = -1}
         bottom == Max({depth[t] : t \in Targets})
     IN  depth' = [t \in Targets |-> IF t \in lost THEN bottom + Cardinality({n \in lost : n <= t}) ELSE depth[t]]
  /\ layout' = "done"
  /\ UNCHANGED <<arrows, color, stack, back, pass>>

LayoutNext == Visit \/ Follow \/ Relax \/ Park

LayoutSpec == LayoutInit /\ [][LayoutNext]_layoutVars

\* A path of arrows leads from s to t: every set with s that no arrow leaves has t.
Closed(C) == \A n \in C, t \in Names : IsArrow(n, t) => t \in C
Leads(s, t) == \A C \in SUBSET Names : s \in C /\ Closed(C) => t \in C

\* Whatever loops a workflow has: every arrow between nodes that the start reaches points
\* down, by the longest path, unless it closes a loop, and each arrow that was taken for
\* one does.  A node that cannot be reached is parked below all of them, in a row of its
\* own in the order of the document, wherever its arrows lead: one to a reached node
\* points up (_back_edges, _assign_depths).
ReachedArrowsPointDown ==
  layout = "done" =>
    LET reached == {n \in Names : Leads(1, n)}
    IN  /\ \A arrow \in back : Leads(arrow[2], arrow[1])
        /\ \A n \in reached :
             depth[n] = Max({0} \cup {depth[m] + 1 : m \in {x \in reached : <<x, n>> \in Forward}})
        /\ \A n \in Names \ reached, m \in Names :
             m \in reached \/ m < n => depth[m] < depth[n]
=============================================================================
