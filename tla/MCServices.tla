----------------------------- MODULE MCServices -----------------------------
(***************************************************************************)
(* The services around the engine, side by side: the agent loop, the       *)
(* backoffice, the task store, the client and its server, the layout of a  *)
(* diagram, the CSV import, the projection of a collection, the views of   *)
(* the backoffice and the database of a browser page.  They share no       *)
(* state; the initial state chooses the one that runs, so the run explores *)
(* the sum of their behaviours.                                            *)
(***************************************************************************)
EXTENDS AgentLoop, Backoffice, TaskStore, AgentRemote, RenderLayout,
        CsvIndex, Projection, Console, BrowserStore, TLC

VARIABLE part

CONSTANT Parts

\* One step asks for two tools at once, of which one reads what the id 2 gave before.
ServerOfTool == [t \in {"rest", "mcp"} |-> t]
ToolRequests ==
  { [tool |-> "py", id |-> -1, refs |-> {2}],
    [tool |-> "mcp", id |-> 2, refs |-> {2}],
    [tool |-> "rest", id |-> 2, refs |-> {}] }

\* Every document of three nodes with at most two arrows each; 4 is no node.
ArrowLists == {<<>>} \cup {<<t>> : t \in 1 .. 4} \cup {<<t, u>> : t \in 1 .. 4, u \in 1 .. 3}
SmallGraphs == [1 .. 3 -> ArrowLists]

\* Every file of three rows of two sources, in batches of two.
SmallFiles == [1 .. 3 -> [source : {"s", "t"}, blank : BOOLEAN]]

Some(S) == CHOOSE e \in S : TRUE

\* The parts that do not run begin in one of their initial states.
Still ==
  /\ IF part = "store" THEN TRUE ELSE backend = "memory"
  /\ IF part = "remote" THEN TRUE ELSE given = [c \in ClientCalls |-> NoSession]
  /\ IF part = "layout" THEN TRUE ELSE arrows = [n \in Names |-> <<>>]
  /\ IF part = "csv" THEN TRUE
     ELSE csv = Some(Documents) /\ options = [mode |-> "full", replace |-> FALSE, provider |-> Some(Providers)]
  /\ IF part = "browser" THEN TRUE ELSE version = Some(Versions)

Init ==
  /\ part \in Parts /\ Still
  /\ AgentInit /\ BackInit /\ StoreInit /\ RemoteInit /\ LayoutInit
  /\ CsvInit /\ ProjInit /\ ConsoleInit /\ BrowserInit

Next ==
  \/ part = "agent" /\ AgentNext
       /\ UNCHANGED <<part, backVars, storeVars, remoteVars, layoutVars, csvVars, projVars, consoleVars, browserVars>>
  \/ part = "backoffice" /\ BackNext
       /\ UNCHANGED <<part, agentVars, storeVars, remoteVars, layoutVars, csvVars, projVars, consoleVars, browserVars>>
  \/ part = "store" /\ StoreNext
       /\ UNCHANGED <<part, agentVars, backVars, remoteVars, layoutVars, csvVars, projVars, consoleVars, browserVars>>
  \/ part = "remote" /\ RemoteNext
       /\ UNCHANGED <<part, agentVars, backVars, storeVars, layoutVars, csvVars, projVars, consoleVars, browserVars>>
  \/ part = "layout" /\ LayoutNext
       /\ UNCHANGED <<part, agentVars, backVars, storeVars, remoteVars, csvVars, projVars, consoleVars, browserVars>>
  \/ part = "csv" /\ CsvNext
       /\ UNCHANGED <<part, agentVars, backVars, storeVars, remoteVars, layoutVars, projVars, consoleVars, browserVars>>
  \/ part = "projection" /\ ProjNext
       /\ UNCHANGED <<part, agentVars, backVars, storeVars, remoteVars, layoutVars, csvVars, consoleVars, browserVars>>
  \/ part = "console" /\ ConsoleNext
       /\ UNCHANGED <<part, agentVars, backVars, storeVars, remoteVars, layoutVars, csvVars, projVars, browserVars>>
  \/ part = "browser" /\ BrowserNext
       /\ UNCHANGED <<part, agentVars, backVars, storeVars, remoteVars, layoutVars, csvVars, projVars, consoleVars>>

vars == <<part, agentVars, backVars, storeVars, remoteVars, layoutVars, csvVars, projVars, consoleVars, browserVars>>

Spec == Init /\ [][Next]_vars

\* Users, handlers and writes are interchangeable; the others are not permuted.
Symmetry == Permutations(Users) \cup Permutations(Handlers) \cup Permutations(Writes)
=============================================================================
