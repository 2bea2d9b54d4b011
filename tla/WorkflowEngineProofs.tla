------------------------- MODULE WorkflowEngineProofs -------------------------
(***************************************************************************)
(* Proofs about WorkflowEngine, for every set of runs, every set of        *)
(* candidate graphs, every visit cap and every choice of collaborators.    *)
(***************************************************************************)
EXTENDS WorkflowEngine, TLAPS

(***************************************************************************)
(* The graph                                                               *)
(***************************************************************************)
\* A name of the graph is looked up to a node of the graph that has it.
LEMMA NodeMapCorrect ==
  ASSUME NEW g, NEW n \in NameSet(g)
  PROVE  NodeMap(g, n) \in NodesOf(g) /\ NodeMap(g, n).name = n
BY DEF NodeMap, NameSet

\* The entry point of a validated graph is one of its nodes.
LEMMA StartInGraph ==
  ASSUME NEW g, ValidateGraph(g)
  PROVE  StartName(g) \in NameSet(g)
<1>1. CASE g.start # None
  BY <1>1 DEF ValidateGraph, EntryPointResolves, StartName
<1>2. CASE g.start = None
  <2>1. OfType(g, "start") # {}
    BY DEF ValidateGraph
  <2>2. (CHOOSE n \in OfType(g, "start") : TRUE) \in OfType(g, "start")
    BY <2>1
  <2>3. QED
    BY <1>2, <2>2 DEF StartName, OfType, NameSet
<1>3. QED
  BY <1>1, <1>2

\* Routing only follows transitions the validator looked at: this is where
\* _next_node and _transition_targets have to agree, case by case.
LEMMA NextIsTarget ==
  ASSUME NEW node, node.type \in NodeTypes, NEW v \in BranchValues(node),
         NextNode(node, v) # None
  PROVE  NextNode(node, v) \in TransitionTargets(node)
<1>1. CASE node.type = "if"
  BY <1>1 DEF NextNode, TransitionTargets
<1>2. CASE node.type = "switch"
  BY <1>2 DEF NextNode, TransitionTargets
<1>3. CASE node.type = "end"
  BY <1>3 DEF NextNode
<1>4. CASE node.type \in {"start"} \cup WorkTypes
  BY <1>4 DEF NextNode, TransitionTargets, WorkTypes
<1>5. QED
  BY <1>1, <1>2, <1>3, <1>4 DEF NodeTypes, WorkTypes

\* A validated graph is closed under routing.
LEMMA NextInGraph ==
  ASSUME NEW g \in Graphs, ValidateGraph(g), NEW node \in NodesOf(g),
         NEW v \in BranchValues(node), NextNode(node, v) # None
  PROVE  NextNode(node, v) \in NameSet(g)
BY NextIsTarget, GraphsAssumption DEF ValidateGraph, TargetsExist

(***************************************************************************)
(* Leaving a node: either the walk goes on along a transition, or one of   *)
(* the two exception paths is taken.                                       *)
(***************************************************************************)
LeaveEffect(r, node) ==
  /\ trace' = [trace EXCEPT ![r] = Append(@, node.name)]
  /\ sdata' = [sdata EXCEPT ![r] = data'[r]]
  /\ \/ /\ \E n \in TransitionTargets(node) \cap Names :
              current' = [current EXCEPT ![r] = n]
        /\ Goto(r, "walk")
        /\ UNCHANGED <<exc, status>>
     \/ RaiseWorkflow(r) /\ UNCHANGED current
     \/ RaiseError(r) /\ UNCHANGED current

\* LeaveNode takes the run to a node of the graph or to an exception path.
LEMMA LeaveNodeEffect ==
  ASSUME graph \in Graphs, ValidateGraph(graph), NEW r,
         NEW node \in NodesOf(graph), LeaveNode(r, node)
  PROVE  LeaveEffect(r, node)
<1>1. ASSUME NEW v \in BranchValues(node), NextNode(node, v) # None
      PROVE  NextNode(node, v) \in TransitionTargets(node) \cap Names
  <2>1. node.type \in NodeTypes
    BY GraphsAssumption
  <2>2. QED
    BY <1>1, <2>1, NextIsTarget, NextInGraph DEF Names
<1>2. QED
  BY <1>1 DEF LeaveNode, LeaveEffect

(***************************************************************************)
(* Type correctness                                                        *)
(***************************************************************************)
\* What makes TypeOK inductive: where a run is says what its current node is.
ControlOf(r) ==
  /\ pc[r] \in Walking \cup {"finish_run", "finish_msg"} => current[r] \in Names
  /\ pc[r] \in {"prepare", "calling", "tool"} => Node(r).type \in WorkTypes
  /\ pc[r] \in {"finish_run", "finish_msg"} => Node(r).type = "end"
  /\ pc[r] # "idle" => engineAcc \in Runs
  /\ pc[r] \in {"idle", "init", "user"} => visits[r] = 0 /\ client[r] = None
  /\ pc[r] \in Walking => visits[r] <= MaxNodeVisits
  /\ pc[r] = "calling" => client[r] \in Runs
  /\ r \in late => client[r] \in Runs

ControlInv == \A r \in Runs : ControlOf(r)

TypeInv == TypeOK /\ ControlInv

\* A run that is inside a node is at a node of the graph, with its name.
LEMMA NodeOfRun ==
  ASSUME TypeInv, NEW r \in Runs, pc[r] \in Walking \cup {"finish_run", "finish_msg"}
  PROVE  /\ Node(r) \in NodesOf(graph)
         /\ Node(r).name = current[r]
         /\ Node(r).type \in NodeTypes
         /\ Node(r).type \in WorkTypes \cup {"end"} => Node(r).output \in Vars
         /\ Node(r).type = "agent" => Node(r).max_steps \in Nat
<1>1. current[r] \in NameSet(graph)
  BY DEF TypeInv, ControlInv, ControlOf, Names
<1>2. Node(r) \in NodesOf(graph) /\ Node(r).name = current[r]
  BY <1>1, NodeMapCorrect DEF Node
<1>3. OutputsDeclared(graph) /\ graph \in Graphs
  BY DEF TypeInv, TypeOK, ValidateGraph
<1>4. QED
  BY <1>2, <1>3, GraphsAssumption DEF OutputsDeclared, Vars

\* Leaving a node keeps the types of what it changes.
LEMMA LeaveKeepsTypes ==
  ASSUME TypeInv, NEW r \in Runs, NEW node \in NodesOf(graph), LeaveNode(r, node),
         data' \in [Runs -> SUBSET Vars]
  PROVE  /\ pc' \in [Runs -> Labels]
         /\ current' \in [Runs -> Names \cup {None}]
         /\ exc' \in [Runs -> {"none", "workflow", "error"}]
         /\ status' \in [Runs -> {"running", "completed", "failed"}]
         /\ trace' \in [Runs -> Seq(Names)]
         /\ sdata' \in [Runs -> SUBSET Vars]
         /\ \A s \in Runs : s # r => pc'[s] = pc[s] /\ current'[s] = current[s]
         /\ pc'[r] \in {"walk", "closing", "record"}
         /\ pc'[r] = "walk" => current'[r] \in Names
<1>1. LeaveEffect(r, node)
  BY LeaveNodeEffect DEF TypeInv, TypeOK
<1>2. node.name \in Names
  BY DEF Names, NameSet
<1>3. trace' \in [Runs -> Seq(Names)] /\ sdata' \in [Runs -> SUBSET Vars]
  <2>1. Append(trace[r], node.name) \in Seq(Names)
    BY <1>2 DEF TypeInv, TypeOK, StateOK
  <2>2. trace' = [trace EXCEPT ![r] = Append(trace[r], node.name)]
    BY <1>1 DEF LeaveEffect
  <2>3. sdata' = [sdata EXCEPT ![r] = data'[r]]
    BY <1>1 DEF LeaveEffect
  <2>4. QED
    BY <2>1, <2>2, <2>3 DEF TypeInv, TypeOK, StateOK
<1>. DEFINE Rest == /\ pc' \in [Runs -> Labels]
                    /\ current' \in [Runs -> Names \cup {None}]
                    /\ exc' \in [Runs -> {"none", "workflow", "error"}]
                    /\ status' \in [Runs -> {"running", "completed", "failed"}]
                    /\ \A s \in Runs : s # r => pc'[s] = pc[s] /\ current'[s] = current[s]
                    /\ pc'[r] \in {"walk", "closing", "record"}
                    /\ pc'[r] = "walk" => current'[r] \in Names
<1>. USE DEF TypeInv, TypeOK, CtlOK, StateOK, Goto, Labels
<1>4. ASSUME NEW n \in Names, current' = [current EXCEPT ![r] = n],
             Goto(r, "walk"), UNCHANGED <<exc, status>>
      PROVE  Rest
  BY <1>4
<1>5. ASSUME RaiseWorkflow(r), UNCHANGED current
      PROVE  Rest
  BY <1>5 DEF RaiseWorkflow
<1>6. ASSUME RaiseError(r), UNCHANGED current
      PROVE  Rest
  BY <1>6 DEF RaiseError
<1>7. QED
  BY <1>1, <1>3, <1>4, <1>5, <1>6 DEF LeaveEffect

\* Storing a node's result and leaving the node keeps the types.
LEMMA CompleteKeepsTypes ==
  ASSUME TypeInv, NEW r \in Runs, pc[r] \in {"calling", "tool"}, NEW produced \in BOOLEAN,
         CompleteNode(r, produced), graph' = graph, visits' = visits
  PROVE  CtlOK' /\ StateOK'
<1>1. Node(r) \in NodesOf(graph) /\ Node(r).output \in Vars
  BY NodeOfRun DEF TypeInv, ControlInv, ControlOf, Walking
<1>2. data' \in [Runs -> SUBSET Vars]
  BY <1>1 DEF CompleteNode, TypeInv, TypeOK, StateOK
<1>3. LeaveNode(r, Node(r))
  BY DEF CompleteNode
<1>4. Names' = Names /\ Vars' = Vars
  BY DEF Names, Vars
<1>5. QED
  BY <1>1, <1>2, <1>3, <1>4, LeaveKeepsTypes DEF TypeInv, TypeOK, CtlOK, StateOK

\* Each action keeps the types of the variables it changes.
LEMMA TypeOKStep ==
  ASSUME TypeInv, [Next]_vars
  PROVE  TypeOK'
<1>. USE EngineAssumption DEF TypeInv, TypeOK
<1>0. ASSUME graph' = graph PROVE Names' = Names /\ Vars' = Vars
  BY <1>0 DEF Names, Vars
<1>1. ASSUME NEW r \in Runs, Start(r) PROVE TypeOK'
  <2>1. graph' = graph /\ Names' = Names /\ Vars' = Vars
    BY <1>1, <1>0 DEF Start
  <2>2. CtlOK'
    BY <1>1, <2>1, StartInGraph DEF Start, CtlOK, RaiseEarly, Goto, Labels, Names
  <2>3. StateOK'
    <3>1. {"input"} \in SUBSET Vars
      BY DEF Vars
    <3>2. QED
      BY <1>1, <2>1, <3>1 DEF Start, StateOK, RaiseEarly
  <2>4. DbOK'
    BY <1>1, <2>1 DEF Start, DbOK, db, log
  <2>5. TokenOK'
    BY <1>1, <2>1 DEF Start, TokenOK
  <2>6. LogOK'
    BY <1>1, <2>1 DEF Start, LogOK, db, log
  <2>7. QED
    BY <2>1, <2>2, <2>3, <2>4, <2>5, <2>6
<1>2. ASSUME NEW r \in Runs, InitializeRun(r) PROVE TypeOK'
  <2>1. graph' = graph /\ Names' = Names /\ Vars' = Vars
    BY <1>2, <1>0 DEF InitializeRun
  <2>2. CtlOK'
    BY <1>2, <2>1 DEF InitializeRun, CtlOK, RaiseEarly, Goto, Labels
  <2>3. StateOK'
    BY <1>2, <2>1 DEF InitializeRun, StateOK, RaiseEarly
  <2>4. DbOK'
    BY <1>2, <2>1 DEF InitializeRun, DbOK, OpenRow, NoRow, Contexts
  <2>5. TokenOK'
    BY <1>2, <2>1 DEF InitializeRun, TokenOK, tok, log
  <2>6. LogOK'
    BY <1>2, <2>1 DEF InitializeRun, LogOK, tok, log
  <2>7. QED
    BY <2>1, <2>2, <2>3, <2>4, <2>5, <2>6
<1>3. ASSUME NEW r \in Runs, AddUserMessage(r) PROVE TypeOK'
  <2>1. graph' = graph /\ Names' = Names /\ Vars' = Vars
    BY <1>3, <1>0 DEF AddUserMessage
  <2>2. CtlOK'
    BY <1>3, <2>1, StartInGraph DEF AddUserMessage, CtlOK, RaiseEarly, Goto, Labels, Names
  <2>3. StateOK'
    BY <1>3, <2>1 DEF AddUserMessage, StateOK, RaiseEarly
  <2>4. DbOK'
    BY <1>3, <2>1 DEF AddUserMessage, DbOK
  <2>5. TokenOK'
    BY <1>3, <2>1 DEF AddUserMessage, TokenOK, tok, log
  <2>6. LogOK'
    BY <1>3, <2>1 DEF AddUserMessage, LogOK, tok, log
  <2>7. QED
    BY <2>1, <2>2, <2>3, <2>4, <2>5, <2>6
<1>4. ASSUME NEW r \in Runs, ExceedVisits(r) PROVE TypeOK'
  <2>1. graph' = graph /\ Names' = Names /\ Vars' = Vars
    BY <1>4, <1>0 DEF ExceedVisits
  <2>2. CtlOK'
    BY <1>4, <2>1 DEF ExceedVisits, CtlOK, RaiseWorkflow, Goto, Labels, ControlInv, ControlOf, Walking
  <2>3. StateOK'
    BY <1>4, <2>1 DEF ExceedVisits, StateOK, RaiseWorkflow
  <2>4. DbOK'
    BY <1>4, <2>1 DEF ExceedVisits, DbOK, db, tok, log
  <2>5. TokenOK'
    BY <1>4, <2>1 DEF ExceedVisits, TokenOK, db, tok, log
  <2>6. LogOK'
    BY <1>4, <2>1 DEF ExceedVisits, LogOK, db, tok, log
  <2>7. QED
    BY <2>1, <2>2, <2>3, <2>4, <2>5, <2>6
<1>5. ASSUME NEW r \in Runs, VisitWorkNode(r) PROVE TypeOK'
  <2>1. graph' = graph /\ Names' = Names /\ Vars' = Vars
    BY <1>5, <1>0 DEF VisitWorkNode
  <2>2. CtlOK'
    BY <1>5, <2>1 DEF VisitWorkNode, CtlOK, Goto, Labels
  <2>3. StateOK'
    BY <1>5, <2>1 DEF VisitWorkNode, StateOK, st, db, tok, log
  <2>4. DbOK'
    BY <1>5, <2>1 DEF VisitWorkNode, DbOK, st, db, tok, log
  <2>5. TokenOK'
    BY <1>5, <2>1 DEF VisitWorkNode, TokenOK, st, db, tok, log
  <2>6. LogOK'
    BY <1>5, <2>1 DEF VisitWorkNode, LogOK, st, db, tok, log
  <2>7. QED
    BY <2>1, <2>2, <2>3, <2>4, <2>5, <2>6
<1>6. ASSUME NEW r \in Runs, VisitEndNode(r) PROVE TypeOK'
  <2>1. graph' = graph /\ Names' = Names /\ Vars' = Vars
    BY <1>6, <1>0 DEF VisitEndNode
  <2>2. CtlOK'
    BY <1>6, <2>1 DEF VisitEndNode, CtlOK, Goto, Labels
  <2>3. StateOK'
    BY <1>6, <2>1 DEF VisitEndNode, StateOK, ControlInv, ControlOf, Walking
  <2>4. DbOK'
    BY <1>6, <2>1 DEF VisitEndNode, DbOK, db, tok, log
  <2>5. TokenOK'
    BY <1>6, <2>1 DEF VisitEndNode, TokenOK, db, tok, log
  <2>6. LogOK'
    BY <1>6, <2>1 DEF VisitEndNode, LogOK, db, tok, log
  <2>7. QED
    BY <2>1, <2>2, <2>3, <2>4, <2>5, <2>6
<1>7. ASSUME NEW r \in Runs, Prepared(r) PROVE TypeOK'
  <2>1. graph' = graph /\ Names' = Names /\ Vars' = Vars
    BY <1>7, <1>0 DEF Prepared
  <2>2. CtlOK'
    BY <1>7, <2>1 DEF Prepared, CtlOK, Goto, Labels
  <2>3. StateOK'
    BY <1>7, <2>1 DEF Prepared, StateOK, st, db, log
  <2>4. DbOK'
    BY <1>7, <2>1 DEF Prepared, DbOK, st, db, log
  <2>5. TokenOK'
    BY <1>7, <2>1, NodeOfRun DEF Prepared, TokenOK, ControlInv, ControlOf, Walking, WorkTypes
  <2>6. LogOK'
    BY <1>7, <2>1 DEF Prepared, LogOK, st, db, log
  <2>7. QED
    BY <2>1, <2>2, <2>3, <2>4, <2>5, <2>6
<1>8. ASSUME NEW r \in Runs, PrepareFails(r) PROVE TypeOK'
  <2>1. graph' = graph /\ Names' = Names /\ Vars' = Vars
    BY <1>8, <1>0 DEF PrepareFails
  <2>2. CtlOK'
    BY <1>8, <2>1 DEF PrepareFails, CtlOK, RaiseError, RaiseWorkflow, Goto, Labels
  <2>3. StateOK'
    BY <1>8, <2>1 DEF PrepareFails, StateOK, RaiseError, RaiseWorkflow
  <2>4. DbOK'
    BY <1>8, <2>1 DEF PrepareFails, DbOK, db, tok, log
  <2>5. TokenOK'
    BY <1>8, <2>1 DEF PrepareFails, TokenOK, db, tok, log
  <2>6. LogOK'
    BY <1>8, <2>1 DEF PrepareFails, LogOK, db, tok, log
  <2>7. QED
    BY <2>1, <2>2, <2>3, <2>4, <2>5, <2>6
<1>9. ASSUME NEW r \in Runs, ModelFails(r) PROVE TypeOK'
  <2>1. graph' = graph /\ Names' = Names /\ Vars' = Vars
    BY <1>9, <1>0 DEF ModelFails
  <2>2. CtlOK'
    BY <1>9, <2>1 DEF ModelFails, CtlOK, RaiseError, Goto, Labels
  <2>3. StateOK'
    BY <1>9, <2>1 DEF ModelFails, StateOK, RaiseError
  <2>4. DbOK'
    BY <1>9, <2>1 DEF ModelFails, DbOK, db, log
  <2>5. TokenOK'
    BY <1>9, <2>1 DEF ModelFails, TokenOK
  <2>6. LogOK'
    BY <1>9, <2>1 DEF ModelFails, LogOK, db, log
  <2>7. QED
    BY <2>1, <2>2, <2>3, <2>4, <2>5, <2>6
<1>10. ASSUME NEW r \in Runs, ToolFails(r) PROVE TypeOK'
  <2>1. graph' = graph /\ Names' = Names /\ Vars' = Vars
    BY <1>10, <1>0 DEF ToolFails
  <2>2. CtlOK'
    BY <1>10, <2>1 DEF ToolFails, CtlOK, RaiseError, RaiseWorkflow, Goto, Labels
  <2>3. StateOK'
    BY <1>10, <2>1 DEF ToolFails, StateOK, RaiseError, RaiseWorkflow
  <2>4. DbOK'
    BY <1>10, <2>1 DEF ToolFails, DbOK, db, tok, log
  <2>5. TokenOK'
    BY <1>10, <2>1 DEF ToolFails, TokenOK, db, tok, log
  <2>6. LogOK'
    BY <1>10, <2>1 DEF ToolFails, LogOK, db, tok, log
  <2>7. QED
    BY <2>1, <2>2, <2>3, <2>4, <2>5, <2>6
<1>11. ASSUME NEW r \in Runs, FinishUpdateRun(r) PROVE TypeOK'
  <2>1. graph' = graph /\ Names' = Names /\ Vars' = Vars
    BY <1>11, <1>0 DEF FinishUpdateRun
  <2>2. CtlOK'
    BY <1>11, <2>1 DEF FinishUpdateRun, CtlOK, RaiseError, Goto, Labels
  <2>3. StateOK'
    BY <1>11, <2>1 DEF FinishUpdateRun, StateOK, RaiseError
  <2>4. DbOK'
    <3>1. row[r] \in [state : {"absent", "present"}, output : {"null", "value"},
                      context : Contexts, data : SUBSET Vars]
      BY DEF DbOK
    <3>2. FinalRow(r) \in [state : {"absent", "present"}, output : {"null", "value"},
                           context : Contexts, data : SUBSET Vars]
      BY <3>1 DEF FinalRow, StateOK, Contexts
    <3>3. QED
      BY <1>11, <2>1, <3>2 DEF FinishUpdateRun, DbOK
  <2>5. TokenOK'
    BY <1>11, <2>1 DEF FinishUpdateRun, TokenOK, tok, log
  <2>6. LogOK'
    BY <1>11, <2>1 DEF FinishUpdateRun, LogOK, tok, log
  <2>7. QED
    BY <2>1, <2>2, <2>3, <2>4, <2>5, <2>6
<1>12. ASSUME NEW r \in Runs, FinishAddMessage(r) PROVE TypeOK'
  <2>1. graph' = graph /\ Names' = Names /\ Vars' = Vars
    BY <1>12, <1>0 DEF FinishAddMessage
  <2>2. CtlOK'
    BY <1>12, <2>1 DEF FinishAddMessage, CtlOK, RaiseError, Goto, Labels
  <2>3. StateOK'
    BY <1>12, <2>1 DEF FinishAddMessage, StateOK, RaiseError
  <2>4. DbOK'
    BY <1>12, <2>1 DEF FinishAddMessage, DbOK
  <2>5. TokenOK'
    BY <1>12, <2>1 DEF FinishAddMessage, TokenOK, tok, log
  <2>6. LogOK'
    BY <1>12, <2>1 DEF FinishAddMessage, LogOK, tok, log
  <2>7. QED
    BY <2>1, <2>2, <2>3, <2>4, <2>5, <2>6
<1>13. ASSUME NEW r \in Runs, RecordFailure(r) PROVE TypeOK'
  <2>1. graph' = graph /\ Names' = Names /\ Vars' = Vars
    BY <1>13, <1>0 DEF RecordFailure
  <2>2. CtlOK'
    BY <1>13, <2>1 DEF RecordFailure, CtlOK, Goto, Labels
  <2>3. StateOK'
    BY <1>13, <2>1 DEF RecordFailure, StateOK, st, tok, log
  <2>4. DbOK'
    <3>1. row[r] \in [state : {"absent", "present"}, output : {"null", "value"},
                      context : Contexts, data : SUBSET Vars]
      BY DEF DbOK
    <3>2. FailedRow(r) \in [state : {"absent", "present"}, output : {"null", "value"},
                            context : Contexts, data : SUBSET Vars]
      BY <3>1 DEF FailedRow, StateOK, Contexts
    <3>3. QED
      BY <1>13, <2>1, <3>2 DEF RecordFailure, DbOK
  <2>5. TokenOK'
    BY <1>13, <2>1 DEF RecordFailure, TokenOK, st, tok, log
  <2>6. LogOK'
    BY <1>13, <2>1 DEF RecordFailure, LogOK, st, tok, log
  <2>7. QED
    BY <2>1, <2>2, <2>3, <2>4, <2>5, <2>6
<1>14. ASSUME NEW r \in Runs, Close(r) PROVE TypeOK'
  <2>1. graph' = graph /\ Names' = Names /\ Vars' = Vars
    BY <1>14, <1>0 DEF Close
  <2>2. CtlOK'
    BY <1>14, <2>1 DEF Close, CtlOK, Goto, Labels
  <2>3. StateOK'
    BY <1>14, <2>1 DEF Close, StateOK, st, db
  <2>4. DbOK'
    BY <1>14, <2>1 DEF Close, DbOK, st, db
  <2>5. TokenOK'
    BY <1>14, <2>1 DEF Close, TokenOK, ControlInv, ControlOf
  <2>6. LogOK'
    BY <1>14, <2>1 DEF Close, FlushSet, LogOK
  <2>7. QED
    BY <2>1, <2>2, <2>3, <2>4, <2>5, <2>6
<1>15. ASSUME NEW r \in Runs, Flushed(r) PROVE TypeOK'
  <2>1. graph' = graph /\ Names' = Names /\ Vars' = Vars
    BY <1>15, <1>0 DEF Flushed
  <2>2. CtlOK'
    BY <1>15, <2>1 DEF Flushed, CtlOK, Goto, Labels
  <2>3. StateOK'
    BY <1>15, <2>1 DEF Flushed, StateOK, st, db, tok
  <2>4. DbOK'
    BY <1>15, <2>1 DEF Flushed, DbOK, st, db, tok
  <2>5. TokenOK'
    BY <1>15, <2>1 DEF Flushed, TokenOK, st, db, tok
  <2>6. LogOK'
    BY <1>15, <2>1 DEF Flushed, LogOK
  <2>7. QED
    BY <2>1, <2>2, <2>3, <2>4, <2>5, <2>6
<1>16. ASSUME NEW r \in Runs, LateReply(r) PROVE TypeOK'
  <2>1. graph' = graph /\ Names' = Names /\ Vars' = Vars
    BY <1>16, <1>0 DEF LateReply
  <2>2. CtlOK'
    BY <1>16, <2>1 DEF LateReply, CtlOK, ctl, st, db
  <2>3. StateOK'
    BY <1>16, <2>1 DEF LateReply, StateOK, ctl, st, db
  <2>4. DbOK'
    BY <1>16, <2>1 DEF LateReply, DbOK, ctl, st, db
  <2>5. TokenOK'
    BY <1>16, <2>1 DEF LateReply, TokenOK, ControlInv, ControlOf
  <2>6. LogOK'
    BY <1>16, <2>1 DEF LateReply, LogOK, Spawn, ModelWrite, Writes
  <2>7. QED
    BY <2>1, <2>2, <2>3, <2>4, <2>5, <2>6
<1>17. ASSUME NEW r \in Runs, LateFailure(r) PROVE TypeOK'
  <2>1. graph' = graph /\ Names' = Names /\ Vars' = Vars
    BY <1>17, <1>0 DEF LateFailure
  <2>2. CtlOK'
    BY <1>17, <2>1 DEF LateFailure, CtlOK, ctl, st, db, log
  <2>3. StateOK'
    BY <1>17, <2>1 DEF LateFailure, StateOK, ctl, st, db, log
  <2>4. DbOK'
    BY <1>17, <2>1 DEF LateFailure, DbOK, ctl, st, db, log
  <2>5. TokenOK'
    BY <1>17, <2>1 DEF LateFailure, TokenOK
  <2>6. LogOK'
    BY <1>17, <2>1 DEF LateFailure, LogOK, ctl, st, db, log
  <2>7. QED
    BY <2>1, <2>2, <2>3, <2>4, <2>5, <2>6
<1>18. ASSUME NEW r \in Runs, VisitRoutingNode(r) PROVE TypeOK'
  <2>1. graph' = graph /\ Names' = Names /\ Vars' = Vars
    BY <1>18, <1>0 DEF VisitRoutingNode
  <2>2. /\ Node(r) \in NodesOf(graph)
        /\ LeaveNode(r, Node(r))
        /\ data' \in [Runs -> SUBSET Vars]
    BY <1>18, NodeOfRun DEF VisitRoutingNode, Walking, StateOK
  <2>3. visits' \in [Runs -> 0 .. MaxNodeVisits + 1]
    BY <1>18 DEF VisitRoutingNode, CtlOK
  <2>4. CtlOK' /\ StateOK'
    BY <1>18, <2>1, <2>2, <2>3, LeaveKeepsTypes DEF CtlOK, StateOK
  <2>5. DbOK' /\ TokenOK' /\ LogOK'
    BY <1>18, <2>1 DEF VisitRoutingNode, db, tok, log, DbOK, TokenOK, LogOK, Writes
  <2>6. QED
    BY <2>1, <2>4, <2>5
<1>19. ASSUME NEW r \in Runs, ModelReply(r) PROVE TypeOK'
  <2>1. graph' = graph /\ Names' = Names /\ Vars' = Vars /\ visits' = visits
    BY <1>19, <1>0 DEF ModelReply
  <2>2. CtlOK' /\ StateOK'
    <3>1. CASE CompleteNode(r, TRUE)
      BY <1>19, <2>1, <3>1, CompleteKeepsTypes DEF ModelReply
    <3>2. CASE RaiseError(r) /\ UNCHANGED <<current, trace, data, sdata>>
      BY <2>1, <3>2 DEF RaiseError, Goto, Labels, CtlOK, StateOK
    <3>3. CASE UNCHANGED <<pc, current, exc, st>>
      BY <2>1, <3>3 DEF CtlOK, StateOK, st
    <3>4. QED
      BY <1>19, <3>1, <3>2, <3>3 DEF ModelReply
  <2>3. TokenOK'
    <3>1. steps[r] - 1 \in Nat /\ own[r] + 1 \in Nat
      BY <1>19 DEF ModelReply, TokenOK
    <3>2. calls' \in [Runs -> Nat]
      BY <1>19 DEF ModelReply, Tally, TokenOK, ControlInv, ControlOf
    <3>3. own' = own \/ own' = [own EXCEPT ![r] = @ + 1]
      BY <1>19 DEF ModelReply, Tally
    <3>4. own' \in [Runs -> Nat]
      BY <3>1, <3>3 DEF TokenOK
    <3>5. QED
      BY <1>19, <3>1, <3>2, <3>4 DEF ModelReply, Tally, TokenOK
  <2>4. LogOK'
    <3>1. Len(trace'[r]) \in Nat
      BY <2>2 DEF StateOK
    <3>2. own'[r] \in Nat
      BY <2>3 DEF TokenOK
    <3>3. pending' \subseteq pending \cup {ModelWrite(r, own'[r]), NodeWrite(r, Len(trace'[r]))}
      BY <1>19 DEF ModelReply, ModelRecords
    <3>4. ModelWrite(r, own'[r]) \in Writes /\ NodeWrite(r, Len(trace'[r])) \in Writes
      BY <3>1, <3>2 DEF ModelWrite, NodeWrite, Writes
    <3>5. waiting' = waiting
      BY <1>19 DEF ModelReply
    <3>6. QED
      BY <3>3, <3>4, <3>5 DEF LogOK
  <2>5. DbOK'
    BY <1>19, <2>1 DEF ModelReply, db, DbOK
  <2>6. QED
    BY <2>1, <2>2, <2>3, <2>4, <2>5
<1>20. ASSUME NEW r \in Runs, AgentExhausted(r) PROVE TypeOK'
  <2>1. graph' = graph /\ Names' = Names /\ Vars' = Vars /\ visits' = visits
    BY <1>20, <1>0 DEF AgentExhausted
  <2>2. CtlOK' /\ StateOK'
    BY <1>20, <2>1, CompleteKeepsTypes DEF AgentExhausted
  <2>3. Len(trace'[r]) \in Nat
    BY <2>2 DEF StateOK
  <2>4. LogOK'
    BY <1>20, <2>3 DEF AgentExhausted, LogOK, Writes, Spawn, NodeWrite
  <2>5. DbOK' /\ TokenOK'
    BY <1>20, <2>1 DEF AgentExhausted, db, tok, DbOK, TokenOK
  <2>6. QED
    BY <2>1, <2>2, <2>4, <2>5
<1>21. ASSUME NEW r \in Runs, ToolReply(r) PROVE TypeOK'
  <2>1. graph' = graph /\ Names' = Names /\ Vars' = Vars /\ visits' = visits
    BY <1>21, <1>0 DEF ToolReply
  <2>2. CtlOK' /\ StateOK'
    BY <1>21, <2>1, CompleteKeepsTypes DEF ToolReply
  <2>3. Len(trace'[r]) \in Nat
    BY <2>2 DEF StateOK
  <2>4. LogOK'
    BY <1>21, <2>3 DEF ToolReply, LogOK, Writes, Spawn, NodeWrite
  <2>5. DbOK' /\ TokenOK'
    BY <1>21, <2>1 DEF ToolReply, db, tok, DbOK, TokenOK
  <2>6. QED
    BY <2>1, <2>2, <2>4, <2>5
<1>22. ASSUME NEW w \in pending, WriteDone(w) PROVE TypeOK'
  <2>1. graph' = graph /\ Names' = Names /\ Vars' = Vars
    BY <1>22, <1>0 DEF WriteDone
  <2>2. QED
    BY <1>22, <2>1 DEF WriteDone, ctl, st, db, tok, CtlOK, StateOK, DbOK, TokenOK, LogOK
<1>23. ASSUME UNCHANGED vars PROVE TypeOK'
  BY <1>23 DEF vars, ctl, st, db, tok, log, CtlOK, StateOK, DbOK, TokenOK, LogOK, Names, Vars
<1>24. QED
  BY <1>1, <1>2, <1>3, <1>4, <1>5, <1>6, <1>7, <1>8, <1>9, <1>10, <1>11, <1>12, <1>13, <1>14, <1>15, <1>16, <1>17, <1>18, <1>19, <1>20, <1>21, <1>22, <1>23
     DEF Next, RunStep, Background, Done

(***************************************************************************)
(* A step of one run leaves the state of the others alone; only the        *)
(* engine's accumulator, the tallies and the log writes are shared.        *)
(***************************************************************************)
Kept(s) ==
  /\ pc'[s] = pc[s] /\ current'[s] = current[s]
  /\ visits'[s] = visits[s] /\ exc'[s] = exc[s]
  /\ status'[s] = status[s] /\ trace'[s] = trace[s]
  /\ data'[s] = data[s] /\ sdata'[s] = sdata[s]
  /\ row'[s] = row[s] /\ chat'[s] = chat[s]
  /\ client'[s] = client[s] /\ own'[s] = own[s] /\ usage'[s] = usage[s]
  /\ waiting'[s] = waiting[s]
  /\ s \in late' => s \in late

\* What a run's own step leaves of its own and of another run's state.
LEMMA OthersKept ==
  ASSUME TypeInv, NEW r \in Runs, Start(r) \/ RunStep(r), NEW s \in Runs, s # r
  PROVE  graph' = graph /\ Kept(s)
<1>. USE DEF TypeInv, TypeOK, CtlOK, StateOK, DbOK, TokenOK, LogOK, Goto, Kept,
             ctl, st, db, tok, log
<1>1. CASE Start(r)
  BY <1>1 DEF Start, RaiseEarly
<1>2. CASE InitializeRun(r)
  BY <1>2 DEF InitializeRun, RaiseEarly
<1>3. CASE AddUserMessage(r)
  BY <1>3 DEF AddUserMessage, RaiseEarly
<1>4. CASE ExceedVisits(r)
  BY <1>4 DEF ExceedVisits, RaiseWorkflow
<1>5. CASE VisitWorkNode(r)
  BY <1>5 DEF VisitWorkNode
<1>6. CASE VisitEndNode(r)
  BY <1>6 DEF VisitEndNode
<1>7. CASE Prepared(r)
  BY <1>7 DEF Prepared
<1>8. CASE PrepareFails(r)
  BY <1>8 DEF PrepareFails, RaiseError, RaiseWorkflow
<1>9. CASE ModelFails(r)
  BY <1>9 DEF ModelFails, RaiseError
<1>10. CASE ToolFails(r)
  BY <1>10 DEF ToolFails, RaiseError, RaiseWorkflow
<1>11. CASE FinishUpdateRun(r)
  BY <1>11 DEF FinishUpdateRun, RaiseError
<1>12. CASE FinishAddMessage(r)
  BY <1>12 DEF FinishAddMessage, RaiseError
<1>13. CASE RecordFailure(r)
  BY <1>13 DEF RecordFailure
<1>14. CASE Close(r)
  BY <1>14 DEF Close
<1>15. CASE Flushed(r)
  BY <1>15 DEF Flushed
<1>L. ASSUME NEW node, LeaveEffect(r, node)
      PROVE  /\ pc'[s] = pc[s] /\ current'[s] = current[s] /\ exc'[s] = exc[s]
             /\ status'[s] = status[s] /\ trace'[s] = trace[s] /\ sdata'[s] = sdata[s]
  BY <1>L DEF LeaveEffect, RaiseWorkflow, RaiseError
<1>M. ASSUME pc[r] \in Walking, LeaveNode(r, Node(r))
      PROVE  LeaveEffect(r, Node(r))
  BY <1>M, NodeOfRun, LeaveNodeEffect
<1>16. CASE VisitRoutingNode(r)
  BY <1>16, <1>L, <1>M DEF VisitRoutingNode, Walking
<1>17. CASE ModelReply(r)
  <2>1. CASE CompleteNode(r, TRUE)
    BY <1>17, <2>1, <1>L, <1>M DEF ModelReply, CompleteNode, Tally, Walking
  <2>2. CASE RaiseError(r) /\ UNCHANGED <<current, trace, data, sdata>>
    BY <1>17, <2>2 DEF ModelReply, RaiseError, Tally
  <2>3. CASE UNCHANGED <<pc, current, exc, st>>
    BY <1>17, <2>3 DEF ModelReply, Tally
  <2>4. QED
    BY <1>17, <2>1, <2>2, <2>3 DEF ModelReply
<1>18. CASE AgentExhausted(r)
  BY <1>18, <1>L, <1>M DEF AgentExhausted, CompleteNode, Walking
<1>19. CASE ToolReply(r)
  BY <1>19, <1>L, <1>M DEF ToolReply, CompleteNode, Walking
<1>20. QED
  BY <1>1, <1>2, <1>3, <1>4, <1>5, <1>6, <1>7, <1>8, <1>9, <1>10, <1>11, <1>12, <1>13, <1>14, <1>15, <1>16, <1>17, <1>18, <1>19 DEF RunStep

\* Each action keeps ControlInv.
LEMMA ControlInvStep ==
  ASSUME TypeInv, [Next]_vars
  PROVE  ControlInv'
<1>. USE EngineAssumption DEF TypeInv, TypeOK, ControlInv
<1>0. ASSUME graph' = graph PROVE Names' = Names
  BY <1>0 DEF Names
<1>K. ASSUME NEW s \in Runs, Kept(s), graph' = graph, engineAcc' \in Runs \cup {engineAcc}
      PROVE  ControlOf(s)'
  BY <1>K, <1>0 DEF ControlOf, Kept, Node
<1>O. ASSUME NEW r \in Runs, Start(r) \/ RunStep(r), engineAcc' \in Runs \cup {engineAcc},
             ControlOf(r)'
      PROVE  ControlInv'
  <2>1. ASSUME NEW s \in Runs, s # r PROVE ControlOf(s)'
    BY <1>O, <1>K, <2>1, OthersKept
  <2>2. QED
    BY <1>O, <2>1
<1>S. StartName(graph) \in Names
  BY StartInGraph DEF Names
<1>. USE DEF Walking
<1>1. ASSUME NEW r \in Runs, Start(r) PROVE ControlInv'
  <2>1. graph' = graph /\ engineAcc' \in Runs \cup {engineAcc}
    BY <1>1 DEF Start
  <2>2. ControlOf(r)'
    BY <1>1, <2>1, <1>0, <1>S DEF Start, ControlOf, CtlOK, TokenOK, Goto, Node, RaiseEarly
  <2>3. QED
    BY <1>1, <1>O, <2>1, <2>2 DEF RunStep
<1>2. ASSUME NEW r \in Runs, InitializeRun(r) PROVE ControlInv'
  <2>1. graph' = graph /\ engineAcc' \in Runs \cup {engineAcc}
    BY <1>2 DEF InitializeRun, tok
  <2>2. ControlOf(r)'
    BY <1>2, <2>1, <1>0 DEF InitializeRun, ControlOf, CtlOK, TokenOK, Goto, Node, RaiseEarly, tok
  <2>3. QED
    BY <1>2, <1>O, <2>1, <2>2 DEF RunStep
<1>3. ASSUME NEW r \in Runs, AddUserMessage(r) PROVE ControlInv'
  <2>1. graph' = graph /\ engineAcc' \in Runs \cup {engineAcc}
    BY <1>3 DEF AddUserMessage, tok
  <2>2. ControlOf(r)'
    BY <1>3, <2>1, <1>0, <1>S DEF AddUserMessage, ControlOf, CtlOK, TokenOK, Goto, Node, RaiseEarly, tok
  <2>3. QED
    BY <1>3, <1>O, <2>1, <2>2 DEF RunStep
<1>4. ASSUME NEW r \in Runs, ExceedVisits(r) PROVE ControlInv'
  <2>1. graph' = graph /\ engineAcc' \in Runs \cup {engineAcc}
    BY <1>4 DEF ExceedVisits, tok
  <2>2. ControlOf(r)'
    BY <1>4, <2>1, <1>0 DEF ExceedVisits, ControlOf, CtlOK, TokenOK, Goto, Node, RaiseWorkflow, tok
  <2>3. QED
    BY <1>4, <1>O, <2>1, <2>2 DEF RunStep
<1>5. ASSUME NEW r \in Runs, VisitWorkNode(r) PROVE ControlInv'
  <2>1. graph' = graph /\ engineAcc' \in Runs \cup {engineAcc}
    BY <1>5 DEF VisitWorkNode, tok
  <2>2. ControlOf(r)'
    BY <1>5, <2>1, <1>0 DEF VisitWorkNode, ControlOf, CtlOK, TokenOK, Goto, Node, tok
  <2>3. QED
    BY <1>5, <1>O, <2>1, <2>2 DEF RunStep
<1>6. ASSUME NEW r \in Runs, VisitEndNode(r) PROVE ControlInv'
  <2>1. graph' = graph /\ engineAcc' \in Runs \cup {engineAcc}
    BY <1>6 DEF VisitEndNode, tok
  <2>2. ControlOf(r)'
    BY <1>6, <2>1, <1>0 DEF VisitEndNode, ControlOf, CtlOK, TokenOK, Goto, Node, tok
  <2>3. QED
    BY <1>6, <1>O, <2>1, <2>2 DEF RunStep
<1>7. ASSUME NEW r \in Runs, Prepared(r) PROVE ControlInv'
  <2>1. graph' = graph /\ engineAcc' \in Runs \cup {engineAcc}
    BY <1>7 DEF Prepared
  <2>2. ControlOf(r)'
    BY <1>7, <2>1, <1>0 DEF Prepared, ControlOf, CtlOK, TokenOK, Goto, Node
  <2>3. QED
    BY <1>7, <1>O, <2>1, <2>2 DEF RunStep
<1>8. ASSUME NEW r \in Runs, PrepareFails(r) PROVE ControlInv'
  <2>1. graph' = graph /\ engineAcc' \in Runs \cup {engineAcc}
    BY <1>8 DEF PrepareFails, tok
  <2>2. ControlOf(r)'
    BY <1>8, <2>1, <1>0 DEF PrepareFails, ControlOf, CtlOK, TokenOK, Goto, Node, RaiseError, RaiseWorkflow, tok
  <2>3. QED
    BY <1>8, <1>O, <2>1, <2>2 DEF RunStep
<1>9. ASSUME NEW r \in Runs, ModelFails(r) PROVE ControlInv'
  <2>1. graph' = graph /\ engineAcc' \in Runs \cup {engineAcc}
    BY <1>9 DEF ModelFails
  <2>2. ControlOf(r)'
    BY <1>9, <2>1, <1>0 DEF ModelFails, ControlOf, CtlOK, TokenOK, Goto, Node, RaiseError
  <2>3. QED
    BY <1>9, <1>O, <2>1, <2>2 DEF RunStep
<1>10. ASSUME NEW r \in Runs, ToolFails(r) PROVE ControlInv'
  <2>1. graph' = graph /\ engineAcc' \in Runs \cup {engineAcc}
    BY <1>10 DEF ToolFails, tok
  <2>2. ControlOf(r)'
    BY <1>10, <2>1, <1>0 DEF ToolFails, ControlOf, CtlOK, TokenOK, Goto, Node, RaiseError, RaiseWorkflow, tok
  <2>3. QED
    BY <1>10, <1>O, <2>1, <2>2 DEF RunStep
<1>11. ASSUME NEW r \in Runs, FinishUpdateRun(r) PROVE ControlInv'
  <2>1. graph' = graph /\ engineAcc' \in Runs \cup {engineAcc}
    BY <1>11 DEF FinishUpdateRun, tok
  <2>2. ControlOf(r)'
    BY <1>11, <2>1, <1>0 DEF FinishUpdateRun, ControlOf, CtlOK, TokenOK, Goto, Node, RaiseError, tok
  <2>3. QED
    BY <1>11, <1>O, <2>1, <2>2 DEF RunStep
<1>12. ASSUME NEW r \in Runs, FinishAddMessage(r) PROVE ControlInv'
  <2>1. graph' = graph /\ engineAcc' \in Runs \cup {engineAcc}
    BY <1>12 DEF FinishAddMessage, tok
  <2>2. ControlOf(r)'
    BY <1>12, <2>1, <1>0 DEF FinishAddMessage, ControlOf, CtlOK, TokenOK, Goto, Node, RaiseError, tok
  <2>3. QED
    BY <1>12, <1>O, <2>1, <2>2 DEF RunStep
<1>13. ASSUME NEW r \in Runs, RecordFailure(r) PROVE ControlInv'
  <2>1. graph' = graph /\ engineAcc' \in Runs \cup {engineAcc}
    BY <1>13 DEF RecordFailure, tok
  <2>2. ControlOf(r)'
    BY <1>13, <2>1, <1>0 DEF RecordFailure, ControlOf, CtlOK, TokenOK, Goto, Node, tok
  <2>3. QED
    BY <1>13, <1>O, <2>1, <2>2 DEF RunStep
<1>14. ASSUME NEW r \in Runs, Close(r) PROVE ControlInv'
  <2>1. graph' = graph /\ engineAcc' \in Runs \cup {engineAcc}
    BY <1>14 DEF Close
  <2>2. ControlOf(r)'
    BY <1>14, <2>1, <1>0 DEF Close, ControlOf, CtlOK, TokenOK, Goto, Node
  <2>3. QED
    BY <1>14, <1>O, <2>1, <2>2 DEF RunStep
<1>15. ASSUME NEW r \in Runs, Flushed(r) PROVE ControlInv'
  <2>1. graph' = graph /\ engineAcc' \in Runs \cup {engineAcc}
    BY <1>15 DEF Flushed, tok
  <2>2. ControlOf(r)'
    BY <1>15, <2>1, <1>0 DEF Flushed, ControlOf, CtlOK, TokenOK, Goto, Node, tok
  <2>3. QED
    BY <1>15, <1>O, <2>1, <2>2 DEF RunStep
<1>16. ASSUME NEW r \in Runs, VisitRoutingNode(r) PROVE ControlInv'
  <2>1. graph' = graph /\ engineAcc' \in Runs \cup {engineAcc}
    BY <1>16 DEF VisitRoutingNode, tok
  <2>2. ControlOf(r)'
    <3>1. LeaveEffect(r, Node(r))
      BY <1>16, NodeOfRun, LeaveNodeEffect DEF VisitRoutingNode
    <3>2. QED
      BY <1>16, <2>1, <1>0, <3>1
         DEF VisitRoutingNode, LeaveEffect, RaiseWorkflow, RaiseError, Goto, ControlOf, CtlOK, tok
  <2>3. QED
    BY <1>16, <1>O, <2>1, <2>2 DEF RunStep
<1>17. ASSUME NEW r \in Runs, ModelReply(r) PROVE ControlInv'
  <2>1. graph' = graph /\ engineAcc' \in Runs \cup {engineAcc}
    BY <1>17 DEF ModelReply, tok
  <2>2. ControlOf(r)'
    <3>1. CASE CompleteNode(r, TRUE)
      <4>1. LeaveEffect(r, Node(r))
        BY <1>17, <3>1, NodeOfRun, LeaveNodeEffect DEF ModelReply, CompleteNode
      <4>2. QED
        BY <1>17, <2>1, <1>0, <4>1
           DEF ModelReply, Tally, LeaveEffect, RaiseWorkflow, RaiseError, Goto, ControlOf, CtlOK
    <3>2. CASE RaiseError(r) /\ UNCHANGED <<current, trace, data, sdata>>
      BY <1>17, <2>1, <1>0, <3>2 DEF ModelReply, Tally, RaiseError, Goto, ControlOf, CtlOK
    <3>3. CASE UNCHANGED <<pc, current, exc, st>>
      BY <1>17, <2>1, <1>0, <3>3 DEF ModelReply, Tally, ControlOf, Node
    <3>4. QED
      BY <1>17, <3>1, <3>2, <3>3 DEF ModelReply
  <2>3. QED
    BY <1>17, <1>O, <2>1, <2>2 DEF RunStep
<1>18. ASSUME NEW r \in Runs, AgentExhausted(r) PROVE ControlInv'
  <2>1. graph' = graph /\ engineAcc' \in Runs \cup {engineAcc}
    BY <1>18 DEF AgentExhausted, tok
  <2>2. ControlOf(r)'
    <3>1. LeaveEffect(r, Node(r))
      BY <1>18, NodeOfRun, LeaveNodeEffect DEF AgentExhausted, CompleteNode
    <3>2. QED
      BY <1>18, <2>1, <1>0, <3>1
         DEF AgentExhausted, LeaveEffect, RaiseWorkflow, RaiseError, Goto, ControlOf, CtlOK, tok
  <2>3. QED
    BY <1>18, <1>O, <2>1, <2>2 DEF RunStep
<1>19. ASSUME NEW r \in Runs, ToolReply(r) PROVE ControlInv'
  <2>1. graph' = graph /\ engineAcc' \in Runs \cup {engineAcc}
    BY <1>19 DEF ToolReply, tok
  <2>2. ControlOf(r)'
    <3>1. LeaveEffect(r, Node(r))
      BY <1>19, NodeOfRun, LeaveNodeEffect DEF ToolReply, CompleteNode
    <3>2. QED
      BY <1>19, <2>1, <1>0, <3>1
         DEF ToolReply, LeaveEffect, RaiseWorkflow, RaiseError, Goto, ControlOf, CtlOK, tok
  <2>3. QED
    BY <1>19, <1>O, <2>1, <2>2 DEF RunStep
<1>20. ASSUME NEW r \in Runs, LateReply(r) PROVE ControlInv'
  BY <1>20, <1>0 DEF LateReply, ctl, ControlOf, Node
<1>21. ASSUME NEW r \in Runs, LateFailure(r) PROVE ControlInv'
  BY <1>21, <1>0 DEF LateFailure, ctl, ControlOf, Node
<1>22. ASSUME NEW w \in pending, WriteDone(w) PROVE ControlInv'
  BY <1>22, <1>0 DEF WriteDone, ctl, tok, ControlOf, Node
<1>23. ASSUME UNCHANGED vars PROVE ControlInv'
  BY <1>23, <1>0 DEF vars, ctl, tok, ControlOf, Node
<1>24. QED
  BY <1>1, <1>2, <1>3, <1>4, <1>5, <1>6, <1>7, <1>8, <1>9, <1>10, <1>11, <1>12, <1>13, <1>14, <1>15, <1>16, <1>17, <1>18, <1>19, <1>20, <1>21, <1>22, <1>23
     DEF Next, RunStep, Background, Done

\* The types hold in every reachable state, for every graph the validator accepts.
THEOREM TypeInvariant == Spec => []TypeInv
<1>1. Init => TypeInv
  <2>. USE EngineAssumption DEF Init
  <2>1. Init => ControlInv
    BY DEF ControlInv, ControlOf, Walking
  <2>2. Init => CtlOK /\ StateOK /\ DbOK /\ TokenOK /\ LogOK
    BY DEF CtlOK, StateOK, DbOK, TokenOK, LogOK, Labels, NoRow, Contexts
  <2>3. QED
    BY <2>1, <2>2 DEF TypeInv, TypeOK
<1>2. TypeInv /\ [Next]_vars => TypeInv'
  BY TypeOKStep, ControlInvStep DEF TypeInv
<1>3. QED
  BY <1>1, <1>2, PTL DEF Spec

\* Type correctness of the engine.
THEOREM TypeCorrect == Spec => []TypeOK
BY TypeInvariant, PTL DEF TypeInv

\* The walk never leaves the validated graph: self.node_map[current] cannot raise
\* KeyError, whatever the branch expressions evaluate to.
THEOREM WalkSafe == Spec => []WalkStaysInGraph
<1>1. TypeInv => WalkStaysInGraph
  BY DEF TypeInv, ControlInv, ControlOf, WalkStaysInGraph
<1>2. QED
  BY <1>1, TypeInvariant, PTL
==============================================================================
