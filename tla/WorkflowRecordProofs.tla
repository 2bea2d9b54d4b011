------------------------- MODULE WorkflowRecordProofs -------------------------
(***************************************************************************)
(* What a run leaves behind: proofs about the runs table, the conversation *)
(* and the order of the writes to them; that the engine implements         *)
(* RunLifecycle; the path in the trace; and what the runs of one engine    *)
(* share, the token accumulator and the background writes.                 *)
(***************************************************************************)
EXTENDS WorkflowEngineProofs, SequenceTheorems

Before == {"idle", "init", "user"}
After == {"closing", "flushing", "ended"}

FinalRecord(r) ==
  /\ row[r].state = "present" /\ row[r].context = "final" /\ row[r].data = data[r]
  /\ Node(r).output \in data[r] => row[r].output = "value"

\* Where a run is determines what it has written so far.  The three invariants
\* about records are consequences; none of them is inductive alone, because what
\* the last write may be depends on the writes before it.
RecordInvOf(r) ==
  /\ pc[r] \in Before \cup Walking => exc[r] = "none" /\ status[r] = "running"
  /\ pc[r] \in Before => trace[r] = <<>>
  /\ pc[r] \in {"idle", "init"} => row[r] = NoRow /\ chat[r] = <<>>
  /\ pc[r] = "user" => row[r] = OpenRow /\ chat[r] = <<>>
  /\ pc[r] \in {"init", "user", "finish_run", "finish_msg", "record"} => Service
  /\ pc[r] \in Walking =>
       IF Service THEN row[r] = OpenRow /\ chat[r] = <<"user">>
                  ELSE row[r] = NoRow /\ chat[r] = <<>>
  /\ pc[r] = "finish_run" => row[r] = OpenRow
  /\ pc[r] = "finish_msg" => FinalRecord(r)
  /\ pc[r] \in {"finish_run", "finish_msg"} =>
       exc[r] = "none" /\ status[r] = "completed" /\ chat[r] = <<"user">>
  /\ pc[r] = "record" =>
       exc[r] = "error" /\ status[r] = "failed" /\ row[r].state = "present"
                        /\ row[r].context \in {"null", "final"}
  /\ pc[r] \in After /\ exc[r] = "none" =>
       /\ status[r] = "completed" /\ Node(r).type = "end"
       /\ Service => FinalRecord(r) /\ chat[r] = <<"user", "assistant">>

\* The bodies of the checked invariants, for one run.
AnswerOf(r) ==
  \/ chat[r] \in {<<>>, <<"user">>}
  \/ /\ chat[r] = <<"user", "assistant">>
     /\ pc[r] \in {"record"} \cup After
     /\ row[r].context # "null"
     /\ Node(r).output \in data[r] => row[r].output = "value"

SnapshotOf(r) == sdata[r] = (IF trace[r] = <<>> THEN {} ELSE data[r])

HonestOf(r) ==
  row[r].context = "failed" =>
    /\ exc[r] = "error" /\ status[r] = "failed" /\ pc[r] \in After
    /\ row[r].data = (IF trace[r] = <<>> THEN {} ELSE data[r])

RecordInv ==
  \A r \in Runs : RecordInvOf(r) /\ AnswerOf(r) /\ SnapshotOf(r) /\ HonestOf(r)

\* The conversation after each of the two messages of a run.
LEMMA ChatAppends ==
  /\ Append(<<>>, "user") = <<"user">>
  /\ Append(<<"user">>, "assistant") = <<"user", "assistant">>
<1>. DEFINE Roles == {"user", "assistant"}
             u == <<"user">>
             ua == <<"user", "assistant">>
<1>1. u \in Seq(Roles) /\ ua \in Seq(Roles) /\ Len(u) = 1 /\ Len(ua) = 2
  OBVIOUS
<1>2. Append(u, "assistant") \in Seq(Roles) /\ Len(Append(u, "assistant")) = 2
  BY <1>1
<1>3. \A i \in 1 .. 2 : Append(u, "assistant")[i] = ua[i]
  BY <1>1, AppendProperties
<1>4. Append(u, "assistant") = ua
  BY <1>1, <1>2, <1>3, SeqEqual
<1>5. Append(<<>>, "user") = u
  OBVIOUS
<1>6. QED
  BY <1>4, <1>5

\* Each action keeps RecordInv.
LEMMA RecordInvStep ==
  ASSUME TypeInv, RecordInv, [Next]_vars
  PROVE  RecordInv'
<1>. USE DEF TypeInv, TypeOK, RecordInv
<1>. DEFINE Inv(s) == RecordInvOf(s) /\ AnswerOf(s) /\ SnapshotOf(s) /\ HonestOf(s)
<1>K. ASSUME NEW s \in Runs, Kept(s), graph' = graph
      PROVE  Inv(s)'
  BY <1>K DEF Kept, Node, FinalRecord, RecordInvOf, AnswerOf, SnapshotOf, HonestOf
<1>O. ASSUME NEW r \in Runs, Start(r) \/ RunStep(r), Inv(r)'
      PROVE  RecordInv'
  <2>1. ASSUME NEW s \in Runs, s # r PROVE Inv(s)'
    BY <1>K, <1>O, <2>1, OthersKept
  <2>2. QED
    BY <1>O, <2>1
<1>. USE DEF Walking, Before, After
<1>1. ASSUME NEW r \in Runs, Start(r) PROVE RecordInv'
  <2>1. Inv(r)'
    BY <1>1 DEF Start, RecordInvOf, AnswerOf, SnapshotOf, HonestOf, FinalRecord, Node, NoRow, OpenRow,
       CtlOK, StateOK, DbOK, Goto, RaiseEarly, db
  <2>2. QED
    BY <1>1, <1>O, <2>1 DEF RunStep
<1>2. ASSUME NEW r \in Runs, InitializeRun(r) PROVE RecordInv'
  <2>1. Inv(r)'
    BY <1>2 DEF InitializeRun, RecordInvOf, AnswerOf, SnapshotOf, HonestOf, FinalRecord, Node, NoRow, OpenRow,
       CtlOK, StateOK, DbOK, Goto, RaiseEarly
  <2>2. QED
    BY <1>2, <1>O, <2>1 DEF RunStep
<1>3. ASSUME NEW r \in Runs, AddUserMessage(r) PROVE RecordInv'
  <2>1. /\ pc[r] = "user" /\ row[r] = OpenRow /\ chat[r] = <<>> /\ Service
        /\ exc[r] = "none" /\ status[r] = "running" /\ trace[r] = <<>>
    BY <1>3 DEF AddUserMessage, RecordInvOf
  <2>2. PICK o \in DbOutcomes :
          /\ chat' = IF o = "fail" THEN chat ELSE [chat EXCEPT ![r] = Append(@, "user")]
          /\ IF o = "ok"
             THEN /\ Goto(r, "walk")
                  /\ current' = [current EXCEPT ![r] = StartName(graph)]
                  /\ UNCHANGED <<exc, status>>
             ELSE RaiseEarly(r) /\ UNCHANGED current
    BY <1>3 DEF AddUserMessage
  <2>3. /\ chat'[r] = IF o = "fail" THEN <<>> ELSE <<"user">>
        /\ row'[r] = OpenRow /\ trace'[r] = <<>> /\ sdata'[r] = sdata[r]
    BY <1>3, <2>1, <2>2, ChatAppends DEF AddUserMessage, DbOK
  <2>4. IF o = "ok" THEN pc'[r] = "walk" /\ exc'[r] = "none" /\ status'[r] = "running"
                    ELSE pc'[r] = "ended" /\ exc'[r] = "error"
    BY <2>1, <2>2 DEF Goto, RaiseEarly, CtlOK
  <2>5. Inv(r)'
    BY <2>1, <2>3, <2>4 DEF RecordInvOf, AnswerOf, SnapshotOf, HonestOf, OpenRow, NoRow
  <2>6. QED
    BY <1>3, <1>O, <2>5 DEF RunStep
<1>4. ASSUME NEW r \in Runs, ExceedVisits(r) PROVE RecordInv'
  <2>1. Inv(r)'
    BY <1>4 DEF ExceedVisits, RecordInvOf, AnswerOf, SnapshotOf, HonestOf, FinalRecord, Node, NoRow, OpenRow,
       CtlOK, StateOK, DbOK, Goto, RaiseWorkflow, db
  <2>2. QED
    BY <1>4, <1>O, <2>1 DEF RunStep
<1>5. ASSUME NEW r \in Runs, VisitWorkNode(r) PROVE RecordInv'
  <2>1. Inv(r)'
    BY <1>5 DEF VisitWorkNode, RecordInvOf, AnswerOf, SnapshotOf, HonestOf, FinalRecord, Node, NoRow, OpenRow,
       CtlOK, StateOK, DbOK, Goto, st, db
  <2>2. QED
    BY <1>5, <1>O, <2>1 DEF RunStep
<1>6. ASSUME NEW r \in Runs, VisitEndNode(r) PROVE RecordInv'
  <2>1. Inv(r)'
    BY <1>6 DEF VisitEndNode, RecordInvOf, AnswerOf, SnapshotOf, HonestOf, FinalRecord, Node, NoRow, OpenRow,
       CtlOK, StateOK, DbOK, Goto, db
  <2>2. QED
    BY <1>6, <1>O, <2>1 DEF RunStep
<1>7. ASSUME NEW r \in Runs, Prepared(r) PROVE RecordInv'
  <2>1. Inv(r)'
    BY <1>7 DEF Prepared, RecordInvOf, AnswerOf, SnapshotOf, HonestOf, FinalRecord, Node, NoRow, OpenRow,
       CtlOK, StateOK, DbOK, Goto, st, db
  <2>2. QED
    BY <1>7, <1>O, <2>1 DEF RunStep
<1>8. ASSUME NEW r \in Runs, PrepareFails(r) PROVE RecordInv'
  <2>1. Inv(r)'
    BY <1>8 DEF PrepareFails, RecordInvOf, AnswerOf, SnapshotOf, HonestOf, FinalRecord, Node, NoRow, OpenRow,
       CtlOK, StateOK, DbOK, Goto, RaiseError, RaiseWorkflow, db
  <2>2. QED
    BY <1>8, <1>O, <2>1 DEF RunStep
<1>9. ASSUME NEW r \in Runs, ModelFails(r) PROVE RecordInv'
  <2>1. Inv(r)'
    BY <1>9 DEF ModelFails, RecordInvOf, AnswerOf, SnapshotOf, HonestOf, FinalRecord, Node, NoRow, OpenRow,
       CtlOK, StateOK, DbOK, Goto, RaiseError, db
  <2>2. QED
    BY <1>9, <1>O, <2>1 DEF RunStep
<1>10. ASSUME NEW r \in Runs, ToolFails(r) PROVE RecordInv'
  <2>1. Inv(r)'
    BY <1>10 DEF ToolFails, RecordInvOf, AnswerOf, SnapshotOf, HonestOf, FinalRecord, Node, NoRow, OpenRow,
       CtlOK, StateOK, DbOK, Goto, RaiseError, RaiseWorkflow, db
  <2>2. QED
    BY <1>10, <1>O, <2>1 DEF RunStep
<1>11. ASSUME NEW r \in Runs, FinishUpdateRun(r) PROVE RecordInv'
  <2>1. Inv(r)'
    BY <1>11 DEF FinishUpdateRun, RecordInvOf, AnswerOf, SnapshotOf, HonestOf, FinalRecord, Node, NoRow, OpenRow,
       CtlOK, StateOK, DbOK, Goto, RaiseError, FinalRow
  <2>2. QED
    BY <1>11, <1>O, <2>1 DEF RunStep
<1>12. ASSUME NEW r \in Runs, FinishAddMessage(r) PROVE RecordInv'
  <2>1. /\ pc[r] = "finish_msg" /\ FinalRecord(r) /\ chat[r] = <<"user">> /\ Service
        /\ exc[r] = "none" /\ status[r] = "completed" /\ Node(r).type = "end"
    BY <1>12 DEF FinishAddMessage, RecordInvOf, ControlInv, ControlOf
  <2>2. PICK o \in DbOutcomes :
          /\ chat' = IF o = "fail" THEN chat
                     ELSE [chat EXCEPT ![r] = Append(@, "assistant")]
          /\ IF o = "ok" THEN Goto(r, "closing") /\ UNCHANGED <<exc, status>>
                         ELSE RaiseError(r)
    BY <1>12 DEF FinishAddMessage
  <2>3. chat'[r] = IF o = "fail" THEN <<"user">> ELSE <<"user", "assistant">>
    BY <2>1, <2>2, ChatAppends DEF DbOK
  <2>4. /\ row' = row /\ trace' = trace /\ data' = data /\ sdata' = sdata
        /\ current' = current /\ graph' = graph
    BY <1>12 DEF FinishAddMessage
  <2>5. IF o = "ok" THEN pc'[r] = "closing" /\ exc'[r] = "none" /\ status'[r] = "completed"
                    ELSE pc'[r] = "record" /\ exc'[r] = "error" /\ status'[r] = "failed"
    BY <2>1, <2>2 DEF Goto, RaiseError, CtlOK, StateOK
  <2>6. RecordInvOf(r)'
    BY <2>1, <2>3, <2>4, <2>5 DEF RecordInvOf, FinalRecord, Node
  <2>7. AnswerOf(r)' /\ SnapshotOf(r)' /\ HonestOf(r)'
    BY <2>1, <2>3, <2>4, <2>5 DEF AnswerOf, SnapshotOf, HonestOf, FinalRecord, Node
  <2>8. QED
    BY <1>12, <1>O, <2>6, <2>7 DEF RunStep
<1>13. ASSUME NEW r \in Runs, RecordFailure(r) PROVE RecordInv'
  <2>1. Inv(r)'
    BY <1>13 DEF RecordFailure, RecordInvOf, AnswerOf, SnapshotOf, HonestOf, FinalRecord, Node, NoRow, OpenRow,
       CtlOK, StateOK, DbOK, Goto, FailedRow, st
  <2>2. QED
    BY <1>13, <1>O, <2>1 DEF RunStep
<1>14. ASSUME NEW r \in Runs, Close(r) PROVE RecordInv'
  <2>1. Inv(r)'
    BY <1>14 DEF Close, RecordInvOf, AnswerOf, SnapshotOf, HonestOf, FinalRecord, Node, NoRow, OpenRow,
       CtlOK, StateOK, DbOK, Goto, st, db
  <2>2. QED
    BY <1>14, <1>O, <2>1 DEF RunStep
<1>15. ASSUME NEW r \in Runs, Flushed(r) PROVE RecordInv'
  <2>1. Inv(r)'
    BY <1>15 DEF Flushed, RecordInvOf, AnswerOf, SnapshotOf, HonestOf, FinalRecord, Node, NoRow, OpenRow,
       CtlOK, StateOK, DbOK, Goto, st, db
  <2>2. QED
    BY <1>15, <1>O, <2>1 DEF RunStep
<1>L. ASSUME NEW r \in Runs, pc[r] \in Walking, LeaveEffect(r, Node(r)), UNCHANGED db,
             data'[r] \in SUBSET Vars
      PROVE  Inv(r)'
  <2>1. /\ trace'[r] = Append(trace[r], Node(r).name)
        /\ sdata'[r] = data'[r]
        /\ row'[r] = row[r] /\ chat'[r] = chat[r]
    BY <1>L DEF LeaveEffect, StateOK, db
  <2>2. trace'[r] # <<>>
    <3>1. trace[r] \in Seq(Names) /\ Node(r).name \in Names
      BY <1>L, NodeOfRun DEF StateOK, CtlOK, ControlInv, ControlOf
    <3>2. QED
      BY <2>1, <3>1, AppendProperties
  <2>3. \/ pc'[r] = "walk" /\ exc'[r] = exc[r] /\ status'[r] = status[r]
        \/ pc'[r] = "closing" /\ exc'[r] = "workflow"
        \/ /\ pc'[r] = (IF Service THEN "record" ELSE "closing")
           /\ exc'[r] = "error" /\ status'[r] = "failed"
    BY <1>L DEF LeaveEffect, RaiseWorkflow, RaiseError, Goto, CtlOK, StateOK
  <2>4. QED
    BY <1>L, <2>1, <2>2, <2>3
       DEF RecordInvOf, AnswerOf, SnapshotOf, HonestOf, NoRow, OpenRow
<1>M. ASSUME NEW r \in Runs, pc[r] \in Walking, LeaveNode(r, Node(r))
      PROVE  LeaveEffect(r, Node(r))
  BY <1>M, NodeOfRun, LeaveNodeEffect
<1>16. ASSUME NEW r \in Runs, VisitRoutingNode(r) PROVE RecordInv'
  <2>1. LeaveEffect(r, Node(r)) /\ UNCHANGED db
    BY <1>16, <1>M DEF VisitRoutingNode
  <2>2. data'[r] \in SUBSET Vars
    <3>1. Node(r).type \in WorkTypes => Node(r).output \in Vars
      BY <1>16, NodeOfRun DEF VisitRoutingNode
    <3>2. pc[r] \in {"calling", "tool"} => Node(r).type \in WorkTypes
      BY DEF ControlInv, ControlOf
    <3>3. QED
      BY <1>16, <3>1, <3>2 DEF VisitRoutingNode, StateOK
  <2>3. QED
    BY <1>16, <1>L, <1>O, <2>1, <2>2 DEF VisitRoutingNode, RunStep
<1>17. ASSUME NEW r \in Runs, AgentExhausted(r) PROVE RecordInv'
  <2>1. LeaveEffect(r, Node(r)) /\ UNCHANGED db
    BY <1>17, <1>M DEF AgentExhausted, CompleteNode
  <2>2. data'[r] \in SUBSET Vars
    <3>1. Node(r).type \in WorkTypes => Node(r).output \in Vars
      BY <1>17, NodeOfRun DEF AgentExhausted
    <3>2. pc[r] \in {"calling", "tool"} => Node(r).type \in WorkTypes
      BY DEF ControlInv, ControlOf
    <3>3. QED
      BY <1>17, <3>1, <3>2 DEF AgentExhausted, CompleteNode, StateOK
  <2>3. QED
    BY <1>17, <1>L, <1>O, <2>1, <2>2 DEF AgentExhausted, RunStep
<1>18. ASSUME NEW r \in Runs, ToolReply(r) PROVE RecordInv'
  <2>1. LeaveEffect(r, Node(r)) /\ UNCHANGED db
    BY <1>18, <1>M DEF ToolReply, CompleteNode
  <2>2. data'[r] \in SUBSET Vars
    <3>1. Node(r).type \in WorkTypes => Node(r).output \in Vars
      BY <1>18, NodeOfRun DEF ToolReply
    <3>2. pc[r] \in {"calling", "tool"} => Node(r).type \in WorkTypes
      BY DEF ControlInv, ControlOf
    <3>3. QED
      BY <1>18, <3>1, <3>2 DEF ToolReply, CompleteNode, StateOK
  <2>3. QED
    BY <1>18, <1>L, <1>O, <2>1, <2>2 DEF ToolReply, RunStep
<1>19. ASSUME NEW r \in Runs, ModelReply(r) PROVE RecordInv'
  <2>1. CASE CompleteNode(r, TRUE)
    <3>1. LeaveEffect(r, Node(r)) /\ UNCHANGED db
      BY <1>19, <1>M, <2>1 DEF ModelReply, CompleteNode
    <3>2. data'[r] \in SUBSET Vars
      BY <1>19, <2>1, NodeOfRun DEF ModelReply, CompleteNode, StateOK, ControlInv, ControlOf
    <3>3. Inv(r)'
      BY <1>19, <1>L, <3>1, <3>2 DEF ModelReply
    <3>4. QED
      BY <1>19, <1>O, <3>3 DEF RunStep
  <2>2. CASE RaiseError(r) /\ UNCHANGED <<current, trace, data, sdata>>
    <3>1. Inv(r)'
      BY <1>19, <2>2 DEF ModelReply, RaiseError, Goto, db, RecordInvOf, AnswerOf, SnapshotOf, HonestOf,
         NoRow, OpenRow, Node, CtlOK, StateOK
    <3>2. QED
      BY <1>19, <1>O, <3>1 DEF RunStep
  <2>3. CASE UNCHANGED <<pc, current, exc, st>>
    <3>1. Inv(r)'
      BY <1>19, <2>3 DEF ModelReply, st, db, RecordInvOf, AnswerOf, SnapshotOf, HonestOf, FinalRecord, Node
    <3>2. QED
      BY <1>19, <1>O, <3>1 DEF RunStep
  <2>4. QED
    BY <1>19, <2>1, <2>2, <2>3 DEF ModelReply
<1>U. ASSUME UNCHANGED <<graph, ctl, st, db>> PROVE RecordInv'
  BY <1>U DEF ctl, st, db, RecordInvOf, AnswerOf, SnapshotOf, HonestOf, FinalRecord, Node
<1>20. ASSUME NEW r \in Runs, LateReply(r) PROVE RecordInv'
  BY <1>20, <1>U DEF LateReply
<1>21. ASSUME NEW r \in Runs, LateFailure(r) PROVE RecordInv'
  BY <1>21, <1>U DEF LateFailure
<1>22. ASSUME NEW w \in pending, WriteDone(w) PROVE RecordInv'
  BY <1>22, <1>U DEF WriteDone
<1>23. ASSUME UNCHANGED vars PROVE RecordInv'
  BY <1>23, <1>U DEF vars
<1>24. QED
  BY <1>1, <1>2, <1>3, <1>4, <1>5, <1>6, <1>7, <1>8, <1>9, <1>10, <1>11, <1>12, <1>13, <1>14, <1>15, <1>16, <1>17, <1>18, <1>19, <1>20, <1>21, <1>22, <1>23
     DEF Next, RunStep, Background, Done

\* The record invariant holds in every reachable state.
THEOREM RecordInvariant == Spec => [](TypeInv /\ RecordInv)
<1>1. Init => RecordInv
  BY DEF Init, RecordInv, RecordInvOf, AnswerOf, SnapshotOf, HonestOf, Walking, Before, After, NoRow
<1>2. TypeInv /\ RecordInv /\ [Next]_vars => RecordInv'
  BY RecordInvStep
<1>3. QED
  BY <1>1, <1>2, TypeInvariant, PTL DEF Spec

\* A run that returned is durable, whatever failed or was interleaved before.
THEOREM ReturnedDurable == Spec => []ReturnedIsDurable
<1>1. TypeInv /\ RecordInv => ReturnedIsDurable
  BY DEF RecordInv, RecordInvOf, FinalRecord, After, ReturnedIsDurable, Returned
<1>2. QED
  BY <1>1, RecordInvariant, PTL

\* No answer enters the conversation before the run's result is recorded.
THEOREM AnswerAfterRecord == Spec => []AnswerFollowsRecord
<1>1. TypeInv /\ RecordInv => AnswerFollowsRecord
  <2>. SUFFICES ASSUME TypeInv, RecordInv, NEW r \in Runs
                PROVE  /\ chat[r] \in {<<>>, <<"user">>, <<"user", "assistant">>}
                       /\ "assistant" \in {chat[r][i] : i \in DOMAIN chat[r]} =>
                            /\ row[r].context # "null"
                            /\ Node(r).output \in data[r] => row[r].output = "value"
    BY DEF AnswerFollowsRecord
  <2>1. CASE chat[r] = <<>>
    BY <2>1
  <2>2. CASE chat[r] = <<"user">>
    BY <2>2
  <2>3. CASE chat[r] \notin {<<>>, <<"user">>}
    BY <2>3 DEF RecordInv, AnswerOf
  <2>4. QED
    BY <2>1, <2>2, <2>3
<1>2. QED
  BY <1>1, RecordInvariant, PTL

\* A failed record is honest about the run it belongs to.
THEOREM FailureHonest == Spec => []FailureRecordIsHonest
<1>1. TypeInv /\ RecordInv => FailureRecordIsHonest
  BY DEF RecordInv, HonestOf, FailureRecordIsHonest
<1>2. QED
  BY <1>1, RecordInvariant, PTL

(***************************************************************************)
(* The engine implements RunLifecycle: every initial state of the engine   *)
(* maps to an initial state of it, every step to a step of one run or to a *)
(* stuttering step.                                                        *)
(***************************************************************************)
Same(r) == CallOf(r)' = CallOf(r) /\ RecordOf(r)' = RecordOf(r)

\* What a step may do to the abstract state of a run.
Moves(r) ==
  \/ Same(r)
  \/ /\ CallOf(r) = "idle" /\ CallOf(r)' \in {"active", "raised"}
     /\ RecordOf(r)' = RecordOf(r)
  \/ /\ CallOf(r) = "active" /\ CallOf(r)' \in {"active", "raised"} /\ Service
     /\ RecordOf(r) = "none" /\ RecordOf(r)' = "open"
  \/ /\ CallOf(r) = "active" /\ CallOf(r)' = "active"
     /\ \/ RecordOf(r) = "open" /\ RecordOf(r)' = "final"
        \/ RecordOf(r) \in {"open", "final"} /\ RecordOf(r)' = "failed"
  \/ /\ CallOf(r) = "active" /\ RecordOf(r)' = RecordOf(r)
     /\ \/ CallOf(r)' = "raised"
        \/ CallOf(r)' = "returned" /\ (Service => RecordOf(r) = "final")

\* A step that moves one run and leaves the others alone is a step of RunLifecycle.
LEMMA OneRunMoves ==
  ASSUME NEW r \in Runs, Moves(r), \A s \in Runs : s # r => Same(s)
  PROVE  [Lifecycle!Next]_<<call, record>>
<1>1. /\ call' = [call EXCEPT ![r] = CallOf(r)']
      /\ record' = [record EXCEPT ![r] = RecordOf(r)']
  BY DEF Same, call, record
<1>2. call[r] = CallOf(r) /\ record[r] = RecordOf(r)
  BY DEF call, record
<1>3. CallOf(r)' = CallOf(r) => call' = call
  BY <1>1 DEF call
<1>4. RecordOf(r)' = RecordOf(r) => record' = record
  BY <1>1 DEF record
<1>5. CASE Same(r)
  BY <1>3, <1>4, <1>5 DEF Same
<1>6. CASE ~Same(r)
  <2>1. Lifecycle!Begin(r) \/ Lifecycle!Open(r) \/ Lifecycle!Finalize(r)
          \/ Lifecycle!Fail(r) \/ Lifecycle!End(r)
    BY <1>1, <1>2, <1>3, <1>4, <1>6
       DEF Moves, Lifecycle!Begin, Lifecycle!Open, Lifecycle!Finalize,
           Lifecycle!Fail, Lifecycle!End
  <2>2. QED
    BY <2>1 DEF Lifecycle!Next
<1>7. QED
  BY <1>5, <1>6

\* Every step of the engine is a step of RunLifecycle, or stutters.
LEMMA StepRefines ==
  ASSUME TypeInv, RecordInv, [Next]_vars
  PROVE  [Lifecycle!Next]_<<call, record>>
<1>. USE DEF TypeInv, TypeOK, RecordInv
<1>K. ASSUME NEW s \in Runs, Kept(s) PROVE Same(s)
  BY <1>K DEF Kept, Same, CallOf, RecordOf, Returned, Raised
<1>O. ASSUME NEW r \in Runs, Start(r) \/ RunStep(r), Moves(r)
      PROVE  [Lifecycle!Next]_<<call, record>>
  BY <1>K, <1>O, OthersKept, OneRunMoves
<1>U. ASSUME UNCHANGED <<ctl, db>>
      PROVE  [Lifecycle!Next]_<<call, record>>
  <2>1. \A s \in Runs : CallOf(s)' = CallOf(s) /\ RecordOf(s)' = RecordOf(s)
    BY <1>U DEF ctl, db, CallOf, RecordOf, Returned, Raised
  <2>2. QED
    BY <2>1 DEF call, record
<1>1. ASSUME NEW r \in Runs, Start(r) PROVE Moves(r)
  BY <1>1 DEF Start, Moves, CallOf, RecordOf, Returned, Raised, Goto, RaiseEarly, CtlOK, db
<1>2. ASSUME NEW r \in Runs, InitializeRun(r) PROVE Moves(r)
  BY <1>2 DEF InitializeRun, Moves, Same, CallOf, RecordOf, Returned, Raised, Goto, RaiseEarly,
     CtlOK, DbOK, RecordInvOf, NoRow, OpenRow
<1>3. ASSUME NEW r \in Runs, AddUserMessage(r) PROVE Moves(r)
  BY <1>3 DEF AddUserMessage, Moves, Same, CallOf, RecordOf, Returned, Raised, Goto, RaiseEarly,
     CtlOK
\* A step inside the walk: the call stays active and the record is not touched.
<1>A. ASSUME NEW r \in Runs, pc[r] \notin {"idle", "ended"}, pc'[r] \notin {"idle", "ended"},
             row' = row
      PROVE  Moves(r)
  BY <1>A DEF Moves, Same, CallOf, RecordOf, Returned, Raised
<1>L. ASSUME NEW r \in Runs, pc[r] \in Walking, LeaveNode(r, Node(r))
      PROVE  pc'[r] \notin {"idle", "ended"}
  <2>1. LeaveEffect(r, Node(r))
    BY <1>L, NodeOfRun, LeaveNodeEffect
  <2>2. QED
    BY <2>1 DEF LeaveEffect, RaiseWorkflow, RaiseError, Goto, CtlOK
<1>4. ASSUME NEW r \in Runs,
             \/ ExceedVisits(r) \/ VisitWorkNode(r) \/ VisitEndNode(r) \/ Prepared(r)
             \/ PrepareFails(r) \/ ModelFails(r) \/ ToolFails(r) \/ FinishAddMessage(r)
      PROVE  Moves(r)
  BY <1>4, <1>A
     DEF ExceedVisits, VisitWorkNode, VisitEndNode, Prepared, PrepareFails, ModelFails, ToolFails,
         FinishAddMessage, Goto, RaiseWorkflow, RaiseError, CtlOK, db
<1>5. ASSUME NEW r \in Runs,
             VisitRoutingNode(r) \/ ModelReply(r) \/ AgentExhausted(r) \/ ToolReply(r)
      PROVE  Moves(r)
  BY <1>5, <1>A, <1>L
     DEF VisitRoutingNode, ModelReply, AgentExhausted, ToolReply, CompleteNode, RaiseError, Goto,
         CtlOK, Walking, db
<1>6. ASSUME NEW r \in Runs, FinishUpdateRun(r) PROVE Moves(r)
  BY <1>6 DEF FinishUpdateRun, Moves, Same, CallOf, RecordOf, Returned, Raised, Goto, RaiseError,
     CtlOK, DbOK, RecordInvOf, FinalRow, OpenRow, NoRow
<1>7. ASSUME NEW r \in Runs, RecordFailure(r) PROVE Moves(r)
  BY <1>7 DEF RecordFailure, Moves, Same, CallOf, RecordOf, Returned, Raised, Goto, CtlOK, DbOK,
     RecordInvOf, FailedRow
\* The run ends: it returns only when its record is final.
<1>8. ASSUME NEW r \in Runs, Close(r) \/ Flushed(r) PROVE Moves(r)
  <2>1. pc[r] \in After /\ pc[r] # "ended" /\ row' = row /\ exc' = exc
        /\ pc'[r] \in {"flushing", "ended"}
    BY <1>8 DEF Close, Flushed, Goto, CtlOK, After, db
  <2>2. exc[r] = "none" /\ Service => RecordOf(r) = "final"
    BY <2>1 DEF RecordInvOf, FinalRecord, RecordOf
  <2>3. QED
    BY <2>1, <2>2 DEF After, Moves, Same, CallOf, RecordOf, Returned, Raised
<1>9. ASSUME NEW r \in Runs, LateReply(r) \/ LateFailure(r)
      PROVE  UNCHANGED <<ctl, db>>
  BY <1>9 DEF LateReply, LateFailure
<1>10. ASSUME NEW w \in pending, WriteDone(w) PROVE UNCHANGED <<ctl, db>>
  BY <1>10 DEF WriteDone
<1>11. ASSUME Done \/ UNCHANGED vars PROVE UNCHANGED <<ctl, db>>
  BY <1>11 DEF Done, vars
<1>12. CASE \E r \in Runs : Start(r) \/ RunStep(r)
  BY <1>12, <1>O, <1>1, <1>2, <1>3, <1>4, <1>5, <1>6, <1>7, <1>8 DEF RunStep
<1>13. CASE Background \/ Done \/ UNCHANGED vars
  BY <1>13, <1>U, <1>9, <1>10, <1>11 DEF Background
<1>14. QED
  BY <1>12, <1>13 DEF Next

\* The record of a run moves only forward and only while its call is active, and a
\* call that returns has a final record: the engine implements RunLifecycle.
THEOREM EngineImplementsLifecycle == Spec => ImplementsLifecycle
<1>1. Init => Lifecycle!Init
  <2>. SUFFICES ASSUME Init PROVE Lifecycle!Init
    OBVIOUS
  <2>1. \A r \in Runs : CallOf(r) = "idle"
    BY DEF Init, CallOf, Returned, Raised
  <2>2. \A r \in Runs : RecordOf(r) = "none"
    BY DEF Init, RecordOf, NoRow
  <2>3. QED
    BY <2>1, <2>2 DEF Lifecycle!Init, call, record
<1>2. TypeInv /\ RecordInv /\ [Next]_vars =>
        [Lifecycle!Next]_<<call, record>>
  BY StepRefines
<1>3. QED
  BY <1>1, <1>2, TypeInvariant, RecordInvariant, PTL
     DEF Spec, ImplementsLifecycle, Lifecycle!Spec

(***************************************************************************)
(* The path                                                                *)
(***************************************************************************)
IsPath(g, t) ==
  /\ t # <<>> => t[1] = StartName(g)
  /\ \A i \in 1 .. Len(t) - 1 : Transition(g, t[i], t[i + 1])

\* n may come after the path t.
Follows(g, t, n) ==
  IF t = <<>> THEN n = StartName(g) ELSE Transition(g, t[Len(t)], n)

\* A path grows by a node that may come after it.
LEMMA PathGrows ==
  ASSUME NEW g, NEW S, NEW t \in Seq(S), NEW n \in S, IsPath(g, t), Follows(g, t, n)
  PROVE  /\ IsPath(g, Append(t, n))
         /\ Append(t, n) # <<>>
         /\ Len(Append(t, n)) = Len(t) + 1
         /\ Append(t, n)[Len(t) + 1] = n
<1>. DEFINE u == Append(t, n)
<1>1. /\ Len(t) \in Nat /\ Len(u) = Len(t) + 1 /\ u # <<>> /\ u[Len(t) + 1] = n
      /\ \A i \in 1 .. Len(t) : u[i] = t[i]
  BY AppendProperties
<1>. HIDE DEF u
<1>2. t = <<>> <=> Len(t) = 0
  BY EmptySeq
<1>3. u[1] = StartName(g)
  BY <1>1, <1>2 DEF IsPath, Follows
<1>4. ASSUME NEW i \in 1 .. Len(u) - 1 PROVE Transition(g, u[i], u[i + 1])
  <2>1. CASE i < Len(t)
    BY <1>1, <1>4, <2>1 DEF IsPath
  <2>2. CASE i = Len(t)
    BY <1>1, <1>2, <1>4, <2>2 DEF Follows
  <2>3. QED
    BY <1>1, <1>4, <2>1, <2>2
<1>5. QED
  BY <1>1, <1>3, <1>4 DEF IsPath, u

\* Every visit that is over is in the trace, in order; the visit counter bounds it.
PathOf(r) ==
  /\ pc[r] \in {"idle", "init", "user"} => trace[r] = <<>>
  /\ pc[r] = "walk" => Len(trace[r]) = visits[r]
  /\ pc[r] \in {"prepare", "calling", "tool"} => Len(trace[r]) + 1 = visits[r]
  /\ Len(trace[r]) <= MaxNodeVisits
  /\ IsPath(graph, trace[r])
  /\ pc[r] \in Walking => Follows(graph, trace[r], current[r])

PathInv == \A r \in Runs : PathOf(r)

\* The run leaves the node it is at.
LEMMA LeavingKeepsPath ==
  ASSUME TypeInv, PathInv, NEW r \in Runs, pc[r] \in Walking, graph' = graph,
         Len(trace[r]) < MaxNodeVisits, visits'[r] = Len(trace[r]) + 1,
         LeaveNode(r, Node(r))
  PROVE  PathOf(r)'
<1>. DEFINE n == current[r]
            t == trace[r]
<1>1. LeaveEffect(r, Node(r)) /\ Node(r).name = n /\ n \in Names /\ t \in Seq(Names)
  BY NodeOfRun, LeaveNodeEffect
     DEF TypeInv, TypeOK, StateOK, ControlInv, ControlOf
<1>2. trace'[r] = Append(t, n)
  BY <1>1 DEF LeaveEffect, TypeInv, TypeOK, StateOK
<1>3. IsPath(graph, t) /\ Follows(graph, t, n)
  BY DEF PathInv, PathOf
<1>4. /\ IsPath(graph, trace'[r]) /\ trace'[r] # <<>>
      /\ Len(trace'[r]) = Len(t) + 1 /\ trace'[r][Len(t) + 1] = n
  <2>. HIDE DEF n, t
  <2>1. QED
    BY <1>1, <1>2, <1>3, PathGrows
<1>5. pc'[r] = "walk" => Transition(graph, n, current'[r])
  BY <1>1 DEF LeaveEffect, RaiseWorkflow, RaiseError, Goto, TypeInv, TypeOK, CtlOK, Transition, Node
<1>6. pc'[r] \in {"walk", "closing", "record"}
  BY <1>1 DEF LeaveEffect, RaiseWorkflow, RaiseError, Goto, TypeInv, TypeOK, CtlOK
<1>7. Len(t) \in Nat
  BY <1>1
<1>8. Len(trace'[r]) <= MaxNodeVisits
  BY <1>4, <1>7, EngineAssumption
<1>9. pc'[r] \in Walking => pc'[r] = "walk"
  BY <1>6 DEF Walking
<1>10. pc'[r] \in Walking => Follows(graph', trace'[r], current'[r])
  <2>. HIDE DEF n, t
  <2>1. QED
    BY <1>4, <1>5, <1>9 DEF Follows
<1>11. pc'[r] = "walk" => Len(trace'[r]) = visits'[r]
  BY <1>4
<1>12. QED
  BY <1>4, <1>6, <1>8, <1>10, <1>11 DEF PathOf

\* Each action keeps PathInv.
LEMMA PathInvStep ==
  ASSUME TypeInv, PathInv, [Next]_vars
  PROVE  PathInv'
<1>. USE EngineAssumption DEF TypeInv, TypeOK
<1>K. ASSUME NEW s \in Runs, Kept(s), graph' = graph PROVE PathOf(s)'
  BY <1>K DEF Kept, PathInv, PathOf
<1>O. ASSUME NEW r \in Runs, Start(r) \/ RunStep(r), PathOf(r)' PROVE PathInv'
  <2>1. ASSUME NEW s \in Runs, s # r PROVE PathOf(s)'
    BY <1>K, <1>O, <2>1, OthersKept
  <2>2. QED
    BY <1>O, <2>1 DEF PathInv
<1>E. StartName(graph) \in Names /\ IsPath(graph, <<>>) /\ Len(<<>>) = 0
  BY StartInGraph DEF Names, IsPath
\* Steps that visit no node and leave none.
<1>S. ASSUME NEW r \in Runs, graph' = graph, trace'[r] = trace[r],
             \/ pc'[r] \notin {"idle", "init", "user"} \cup Walking
             \/ /\ pc'[r] \in {"prepare", "calling", "tool"} /\ current'[r] = current[r]
                /\ pc[r] \in Walking /\ visits'[r] = Len(trace[r]) + 1
      PROVE  PathOf(r)'
  BY <1>S DEF PathInv, PathOf, Walking
<1>1. ASSUME NEW r \in Runs, Start(r) PROVE PathInv'
  <2>1. trace[r] = <<>> /\ trace'[r] = <<>> /\ graph' = graph /\ visits'[r] = 0
    BY <1>1 DEF Start, PathInv, PathOf, ControlInv, ControlOf
  <2>2. \/ pc'[r] \in {"init", "ended"}
        \/ pc'[r] = "walk" /\ current'[r] = StartName(graph)
    BY <1>1 DEF Start, Goto, RaiseEarly, CtlOK
  <2>3. PathOf(r)'
    BY <2>1, <2>2, <1>E DEF PathOf, Follows, Walking
  <2>4. QED
    BY <1>1, <1>O, <2>3
<1>2. ASSUME NEW r \in Runs, InitializeRun(r) \/ AddUserMessage(r) PROVE PathInv'
  <2>1. trace[r] = <<>> /\ trace'[r] = <<>> /\ graph' = graph /\ visits'[r] = 0
    BY <1>2 DEF InitializeRun, AddUserMessage, PathInv, PathOf, ControlInv, ControlOf
  <2>2. \/ pc'[r] \in {"user", "ended"}
        \/ pc'[r] = "walk" /\ current'[r] = StartName(graph)
    BY <1>2 DEF InitializeRun, AddUserMessage, Goto, RaiseEarly, CtlOK
  <2>3. PathOf(r)'
    BY <2>1, <2>2, <1>E DEF PathOf, Follows, Walking
  <2>4. QED
    BY <1>2, <1>O, <2>3 DEF RunStep
<1>3. ASSUME NEW r \in Runs,
             \/ ExceedVisits(r) \/ PrepareFails(r) \/ ModelFails(r) \/ ToolFails(r)
             \/ FinishUpdateRun(r) \/ FinishAddMessage(r) \/ RecordFailure(r)
             \/ Close(r) \/ Flushed(r)
      PROVE  PathInv'
  <2>1. graph' = graph /\ trace' = trace
    BY <1>3 DEF ExceedVisits, PrepareFails, ModelFails, ToolFails, FinishUpdateRun,
                FinishAddMessage, RecordFailure, Close, Flushed, st
  <2>2. pc'[r] \in {"record", "closing", "flushing", "ended", "finish_msg"}
    BY <1>3 DEF ExceedVisits, PrepareFails, ModelFails, ToolFails, FinishUpdateRun, CtlOK,
                FinishAddMessage, RecordFailure, Close, Flushed, Goto, RaiseWorkflow, RaiseError
  <2>3. PathOf(r)'
    BY <2>1, <2>2, <1>S DEF Walking
  <2>4. QED
    BY <1>3, <1>O, <2>3 DEF RunStep
<1>4. ASSUME NEW r \in Runs, VisitWorkNode(r) \/ Prepared(r) PROVE PathInv'
  <2>1. /\ graph' = graph /\ trace' = trace /\ current' = current /\ pc[r] \in Walking
        /\ pc'[r] \in {"prepare", "calling", "tool"}
    BY <1>4 DEF VisitWorkNode, Prepared, st, Goto, CtlOK, Walking
  <2>2. visits'[r] = Len(trace[r]) + 1
    BY <1>4 DEF VisitWorkNode, Prepared, PathInv, PathOf, CtlOK
  <2>3. PathOf(r)'
    BY <2>1, <2>2, <1>S
  <2>4. QED
    BY <1>4, <1>O, <2>3 DEF RunStep
<1>5. ASSUME NEW r \in Runs, VisitEndNode(r) PROVE PathInv'
  <2>1. /\ graph' = graph /\ pc'[r] \in {"finish_run", "closing"}
        /\ trace'[r] = Append(trace[r], current[r])
    BY <1>5 DEF VisitEndNode, Goto, CtlOK, StateOK
  <2>2. /\ Len(trace[r]) = visits[r] /\ visits[r] < MaxNodeVisits
        /\ trace[r] \in Seq(Names) /\ current[r] \in Names
        /\ IsPath(graph, trace[r]) /\ Follows(graph, trace[r], current[r])
    BY <1>5 DEF VisitEndNode, PathInv, PathOf, ControlInv, ControlOf, StateOK, Walking
  <2>3. IsPath(graph, trace'[r]) /\ Len(trace'[r]) = Len(trace[r]) + 1
    BY <2>1, <2>2, PathGrows
  <2>4. Len(trace'[r]) <= MaxNodeVisits
    BY <2>2, <2>3 DEF CtlOK
  <2>5. PathOf(r)'
    BY <2>1, <2>3, <2>4 DEF PathOf, Walking
  <2>6. QED
    BY <1>5, <1>O, <2>5 DEF RunStep
<1>6. ASSUME NEW r \in Runs, VisitRoutingNode(r) PROVE PathInv'
  <2>1. /\ graph' = graph /\ pc[r] \in Walking /\ Len(trace[r]) = visits[r]
        /\ visits[r] < MaxNodeVisits /\ visits'[r] = Len(trace[r]) + 1
        /\ LeaveNode(r, Node(r))
    BY <1>6 DEF VisitRoutingNode, PathInv, PathOf, CtlOK, Walking
  <2>2. PathOf(r)'
    BY <2>1, LeavingKeepsPath
  <2>3. QED
    BY <1>6, <1>O, <2>2 DEF RunStep
\* A node that worked is left, in the middle of its visit.
<1>L. ASSUME NEW r \in Runs, NEW produced \in BOOLEAN, pc[r] \in {"calling", "tool"},
             CompleteNode(r, produced), graph' = graph, visits' = visits
      PROVE  PathOf(r)'
  <2>1. /\ pc[r] \in Walking /\ Len(trace[r]) + 1 = visits[r] /\ visits[r] <= MaxNodeVisits
        /\ LeaveNode(r, Node(r)) /\ Len(trace[r]) \in Nat
    BY <1>L DEF CompleteNode, PathInv, PathOf, ControlInv, ControlOf, Walking, StateOK
  <2>2. Len(trace[r]) < MaxNodeVisits /\ visits'[r] = Len(trace[r]) + 1
    BY <2>1, <1>L DEF CtlOK
  <2>3. QED
    BY <2>1, <2>2, <1>L, LeavingKeepsPath
<1>7. ASSUME NEW r \in Runs, AgentExhausted(r) \/ ToolReply(r) PROVE PathInv'
  BY <1>7, <1>L, <1>O DEF AgentExhausted, ToolReply, RunStep
<1>8. ASSUME NEW r \in Runs, ModelReply(r) PROVE PathInv'
  <2>1. CASE CompleteNode(r, TRUE)
    BY <1>8, <2>1, <1>L, <1>O DEF ModelReply, RunStep
  <2>2. CASE RaiseError(r) /\ UNCHANGED <<current, trace, data, sdata>>
    <3>1. graph' = graph /\ trace'[r] = trace[r] /\ pc'[r] \in {"record", "closing"}
      BY <1>8, <2>2 DEF ModelReply, RaiseError, Goto, CtlOK
    <3>2. PathOf(r)'
      BY <3>1, <1>S DEF Walking
    <3>3. QED
      BY <1>8, <1>O, <3>2 DEF RunStep
  <2>3. CASE UNCHANGED <<pc, current, exc, st>>
    <3>1. PathOf(r)'
      BY <1>8, <2>3 DEF ModelReply, st, PathInv, PathOf
    <3>2. QED
      BY <1>8, <1>O, <3>1 DEF RunStep
  <2>4. QED
    BY <1>8, <2>1, <2>2, <2>3 DEF ModelReply
<1>9. ASSUME UNCHANGED <<graph, ctl, st>> PROVE PathInv'
  BY <1>9 DEF ctl, st, PathInv, PathOf
<1>10. CASE Background \/ Done \/ UNCHANGED vars
  BY <1>10, <1>9 DEF Background, LateReply, LateFailure, WriteDone, Done, vars
<1>11. QED
  BY <1>1, <1>2, <1>3, <1>4, <1>5, <1>6, <1>7, <1>8, <1>10 DEF Next, RunStep

\* state.trace is a path of the graph from its entry point, no longer than the cap.
THEOREM TracesArePaths == Spec => []TraceIsPath
<1>1. Init => PathInv
  BY EngineAssumption DEF Init, PathInv, PathOf, IsPath, Walking
<1>2. TypeInv /\ PathInv /\ [Next]_vars => PathInv'
  BY PathInvStep
<1>3. PathInv => TraceIsPath
  BY DEF PathInv, PathOf, IsPath, Follows, TraceIsPath
<1>4. QED
  BY <1>1, <1>2, <1>3, TypeInvariant, PTL DEF Spec

(***************************************************************************)
(* A run that has ended                                                    *)
(***************************************************************************)
\* No action of a run is possible after it has ended.
LEMMA EndedDoesNothing ==
  ASSUME NEW r \in Runs, pc[r] = "ended"
  PROVE  ~Start(r) /\ ~RunStep(r)
BY DEF Start, RunStep, InitializeRun, AddUserMessage, ExceedVisits, VisitRoutingNode,
       VisitWorkNode, VisitEndNode, Prepared, PrepareFails, ModelReply, AgentExhausted,
       ModelFails, ToolReply, ToolFails, FinishUpdateRun, FinishAddMessage, RecordFailure,
       Close, Flushed

\* What the rest of the engine does after a run has ended leaves its row, its
\* conversation, its trace and the usage it reported as they are.
THEOREM EndedFrozen == Spec => EndedRunIsFrozen
<1>1. ASSUME TypeInv, [Next]_vars, NEW r \in Runs, pc[r] = "ended"
      PROVE  /\ row'[r] = row[r] /\ chat'[r] = chat[r] /\ usage'[r] = usage[r]
             /\ trace'[r] = trace[r] /\ pc'[r] = "ended"
  <2>1. CASE \E s \in Runs : Start(s) \/ RunStep(s)
    <3>1. PICK s \in Runs : Start(s) \/ RunStep(s)
      BY <2>1
    <3>2. Kept(r)
      BY <1>1, <3>1, EndedDoesNothing, OthersKept
    <3>3. QED
      BY <1>1, <3>2 DEF Kept
  <2>2. CASE Background \/ Done \/ UNCHANGED vars
    BY <1>1, <2>2
       DEF Background, LateReply, LateFailure, WriteDone, Done, vars, ctl, st, db, tok
  <2>3. QED
    BY <1>1, <2>1, <2>2 DEF Next
<1>2. TypeInv /\ [Next]_vars =>
        [\A r \in Runs : pc[r] = "ended" =>
           /\ row'[r] = row[r] /\ chat'[r] = chat[r] /\ usage'[r] = usage[r]
           /\ trace'[r] = trace[r] /\ pc'[r] = "ended"]_vars
  BY <1>1
<1>3. QED
  BY <1>2, TypeInvariant, PTL DEF Spec, EndedRunIsFrozen

(***************************************************************************)
(* The background writes                                                   *)
(***************************************************************************)
\* The records of a run that are still to be written; those of abandoned model
\* calls have seq 0.
Unwritten(r) == {w \in pending : w.run = r /\ w.seq # 0}

FlushOf(r) ==
  /\ pc[r] \in {"idle", "init", "user", "ended"} => Unwritten(r) = {}
  /\ pc[r] = "flushing" => Unwritten(r) \subseteq waiting[r]

\* FlushedBeforeEnd is not inductive alone: it needs that a flush awaits every
\* record of its run, and that a run before its walk has none.
FlushInv ==
  /\ Logger \/ pending = {}
  /\ \A r \in Runs : FlushOf(r)

\* Which writes a step of a run adds: records of its own, and only while a node runs.
LEMMA WritesAdded ==
  ASSUME TypeInv, NEW r \in Runs, Start(r) \/ RunStep(r)
  PROVE  /\ pending' \subseteq pending \cup {w \in Writes : w.run = r}
         /\ pc[r] \notin {"calling", "tool"} => pending' = pending
         /\ ~Logger => pending' = pending
         /\ pc[r] \in {"calling", "tool"} =>
              pc'[r] \in {"walk", "calling", "closing", "record"}
<1>. USE DEF TypeInv, TypeOK, log
<1>1. CASE ModelReply(r)
  <2>1. \A w \in pending' \ pending :
          Logger /\ w \in {ModelWrite(r, own'[r]), NodeWrite(r, Len(trace'[r]))}
    <3>1. \/ pending' = pending \cup ModelRecords(r)
                           \cup {w \in {NodeWrite(r, Len(trace'[r]))} : Logger}
          \/ pending' = pending \cup ModelRecords(r)
      BY <1>1 DEF ModelReply
    <3>2. \A w \in ModelRecords(r) : Logger /\ w = ModelWrite(r, own'[r])
      BY DEF ModelRecords
    <3>3. QED
      BY <3>1, <3>2
  <2>2. own'[r] \in Nat
    <3>1. own[r] \in Nat /\ (own' = own \/ own' = [own EXCEPT ![r] = @ + 1])
      BY <1>1 DEF ModelReply, Tally, TokenOK
    <3>2. QED
      BY <3>1 DEF TokenOK
  <2>3. CASE CompleteNode(r, TRUE)
    <3>1. LeaveEffect(r, Node(r))
      BY <1>1, <2>3, NodeOfRun, LeaveNodeEffect DEF ModelReply, CompleteNode, Walking
    <3>2. Len(trace'[r]) \in Nat
      BY <1>1, <2>3, CompleteKeepsTypes DEF ModelReply, StateOK
    <3>3. pc'[r] \in {"walk", "closing", "record"}
      BY <3>1 DEF LeaveEffect, RaiseWorkflow, RaiseError, Goto, CtlOK
    <3>4. {ModelWrite(r, own'[r]), NodeWrite(r, Len(trace'[r]))}
            \subseteq {w \in Writes : w.run = r}
      BY <2>2, <3>2 DEF ModelWrite, NodeWrite, Writes
    <3>5. /\ pending' \subseteq pending \cup {w \in Writes : w.run = r}
          /\ ~Logger => pending' \subseteq pending
      BY <2>1, <3>4
    <3>6. pending \subseteq pending' /\ pc[r] = "calling"
      BY <1>1 DEF ModelReply
    <3>7. QED
      BY <3>3, <3>5, <3>6
  <2>4. CASE pending' = pending \cup ModelRecords(r) /\ (pc' = pc \/ RaiseError(r))
    <3>1. pc'[r] \in {"calling", "closing", "record"}
      BY <1>1, <2>4 DEF ModelReply, RaiseError, Goto, CtlOK
    <3>2. ModelRecords(r) \subseteq {w \in Writes : w.run = r /\ Logger}
      BY <2>2 DEF ModelRecords, ModelWrite, Writes
    <3>3. pc[r] = "calling"
      BY <1>1 DEF ModelReply
    <3>4. QED
      BY <2>4, <3>1, <3>2, <3>3
  <2>5. QED
    BY <1>1, <2>3, <2>4 DEF ModelReply
<1>2. CASE AgentExhausted(r) \/ ToolReply(r)
  <2>1. PICK produced \in BOOLEAN : CompleteNode(r, produced)
    BY <1>2 DEF AgentExhausted, ToolReply
  <2>2. /\ pc[r] \in {"calling", "tool"} /\ Spawn(NodeWrite(r, Len(trace'[r])))
        /\ graph' = graph /\ visits' = visits
    BY <1>2 DEF AgentExhausted, ToolReply
  <2>3. LeaveEffect(r, Node(r))
    BY <2>1, <2>2, NodeOfRun, LeaveNodeEffect DEF CompleteNode, Walking
  <2>4. Len(trace'[r]) \in Nat
    BY <2>1, <2>2, CompleteKeepsTypes DEF StateOK
  <2>5. pc'[r] \in {"walk", "closing", "record"}
    BY <2>3 DEF LeaveEffect, RaiseWorkflow, RaiseError, Goto, CtlOK
  <2>6. QED
    BY <2>2, <2>4, <2>5 DEF Spawn, NodeWrite, Writes
<1>3. CASE ModelFails(r) \/ ToolFails(r)
  BY <1>3 DEF ModelFails, ToolFails, RaiseError, RaiseWorkflow, Goto, CtlOK
<1>4. CASE ~(ModelReply(r) \/ AgentExhausted(r) \/ ToolReply(r) \/ ModelFails(r) \/ ToolFails(r))
  <2>1. pending' = pending /\ pc[r] \notin {"calling", "tool"}
    BY <1>4 DEF Start, RunStep, InitializeRun, AddUserMessage, ExceedVisits, VisitRoutingNode,
         VisitWorkNode, VisitEndNode, Prepared, PrepareFails, FinishUpdateRun, FinishAddMessage,
         RecordFailure, Close, Flushed
  <2>2. QED
    BY <2>1
<1>5. QED
  BY <1>1, <1>2, <1>3, <1>4

\* Each action keeps FlushInv.
LEMMA FlushInvStep ==
  ASSUME TypeInv, FlushInv, [Next]_vars
  PROVE  FlushInv'
<1>. USE DEF TypeInv, TypeOK
<1>1. ASSUME NEW r \in Runs, Start(r) \/ RunStep(r) PROVE FlushInv'
  <2>1. Logger \/ pending' = {}
    BY <1>1, WritesAdded DEF FlushInv
  <2>2. ASSUME NEW s \in Runs, s # r PROVE FlushOf(s)'
    <3>1. Unwritten(s)' \subseteq Unwritten(s) /\ Kept(s)
      BY <1>1, <2>2, WritesAdded, OthersKept DEF Unwritten
    <3>2. QED
      BY <3>1 DEF FlushInv, FlushOf, Kept
  <2>3. FlushOf(r)'
    <3>1. CASE pc[r] \in {"calling", "tool"}
      BY <1>1, <3>1, WritesAdded DEF FlushOf
    <3>2. CASE pc[r] \notin {"calling", "tool"} /\ ~Close(r) /\ ~Flushed(r)
      <4>1. pending' = pending
        BY <1>1, <3>2, WritesAdded
      <4>2. /\ pc'[r] \in {"init", "user", "ended"} => pc[r] \in {"idle", "init", "user"}
            /\ pc'[r] \notin {"idle", "flushing"}
        <5>1. CASE VisitRoutingNode(r)
          <6>1. LeaveEffect(r, Node(r))
            BY <5>1, NodeOfRun, LeaveNodeEffect DEF VisitRoutingNode, Walking
          <6>2. QED
            BY <6>1 DEF LeaveEffect, RaiseWorkflow, RaiseError, Goto, CtlOK
        <5>2. CASE ~VisitRoutingNode(r)
          BY <1>1, <3>2, <5>2 DEF Start, RunStep, InitializeRun, AddUserMessage, ExceedVisits,
             VisitWorkNode, VisitEndNode, Prepared, PrepareFails, FinishUpdateRun,
             FinishAddMessage, RecordFailure, ModelReply, AgentExhausted, ToolReply,
             ModelFails, ToolFails, Goto, RaiseEarly, RaiseWorkflow, RaiseError, CtlOK
        <5>3. QED
          BY <5>1, <5>2
      <4>3. QED
        BY <4>1, <4>2 DEF FlushInv, FlushOf, Unwritten
    <3>3. CASE Close(r)
      <4>1. CASE FlushSet # {}
        BY <3>3, <4>1 DEF Close, FlushInv, FlushOf, Unwritten, FlushSet, Goto, CtlOK, LogOK
      <4>2. CASE FlushSet = {}
        BY <3>3, <4>2 DEF Close, FlushInv, FlushOf, Unwritten, FlushSet, Goto, CtlOK
      <4>3. QED
        BY <4>1, <4>2
    <3>4. CASE Flushed(r)
      BY <3>4 DEF Flushed, FlushInv, FlushOf, Unwritten, Goto, CtlOK
    <3>5. QED
      BY <3>1, <3>2, <3>3, <3>4
  <2>4. QED
    BY <2>1, <2>2, <2>3 DEF FlushInv, Logger
<1>2. ASSUME NEW r \in Runs, LateReply(r) PROVE FlushInv'
  <2>1. Logger \/ pending' = pending
    BY <1>2 DEF LateReply, Spawn
  <2>2. \A s \in Runs : Unwritten(s)' = Unwritten(s)
    BY <1>2 DEF LateReply, Spawn, Unwritten, ModelWrite
  <2>3. QED
    BY <1>2, <2>1, <2>2 DEF LateReply, FlushInv, FlushOf, Logger, ctl
<1>3. ASSUME NEW w \in pending, WriteDone(w) PROVE FlushInv'
  BY <1>3 DEF WriteDone, FlushInv, FlushOf, Unwritten, Logger, ctl
<1>4. ASSUME UNCHANGED <<pc, log>> PROVE FlushInv'
  BY <1>4 DEF log, FlushInv, FlushOf, Unwritten, Logger
<1>5. CASE Done \/ UNCHANGED vars \/ \E r \in Runs : LateFailure(r)
  BY <1>5, <1>4 DEF Done, vars, ctl, LateFailure
<1>6. QED
  BY <1>1, <1>2, <1>3, <1>5 DEF Next, Background

\* A run ends with its records written, whatever other runs do while it flushes.
THEOREM RecordsFlushed == Spec => []FlushedBeforeEnd
<1>1. Init => FlushInv
  BY DEF Init, FlushInv, FlushOf, Unwritten
<1>2. TypeInv /\ FlushInv /\ [Next]_vars => FlushInv'
  BY FlushInvStep
<1>3. FlushInv => FlushedBeforeEnd
  BY DEF FlushInv, FlushOf, Unwritten, FlushedBeforeEnd
<1>4. QED
  BY <1>1, <1>2, <1>3, TypeInvariant, PTL DEF Spec

(***************************************************************************)
(* The token accumulator                                                   *)
(***************************************************************************)
\* As long as a run's accumulator is the engine's, the run's client can hold no
\* other one; and a total is reported only once the run makes no more calls.
TallyOf(r) ==
  /\ pc[r] = "idle" => own[r] = 0
  /\ usage[r] # None => pc[r] \in {"flushing", "ended"}
  /\ engineAcc = r => client[r] \in {None, r}
  /\ engineAcc = r => IF usage[r] = None THEN calls[r] >= own[r] ELSE usage[r] >= own[r]

TallyInv == \A r \in Runs : TallyOf(r)

\* Accumulators only count up, and only a run that starts replaces the engine's.
LEMMA TalliesGrow ==
  ASSUME TypeInv, NEW r \in Runs, Start(r) \/ RunStep(r)
  PROVE  /\ \A s \in Runs : calls'[s] >= calls[s]
         /\ engineAcc' = IF Start(r) THEN r ELSE engineAcc
         /\ Start(r) => pc[r] = "idle"
<1>. USE DEF TypeInv, TypeOK, TokenOK, tok
<1>1. CASE Start(r)
  BY <1>1 DEF Start
<1>2. CASE ModelReply(r) /\ ~Start(r)
  <2>1. /\ calls' = calls \/ calls' = [calls EXCEPT ![client[r]] = @ + 1]
        /\ engineAcc' = engineAcc
    BY <1>2 DEF ModelReply, Tally
  <2>2. \A s \in Runs : calls'[s] >= calls[s]
    BY <2>1
  <2>3. QED
    BY <1>2, <2>1, <2>2
<1>3. CASE RunStep(r) /\ ~ModelReply(r) /\ ~Start(r)
  <2>1. calls' = calls /\ engineAcc' = engineAcc
    BY <1>3 DEF RunStep, InitializeRun, AddUserMessage, ExceedVisits, VisitRoutingNode,
         VisitWorkNode, VisitEndNode, Prepared, PrepareFails, FinishUpdateRun, FinishAddMessage,
         RecordFailure, Close, Flushed, AgentExhausted, ModelFails, ToolReply, ToolFails
  <2>2. QED
    BY <1>3, <2>1
<1>4. QED
  BY <1>1, <1>2, <1>3

\* Each action keeps TallyInv.
LEMMA TallyInvStep ==
  ASSUME TypeInv, TallyInv, [Next]_vars
  PROVE  TallyInv'
<1>. USE EngineAssumption DEF TypeInv, TypeOK, TokenOK
<1>1. ASSUME NEW r \in Runs, Start(r) \/ RunStep(r) PROVE TallyInv'
  <2>1. ASSUME NEW s \in Runs, s # r PROVE TallyOf(s)'
    <3>1. Kept(s) /\ calls'[s] >= calls[s] /\ (engineAcc' = s => engineAcc = s)
      BY <1>1, <2>1, OthersKept, TalliesGrow
    <3>2. calls[s] \in Nat /\ calls'[s] \in Nat /\ own[s] \in Nat
      BY TypeOKStep
    <3>3. QED
      BY <3>1, <3>2 DEF TallyInv, TallyOf, Kept
  <2>2. TallyOf(r)'
    <3>1. CASE Start(r)
      BY <3>1 DEF Start, TallyInv, TallyOf, ControlInv, ControlOf, Goto, CtlOK, RaiseEarly
    <3>2. CASE Prepared(r)
      BY <3>2 DEF Prepared, TallyInv, TallyOf, Goto, CtlOK
    <3>3. CASE ModelReply(r)
      <4>1. /\ pc[r] = "calling" /\ usage' = usage /\ client' = client /\ engineAcc' = engineAcc
            /\ \/ /\ calls' = [calls EXCEPT ![client[r]] = @ + 1]
                  /\ own' = [own EXCEPT ![r] = @ + 1]
               \/ calls' = calls /\ own' = own
        BY <3>3 DEF ModelReply, Tally
      <4>2. usage[r] = None /\ client[r] \in Runs
        BY <4>1 DEF TallyInv, TallyOf, ControlInv, ControlOf
      <4>3. engineAcc = r => calls'[r] >= own'[r]
        BY <4>1, <4>2 DEF TallyInv, TallyOf
      <4>4. pc'[r] # "idle"
        BY <1>1, <4>1, WritesAdded
      <4>5. QED
        BY <4>1, <4>2, <4>3, <4>4 DEF TallyInv, TallyOf
    <3>4. CASE Close(r)
      BY <3>4 DEF Close, TallyInv, TallyOf, Goto, CtlOK
    <3>5. CASE Flushed(r)
      BY <3>5 DEF Flushed, TallyInv, TallyOf, Goto, CtlOK, tok
    <3>6. CASE RunStep(r) /\ ~(Prepared(r) \/ ModelReply(r) \/ Close(r) \/ Flushed(r))
      <4>1. /\ own' = own /\ usage' = usage /\ client' = client /\ engineAcc' = engineAcc
            /\ calls' = calls /\ pc[r] \notin {"idle", "flushing", "ended"}
        BY <3>6 DEF RunStep, InitializeRun, AddUserMessage, ExceedVisits, VisitRoutingNode,
             VisitWorkNode, VisitEndNode, PrepareFails, FinishUpdateRun, FinishAddMessage,
             RecordFailure, AgentExhausted, ModelFails, ToolReply, ToolFails, tok
      <4>2. usage[r] = None
        BY <4>1 DEF TallyInv, TallyOf
      <4>3. pc'[r] # "idle"
        <5>1. CASE VisitRoutingNode(r)
          <6>1. LeaveEffect(r, Node(r))
            BY <5>1, NodeOfRun, LeaveNodeEffect DEF VisitRoutingNode, Walking
          <6>2. QED
            BY <6>1 DEF LeaveEffect, RaiseWorkflow, RaiseError, Goto, CtlOK
        <5>2. CASE AgentExhausted(r) \/ ModelFails(r) \/ ToolReply(r) \/ ToolFails(r)
          BY <1>1, <5>2, WritesAdded DEF AgentExhausted, ModelFails, ToolReply, ToolFails
        <5>3. CASE ~(VisitRoutingNode(r) \/ AgentExhausted(r) \/ ModelFails(r) \/ ToolReply(r)
                     \/ ToolFails(r))
          BY <3>6, <5>3 DEF RunStep, InitializeRun, AddUserMessage, ExceedVisits, VisitWorkNode,
             VisitEndNode, PrepareFails, FinishUpdateRun, FinishAddMessage, RecordFailure,
             Goto, RaiseEarly, RaiseWorkflow, RaiseError, CtlOK
        <5>4. QED
          BY <5>1, <5>2, <5>3
      <4>4. QED
        BY <4>1, <4>2, <4>3 DEF TallyInv, TallyOf
    <3>7. QED
      BY <1>1, <3>1, <3>2, <3>3, <3>4, <3>5, <3>6
  <2>3. QED
    BY <2>1, <2>2 DEF TallyInv
\* The answer to an abandoned call is counted by the accumulator of its client.
<1>2. ASSUME NEW r \in Runs, LateReply(r) PROVE TallyInv'
  <2>1. /\ r \in late /\ pc' = pc /\ usage' = usage /\ client' = client /\ engineAcc' = engineAcc
        /\ calls' = [calls EXCEPT ![client[r]] = @ + 1]
        /\ own' = IF usage[r] = None THEN [own EXCEPT ![r] = @ + 1] ELSE own
    BY <1>2 DEF LateReply, ctl
  <2>2. client[r] \in Runs /\ pc[r] # "idle"
    BY <2>1 DEF ControlInv, ControlOf
  <2>3. ASSUME NEW s \in Runs PROVE TallyOf(s)'
    <3>1. CASE s = r
      <4>1. engineAcc = r /\ usage[r] = None => calls'[r] >= own'[r]
        BY <2>1, <2>2 DEF TallyInv, TallyOf
      <4>2. usage[r] # None => own'[r] = own[r]
        BY <2>1
      <4>3. QED
        BY <3>1, <2>1, <2>2, <4>1, <4>2 DEF TallyInv, TallyOf
    <3>2. CASE s # r
      <4>1. calls'[s] >= calls[s] /\ own'[s] = own[s] /\ calls[s] \in Nat /\ own[s] \in Nat
            /\ calls'[s] \in Nat
        BY <3>2, <2>1, <2>2
      <4>2. QED
        BY <2>1, <4>1 DEF TallyInv, TallyOf
    <3>3. QED
      BY <3>1, <3>2
  <2>4. QED
    BY <2>3 DEF TallyInv
<1>3. ASSUME UNCHANGED <<pc, engineAcc, client, calls, own, usage>> PROVE TallyInv'
  BY <1>3 DEF TallyInv, TallyOf
<1>4. CASE Done \/ UNCHANGED vars \/ \E r \in Runs : LateFailure(r)
  BY <1>4, <1>3 DEF Done, vars, ctl, tok, LateFailure
<1>5. ASSUME NEW w \in pending, WriteDone(w) PROVE TallyInv'
  BY <1>5, <1>3 DEF WriteDone, ctl, tok
<1>6. QED
  BY <1>1, <1>2, <1>4, <1>5 DEF Next, Background

\* The newest run's calls are all in the total it reports, whatever older runs and
\* their abandoned calls add to it.
THEOREM NewestCounts == Spec => []NewestRunCountsItsCalls
<1>1. Init => TallyInv
  BY EngineAssumption DEF Init, TallyInv, TallyOf
<1>2. TypeInv /\ TallyInv /\ [Next]_vars => TallyInv'
  BY TallyInvStep
<1>3. TallyInv => NewestRunCountsItsCalls
  BY DEF TallyInv, TallyOf, NewestRunCountsItsCalls
<1>4. QED
  BY <1>1, <1>2, <1>3, TypeInvariant, PTL DEF Spec
==============================================================================
