---------------------------- MODULE WorkflowEngine ----------------------------
(***************************************************************************)
(* WorkflowEngine.run of kavalai/workflow/engine.py: concurrent runs of one*)
(* shared engine.  The agent server builds one engine and every request    *)
(* calls engine.run on it, so the runs interleave at every await.          *)
(*                                                                         *)
(* Run r goes through                                                      *)
(*   idle -> init -> user -> walk <-> prepare/calling/tool                 *)
(*        -> finish_run -> finish_msg -> closing -> flushing -> ended      *)
(* with "record" (_record_failure) before closing when a node failed.      *)
(* What a label names is the await the run is suspended at.                *)
(***************************************************************************)
EXTENDS WorkflowGraph

CONSTANTS Runs,           \* invocations of engine.run
          Graphs,         \* candidate definitions an engine may be built from
          Backends,       \* the optional collaborators the engine is given
          MaxNodeVisits,  \* max_node_visits
          DbOutcomes      \* how a database call may end: "ok", "fail" (nothing
                          \* written), "lost" (committed, but the caller sees an
                          \* error: the refresh after the commit failed)

ASSUME EngineAssumption ==
  /\ None \notin Runs
  /\ Backends \subseteq {"agent_service", "task_logger"}
  /\ MaxNodeVisits \in Nat
  /\ DbOutcomes \subseteq {"ok", "fail", "lost"}
  /\ "ok" \in DbOutcomes

\* What the parser guarantees of a node before validate_graph sees it.
ASSUME GraphsAssumption ==
  \A g \in Graphs : \A node \in NodesOf(g) :
    /\ node.type \in NodeTypes
    /\ node.type = "agent" => node.max_steps \in Nat

VARIABLES
  graph,      \* the validated graph the engine was built on
  pc,         \* where each run is
  current,    \* _walk's current node name
  visits,     \* _walk's visit counter
  exc,        \* the exception in flight: none, workflow (WorkflowException), error
  status,     \* state.status
  trace,      \* state.trace
  data,       \* the names in run_context.data that hold a value
  sdata,      \* state.data, the names of the last to_plain(run_context.data)
  row,        \* the runs table; the row of a run that has none is NoRow
  chat,       \* the roles of the run's rows in chat_messages, in insertion order
  engineAcc,  \* self._token_stats: the run that created the current accumulator
  client,     \* the accumulator the run's LLM client was built with
  steps,      \* model calls the node may still make
  calls,      \* model_calls of each accumulator
  own,        \* model calls of the run that were counted before its summary
  usage,      \* state.token_usage (the model_calls of it)
  late,       \* runs whose abandoned model call still runs in the background
  pending,    \* task_logger._background_tasks
  waiting     \* the writes a flush of the run awaits

ctl == <<pc, current, visits, exc>>
st == <<status, trace, data, sdata>>
db == <<row, chat>>
tok == <<engineAcc, client, steps, calls, own, usage, late>>
log == <<pending, waiting>>
vars == <<graph, ctl, st, db, tok, log>>

Service == "agent_service" \in Backends
Logger == "task_logger" \in Backends

Labels == {"idle", "init", "user", "walk", "prepare", "calling", "tool",
           "finish_run", "finish_msg", "record", "closing", "flushing", "ended"}
Walking == {"walk", "prepare", "calling", "tool"}

NoRow == [state |-> "absent", output |-> "null", context |-> "null", data |-> {}]
OpenRow == [NoRow EXCEPT !.state = "present"]
Node(r) == NodeMap(graph, current[r])

\* WorkflowEngine.__init__ on a definition that WorkflowGraph(**data) accepted.
Init ==
  /\ graph \in {g \in Graphs : ValidateGraph(g)}
  /\ pc = [r \in Runs |-> "idle"]
  /\ current = [r \in Runs |-> None]
  /\ visits = [r \in Runs |-> 0]
  /\ exc = [r \in Runs |-> "none"]
  /\ status = [r \in Runs |-> "running"]
  /\ trace = [r \in Runs |-> <<>>]
  /\ data = [r \in Runs |-> {}]
  /\ sdata = [r \in Runs |-> {}]
  /\ row = [r \in Runs |-> NoRow]
  /\ chat = [r \in Runs |-> <<>>]
  /\ engineAcc = None
  /\ client = [r \in Runs |-> None]
  /\ steps = [r \in Runs |-> 0]
  /\ calls = [r \in Runs |-> 0]
  /\ own = [r \in Runs |-> 0]
  /\ usage = [r \in Runs |-> None]
  /\ late = {}
  /\ pending = {}
  /\ waiting = [r \in Runs |-> {}]

(***************************************************************************)
(* Control helpers                                                         *)
(***************************************************************************)
Goto(r, l) == pc' = [pc EXCEPT ![r] = l]

\* `except WorkflowException: raise`: straight to the finally block.
RaiseWorkflow(r) ==
  /\ Goto(r, "closing")
  /\ exc' = [exc EXCEPT ![r] = "workflow"]
  /\ UNCHANGED status

\* `except Exception`: status, then _record_failure, then the finally block.
RaiseError(r) ==
  /\ Goto(r, IF Service THEN "record" ELSE "closing")
  /\ exc' = [exc EXCEPT ![r] = "error"]
  /\ status' = [status EXCEPT ![r] = "failed"]

\* An exception before the try block leaves run() at once.
RaiseEarly(r) ==
  /\ Goto(r, "ended")
  /\ exc' = [exc EXCEPT ![r] = "error"]
  /\ UNCHANGED status

Spawn(w) == IF Logger THEN pending' = pending \cup {w} ELSE UNCHANGED pending
NodeWrite(r, k) == [run |-> r, kind |-> "node", seq |-> k]
ModelWrite(r, k) == [run |-> r, kind |-> "model", seq |-> k]

(***************************************************************************)
(* Entering run()                                                          *)
(***************************************************************************)
\* The new accumulator replaces the engine's before the input is parsed.
Start(r) ==
  /\ pc[r] = "idle"
  /\ engineAcc' = r
  /\ \/ /\ Goto(r, IF Service THEN "init" ELSE "walk")
        /\ data' = [data EXCEPT ![r] = {"input"}]
        /\ current' = [current EXCEPT ![r] = IF Service THEN None ELSE StartName(graph)]
        /\ UNCHANGED <<exc, status>>
     \/ /\ RaiseEarly(r)                          \* the input does not validate
        /\ UNCHANGED <<data, current>>
  /\ UNCHANGED <<graph, visits, trace, sdata, db, client, steps, calls, own, usage,
                 late, log>>

\* await agent_service.initialize_workflow_run(...)
InitializeRun(r) ==
  /\ pc[r] = "init"
  /\ \E o \in DbOutcomes :
       /\ row' = IF o = "fail" THEN row
                 ELSE [row EXCEPT ![r] = OpenRow]
       /\ IF o = "ok" THEN Goto(r, "user") /\ UNCHANGED <<exc, status>>
                      ELSE RaiseEarly(r)
  /\ UNCHANGED <<graph, current, visits, trace, data, sdata, chat, tok, log>>

\* await agent_service.add_chat_message(role="user", ...)
AddUserMessage(r) ==
  /\ pc[r] = "user"
  /\ \E o \in DbOutcomes :
       /\ chat' = IF o = "fail" THEN chat
                  ELSE [chat EXCEPT ![r] = Append(@, "user")]
       /\ IF o = "ok"
          THEN /\ Goto(r, "walk")
               /\ current' = [current EXCEPT ![r] = StartName(graph)]
               /\ UNCHANGED <<exc, status>>
          ELSE RaiseEarly(r) /\ UNCHANGED current
  /\ UNCHANGED <<graph, visits, trace, data, sdata, row, tok, log>>

(***************************************************************************)
(* _walk                                                                   *)
(***************************************************************************)
\* The node has run: trace, state.data, and the transition out of it.
LeaveNode(r, node) ==
  /\ trace' = [trace EXCEPT ![r] = Append(@, node.name)]
  /\ sdata' = [sdata EXCEPT ![r] = data'[r]]
  /\ \/ \E v \in BranchValues(node) :
          LET next == NextNode(node, v)
          IN IF next = None
             THEN RaiseWorkflow(r) /\ UNCHANGED current
             ELSE /\ Goto(r, "walk")
                  /\ current' = [current EXCEPT ![r] = next]
                  /\ UNCHANGED <<exc, status>>
     \/ /\ node.type \in {"if", "switch"}         \* ExpressionError
        /\ RaiseError(r)
        /\ UNCHANGED current

\* Mutant: the cap is reported, not enforced.
WarnVisits(r) ==
  /\ pc[r] = "walk"
  /\ visits[r] >= MaxNodeVisits
  /\ visits' = [visits EXCEPT ![r] = @ + 1]
  /\ UNCHANGED <<graph, pc, current, exc, st, db, tok, log>>

ExceedVisits(r) ==
  /\ pc[r] = "walk"
  /\ visits[r] >= MaxNodeVisits
  /\ visits' = [visits EXCEPT ![r] = @ + 1]
  /\ RaiseWorkflow(r)
  /\ UNCHANGED <<graph, current, trace, data, sdata, db, tok, log>>

VisitRoutingNode(r) ==
  /\ pc[r] = "walk"
  /\ visits[r] < MaxNodeVisits
  /\ visits' = [visits EXCEPT ![r] = @ + 1]
  /\ Node(r).type \in {"start", "if", "switch"}
  /\ UNCHANGED data
  /\ LeaveNode(r, Node(r))
  /\ UNCHANGED <<graph, db, tok, log>>

VisitWorkNode(r) ==
  /\ pc[r] = "walk"
  /\ visits[r] < MaxNodeVisits
  /\ visits' = [visits EXCEPT ![r] = @ + 1]
  /\ Node(r).type \in WorkTypes
  /\ Goto(r, "prepare")
  /\ UNCHANGED <<graph, current, exc, st, db, tok, log>>

\* An end node, and _finish up to its first await.
VisitEndNode(r) ==
  /\ pc[r] = "walk"
  /\ visits[r] < MaxNodeVisits
  /\ visits' = [visits EXCEPT ![r] = @ + 1]
  /\ Node(r).type = "end"
  /\ trace' = [trace EXCEPT ![r] = Append(@, current[r])]
  /\ sdata' = [sdata EXCEPT ![r] = data[r]]
  /\ status' = [status EXCEPT ![r] = "completed"]
  /\ Goto(r, IF Service THEN "finish_run" ELSE "closing")
  /\ UNCHANGED <<graph, current, exc, data, db, tok, log>>

(***************************************************************************)
(* _run_llm_node, _run_agent_node, _run_function_node                      *)
(***************************************************************************)
\* The node's result is stored and logged, then the walk goes on.  `produced` is
\* whether the result is a value or Python's None.
CompleteNode(r, produced) ==
  LET node == Node(r)
  IN /\ data' = [data EXCEPT ![r] = IF produced THEN @ \cup {node.output}
                                                ELSE @ \ {node.output}]
     /\ LeaveNode(r, node)

\* prepare_tool_inputs / render_prompt / get_chat_history are done; a function
\* node calls its tool, the others build a client on the engine's accumulator.
Prepared(r) ==
  /\ pc[r] = "prepare"
  /\ IF Node(r).type = "function"
     THEN Goto(r, "tool") /\ UNCHANGED <<client, steps>>
     ELSE /\ Goto(r, "calling")
          /\ client' = [client EXCEPT ![r] = engineAcc]
          /\ steps' = [steps EXCEPT ![r] =
                         IF Node(r).type = "agent" THEN Node(r).max_steps ELSE 1]
  /\ UNCHANGED <<graph, current, visits, exc, st, db, engineAcc, calls, own, usage,
                 late, log>>

\* An unresolvable prompt value or a failed history read; or, for a node that
\* needs a client, no model configured (_resolve_model).
PrepareFails(r) ==
  /\ pc[r] = "prepare"
  /\ \/ RaiseError(r)
     \/ Node(r).type # "function" /\ RaiseWorkflow(r)
  /\ UNCHANGED <<graph, current, visits, trace, data, sdata, db, tok, log>>

\* Mutant: only the last step of an agent is counted.
TallyLastStep(r) ==
  /\ calls' = IF steps[r] = 1 THEN [calls EXCEPT ![client[r]] = @ + 1] ELSE calls
  /\ own' = [own EXCEPT ![r] = @ + 1]
  /\ steps' = [steps EXCEPT ![r] = @ - 1]

\* receive_model_stats of the accumulator the run's client holds; an answer whose
\* statistics could not be built is not counted (ModelCall's Miss).
Tally(r) ==
  /\ \/ /\ calls' = [calls EXCEPT ![client[r]] = @ + 1]
        /\ own' = [own EXCEPT ![r] = @ + 1]
     \/ UNCHANGED <<calls, own>>
  /\ steps' = [steps EXCEPT ![r] = @ - 1]

\* What the logger is given of the call.
ModelRecords(r) == IF Logger /\ own' # own THEN {ModelWrite(r, own'[r])} ELSE {}

\* The model answers.  An llm node is done; an agent node is done when the answer
\* has an output and no tool calls, and otherwise takes another step.
ModelReply(r) ==
  /\ pc[r] = "calling"
  /\ steps[r] > 0
  /\ Tally(r)
  /\ \/ /\ CompleteNode(r, TRUE)
        /\ pending' = pending \cup ModelRecords(r)
                        \cup {w \in {NodeWrite(r, Len(trace'[r]))} : Logger}
     \/ /\ Node(r).type = "agent"                 \* tool calls requested
        /\ pending' = pending \cup ModelRecords(r)
        /\ UNCHANGED <<pc, current, exc, st>>
     \/ /\ RaiseError(r)                          \* the answer does not validate
        /\ pending' = pending \cup ModelRecords(r)
        /\ UNCHANGED <<current, trace, data, sdata>>
  /\ UNCHANGED <<graph, visits, db, engineAcc, client, usage, late, waiting>>

\* for step_idx in range(max_steps) is exhausted; there may be no output at all.
AgentExhausted(r) ==
  /\ pc[r] = "calling"
  /\ steps[r] = 0
  /\ \E produced \in BOOLEAN : CompleteNode(r, produced)
  /\ Spawn(NodeWrite(r, Len(trace'[r])))
  /\ UNCHANGED <<graph, visits, db, tok, waiting>>

\* The call fails for good, or its stream times out while the background task of
\* stream_chat_completions goes on (it is never cancelled).
ModelFails(r) ==
  /\ pc[r] = "calling"
  /\ steps[r] > 0
  /\ RaiseError(r)
  /\ late' \in {late, late \cup {r}}
  /\ UNCHANGED <<graph, current, visits, trace, data, sdata, db, engineAcc, client,
                 steps, calls, own, usage, log>>

\* Mutant: a late answer refreshes the usage a run has reported.
LateReplyRefreshes(r) ==
  /\ r \in late
  /\ late' = late \ {r}
  /\ calls' = [calls EXCEPT ![client[r]] = @ + 1]
  /\ usage' = IF usage[r] = None THEN usage ELSE [usage EXCEPT ![r] = calls'[client[r]]]
  /\ Spawn(ModelWrite(r, 0))
  /\ UNCHANGED <<graph, ctl, st, db, engineAcc, client, steps, own, waiting>>

\* The answer to an abandoned call: its stats still go to the accumulator.
LateReply(r) ==
  /\ r \in late
  /\ late' = late \ {r}
  /\ calls' = [calls EXCEPT ![client[r]] = @ + 1]
  /\ own' = IF usage[r] = None THEN [own EXCEPT ![r] = @ + 1] ELSE own
  /\ Spawn(ModelWrite(r, 0))
  /\ UNCHANGED <<graph, ctl, st, db, engineAcc, client, steps, usage, waiting>>

\* The background task of an abandoned call fails too; nothing is reported.
LateFailure(r) ==
  /\ r \in late
  /\ late' = late \ {r}
  /\ UNCHANGED <<graph, ctl, st, db, engineAcc, client, steps, calls, own, usage, log>>

\* await kernel.call_tool(...) of a function node.
ToolReply(r) ==
  /\ pc[r] = "tool"
  /\ \E produced \in BOOLEAN : CompleteNode(r, produced)
  /\ Spawn(NodeWrite(r, Len(trace'[r])))
  /\ UNCHANGED <<graph, visits, db, tok, waiting>>

\* FunctionKernelException is a WorkflowException; an HTTP error is not.
ToolFails(r) ==
  /\ pc[r] = "tool"
  /\ RaiseWorkflow(r) \/ RaiseError(r)
  /\ UNCHANGED <<graph, current, visits, trace, data, sdata, db, tok, log>>

(***************************************************************************)
(* _finish, _record_failure and the finally block of run()                 *)
(***************************************************************************)
\* Mutants: the final update drops the output; the failed one drops the data.
FinalRowNoOutput(r) == [row[r] EXCEPT !.context = "final", !.data = data[r]]
FailedRowNoData(r) == [row[r] EXCEPT !.context = "failed"]

\* What update_run leaves in the run's row.  update_run skips an argument that is
\* None: output_data is kept when the end node's output variable holds nothing.
FinalRow(r) ==
  [row[r] EXCEPT !.output = IF Node(r).output \in data[r] THEN "value" ELSE @,
                 !.context = "final",
                 !.data = data[r]]
FailedRow(r) == [row[r] EXCEPT !.context = "failed", !.data = sdata[r]]

\* Mutant: the run goes on when update_run fails.
FinishIgnoresFailure(r) ==
  /\ pc[r] = "finish_run"
  /\ \E o \in DbOutcomes :
       row' = IF o = "fail" THEN row ELSE [row EXCEPT ![r] = FinalRow(r)]
  /\ Goto(r, "finish_msg")
  /\ UNCHANGED <<graph, current, visits, exc, st, chat, tok, log>>

\* await update_run(output_data=..., context=to_plain(run_context.data))
FinishUpdateRun(r) ==
  /\ pc[r] = "finish_run"
  /\ \E o \in DbOutcomes :
       /\ row' = IF o = "fail" THEN row
                 ELSE [row EXCEPT ![r] = FinalRow(r)]
       /\ IF o = "ok" THEN Goto(r, "finish_msg") /\ UNCHANGED <<exc, status>>
                      ELSE RaiseError(r)
  /\ UNCHANGED <<graph, current, visits, trace, data, sdata, chat, tok, log>>

FinishAddMessage(r) ==
  /\ pc[r] = "finish_msg"
  /\ \E o \in DbOutcomes :
       /\ chat' = IF o = "fail" THEN chat
                  ELSE [chat EXCEPT ![r] = Append(@, "assistant")]
       /\ IF o = "ok" THEN Goto(r, "closing") /\ UNCHANGED <<exc, status>>
                      ELSE RaiseError(r)
  /\ UNCHANGED <<graph, current, visits, trace, data, sdata, row, tok, log>>

\* Best effort: an error of update_run is logged and swallowed.
RecordFailure(r) ==
  /\ pc[r] = "record"
  /\ \E o \in DbOutcomes :
       row' = IF o = "fail" THEN row
              ELSE [row EXCEPT ![r] = FailedRow(r)]
  /\ Goto(r, "closing")
  /\ UNCHANGED <<graph, current, visits, exc, st, chat, tok, log>>

\* The writes a flush that starts now awaits (and a mutant: only the node records).
FlushNodeRecords == {w \in pending : Logger /\ w.kind = "node"}
FlushSet == {w \in pending : Logger}

\* kernel.close() is done: summary() of the engine's accumulator, then flush()
\* awaits the writes that are pending now.
Close(r) ==
  /\ pc[r] = "closing"
  /\ usage' = [usage EXCEPT ![r] = calls[engineAcc]]
  /\ IF FlushSet # {}
     THEN Goto(r, "flushing") /\ waiting' = [waiting EXCEPT ![r] = FlushSet]
     ELSE Goto(r, "ended") /\ UNCHANGED waiting
  /\ UNCHANGED <<graph, current, visits, exc, st, db, engineAcc, client, steps, calls,
                 own, late, pending>>

\* Mutant: flush also waits for the abandoned model call.
FlushedAwaitsStream(r) ==
  /\ pc[r] = "flushing"
  /\ waiting[r] \cap pending = {} /\ r \notin late
  /\ Goto(r, "ended")
  /\ waiting' = [waiting EXCEPT ![r] = {}]
  /\ UNCHANGED <<graph, current, visits, exc, st, db, tok, pending>>

\* asyncio.gather returns: every awaited write is done.
Flushed(r) ==
  /\ pc[r] = "flushing"
  /\ waiting[r] \cap pending = {}
  /\ Goto(r, "ended")
  /\ waiting' = [waiting EXCEPT ![r] = {}]
  /\ UNCHANGED <<graph, current, visits, exc, st, db, tok, pending>>

\* A background write ends, written or failed (a failure is only logged).
WriteDone(w) ==
  /\ pending' = pending \ {w}
  /\ UNCHANGED <<graph, ctl, st, db, tok, waiting>>

(***************************************************************************)
(* Specification                                                           *)
(***************************************************************************)
RunStep(r) ==
  \/ InitializeRun(r) \/ AddUserMessage(r)
  \/ ExceedVisits(r) \/ VisitRoutingNode(r) \/ VisitWorkNode(r) \/ VisitEndNode(r)
  \/ Prepared(r) \/ PrepareFails(r)
  \/ ModelReply(r) \/ AgentExhausted(r) \/ ModelFails(r)
  \/ ToolReply(r) \/ ToolFails(r)
  \/ FinishUpdateRun(r) \/ FinishAddMessage(r) \/ RecordFailure(r)
  \/ Close(r) \/ Flushed(r)

Background ==
  \/ \E r \in Runs : LateReply(r) \/ LateFailure(r)
  \/ \E w \in pending : WriteDone(w)

Done ==
  /\ \A r \in Runs : pc[r] = "ended"
  /\ pending = {} /\ late = {}
  /\ UNCHANGED vars

Next ==
  \/ \E r \in Runs : Start(r) \/ RunStep(r)
  \/ Background
  \/ Done

Spec == Init /\ [][Next]_vars

\* A run that was started is driven by the event loop: every await of it ends (a
\* database call, a tool call and a model call return or raise, the model call
\* within its timeout).  Nobody has to start a run, and an abandoned model call
\* need never answer.
Fairness ==
  /\ \A r \in Runs : WF_vars(RunStep(r))
  /\ WF_vars(\E w \in pending : WriteDone(w))
FairSpec == Spec /\ Fairness

(***************************************************************************)
(* Properties                                                              *)
(***************************************************************************)
Names == NameSet(graph)
Vars == graph.data_types \cup {"input"}
Writes == [run : Runs, kind : {"node", "model"}, seq : Nat]

Contexts == {"null", "final", "failed"}

CtlOK ==
  /\ pc \in [Runs -> Labels]
  /\ current \in [Runs -> Names \cup {None}]
  /\ visits \in [Runs -> 0 .. MaxNodeVisits + 1]
  /\ exc \in [Runs -> {"none", "workflow", "error"}]

StateOK ==
  /\ status \in [Runs -> {"running", "completed", "failed"}]
  /\ trace \in [Runs -> Seq(Names)]
  /\ data \in [Runs -> SUBSET Vars]
  /\ sdata \in [Runs -> SUBSET Vars]

DbOK ==
  /\ row \in [Runs -> [state : {"absent", "present"}, output : {"null", "value"},
                       context : Contexts, data : SUBSET Vars]]
  /\ chat \in [Runs -> Seq({"user", "assistant"})]

TokenOK ==
  /\ engineAcc \in Runs \cup {None}
  /\ client \in [Runs -> Runs \cup {None}]
  /\ steps \in [Runs -> Nat]
  /\ calls \in [Runs -> Nat]
  /\ own \in [Runs -> Nat]
  /\ usage \in [Runs -> Nat \cup {None}]
  /\ late \subseteq Runs

LogOK ==
  /\ pending \subseteq Writes
  /\ waiting \in [Runs -> SUBSET Writes]

\* The types of the engine's state.
TypeOK ==
  /\ graph \in Graphs /\ ValidateGraph(graph)
  /\ CtlOK /\ StateOK /\ DbOK /\ TokenOK /\ LogOK

Returned(r) == pc[r] = "ended" /\ exc[r] = "none"
Raised(r) == pc[r] = "ended" /\ exc[r] # "none"

\* The walk never looks up a node that is not in node_map: what validate_graph
\* accepts is closed under _next_node (engine.py: node = self.node_map[current]).
WalkStaysInGraph == \A r \in Runs : pc[r] \in Walking => current[r] \in Names

\* state.trace is a path of the graph that starts at the entry point, and the node
\* a run is at follows the last one it left.
TraceIsPath ==
  \A r \in Runs :
    /\ Len(trace[r]) <= MaxNodeVisits
    /\ trace[r] # <<>> => trace[r][1] = StartName(graph)
    /\ \A i \in 1 .. Len(trace[r]) - 1 : Transition(graph, trace[r][i], trace[r][i + 1])
    /\ pc[r] \in Walking =>
         IF trace[r] = <<>> THEN current[r] = StartName(graph)
                            ELSE Transition(graph, trace[r][Len(trace[r])], current[r])

\* A run that returned with persistence on is durable: the row holds the final
\* context and, when the end node's variable has a value, the output; the
\* conversation holds the user's message and then the answer.
ReturnedIsDurable ==
  \A r \in Runs : Returned(r) =>
    /\ status[r] = "completed"
    /\ Node(r).type = "end"
    /\ Service => /\ row[r].context = "final"
                  /\ row[r].data = data[r]
                  /\ Node(r).output \in data[r] => row[r].output = "value"
                  /\ chat[r] = <<"user", "assistant">>

\* An answer is in the conversation only when the run's result was recorded first
\* and the user's message precedes it; a database failure between the two writes
\* of _finish never leaves an answer without a recorded run.
AnswerFollowsRecord ==
  \A r \in Runs :
    /\ chat[r] \in {<<>>, <<"user">>, <<"user", "assistant">>}
    /\ "assistant" \in {chat[r][i] : i \in DOMAIN chat[r]} =>
         /\ row[r].context # "null"
         /\ Node(r).output \in data[r] => row[r].output = "value"

\* Whatever the run left in its row agrees with how it ended: a failed context
\* belongs to a run that raises, and carries every variable of a node in the trace.
FailureRecordIsHonest ==
  \A r \in Runs : row[r].context = "failed" =>
    /\ exc[r] = "error"
    /\ status[r] = "failed"
    /\ row[r].data = (IF trace[r] = <<>> THEN {} ELSE data[r])

\* flush() at the end of a run leaves none of its own records unwritten, even though
\* other runs spawn writes while it waits; the one exception is the record of an
\* abandoned model call that answers late (seq 0).
FlushedBeforeEnd ==
  \A r \in Runs : pc[r] = "ended" => \A w \in pending : w.run = r => w.seq = 0

\* The newest run never under-reports: as long as no other run replaced the
\* engine's accumulator, every model call it got an answer to is in the total it
\* will report.  (It may over-report: see TotalsNeverLeak.)
NewestRunCountsItsCalls ==
  \A r \in Runs : engineAcc = r =>
    IF usage[r] = None THEN calls[r] >= own[r] ELSE usage[r] >= own[r]

\* No step touches the row or the conversation of a run that has ended: a late
\* model answer or another run's failure cannot rewrite its record.
EndedRunIsFrozen ==
  [][\A r \in Runs : pc[r] = "ended" =>
       /\ row'[r] = row[r] /\ chat'[r] = chat[r] /\ usage'[r] = usage[r]
       /\ trace'[r] = trace[r] /\ pc'[r] = "ended"]_vars

\* A started run ends, whatever the graph does: the visit cap breaks cycles, a
\* failing database cannot hold it, and flush() returns.
EveryRunEnds == \A r \in Runs : (pc[r] # "idle") ~> (pc[r] = "ended")

CallOf(r) ==
  CASE pc[r] = "idle" -> "idle"
    [] Returned(r) -> "returned"
    [] Raised(r) -> "raised"
    [] OTHER -> "active"

RecordOf(r) ==
  IF row[r].state = "absent" THEN "none"
  ELSE IF row[r].context = "null" THEN "open" ELSE row[r].context

call == [r \in Runs |-> CallOf(r)]
record == [r \in Runs |-> RecordOf(r)]
Lifecycle == INSTANCE RunLifecycle WITH Recorded <- Service

\* The engine implements the abstract life cycle of a run: whatever fails and in
\* which order, the record of a run moves only forward, only while the call is
\* active, and a call that returns has a final record.
ImplementsLifecycle == Lifecycle!Spec

\* "Fresh token aggregator so totals never leak between runs." (engine.py:336)
TotalsNeverLeak == \A r \in Runs : usage[r] # None => usage[r] = own[r]

==============================================================================
