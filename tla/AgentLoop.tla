------------------------------ MODULE AgentLoop ------------------------------
(***************************************************************************)
(* Agent.prompt (kavalai/agent.py) over the tools of a FunctionKernel      *)
(* (kavalai/functionkernel.py).  The application registers tools; then, up *)
(* to max_steps times, the model is told which tools there are and answers *)
(* with tool calls, an output, both or nothing.  The calls of a step run   *)
(* concurrently (asyncio.gather) and may refer to results of earlier ones  *)
(* by call id.  Ids are chosen by the model; a call it leaves without one  *)
(* is numbered.  A result is named after the step and the call it is of.   *)
(***************************************************************************)
EXTENDS Integers, Sequences, SequencesExt

CONSTANTS PythonTools, RestTools, McpTools,
          ServerOf,      \* server part of a REST or MCP tool's URI
          ModelIds,      \* call ids the model may choose, auto ids included
          Requests,      \* bound: tool calls the model makes; it may not know the tool
          MaxSteps,      \* max_steps
          MaxBatch       \* bound: tool calls of one step

Tools == PythonTools \cup RestTools \cup McpTools
Remote == RestTools \cup McpTools

ASSUME AgentAssumption ==
  /\ ServerOf \in [Remote -> STRING]
  /\ ModelIds \subseteq Nat
  /\ \A q \in Requests : q.tool \in Tools /\ q.id \in ModelIds \cup {-1} /\ q.refs \subseteq ModelIds
  /\ MaxSteps \in Nat \ {0} /\ MaxBatch \in Nat \ {0}

VARIABLES
  definitions,   \* python_tool_definitions and rest_tool_definitions
  servers,       \* rest_servers and mcp_servers
  discovered,    \* mcp_tool_definitions: tools of servers that were connected
  phase,         \* setup, render, ask, tools, ended
  step,
  described,     \* tools in the prompt of this step
  context,       \* planner_context: the result under each id in use
  batch,         \* tool_calls of this step
  read, result,  \* per call of the batch: what it resolved, what it returned
  record,        \* steps
  output,        \* the output of this step's answer, if it has one
  final          \* final_output: the step it is from, or NoStep

agentVars == <<definitions, servers, discovered, phase, step, described, context, batch, read, result, record, output, final>>
kernel == <<definitions, servers, discovered>>

NoStep == -1
Missing == <<>>                        \* planner_context.get(key) of no such key
Failure(s, i) == <<s, i, "error">>     \* result = f"Error: {e}"
Success(s, i) == <<s, i, "ok">>
NoFunction == [i \in {} |-> Missing]

\* f"tool_call_{step_idx}_{idx}"
AutoId(s, i) == s * MaxBatch + i

AgentInit ==
  /\ definitions = {} /\ servers = {} /\ discovered = {}
  /\ phase = "setup"
  /\ step = 0
  /\ described = {}
  /\ context = NoFunction
  /\ batch = <<>> /\ read = NoFunction /\ result = NoFunction
  /\ record = <<>>
  /\ output = FALSE
  /\ final = NoStep

(***************************************************************************)
(* Registration.  A name that is taken raises; a REST tool may be          *)
(* registered without its server.                                          *)
(***************************************************************************)
RegisterPythonTool ==
  \E t \in PythonTools \ definitions : definitions' = definitions \cup {t} /\ UNCHANGED servers

RegisterRestTool ==
  \E t \in RestTools : definitions' = definitions \cup {t} /\ UNCHANGED servers

RegisterServer ==
  \E t \in Remote : ServerOf[t] \notin servers /\ servers' = servers \cup {ServerOf[t]} /\ UNCHANGED definitions

RegisterAny ==
  /\ phase = "setup"
  /\ RegisterPythonTool \/ RegisterRestTool \/ RegisterServer
  /\ UNCHANGED <<discovered, phase, step, described, context, batch, read, result, record, output, final>>

Prompt ==
  /\ phase = "setup"
  /\ phase' = "render"
  /\ UNCHANGED <<kernel, step, described, context, batch, read, result, record, output, final>>

(***************************************************************************)
(* One step                                                                *)
(***************************************************************************)
\* get_tool_descriptions: what is registered, and of MCP servers what is known.
Render ==
  /\ phase = "render"
  /\ step < MaxSteps
  /\ described' = definitions \cup discovered
  /\ phase' = "ask"
  /\ UNCHANGED <<kernel, step, context, batch, read, result, record, output, final>>

\* "Ensure every tool call has a stable id": the names of a batch, in order.
Named(calls) == [i \in DOMAIN calls |-> [calls[i] EXCEPT !.id = IF @ = NoStep THEN AutoId(step, i) ELSE @]]

\* The tool_calls a model may answer a step with.
StepOutputs == UNION {[1 .. n -> Requests] : n \in 0 .. MaxBatch}

NoAnswer ==
  /\ phase = "ask"
  /\ phase' = "ended"
  /\ UNCHANGED <<kernel, step, described, context, batch, read, result, record, output, final>>

Answer ==
  /\ phase = "ask"
  /\ \E calls \in StepOutputs : batch' = Named(calls)
  /\ output' \in BOOLEAN
  /\ read' = NoFunction /\ result' = NoFunction
  /\ phase' = "tools"
  /\ UNCHANGED <<kernel, step, described, context, record, final>>

\* planner_context.get(ctx_key) for the references of a call
Lookup(k) == IF k \in DOMAIN context THEN context[k] ELSE Missing

\* The tasks of gather start in order; each resolves its arguments first.
StartTool ==
  /\ phase = "tools"
  /\ \E i \in DOMAIN batch :
       /\ DOMAIN read = 1 .. i - 1
       /\ read' = [j \in 1 .. i |-> IF j = i THEN [k \in batch[i].refs |-> Lookup(k)] ELSE read[j]]
  /\ UNCHANGED <<kernel, phase, step, described, context, batch, result, record, output, final>>

\* Which calls do not raise before the tool is reached; any tool may raise.
PythonCall(t) == t \in PythonTools /\ t \in definitions
RestCall(t) == t \in RestTools /\ ServerOf[t] \in servers
McpCall(t) == t \in McpTools /\ ServerOf[t] \in servers
CanSucceed(t) == PythonCall(t) \/ RestCall(t) \/ McpCall(t)

\* The first call to an MCP server connects, and lists its tools if it can.
Discover(t) ==
  IF McpCall(t)
  THEN discovered' \in {discovered, discovered \cup {u \in McpTools : ServerOf[u] = ServerOf[t]}}
  ELSE UNCHANGED discovered

\* Mutant: a call stores its own result as soon as it has it.
StoreAtOnce(i, v) == context' = [k \in DOMAIN context \cup {batch[i].id} |-> IF k = batch[i].id THEN v ELSE context[k]]

\* _call_tool only returns the result.
KeepForGather(i, v) == UNCHANGED context

FinishTool ==
  /\ phase = "tools"
  /\ \E i \in DOMAIN read \ DOMAIN result :
       /\ Discover(batch[i].tool)
       /\ \E v \in {Failure(step, i)} \cup (IF CanSucceed(batch[i].tool) THEN {Success(step, i)} ELSE {}) :
            /\ result' = [j \in DOMAIN result \cup {i} |-> IF j = i THEN v ELSE result[j]]
            /\ KeepForGather(i, v)
  /\ UNCHANGED <<definitions, servers, phase, step, described, batch, read, record, output, final>>

\* The last call of the batch with an id, as the loop over the results leaves it.
Stored(k) == result[CHOOSE i \in DOMAIN batch : batch[i].id = k /\ \A j \in DOMAIN batch : batch[j].id = k => j <= i]

\* Mutant: the last answer's output, even if there is none.
OutputOfStep == IF output THEN step ELSE NoStep

\* An answer without output leaves the final output as it is.
LatestOutput == IF output THEN step ELSE final

EndStep ==
  /\ phase = "tools"
  /\ DOMAIN result = DOMAIN batch
  /\ LET ids == {batch[i].id : i \in DOMAIN batch}
     IN  context' = [k \in DOMAIN context \cup ids |-> IF k \in ids THEN Stored(k) ELSE context[k]]
  /\ record' = Append(record, [calls |-> batch, results |-> result, output |-> output])
  /\ final' = LatestOutput
  /\ phase' = IF output /\ batch = <<>> THEN "ended" ELSE "render"
  /\ step' = step + 1
  /\ UNCHANGED <<kernel, described, batch, read, result, output>>

OutOfSteps ==
  /\ phase = "render"
  /\ step = MaxSteps
  /\ phase' = "ended"
  /\ UNCHANGED <<kernel, step, described, context, batch, read, result, record, output, final>>

AgentNext ==
  \/ RegisterAny \/ Prompt \/ Render \/ NoAnswer \/ Answer
  \/ StartTool \/ FinishTool \/ EndStep \/ OutOfSteps

AgentSpec == AgentInit /\ [][AgentNext]_agentVars

(***************************************************************************)
(* Properties                                                              *)
(***************************************************************************)
\* The steps in which an id was given to a call.
Uses(k) == {s \in DOMAIN record : \E i \in DOMAIN record[s].calls : record[s].calls[i].id = k}

\* The last call with an id in a batch, and the latest of some steps.
LastCall(calls, k) ==
  CHOOSE j \in DOMAIN calls : calls[j].id = k /\ \A x \in DOMAIN calls : calls[x].id = k => x <= j
Latest(steps) == CHOOSE s \in steps : \A x \in steps : x <= s

\* Calls of one step do not see each other's results, whatever order they end in: a
\* reference yields the result of the latest earlier step that used the id, in it
\* the last call with the id, and nothing if there is none, even when the model
\* gives one id to several calls (prompt, _call_tool, _resolve_args).
ReferencesReadEarlierSteps ==
  phase = "tools" =>
    \A i \in DOMAIN read : \A k \in DOMAIN read[i] :
      LET earlier == {s \in Uses(k) : s <= step}
          s == Latest(earlier)
      IN  read[i][k] = IF earlier = {} THEN Missing
                       ELSE record[s].results[LastCall(record[s].calls, k)]

\* An agent that ends returns the output of the last step that had one, also when
\* later steps only called tools, the model stopped answering or the steps ran out.
LatestAnswerIsReturned ==
  phase = "ended" =>
    LET answers == {s \in DOMAIN record : record[s].output}
    IN  IF answers = {} THEN final = NoStep ELSE final + 1 \in answers /\ \A s \in answers : s <= final + 1
==============================================================================
