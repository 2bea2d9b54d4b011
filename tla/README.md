# Kaval.AI: a TLA+ verification project

Kaval.AI is a Python framework for agents and workflows: a YAML document is
parsed into a graph of nodes, an engine walks the graph, nodes call language
models and tools, and storage keeps agents, sessions, runs and conversations.
Everything below runs on one asyncio event loop per process and suspends only
at an `await`; what is hard about this code is therefore what may happen
between two awaits of the same coroutine, and what a failed await leaves
behind. Source paths are relative to `src/kavalai/`.

## 1. Inventory

| Component | State | Operations | What is hard | What makes it correct |
| --- | --- | --- | --- | --- |
| **Workflow graph** `workflow/models.py` | the validated definition | `validate_graph`, `node_map`, `_transition_targets`, the engine's `_next_node` | cycles are legal; a switch may have no default; names come from a document | what the validator accepts is closed under routing |
| **Workflow engine** `workflow/engine.py` | `WorkflowState` per run; `self._token_stats`, the kernel and the task logger are shared by all runs | `run`, `_walk`, `_execute_node`, `_finish`, `_record_failure` | overlapping runs of one engine; database and tool failures between the writes of one run; two kinds of exceptions take two paths | a run ends; its row, its conversation and its exception agree; one run's totals are its own |
| **Task logger** `workflow/tasklog/` | `_background_tasks`, the accumulator's counters, the SQLite connection | `log_node`, `log_model_call`, `flush`, `close`, `receive_model_stats` | writes are background tasks of a logger all runs share; the first write opens the connection, all share its transaction; a failure is only logged | the writes of a run's records have ended when it returns, and what they stored is within reach |
| **LLM call and streamer** `llm_clients/` | a queue, the list of active names, retry counters | `stream_chat_completions`, `chat_completions`, `with_retry`, `Streamer.__anext__` | the consumer's timeout does not stop the background task; a retry streams into the queue of the failed attempt | an answer is one attempt's response; the caller is released; a call is counted at most once, and an answered one unless its statistics could not be sent |
| **Agent service** `agent_service.py`, tables in `db.py` | agents, sessions, runs, messages, task rows | `initialize_workflow_run`, `update_run`, `add_chat_message`, `get_chat_history`, `delete_history_*`, task and statistics rows | select-then-insert without uniqueness constraints; the limit of the history; commit followed by refresh | conversations do not mix and are replayed whole |
| **Agent loop** `agent.py` | the steps and the planner context of one prompt | `prompt`, `_call_tool`, `_resolve_args` | the tool calls of a step run concurrently; call ids come from the model | a reference reads the result it names; the loop ends |
| **Function kernel** `functionkernel.py` | registries, `mcp_sessions`, `mcp_cleanups` | registration, `call_tool`, `_get_mcp_session`, `close` | check-then-act across awaits; every run closes what all runs share; MCP tools are known only once a call has connected | whatever was opened is closed, in reverse order, once the kernel is closed |
| **Run context and resolvers** `run_context.py`, `resolvers.py`, `workflow/expressions.py` | the data of a run | path resolution, branch expressions | missing and `None` values, types of literals | total, deterministic evaluation |
| **Builder and renderer** `workflow/builder.py`, `workflow/render.py` | a graph under construction; rows of a diagram | the fluent interface, `_back_edges`, `_assign_depths` | loops, unreachable nodes, inferred transitions | the layout ends; the arrows between reached nodes point down |
| **Retrieval** `rag/` | collections, the registry and its cache, chunks; one index file and its connections | create, drop, index, search, delete, export | two processes and one registry; pagination under writes; a scan that skips what does not fit; locks that refuse a commit; an approximate index | one dimension per collection; an export lists every surviving row once; a search's window loses no source |
| **Embeddings, normalizer, projector** | a cached projection per collection | `compute_embeddings`, training, `query_rag` | batching, overlapping trainings | one vector per text, in order; a projection is of one training |
| **Database manager, browser store** `db.py`, `idb.py` | an engine cache; a file in memory and its copy in IndexedDB | `get_manager`, `init_sqlite`, flush | two tasks initialise at once, a page reload, another schema version | what was flushed survives |
| **Backoffice** `backoffice/` | users, projects, members | create, invite, remove, transfer; views of sessions and statistics | "an owner remains" is checked before the change, not with it; a view is several statements | a project has an owner; a view agrees with itself |
| **Agent server and client** `server.py`, `client.py` | the shared engine; the session id | one route; schema discovery; session continuity | requests overlap, time out and are answered out of order | a session id is used once it is known |
| **Conversions** `schema_parser.py`, `kwargs_mapper.py`, `workflow_model.py` | none | parsing | none of it is stateful | |
| **Tools** `tools/index_csv.py` | a file, a collection | import in batches, `--replace` | an import stops between two transactions and is repeated | what is stored is what the file says |
| **Migrations, frontend, web widget** | | scripts, user interface | | |

How they interact: the server calls `WorkflowEngine.run` for every request on
one engine. A run opens its row and its session through the agent service,
walks the graph, builds an LLM client per node around the engine's token
accumulator, calls tools through the engine's kernel, hands records to the task
logger and, in a `finally` block, closes the kernel, reads the accumulator and
flushes the logger. A model call is a background task that talks to its caller
through a queue.

The hazards of these components, each at its line and with the properties that
would notice it going wrong, are listed in `PROJECT.json`.

## 2. Plan

Done, in the order of what the system is for:

1. `WorkflowGraph`, `WorkflowEngine`, `RunLifecycle` (abstract): the engine, its
   collaborators' failures, overlapping runs.
2. `LlmStream`, `ModelCall` (abstract): one model call.
3. `Conversations`: agents, sessions, messages of overlapping turns.
4. `McpSessions`: the connections of the shared kernel.
5. `AgentLoop`: the steps of an agent, concurrent tool calls of one step,
   references by call id, the tools an agent is told about.
6. `RagCollections`, `RagSqlite`, `RagSearch`: the two storage backends and what a
   search returns.
7. `Backoffice`: users, projects and members under overlapping requests.
8. `TaskStore`, `BrowserStore`, `AgentRemote`, `Console`, `CsvIndex`, `Projection`,
   `RenderLayout`: the stores, the client, the views and the tools around the engine.

9. Proofs: every safety property of the runs above, for every value of the constants
   (section 6).

Left: `WorkflowEngine` with `ModelCall` in place of its own actions for the
outcome of a call; sessions split by overlapping first turns (`Conversations`)
together with the client's continuity (`AgentRemote`); expressions against a
reference definition; two browser tabs over one store.

Theorems left: those of these compositions, once they are modelled. Liveness stays
with the model checker.

## 3. The modules and the code

### WorkflowGraph, WorkflowEngine

`WorkflowGraph` holds the node types and the five checks of `validate_graph` as
one operator each; `NextNode` is `_next_node` as a relation: what a branch
expression evaluates to is any value, an error included.

`WorkflowEngine` has one action per stretch of `run()` between two awaits. `pc`
names the await a run is suspended at:

| label | await | left by |
| --- | --- | --- |
| `idle` | not called yet | `Start` |
| `init`, `user` | `initialize_workflow_run`, the first `add_chat_message` | `InitializeRun`, `AddUserMessage` |
| `walk` | between two nodes | `ExceedVisits`, `VisitRoutingNode`, `VisitWorkNode`, `VisitEndNode` |
| `prepare` | resolving inputs, reading the history, building the client | `Prepared`, `PrepareFails` |
| `calling` | a model call (an agent makes up to `max_steps`) | `ModelReply`, `AgentExhausted`, `ModelFails` |
| `tool` | `kernel.call_tool` | `ToolReply`, `ToolFails` |
| `finish_run`, `finish_msg` | the two writes of `_finish` | `FinishUpdateRun`, `FinishAddMessage` |
| `record` | `update_run` of `_record_failure` | `RecordFailure` |
| `closing`, `flushing` | `kernel.close()`, `task_logger.flush()` of the `finally` block | `Close`, `Flushed` |

`RaiseWorkflow`, `RaiseError` and `RaiseEarly` are the three ways an exception
leaves: `except WorkflowException: raise`, `except Exception` with the failure
recorded, and an exception before the `try` block. `engineAcc` is
`self._token_stats`, the one variable of the engine that every run overwrites;
`client[r]` is the accumulator captured when the client of a node was built.
A database call ends `ok`, `fail` (nothing written) or `lost` (committed, but
the refresh after the commit raises). An abandoned model call (`late`) goes on
in the background and may answer at any time: `LateReply`, `LateFailure`.
`pending` are the logger's background writes, `WriteDone` completes one.

Data are abstracted to names: `data[r]` is the set of variables that hold a
value, `row[r]` says which context the row carries (`null`, `final`, `failed`)
and whether it has an output. What prompts, tools and models compute is left
out, and so are log lines and timings.

`RunLifecycle` is what a caller and a reader of the runs table may rely on: a
call is active once; its record is opened once, becomes final or failed only
while the call is active, never goes back, and is final when the call returns.

### LlmStream, ModelCall

The background task (`BeginAttempt`, `StreamPartial`, `Complete`,
`AttemptFails`, `Wake`), the queue, and a consumer that is either
`chat_completions` or an application iterating over the `Streamer` (`Receive`,
`TimesOut`). Time is counted in seconds (`Tick`): `asyncio.sleep` of a backoff
and `asyncio.wait_for` of the consumer are the two timers. `active` is the
number of names on `_active_streamer_names`, which a failed attempt does not
take off. The provider is external: it may stream, complete, raise one of three
classes of errors, or never return. `Complete` is the end of the provider's
stream and the statistics sent after it, `StatisticsFail` the same when the step
between them raises (Gemini and Ollama queue the complete chunk first): the consumer
may already have its answer, the call is not counted, and since the exception is not
one of those that are retried, the call ends with it. `ModelCall` states what the
engine builds on: an answer only of a call that completed, a count at most once,
possibly after the caller gave up, and no uncounted answer but where the statistics
could not be sent. `ModelRecords` is the engine's side of it: a reply with or without
a count.

### Conversations

The selects, the single commit and the inserts of `initialize_workflow_run`,
`add_chat_message`, `get_chat_history` and the deletions, by turns that overlap.
A transaction sees what others have committed. Tables are sets of rows. A row is
named after the turn that created it; `clock` orders the sessions' `created_at` and
`said` the messages'. Turns come with an
external id, with a session id an earlier answer returned, with both, with
neither, or with an id that does not exist.

### McpSessions

`_get_mcp_session` is three awaits (`EnterTransport`, `EnterSession`,
`Initialize`), each of which may raise; a context manager is appended to
`mcp_cleanups` in the step in which its `__aenter__` returned. `close` is
`Iterate`: the reversed iterator of a Python list goes by index in the list as
it is *now*, one `__aexit__` is awaited per turn of the loop, and then both
tables are cleared. `open` holds the managers that were entered and not yet
asked to exit. Two assumptions about code outside the repository: a manager that
was asked to exit no longer answers a handshake, and what `__aexit__` raises is
an `Exception`, which `close` logs. A run closes only when its own calls have
ended: the tool calls of a step are gathered, and `_call_tool` of the agent turns
their exceptions into results. `clash` is a history variable.

### AgentLoop

`Agent.prompt` over the tools of a kernel. `Render` is `get_tool_descriptions`,
`Answer` the model's step output after its calls have been named, `StartTool` a
task of `asyncio.gather` that resolves its references (they start in order),
`FinishTool` its return, in any order, and `EndStep` the loop over the results,
the record of the step and the decision to go on. `planner_context` changes only in
`EndStep`. Call ids are chosen by the model, automatic ids included, so one id may
name several calls. Registration, discovery of an MCP server's tools by the first
call that reaches it and the ways a call fails are the kernel's part in it; how it
connects is `McpSessions`.

### RagCollections, RagSqlite, RagSearch

`RagCollections` is `PostgresRagService`, one per process, each with a cache of the
registry that no other process invalidates. `pc` names the await of a call: embedding,
loading the entry, provisioning, the operation's own statement, the assignment to the
cache after the commit. A statement that takes the table's lock is one step with its
commit. A drop that finds its table gone takes no lock, so `DropNothing` and
`DeleteEntry` are two steps: another service may provision the collection in between,
whose registry entry is then deleted. `stranded` is the history of such tables. `owed`
says that the usage of an embedding call was added to the session and not
committed. A page of an export is any sequence that is what `ORDER BY id LIMIT n`
returns (`IsPage`), which leaves exactly one. `RagSqlite` is the service over one file
with several connections and the vector extension's per-connection initialisation; its
coroutines suspend only in the embedding call and between two rows of an export.
Between services the file's locks count: an unfinished export of another service makes
a `commit()` raise after the statement was executed, and nothing rolls back. `txn` says
what transaction a connection has open, `pending` the rows as it sees them; its next
commit stores them. External: SQLite with a rollback journal, its default. Waiting out
the busy timeout is not modelled; it only postpones the error.
`RagSearch` is what a search returns as a function of the chunks ranked by distance; a
result is the set of its ranks, since every result is ordered by distance, and `Limit`
is SQL's: `PostgresKeepBest` ranks inside a window, `SqliteKeepBest` scans everything,
and the similarity matrix is derived from a search or aggregated in SQL. PostgreSQL's
search goes through an HNSW index: `found` are the chunks its scan comes across, all of
them when the planner sorts the table instead, otherwise some `EfSearch` (40, which the
code does not change and which is below the smallest window of 100) without those that
the approximation missed; the filter by source comes after it. `mine` are the chunks of
the service's own model, to which only SQLite limits a search. Filters over
metadata, the full text of queries and the arithmetic of distances are left out.

### Backoffice

A request is a handler; `at` is the statement it awaits: authorisation, the select
of the membership, the count of owners, the write, the second insert of a creation.
`CutShort` ends a request at any of them (an error, a refused write, a stopped
process); what it had committed stays. Foreign keys and their cascades are part of the
actions that write. `orphaned` and `outdated` are history: they carry the exceptions
`OwnerRemains` names.

### TaskStore, BrowserStore

`TaskStore` is where the background writes go. In SQLite a write connects if the
logger has no connection, which takes three awaits (`Opened`, `Scripted`, `Created`);
then it inserts and commits. Each of these may raise, which ends the write with a
logged error and nothing else. All writes share the connection and so its open
transaction (`pending`): one's commit stores what the others inserted, and an error
may roll their rows back (`undone`). With `:memory:` each connection is a database of
its own. `close()` flushes, closes the connection and forgets it; that closing itself
raises is not modelled. In PostgreSQL a write is a session of its own.
`BrowserStore` is the file of a browser page: `Mount` and `Load` bring it from
IndexedDB, `Copy` and `Store` take it back, `Reload` loses the page and starts one
of another version perhaps. `doing` names what a task awaits; `mounted` is
`_mounted`, `mountPoint` the file system's own mount table, which a failed load
leaves behind. External: IndexedDB applies the transactions of a page in order, and
`syncfs(False)` reads the file some time after it was called.

### AgentRemote

A client with overlapping calls, each of which discovers the schemas if they are
unknown, builds its payload from the session of the latest answer, and is answered,
refused, or given up while the server goes on. `RunAgent` is the server's handler,
in which the engine finds or opens the session (`Conversations` has its statements).

### Console

The backoffice's views as sequences of statements, `DetailStatements` and the
others in the order of the code, each of which sees what is committed when it runs,
while agents record runs, tasks and messages and history is deleted. Task and message
rows are counts per run; `shown`, `left` and `got` say which view a viewer has opened,
which statements are still to come and what the others returned. The list of sessions
has a limit and an offset, which its rows obey and its total does not (`Pages`,
`RowCount`). The filters by agent and by dates of creation, which never change, are
the set of sessions a list or a summary is `among`.

### CsvIndex, Projection, RenderLayout

`CsvIndex` is the import: a batch deletes its sources' rows (with `--replace`),
embeds its texts and inserts, each in a transaction, and may stop in between. A batch
is its rows `InOrder` of the file; `Embeddings` is the one difference between providers
that matters here, and `Chunks` is the `zip` of texts and vectors. `Projection`
is the training of a collection's two-dimensional projection and a query's use of it;
a model and its sample points are named after the training they are from.
`RenderLayout` runs the depth-first search and the relaxation of `render.py` over
every small graph, step by step; the finished diagram is compared with what leads
where (`Leads`: a set that holds the one node and that no arrow leaves holds the other).
A node that the start does not reach is parked below the others whatever its arrows lead
to, so one of its arrows to a reached node points up without closing a loop.

### Conventions

`MC*` modules only fix constants and symmetry. An operator whose comment starts
with "Mutant" is a plausible bug in the definition that follows it or that it
stands next to; putting it in that definition's place makes TLC violate the
property it is paired with in `PROJECT.json`, which shows that the property
constrains the code. No definition of the models uses them.

## 4. The runs

| run | shows | instance |
| --- | --- | --- |
| `engine_run` | the walk stays in the graph and follows it; a run that returned is durable; answer, record and exception agree after every combination of failures; every run ends; the engine implements `RunLifecycle` | one run, three valid graphs (tool and switch without default, a cycle, an agent) and seven that validation rejects, all database outcomes, 5 visits: the cycle is taken twice and the cap is reached. 2,699 states |
| `engine_shared` | flush leaves none of a run's records unwritten, those of abandoned calls excepted; the newest run reports at least its own counted calls; an ended run is frozen | two runs, an agent of two model calls, late answers, background writes; no agent service, whose steps touch nothing shared. 1.7 million states |
| `engine_token_leak` | **violated**: totals of overlapping runs leak | two runs, a cycle |
| `llm_stream` | an answer is one attempt's response; the last silent retry is unheard; `ModelCall` is implemented; caller and background task end | 3 retries, patience 6, delays 1, 2, 4 (see below). 68 thousand states |
| `conversations` | rows stay whole; conversations do not mix; only overlapping first turns duplicate; a turn sees what was said before it | three turns, one external id, a history limit of 4 and one deletion; interchangeable turns. 5.7 million states |
| `conversations_replay` | **violated**: beyond the limit the newest message is missing | two turns, limit 2 |
| `mcp_sessions` | nothing is forgotten unless closing and connecting overlap; a dead session is registered only during a close; a session exits before its transport | three runs, one of two concurrent calls, one of one, one of none, two servers. 2 million states |
| `mcp_leak` | **violated**: a connection opened during a close is forgotten | the same with one server |
| `retrieval` | the registry describes the tables, stranded ones excepted; exports are complete; usage is recorded; no row is one a scan skips; the window of a search loses nothing that the index has found, while it allows it | two services of different models with one client each over one collection, two calls each; three coroutines on two connections to one file, two uses each; rankings of 2 to 12 sources at and around the limits of the window, found whole or by an index scan that misses some. 955 thousand states |
| `services` | the eleven properties of the modules of section 3 from `AgentLoop` on, except retrieval's | see below. 1.1 million states |
| `last_owner` | **violated**: two overlapping requests take the last owners away | two users, two requests |
| `csv_replace` | **violated**: the second batch deletes what the first one indexed | three rows of two sources, batches of two |

`retrieval` and `services` put components that share nothing side by side: a
variable `part` chooses one of them in the initial state and only that one moves, so
a run explores the sum of their behaviours and not the product. The parts that stand
still begin in one fixed state. Both runs say `CHECK_DEADLOCK FALSE`, because the
parts really stop: an agent ends, an import is done, the bound on calls is used up.

The instances of `services`: an agent of two steps with up to two calls each, of
three tools, where one step may use an id twice and refer to it; two users, one
project and two overlapping requests of every kind; three background writes, each of whose
awaits may fail; three client calls with one external id or none; all graphs of three nodes with up to two
arrows each, one of which may lead nowhere; all files of three rows of two sources,
imported up to twice, by either kind of provider; three trainings and a query; two
sessions with two runs read by one viewer, in pages of one; two tasks of a page, two rows and two
schema versions. Users and requests are interchangeable (symmetry); no liveness is
checked in this run. Two is the number that races in each of these components; a
third write lets a connection be replaced twice, a third training overlaps with two
that already committed.

Why the other bounds are enough. Runs of one engine share four things only (the
accumulator, the kernel, the logger's set, the database), and each of them is
met by two runs; three runs in `mcp_sessions` add an iterator that survives a
clear and a refilled list. `LlmStream` with the defaults (5 retries, patience 30,
delays 1, 2, 4, 8, 16) was checked once and has 5.8 million states; the run
keeps the one relation the numbers are in, that the delays before the last
attempt exceed the patience (1+2+4 > 6 as 1+2+4+8+16 > 30) and those before the
attempt ahead of it do not. One chunk of each kind per attempt suffices, because
attempts are told apart by number. Three turns are the least that has two
overlapping first turns and a later one; `conversations` leaves out the outcome
`lost`, whose effect on a single run `engine_run` covers. Except in the two runs
named above deadlock is checked; a step `Done` or `Idle` stands for a system with
nothing left to do. The type invariants of `LlmStream`, `Conversations`,
`McpSessions` and `RagCollections` are definitions of the modules that no
configuration names: their other invariants fail first on a state that has lost its
shape, and they are proved (section 6).

Fairness. `WorkflowEngine` assumes that the event loop drives a run that was
started and every background write: its awaits end, because a model call has a
timeout (`ConsumerEnds` of `LlmStream` is that assumption's justification) and
drivers and tools return or raise. Nobody has to start a run, and an abandoned
call never has to answer. `LlmStream` assumes that time passes and that whoever
can run does; nothing is assumed of the provider, whose call may hang for ever
(the Gemini client is built without a timeout), so `ProducerEnds` says that the
background task ends or is stuck in the provider. All other modules check safety
only: nothing in them waits for anything but a database or a provider.

## 5. Where code and documentation disagree

Five runs end in a violation; in each the property is what a comment, a docstring,
a message or a tutorial says, quoted in `PROJECT.json` with its line.

* `TotalsNeverLeak` (engine.py:336): `run` stores its accumulator on the engine,
  so of two overlapping runs the first reports the calls of the second. The check
  `NewestRunCountsItsCalls` bounds the damage.
* `TurnSeesItsMessage` (docs/tutorials/observability_storage.rst:37): the history is
  cut at its newest end.
* `CleanupAll` (functionkernel.py:358): a connection appended while another run
  iterates in `close` is cleared without being closed. `NothingIsForgotten` shows
  that this overlap is the only way.
* `MembersKeepAnOwner` (backoffice/project_service.py:162): two overlapping requests
  each count two owners and then take one away. `OwnerRemains`, proved for any
  number of requests, shows that it takes such an overlap, a deleted user or an
  interrupted creation.
* `ReplaceKeepsImport` (tools/index_csv.py:196): `--replace` deletes per batch, so of
  a source in two batches only the last batch's rows remain. `ImportReplaces` says
  what holds.

Four more divergences are part of the models, where they can be seen in the
definitions named, without a run of their own: a `WorkflowException` (the visit
cap, a switch without match, a failed tool) skips `_record_failure`, although its docstring
promises a failed run's data in the backoffice (engine.py:388 and :474,
`RaiseWorkflow`); Gemini's client errors are retried at once, although the tutorial
says that bad requests are raised immediately (with_retry.py:102,
docs/tutorials/llm_clients.rst:201, `AttemptFails`); after a retry an application
that iterates over a stream waits for the timeout after the complete chunk
(streamer.py:211, `active`); and a service that lost the race to create a collection
caches the dimension it asked for, not the one that was registered
(rag/postgres.py:364, `Provisioned`), so its inserts fail at the typed column.

## 6. What is proved

Every safety property, the action property and both refinements that a passing run
checks, for every value of the constants: any number of runs, turns, calls, requests,
viewers, chunks or nodes, any bound on calls and retries, finite or infinite sets of
candidate graphs. A proof uses the named assumption of its module, which says what kind
of value each constant is (`EngineAssumption`, `StreamAssumption`, `RagAssumption` ...)
and which TLC evaluates on the run's instance; `GraphsAssumption` says that a parsed
node has one of the seven types and an agent a natural `max_steps`, `LayoutAssumption`
that a graph gives each node a list of targets. One theorem has a hypothesis
besides, see below.

| module | theorem | states |
| --- | --- | --- |
| `WorkflowEngineProofs` | `TypeCorrect`, `WalkSafe` | `TypeOK`, `WalkStaysInGraph` |
| `WorkflowRecordProofs` | `ReturnedDurable`, `AnswerAfterRecord`, `FailureHonest` | `ReturnedIsDurable`, `AnswerFollowsRecord`, `FailureRecordIsHonest` |
| | `EngineImplementsLifecycle` | `ImplementsLifecycle` |
| | `TracesArePaths` | `TraceIsPath` |
| | `RecordsFlushed`, `NewestCounts`, `EndedFrozen` | `FlushedBeforeEnd`, `NewestRunCountsItsCalls`, `EndedRunIsFrozen` |
| `LlmStreamProofs` | `CallTypeCorrect`, `AnswersAreWhole` | `TypeOK`, `AnswerIsWhole` |
| | `CallRefinesModelCall` | `ImplementsModelCall` |
| | `LastRetryUnheard` | `LastSilentRetryIsUnheard` |
| `ConversationsProofs` | `ConversationTypes`, `RowsAreWhole` | `TypeOK`, `NoDanglingRows` |
| | `ThreadsApart`, `LateTurnsCreateNothing` | `ThreadsDoNotMix`, `LateTurnCreatesNothing` |
| | `TurnsSeeConversation` | `TurnSeesConversation` |
| `McpSessionsProofs` | `McpTypeCorrect`, `NothingForgotten` | `TypeOK`, `NothingIsForgotten` |
| | `SessionsExitFirst`, `DeadWhileClosing` | `SessionExitsFirst`, `DeadOnlyWhileClosing` |
| `RagCollectionsProofs` | `RegistryCorrect`, `UsageCorrect`, `ExportsComplete` | `RegistryDescribesTables`, `UsageIsRecorded`, `ExportIsComplete` |
| | `RowsScanned`, `SqliteExportsComplete` | `EveryRowIsScanned`, `SqliteExportIsComplete` |
| | `SearchComplete` | `SearchIsComplete` |
| `BackofficeProofs` | `RowsCorrect`, `OwnersRemain` | `RowsReferToRows`, `OwnerRemains` |
| | `BrowserTypeCorrect`, `FlushedSurvive` | `BrowserTypeOK`, `FlushedRowsSurvive` |
| | `ViewsConsistent` | `ViewsAgree` |
| `ServiceProofs` | `FlushedKept`, `ClientContinues` | `FlushedWritesAreKept`, `ConversationContinues` |
| | `ProjectionConsistent` | `ProjectionIsOfOneTraining` |
| | `ReferencesEarlier`, `LatestAnswer` | `ReferencesReadEarlierSteps`, `LatestAnswerIsReturned` |
| | `ImportsReplace`, `ReachedPartPointsDown` | `ImportReplaces`, `ReachedArrowsPointDown` |

Almost none of the properties is inductive; what each needs besides is the content of
its proof.

**The engine.** `TypeOK` is not inductive: that a run's next node is a name of
the graph needs to know that the node it is at is one, and that the accumulator a
client was built with exists needs to know that a run past `idle` has set one.
`ControlInv` adds these facts per label, and `TypeInv == TypeOK /\ ControlInv` is
inductive. The core of `WalkSafe` is `NextInGraph`, a fact about the operators
alone: what `ValidateGraph` accepts is closed under `NextNode`. The records
need more: what the last write of a run may be depends on the writes before it,
so `RecordInv` says for every label what the row, the conversation, the status
and the exception are, and the three record properties are consequences of it.
`OthersKept` (a step of one run leaves the others' control and records alone)
reduces every case to the run that moved. The refinement maps `pc` and `exc` to
`call`, and `row` to `record`; `StepRefines` classifies every action of the
engine by its effect on this pair, and `RecordInv` supplies what the abstract
guards ask, above all that a call returns only over a final record. `PathInv` ties the
trace to the visit count and to the node the run is at; `FlushInv` says that a flush
under way awaits every record of its run, and that before the walk there is none;
`TallyInv` that as long as the engine's accumulator is a run's own, so is the one its
client was built with, and that accumulators only count up.

**A model call.** `ActiveInv` counts the names on the active list by attempt,
`BufferInv` says that the buffers hold chunks of the attempt that filled them,
`QueueInv` that a complete chunk is queued only when the call was counted or its
statistics could not be sent, holds its buffer, and comes once; `AnswerInv` follows the chunk to the consumer. `StepRefines` maps
each step to one of `ModelCall` or to a stutter. `LastRetryUnheard` has the
hypothesis `PausesOutlastPatience`: `max_delay` cuts no pause and the pauses before
the last attempt add up to more than the timeout. The default settings satisfy it
(5 retries from 1 second: 1+2+4+8+16 = 31 > 30), and so does the run's instance.
`PauseInv` sums the pauses; that powers of two double is proved by counting subsets
(`PowersOfTwo`, from the library's `FS_SUBSET`, whose own proof in the library
rests on an arithmetic lemma left there without one).

**Conversations.** `RowsInv` is what holds of the tables at every commit, `TurnInv`
what a turn that is under way knows of them: what it read is still there unless
something was deleted. `ShortHistoryIsWhole` is the lemma about the limit: of a thread
shorter than it, nothing is cut, because the oldest message left out would have
a whole limit of messages before it.

**The kernel's connections.** `IInv == TypeInv /\ KernelInv /\ (~clash => OrderInv)`.
While no close and connection overlapped, the transport of a session is listed before
it, whatever is open is listed, and a closing run still has all of it in front of
its iterator (`CloserOf`), or another run has emptied the kernel meanwhile. `KernelInv`
says which states are a clash, and that a quiet kernel is empty.

**Retrieval.** That registry and table agree, but for the stranded, is inductive once
it is known which sizes reach the table (`TypeInv`: only a dimension gets past
`provision`); `OwedInv`
says at which awaits a call may still owe its usage. `ExportInv` and `CursorInv` say of
an export between two pages that it has listed what stays and is not beyond its last
id (`Covers`), and that its ids ascend; the page that comes back empty closes the
argument. `WidthInv`: an initialised service agrees with the file, so no insert stores
a width the scan would skip. `OneWriter`, that at most one connection has changes it
could not commit, is why the others' rows do not move under an export: as long as one
is read by somebody else, no commit reaches the file. `SearchComplete` is a covering
argument over the chunks the index has found: were the nearest of one of the first
`top_k` sources outside the window, the chunks before it, at most `ScanFactor` for each
of fewer than `top_k` sources, would fill it. It does not say that the index finds
a chunk: a source whose chunks all lie beyond `EfSearch` nearer ones, or are missed by the
approximation, is not in the result, which SQLite's scan would have returned.

**The backoffice.** `OwnerRemains` is not inductive: a request that counted two owners
and has not written yet may find one. `OtherOwner` is what it still knows: unless the
members changed since, there is an owner besides the one it takes away. `ChangeSeen`
is the lemma that every change of the members reaches those requests' `outdated`, or
leaves their project alone. The browser page: `PageInv` says that one task loads, and
only before the directory counts as mounted, and that a flush under way is of a file
that still holds what it is to store. `CopyInv` orders the copies on their way: each is
of another task, and a later one contains an earlier one, so applying any number of
them, in order, or none when the page is reloaded, loses nothing that was kept. The
views: `ShownInv` has one case for each prefix of a view's statements that was read,
and says how what they returned compares with the tables now; writers only add rows
or clear whole sessions (`TablesMove`), so the comparison survives them. A page of the
list is read after the total, with the same filters, so sessions can only have been
added (`CountsGrow`) or the deletion is on record.

**The small services.** `WriteInv`, `RowInv` and `ConnInv` of the task store: until the
connection is closed a write that has opened one finds one; an inserted row is in the
open transaction until somebody commits it or an error rolls it back; and without a
race there is one connection that all use. `SessionInv` of the client: once somebody was answered, the
client names the session of an answered call. `PairInv`, `PlanInv` and `ViewInv` of the
projection: both tables are written together, and a training in the middle of its
statements adds its own row or updates one that is still there. `ContextInv`, `ReadInv`
and `FinalInv` of the agent: the context is what the record says of the latest step
that used an id, and what a batch has read is the context before it. `Replaced` of the
import: what is behind the batch at hand is as the file has it. The diagram: `PathInv`
says that the stack is a path whose followed arrows lead to finished nodes or close a
loop, `Ranked` that finished nodes have an order that forward arrows descend, `FirstInv`
that what node 1 leads to is met before any other start; from these a level for each node
exists (`Levels`) that a pass of the relaxation completes, so after `NodeCount` passes
every row is stable.

Sums, sorting and search are stated in the models without recursion (a page, a batch
and a window are given by what characterises them, not by how they are computed), and an
induction over a fixed order is written as the choice of a least counterexample
(`LeastOf`, `LeastNatural`, from the library's `NatLessThanWellFounded`).

Only model-checked: liveness (`EveryRunEnds` of the engine, `ConsumerEnds` and
`ProducerEnds` of a call), because reasoning under fairness is outside the prover. The
properties of the five runs of section 5 are false.

## 7. What is not modelled

* Run context, resolvers and branch expressions: pure evaluation over data. The engine
  takes what they evaluate to, an error included, as a choice.
* The workflow builder: what it produces is a graph that validation accepts or refuses,
  and both kinds are in `engine_run`. Drawing the diagram is text.
* Prompt rendering, the schema parser, parameter mapping: conversions without state.
* The engine cache of `db.py` (a dictionary lookup without an await, whose first
  caller's options bind the others) and column types.
* `get_history_value`, model call statistics and the sums of costs: single queries.
* The streaming response of the server, its web widget's routes, OAuth login, the
  connection test of a project, the RSS reader and the console chat: I/O around
  services that are modelled.
* Embedding arithmetic, normalisation and principal components: numerics. How many
  vectors there are and of which text is in `CsvIndex`.
* Of the backoffice's views: the daily statistics, whose tables are each filtered by
  their own dates and not related to each other (a run of today in a session of last week
  is in one column only), the search for a text, and the sums beside a list.
* How near an HNSW index comes to the nearest chunks, and which plan PostgreSQL takes:
  `RagSearch` lets the scan miss any of some ranks.
* A wait that never ends between two services of one index file: `RagSqlite` has the
  transactions that are left open, and states only what can be seen through them.
* Two browser tabs over one IndexedDB store, each of which copies its whole file over
  the other's; `BrowserStore` has one page at a time.
* Cancellation of a request's coroutine from outside, which the code does not
  handle anywhere; a crash of the process in the middle of a run (storage then holds
  what was committed, and `NoDanglingRows` holds at every step).
* Migrations and the Angular frontend.
