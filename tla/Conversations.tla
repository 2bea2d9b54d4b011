---------------------------- MODULE Conversations ----------------------------
(***************************************************************************)
(* The conversations kept by kavalai/agent_service.py: how concurrent      *)
(* turns (calls of WorkflowEngine.run of one engine, hence of one agent    *)
(* name) find or create the agent and the session they belong to, and what *)
(* an LLM node with use_history reads back.  Each select, commit and insert*)
(* is a step, and a transaction sees only what others have committed; no   *)
(* table has a uniqueness constraint.                                      *)
(*                                                                         *)
(* A row is named after the turn that created it.  Every turn runs the same*)
(* workflow document, so updating an existing agent row changes nothing.   *)
(***************************************************************************)
EXTENDS Naturals, FiniteSets

CONSTANTS Turns, ExternalIds,
          Unknown,       \* a session id that exists nowhere
          Limit,         \* get_chat_history's limit
          MaxDeletes,    \* bound: deletions of history
          DbOutcomes,    \* "ok", "fail", "lost" as in WorkflowEngine
          None

ASSUME ConversationAssumption ==
  /\ None \notin Turns \cup ExternalIds
  /\ Unknown \notin Turns \cup {None}
  /\ Limit \in Nat /\ MaxDeletes \in Nat
  /\ "ok" \in DbOutcomes

VARIABLES
  agents,     \* the committed agent rows of the name
  sessions,   \* the committed sessions: [id, agent, ext, at]
  clock,      \* created_at of the newest session that was flushed
  chat,       \* the rows of chat_messages: [session, agent, turn, role, at]
  said,       \* created_at of the newest row that was inserted into chat_messages
  pc,         \* where each turn is
  request,    \* the session_id and external_id of the turn
  agent,      \* the agent of the turn's transaction
  session,    \* the session of the turn's transaction
  at,         \* created_at of the session the transaction is to insert; 0: none
  history,    \* what get_chat_history returned to the turn
  known,      \* history: what was committed when the turn started
  deletes     \* deletions so far

messages == <<chat, said>>
rows == <<agents, sessions, messages>>
local == <<request, agent, session, at, history, known>>
vars == <<rows, clock, pc, local, deletes>>

Ids == {s.id : s \in sessions}

\* add_chat_message; the insert fails, is committed, or is committed unnoticed.
Say(t, role, o) ==
  IF o = "fail" THEN UNCHANGED messages
  ELSE /\ said' = said + 1
       /\ chat' = chat \cup {[session |-> session[t], agent |-> agent[t], turn |-> t,
                              role |-> role, at |-> said']}

NoRequest == [session |-> None, ext |-> None]
Nothing == [agents |-> {}, sessions |-> {}, chat |-> {}]
Committed == [agents |-> agents, sessions |-> sessions, chat |-> chat]

Init ==
  /\ agents = {} /\ sessions = {} /\ clock = 0 /\ chat = {} /\ said = 0
  /\ pc = [t \in Turns |-> "idle"]
  /\ request = [t \in Turns |-> NoRequest]
  /\ agent = [t \in Turns |-> None]
  /\ session = [t \in Turns |-> None]
  /\ at = [t \in Turns |-> 0]
  /\ history = [t \in Turns |-> {}]
  /\ known = [t \in Turns |-> Nothing]
  /\ deletes = 0

Goto(t, l) == pc' = [pc EXCEPT ![t] = l]
Proceed(t, l) == Goto(t, l) /\ UNCHANGED local

\* The exception leaves run(): what the turn knew is gone.
Fail(t) ==
  /\ Goto(t, "failed")
  /\ request' = [request EXCEPT ![t] = NoRequest]
  /\ agent' = [agent EXCEPT ![t] = None]
  /\ session' = [session EXCEPT ![t] = None]
  /\ at' = [at EXCEPT ![t] = 0]
  /\ history' = [history EXCEPT ![t] = {}]
  /\ known' = [known EXCEPT ![t] = Nothing]

\* engine.run(..., session_id, external_id): an id comes from an earlier answer.
StartTurn(t) ==
  /\ pc[t] = "idle"
  /\ \E s \in Ids \cup {Unknown, None}, x \in ExternalIds \cup {None} :
       request' = [request EXCEPT ![t] = [session |-> s, ext |-> x]]
  /\ known' = [known EXCEPT ![t] = Committed]
  /\ Goto(t, "agent")
  /\ UNCHANGED <<rows, clock, agent, session, at, history, deletes>>

(***************************************************************************)
(* initialize_workflow_run                                                 *)
(***************************************************************************)
FoundAgent(t, a) ==
  /\ agent' = [agent EXCEPT ![t] = a]
  /\ Goto(t, "session")
  /\ UNCHANGED <<request, session, at, history, known>>

\* scalar_one_or_none: one row, a new agent, or MultipleResultsFound.
SelectAgent(t) ==
  /\ pc[t] = "agent"
  /\ \/ \E a \in agents :
          /\ agents = {a}
          /\ FoundAgent(t, a)
     \/ agents = {} /\ FoundAgent(t, t)
     \/ Cardinality(agents) > 1 /\ Fail(t)
  /\ UNCHANGED <<rows, clock, deletes>>

\* Mutant: the agent's most recent session, whoever it belongs to.
ThreadOfAgent(t) ==
  {s \in sessions :
     /\ request[t].ext # None /\ s.agent = agent[t]
     /\ \A o \in sessions : o.agent = agent[t] => o.at <= s.at}

\* Mutant: an external id always opens a new session.
NoThread(t) == {s \in sessions : request[t].ext # request[t].ext}

\* The agent's most recent session with the external id: none or one.
Thread(t) ==
  {s \in sessions :
     /\ request[t].ext # None /\ s.agent = agent[t] /\ s.ext = request[t].ext
     /\ \A o \in sessions :
          o.agent = agent[t] /\ o.ext = request[t].ext => o.at <= s.at}

Join(t, s) ==
  /\ session' = [session EXCEPT ![t] = s]
  /\ Goto(t, "commit")
  /\ UNCHANGED <<clock, request, agent, at, history, known>>

\* A session_id decides alone; otherwise the external id's thread or a new session,
\* which gets its created_at when it is flushed.
SelectSession(t) ==
  /\ pc[t] = "session"
  /\ \/ request[t].session \in Ids /\ Join(t, request[t].session)
     \/ /\ request[t].session \notin Ids \cup {None}       \* ValueError: rolled back
        /\ Fail(t)
        /\ UNCHANGED clock
     \/ /\ request[t].session = None
        /\ \E s \in Thread(t) : Join(t, s.id)
     \/ /\ request[t].session = None
        /\ Thread(t) = {}
        /\ session' = [session EXCEPT ![t] = t]
        /\ clock' = clock + 1
        /\ at' = [at EXCEPT ![t] = clock + 1]
        /\ Goto(t, "commit")
        /\ UNCHANGED <<request, agent, history, known>>
  /\ UNCHANGED <<rows, deletes>>

\* Mutant: a session is committed before its agent.
CommitSessionFirst(t) ==
  /\ pc[t] = "commit"
  /\ \E o \in DbOutcomes :
       /\ agents' = IF o = "ok" THEN agents \cup {agent[t]} ELSE agents
       /\ sessions' = IF at[t] = 0 THEN sessions
                      ELSE sessions \cup {[id |-> t, agent |-> agent[t],
                                           ext |-> request[t].ext, at |-> at[t]]}
       /\ IF o = "ok" THEN Proceed(t, "user") ELSE Fail(t)
  /\ UNCHANGED <<clock, messages, deletes>>

\* The single commit of agent, session and run, and the refreshes after it.
Commit(t) ==
  /\ pc[t] = "commit"
  /\ \E o \in DbOutcomes :
       /\ IF o = "fail" THEN UNCHANGED <<agents, sessions>>
          ELSE /\ agents' = agents \cup {agent[t]}
               /\ sessions' = IF at[t] = 0 THEN sessions
                              ELSE sessions \cup {[id |-> t, agent |-> agent[t],
                                                   ext |-> request[t].ext, at |-> at[t]]}
       /\ IF o = "ok" THEN Proceed(t, "user") ELSE Fail(t)
  /\ UNCHANGED <<clock, messages, deletes>>

(***************************************************************************)
(* The turn                                                                *)
(***************************************************************************)
\* Mutant: the history is read before the message is stored.
AddMessageLate(t) ==
  /\ pc[t] = "user"
  /\ Proceed(t, "read")
  /\ UNCHANGED <<rows, clock, deletes>>

AddUserMessage(t) ==
  /\ pc[t] = "user"
  /\ \E o \in DbOutcomes :
       /\ Say(t, "user", o)
       /\ IF o = "ok" THEN Proceed(t, "read") ELSE Fail(t)
  /\ UNCHANGED <<agents, sessions, clock, deletes>>

\* ORDER BY created_at ASC LIMIT limit
Oldest(thread) ==
  {m \in thread : Cardinality({o \in thread : o.at < m.at}) < Limit}

GetChatHistory(t) ==
  /\ pc[t] = "read"
  /\ history' = [history EXCEPT ![t] = Oldest({m \in chat : m.session = session[t]})]
  /\ Goto(t, "reply")
  /\ UNCHANGED <<rows, clock, request, agent, session, at, known, deletes>>

\* The model answers and _finish stores the answer, or the turn fails.
Answer(t) ==
  /\ pc[t] = "reply"
  /\ \E o \in DbOutcomes \cup {"fail"} :
       /\ Say(t, "assistant", o)
       /\ IF o = "ok" THEN Proceed(t, "done") ELSE Fail(t)
  /\ UNCHANGED <<agents, sessions, clock, deletes>>

\* delete_history_for_session, delete_history_for_agent
DeleteHistory ==
  /\ deletes < MaxDeletes
  /\ \/ \E s \in Ids : chat' = {m \in chat : m.session # s}
     \/ \E a \in agents : chat' = {m \in chat : m.agent # a}
  /\ deletes' = deletes + 1
  /\ UNCHANGED <<agents, sessions, clock, said, pc, local>>

Over(t) == pc[t] \in {"done", "failed"}
Idle == (\A t \in Turns : Over(t)) /\ UNCHANGED vars

Next ==
  \/ \E t \in Turns :
       \/ StartTurn(t) \/ SelectAgent(t) \/ SelectSession(t) \/ Commit(t)
       \/ AddUserMessage(t) \/ GetChatHistory(t) \/ Answer(t)
  \/ DeleteHistory
  \/ Idle

Spec == Init /\ [][Next]_vars

(***************************************************************************)
(* Properties                                                              *)
(***************************************************************************)
Message == [session : Turns, agent : Turns, turn : Turns, role : {"user", "assistant"},
            at : Nat]
SessionRow == [id : Turns, agent : Turns, ext : ExternalIds \cup {None}, at : Nat]

\* The types of the tables and of the turns.
TypeOK ==
  /\ agents \subseteq Turns
  /\ sessions \subseteq SessionRow
  /\ clock \in Nat
  /\ chat \subseteq Message /\ said \in Nat
  /\ pc \in [Turns -> {"idle", "agent", "session", "commit", "user", "read", "reply",
                       "done", "failed"}]
  /\ request \in [Turns -> [session : Turns \cup {Unknown, None},
                            ext : ExternalIds \cup {None}]]
  /\ agent \in [Turns -> Turns \cup {None}]
  /\ session \in [Turns -> Turns \cup {None}]
  /\ at \in [Turns -> Nat]
  /\ history \in [Turns -> SUBSET Message]
  /\ known \in [Turns -> [agents : SUBSET Turns, sessions : SUBSET SessionRow,
                         chat : SUBSET Message]]
  /\ deletes \in 0 .. MaxDeletes

HasSession(t) == pc[t] \in {"user", "read", "reply", "done"}

\* Rows exist as a whole: whatever transactions overlap, fail or are rolled back, a
\* session's agent is committed, the session of a turn that goes on is committed, and
\* a message belongs to a committed session and a committed agent.
NoDanglingRows ==
  /\ \A s \in sessions : s.agent \in agents
  /\ \A t \in Turns : HasSession(t) => session[t] \in Ids
  /\ \A m \in chat : m.session \in Ids /\ m.agent \in agents

\* Turns share a session only when one of them named it or they gave the same
\* external id.
ThreadsDoNotMix ==
  \A t, u \in Turns :
    t # u /\ HasSession(t) /\ HasSession(u) /\ session[t] = session[u] =>
      \/ request[t].session # None \/ request[u].session # None
      \/ request[t].ext = request[u].ext /\ request[t].ext # None

\* A turn that starts when its agent and its thread are already there creates
\* neither, whatever runs beside it: duplicates come from overlapping first turns.
LateTurnCreatesNothing ==
  \A t \in Turns : HasSession(t) =>
    /\ known[t].agents # {} => agent[t] \in known[t].agents
    /\ \A s \in known[t].sessions :
         request[t].ext # None /\ s.ext = request[t].ext /\ s.agent = agent[t]
           => at[t] = 0

\* A turn sees its own message and everything that was said in its session before it
\* started, as long as the conversation is shorter than the limit.
TurnSeesConversation ==
  \A t \in Turns :
    pc[t] \in {"reply", "done"} /\ Cardinality(history[t]) < Limit /\ deletes = 0 =>
      /\ \E m \in history[t] : m.turn = t /\ m.role = "user"
      /\ {m \in known[t].chat : m.session = session[t]} \subseteq history[t]

\* "the engine writes each turn to storage and replays the conversation on the next
\* one" (docs/tutorials/observability_storage.rst:37-38): the turn's own message, the
\* newest of the conversation, is in what the model is given.
TurnSeesItsMessage ==
  \A t \in Turns : pc[t] \in {"reply", "done"} /\ deletes = 0 =>
    \E m \in history[t] : m.turn = t /\ m.role = "user"
==============================================================================
