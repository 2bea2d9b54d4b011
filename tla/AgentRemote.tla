----------------------------- MODULE AgentRemote -----------------------------
(***************************************************************************)
(* A client object and the agent server it calls (client.py, server.py).   *)
(* The client discovers the schemas on first use and keeps the session of  *)
(* the last answer for the next call; its calls may overlap, and one may   *)
(* time out while the server still works on it.  The server hands the      *)
(* request to the engine, which opens or continues a session.              *)
(***************************************************************************)
EXTENDS FiniteSets

CONSTANTS ClientCalls, ExternalKeys, NoSession

ASSUME RemoteAssumption == NoSession \notin ClientCalls

VARIABLES
  sid,        \* client.session_id
  schemas,    \* client.input_schema and output_schema are there
  rpc,        \* per call: its await
  given,      \* the external id of the call, or NoSession
  sent,       \* the session id of its payload
  served,     \* the session the server ran it in; a session is named by the call that opened it
  external,   \* the newest session of each external id
  answered,   \* calls whose answer the client received
  lateFor     \* history: the calls that were answered when the call built its payload

remoteVars == <<sid, schemas, rpc, given, sent, served, external, answered, lateFor>>

RemoteInit ==
  /\ sid = NoSession /\ schemas = FALSE
  /\ rpc = [c \in ClientCalls |-> "idle"]
  /\ given \in [ClientCalls -> ExternalKeys \cup {NoSession}]
  /\ sent = [c \in ClientCalls |-> NoSession]
  /\ served = [c \in ClientCalls |-> NoSession]
  /\ external = [k \in ExternalKeys |-> NoSession]
  /\ answered = {}
  /\ lateFor = [c \in ClientCalls |-> {}]

Move(c, label) == rpc' = [rpc EXCEPT ![c] = label]

\* The payload is built after the discovery, from the session of the latest answer.
Send(c) ==
  /\ sent' = [sent EXCEPT ![c] = sid]
  /\ lateFor' = [lateFor EXCEPT ![c] = answered]
  /\ Move(c, "sent")

\* run_agent and stream_agent begin alike.
Begin(c) ==
  /\ rpc[c] = "idle"
  /\ IF schemas THEN Send(c) ELSE Move(c, "discover") /\ UNCHANGED <<sent, lateFor>>
  /\ UNCHANGED <<sid, schemas, given, served, external, answered>>

DiscoverSchemas(c) ==
  /\ rpc[c] = "discover"
  /\ schemas' = TRUE
  /\ Send(c)
  /\ UNCHANGED <<sid, given, served, external, answered>>

\* handle_agent_run: engine.run continues the session of the payload, or the newest
\* of the external id, or opens one; the answer names it.
RunAgent(c) ==
  /\ rpc[c] \in {"sent", "abandoned"} /\ served[c] = NoSession
  /\ LET k == given[c]
         found == IF sent[c] # NoSession THEN sent[c]
                  ELSE IF k # NoSession THEN external[k] ELSE NoSession
         s == IF found = NoSession THEN c ELSE found
     IN  /\ served' = [served EXCEPT ![c] = s]
         /\ external' = IF found = NoSession /\ k # NoSession THEN [external EXCEPT ![k] = s] ELSE external
  /\ UNCHANGED <<sid, schemas, rpc, given, sent, answered, lateFor>>

Receive(c) ==
  /\ rpc[c] = "sent" /\ served[c] # NoSession
  /\ sid' = served[c]
  /\ answered' = answered \cup {c}
  /\ Move(c, "done")
  /\ UNCHANGED <<schemas, given, sent, served, external, lateFor>>

\* Mutant: the session is taken from the answer before its status is looked at.
ForgetOnError == NoSession

KeepOnError == sid

\* 401, 422, 500 or, for stream_agent, 404: the server has no such endpoint.
ErrorStatus(c) ==
  /\ rpc[c] = "sent"
  /\ sid' = KeepOnError
  /\ Move(c, "failed")
  /\ UNCHANGED <<schemas, given, sent, served, external, answered, lateFor>>

\* The timeout of the client, or a lost connection; the server may go on.
Abandon(c) ==
  /\ rpc[c] \in {"discover", "sent"}
  /\ Move(c, IF rpc[c] = "sent" THEN "abandoned" ELSE "failed")
  /\ UNCHANGED <<sid, schemas, given, sent, served, external, answered, lateFor>>

RemoteNext ==
  \E c \in ClientCalls :
    Begin(c) \/ DiscoverSchemas(c) \/ RunAgent(c) \/ Receive(c) \/ ErrorStatus(c) \/ Abandon(c)

RemoteSpec == RemoteInit /\ [][RemoteNext]_remoteVars

\* "Transparently maintaining the conversation session_id across calls" (client.py:32):
\* once an answer has arrived, whatever failed, timed out or was answered out of order
\* since, a call opens no session: it continues that of an answered call.
ConversationContinues ==
  \A c \in ClientCalls :
    served[c] # NoSession /\ lateFor[c] # {} => served[c] \in {served[d] : d \in lateFor[c]}
=============================================================================
