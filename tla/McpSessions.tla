----------------------------- MODULE McpSessions -----------------------------
(***************************************************************************)
(* The MCP sessions of a FunctionKernel (kavalai/functionkernel.py).  The  *)
(* runs of one engine share its kernel: a tool call connects to its server *)
(* unless a session is in mcp_sessions, and every run closes the kernel    *)
(* when it ends.  The tool calls of an agent's step run concurrently, too. *)
(*                                                                         *)
(* A call connects at most once, so a connection is named by the call that *)
(* opens it.  It has two context managers, the transport and the session.  *)
(* A run starts and waits for its calls; only then does it close.          *)
(***************************************************************************)
EXTENDS Integers, Sequences, SequencesExt

CONSTANTS Runs,       \* runs of the engine that owns the kernel
          Calls,      \* MCP tool calls, each made at most once
          RunOf,      \* the run that makes a call
          Servers,    \* registered MCP servers
          None

ASSUME McpAssumption ==
  /\ RunOf \in [Calls -> Runs]
  /\ None \notin Calls

VARIABLES
  run,        \* idle, walk, closing (suspended in close()), ended
  call,       \* the await each tool call is suspended at
  server,     \* the server a call is connecting to
  sessions,   \* mcp_sessions: the connection registered for a server, or None
  cleanups,   \* mcp_cleanups, in the order of the appends
  open,       \* context managers entered and not yet asked to exit
  at,         \* where the reversed iterator of a closing run is (1-based)
  clash       \* history: some run was closing while a call was connecting

vars == <<run, call, server, sessions, cleanups, open, at, clash>>

Transport(c) == [conn |-> c, part |-> "transport"]
Session(c) == [conn |-> c, part |-> "session"]
Entries == [conn : Calls, part : {"transport", "session"}]
Connecting == {"entering", "opening", "initializing"}

Init ==
  /\ run = [r \in Runs |-> "idle"]
  /\ call = [c \in Calls |-> "idle"]
  /\ server = [c \in Calls |-> None]
  /\ sessions = [s \in Servers |-> None]
  /\ cleanups = <<>>
  /\ open = {}
  /\ at = [r \in Runs |-> 0]
  /\ clash = FALSE

Await(c, label) == call' = [call EXCEPT ![c] = label]

Forget(c) == server' = [server EXCEPT ![c] = None]

\* The exception of an await leaves the call; what was entered stays in cleanups.
Raises(c) ==
  /\ Await(c, "done")
  /\ Forget(c)
  /\ UNCHANGED <<sessions, cleanups, open>>

\* __aenter__ of a context manager returns, and it is appended to mcp_cleanups.
Entered(e) ==
  /\ open' = open \cup {e}
  /\ cleanups' = Append(cleanups, e)

(***************************************************************************)
(* _get_mcp_session and _call_mcp_tool                                     *)
(***************************************************************************)
StartRun(r) ==
  /\ run[r] = "idle"
  /\ run' = [run EXCEPT ![r] = "walk"]
  /\ UNCHANGED <<call, server, sessions, cleanups, open, at>>

\* A registered session is used at once; otherwise the transport is entered.
StartCall(c) ==
  /\ run[RunOf[c]] = "walk"
  /\ call[c] = "idle"
  /\ \E s \in Servers :
       IF sessions[s] # None
       THEN Await(c, "using") /\ UNCHANGED server
       ELSE Await(c, "entering") /\ server' = [server EXCEPT ![c] = s]
  /\ UNCHANGED <<run, sessions, cleanups, open, at>>

\* Mutant: the transport is entered but only appended together with the session.
EnterTransportUnlisted(c) ==
  /\ call[c] = "entering"
  /\ \/ /\ open' = open \cup {Transport(c)}
        /\ Await(c, "opening")
        /\ UNCHANGED <<server, sessions, cleanups>>
     \/ Raises(c)
  /\ UNCHANGED <<run, at>>

EnterTransport(c) ==
  /\ call[c] = "entering"
  /\ \/ /\ Entered(Transport(c))
        /\ Await(c, "opening")
        /\ UNCHANGED <<server, sessions>>
     \/ Raises(c)
  /\ UNCHANGED <<run, at>>

EnterSession(c) ==
  /\ call[c] = "opening"
  /\ \/ /\ Entered(Session(c))
        /\ Await(c, "initializing")
        /\ UNCHANGED <<server, sessions>>
     \/ Raises(c)
  /\ UNCHANGED <<run, at>>

\* mcp_sessions[server_name] = session, whatever was registered meanwhile.
Register(c) == [sessions EXCEPT ![server[c]] = c]

\* The handshake needs both managers: once __aexit__ was called nothing answers.
Initialize(c) ==
  /\ call[c] = "initializing"
  /\ \/ /\ {Transport(c), Session(c)} \subseteq open
        /\ sessions' = Register(c)
        /\ Await(c, "listing")
        /\ Forget(c)
        /\ UNCHANGED <<cleanups, open>>
     \/ Raises(c)
  /\ UNCHANGED <<run, at>>

\* An error of list_tools is swallowed: the tool is called all the same.
ListTools(c) ==
  /\ call[c] = "listing"
  /\ Await(c, "using")
  /\ UNCHANGED <<run, server, sessions, cleanups, open, at>>

\* session.call_tool returns or raises.
Reply(c) ==
  /\ call[c] = "using"
  /\ Await(c, "done")
  /\ UNCHANGED <<run, server, sessions, cleanups, open, at>>

(***************************************************************************)
(* close()                                                                 *)
(***************************************************************************)
\* Mutants: the loop runs forward; the table of sessions is not cleared.
ForwardItem(i) == cleanups[Len(cleanups) + 1 - i]
KeepSessions == sessions

\* reversed(self.mcp_cleanups) yields by index, in the list as it is now.
Item(i) == cleanups[i]
ClearedSessions == [s \in Servers |-> None]

\* One turn of the loop: ask the next manager to exit and await it (its exception
\* is logged), or, when the index is outside the list, clear both and return.
Iterate(r, i) ==
  IF i \in DOMAIN cleanups
  THEN /\ open' = open \ {Item(i)}
       /\ at' = [at EXCEPT ![r] = i - 1]
       /\ run' = [run EXCEPT ![r] = "closing"]
       /\ UNCHANGED <<sessions, cleanups>>
  ELSE /\ sessions' = ClearedSessions
       /\ cleanups' = <<>>
       /\ at' = [at EXCEPT ![r] = 0]
       /\ run' = [run EXCEPT ![r] = "ended"]
       /\ UNCHANGED open

\* The finally block of the run; its calls have returned or raised.
StartClose(r) ==
  /\ run[r] = "walk"
  /\ \A c \in Calls : RunOf[c] = r => call[c] \in {"idle", "done"}
  /\ Iterate(r, Len(cleanups))
  /\ UNCHANGED <<call, server>>

ContinueClose(r) ==
  /\ run[r] = "closing"
  /\ Iterate(r, at[r])
  /\ UNCHANGED <<call, server>>

(***************************************************************************)
(* Specification                                                           *)
(***************************************************************************)
Clashing ==
  /\ \E r \in Runs : run[r] = "closing"
  /\ \E c \in Calls : call[c] \in Connecting

CallStep(c) ==
  \/ StartCall(c) \/ EnterTransport(c) \/ EnterSession(c)
  \/ Initialize(c) \/ ListTools(c) \/ Reply(c)

Done == (\A r \in Runs : run[r] = "ended") /\ UNCHANGED vars

Next ==
  \/ /\ \/ \E r \in Runs : StartRun(r) \/ StartClose(r) \/ ContinueClose(r)
        \/ \E c \in Calls : CallStep(c)
     /\ clash' = (clash \/ Clashing')
  \/ Done

Spec == Init /\ [][Next]_vars

(***************************************************************************)
(* Properties                                                              *)
(***************************************************************************)
Listed == ToSet(cleanups)
Quiet == \A r \in Runs : run[r] \in {"idle", "ended"}

\* The types of the kernel's state; a manager is in mcp_cleanups once.
TypeOK ==
  /\ run \in [Runs -> {"idle", "walk", "closing", "ended"}]
  /\ call \in [Calls -> Connecting \cup {"idle", "listing", "using", "done"}]
  /\ server \in [Calls -> Servers \cup {None}]
  /\ sessions \in [Servers -> Calls \cup {None}]
  /\ IsInjective(cleanups) /\ Listed \subseteq Entries
  /\ open \subseteq Entries
  /\ at \in [Runs -> Nat]
  /\ clash \in BOOLEAN

\* As long as no run closes the kernel while another one connects, every manager
\* that was entered and not asked to exit is in mcp_cleanups, whichever await
\* failed and however many calls connected to one server at once; and when the
\* last run has closed, the kernel is empty.
NothingIsForgotten ==
  /\ ~clash => open \subseteq Listed
  /\ Quiet => cleanups = <<>> /\ \A s \in Servers : sessions[s] = None

\* Even when closing and connecting overlap, a session that was asked to exit is in
\* mcp_sessions only while some run is still inside close(): a later run never
\* finds a dead session.
DeadOnlyWhileClosing ==
  \A s \in Servers : sessions[s] # None =>
    \/ {Transport(sessions[s]), Session(sessions[s])} \subseteq open
    \/ \E r \in Runs : run[r] = "closing"

\* A transport is never asked to exit under a session that is still entered, as long
\* as closing and connecting do not overlap: the appends of concurrent connections
\* interleave, and the reversed order keeps each pair in order.
SessionExitsFirst ==
  ~clash => \A c \in Calls : Session(c) \in open => Transport(c) \in open

\* "Cleanup all MCP sessions." (functionkernel.py:358): when no run is in progress,
\* every manager that was entered has been asked to exit.
CleanupAll == Quiet => open = {}
==============================================================================
