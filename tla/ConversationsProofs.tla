------------------------- MODULE ConversationsProofs -------------------------
(***************************************************************************)
(* Proofs about Conversations, for any turns, external ids, history limit  *)
(* and number of deletions.                                                *)
(***************************************************************************)
EXTENDS Conversations, FiniteSetTheorems, WellFoundedInduction, NaturalsInduction, TLAPS

(***************************************************************************)
(* Least and greatest elements                                             *)
(***************************************************************************)
\* A set of naturals that is not empty has a least element.
LEMMA LeastNatural ==
  ASSUME NEW T \in SUBSET Nat, T # {}
  PROVE  \E n \in T : \A m \in T : n <= m
<1>. DEFINE R == {p \in Nat \X Nat : p[1] < p[2]}
<1>1. IsWellFoundedOn(R, Nat)
  BY NatLessThanWellFounded DEF OpToRel
<1>2. PICK n \in T : \A m \in T : <<m, n>> \notin R
  <2>. HIDE DEF R
  <2>1. QED
    BY <1>1, WFMin
<1>3. \A m \in T : ~(m < n)
  BY <1>2
<1>4. QED
  BY <1>3

\* A set of rows stamped with created_at, none newer than the clock, has a newest row.
LEMMA NewestRow ==
  ASSUME NEW S, NEW c \in Nat, \A s \in S : s.at \in Nat /\ s.at <= c, S # {}
  PROVE  \E s \in S : \A o \in S : o.at <= s.at
<1>. DEFINE T == {n \in Nat : \E s \in S : n = c - s.at}
<1>1. PICK s \in S : TRUE
  OBVIOUS
<1>2. c - s.at \in T
  OBVIOUS
<1>3. PICK n \in T : \A m \in T : n <= m
  BY <1>2, LeastNatural
<1>4. PICK x \in S : n = c - x.at
  BY <1>3
<1>5. ASSUME NEW o \in S PROVE o.at <= x.at
  <2>1. c - o.at \in T
    BY <1>5
  <2>2. n <= c - o.at
    BY <1>3, <2>1
  <2>3. QED
    BY <1>4, <1>5, <2>2
<1>6. QED
  BY <1>5

\* Every set of rows that is not empty has an oldest one.
LEMMA OldestRow ==
  ASSUME NEW S, \A s \in S : s.at \in Nat, S # {}
  PROVE  \E s \in S : \A o \in S : s.at <= o.at
<1>. DEFINE T == {n \in Nat : \E s \in S : n = s.at}
<1>1. T # {}
  OBVIOUS
<1>2. PICK n \in T : \A m \in T : n <= m
  BY <1>1, LeastNatural
<1>3. PICK x \in S : n = x.at
  BY <1>2
<1>4. \A o \in S : o.at \in T
  OBVIOUS
<1>5. QED
  BY <1>2, <1>3, <1>4

\* A history shorter than the limit is the whole thread: a message that were left
\* out, the oldest of them, would have at least Limit messages before it, all of
\* them in the history.
LEMMA ShortHistoryIsWhole ==
  ASSUME NEW thread, IsFiniteSet(thread), \A m \in thread : m.at \in Nat,
         Cardinality(Oldest(thread)) < Limit
  PROVE  Oldest(thread) = thread
<1>. DEFINE missing == thread \ Oldest(thread)
<1>1. SUFFICES ASSUME missing # {} PROVE FALSE
  BY DEF Oldest
<1>2. PICK m \in missing : \A o \in missing : m.at <= o.at
  BY <1>1, OldestRow
<1>. DEFINE before == {o \in thread : o.at < m.at}
<1>3. before \subseteq Oldest(thread)
  BY <1>2
<1>4. IsFiniteSet(Oldest(thread)) /\ Oldest(thread) \subseteq thread
  BY FS_Subset DEF Oldest
<1>5. IsFiniteSet(before) /\ Cardinality(before) <= Cardinality(Oldest(thread))
  BY <1>3, <1>4, FS_Subset
<1>6. Cardinality(before) \in Nat /\ Cardinality(Oldest(thread)) \in Nat
  BY <1>4, <1>5, FS_CardinalityType
<1>7. Cardinality(before) < Limit
  BY <1>5, <1>6, ConversationAssumption
<1>8. m \in Oldest(thread)
  BY <1>2, <1>7 DEF Oldest
<1>9. QED
  BY <1>2, <1>8

(***************************************************************************)
(* The inductive invariant                                                 *)
(***************************************************************************)
Entered(t) == pc[t] \in {"session", "commit", "user", "read", "reply", "done"}
Joined(t) == pc[t] \in {"commit", "user", "read", "reply", "done"}
Spoke(t) == pc[t] \in {"read", "reply", "done"}

\* The tables: a session id is used once, by the turn that created it.
RowsInv ==
  /\ \A s \in sessions : s.agent \in agents /\ s.at <= clock
  /\ \A s, o \in sessions : s.id = o.id => s = o
  /\ \A t \in Turns : pc[t] \in {"idle", "agent", "session", "commit"} => t \notin Ids
  /\ \A m \in chat : m.session \in Ids /\ m.agent \in agents
  /\ IsFiniteSet(chat)

\* A turn joined a session that is committed, or is about to commit its own (at is
\* not 0); a session that it found without naming it has its external id.
TurnOf(t) ==
  /\ pc[t] \in {"idle", "agent", "session"} => at[t] = 0
  /\ Entered(t) => agent[t] \in Turns
  /\ HasSession(t) => session[t] \in Ids /\ agent[t] \in agents
  /\ Joined(t) /\ at[t] = 0 => session[t] \in Ids
  /\ at[t] # 0 => session[t] = t
  /\ at[t] # 0 /\ HasSession(t) => \E s \in sessions : s.id = t /\ s.ext = request[t].ext
  /\ Joined(t) /\ at[t] = 0 /\ request[t].session = None =>
       request[t].ext # None /\ \E s \in sessions : s.id = session[t] /\ s.ext = request[t].ext
  /\ at[t] <= clock

\* What a turn knew when it started is still there, and decided what it created; as
\* long as nothing was deleted its message is there, too.
KnownOf(t) ==
  /\ known[t].agents \subseteq agents /\ known[t].sessions \subseteq sessions
  /\ deletes = 0 => known[t].chat \subseteq chat
  /\ Entered(t) /\ known[t].agents # {} => agent[t] \in known[t].agents
  /\ at[t] # 0 => \A s \in known[t].sessions :
       ~(request[t].ext # None /\ s.ext = request[t].ext /\ s.agent = agent[t])
  /\ deletes = 0 /\ Spoke(t) =>
       \E m \in chat : m.turn = t /\ m.role = "user" /\ m.session = session[t]
  /\ pc[t] \in {"reply", "done"} /\ Cardinality(history[t]) < Limit /\ deletes = 0 =>
       /\ \E m \in history[t] : m.turn = t /\ m.role = "user"
       /\ {m \in known[t].chat : m.session = session[t]} \subseteq history[t]

TurnInv(t) == TurnOf(t) /\ KnownOf(t)

IInv == TypeOK /\ RowsInv /\ \A t \in Turns : TurnInv(t)

(***************************************************************************)
(* Steps                                                                   *)
(***************************************************************************)
LocalKept(s) ==
  /\ pc'[s] = pc[s] /\ request'[s] = request[s] /\ agent'[s] = agent[s]
  /\ session'[s] = session[s] /\ at'[s] = at[s] /\ history'[s] = history[s]
  /\ known'[s] = known[s]

\* Agents and sessions are never deleted; messages only by a deletion.
RowsGrow ==
  /\ agents \subseteq agents' /\ sessions \subseteq sessions' /\ clock <= clock'
  /\ deletes' = 0 => deletes = 0 /\ chat \subseteq chat'

\* A turn that does nothing keeps its part of the invariant while the tables grow.
LEMMA StandsStill ==
  ASSUME IInv, NEW s \in Turns, LocalKept(s), RowsGrow, clock' \in Nat
  PROVE  TurnInv(s)'
<1>1. TurnOf(s) /\ KnownOf(s) /\ at[s] \in Nat /\ clock \in Nat
  BY DEF IInv, TurnInv, TypeOK
<1>2. Ids \subseteq Ids'
  BY DEF RowsGrow, Ids
<1>3. TurnOf(s)'
  BY <1>1, <1>2 DEF TurnOf, LocalKept, RowsGrow, HasSession, Entered, Joined
<1>4. KnownOf(s)'
  BY <1>1 DEF KnownOf, LocalKept, RowsGrow, Entered, Spoke
<1>5. QED
  BY <1>3, <1>4 DEF TurnInv

\* One turn's step: the others stand still.
LEMMA OneTurnMoves ==
  ASSUME IInv, NEW t \in Turns, \A s \in Turns : s # t => LocalKept(s),
         RowsGrow, clock' \in Nat, TurnInv(t)'
  PROVE  \A s \in Turns : TurnInv(s)'
BY StandsStill

\* A turn that fails forgets everything.
LEMMA FailKeeps ==
  ASSUME IInv, NEW t \in Turns, Fail(t), RowsGrow, clock' \in Nat
  PROVE  /\ \A s \in Turns : s # t => LocalKept(s)
         /\ TurnInv(t)' /\ pc'[t] = "failed"
         /\ request' \in [Turns -> [session : Turns \cup {Unknown, None}, ext : ExternalIds \cup {None}]]
         /\ agent' \in [Turns -> Turns \cup {None}] /\ session' \in [Turns -> Turns \cup {None}]
         /\ at' \in [Turns -> Nat] /\ history' \in [Turns -> SUBSET Message]
         /\ known' \in [Turns -> [agents : SUBSET Turns, sessions : SUBSET SessionRow, chat : SUBSET Message]]
         /\ pc' = [pc EXCEPT ![t] = "failed"]
<1>1. /\ pc'[t] = "failed" /\ at'[t] = 0 /\ known'[t] = Nothing
      /\ \A s \in Turns : s # t => LocalKept(s)
  BY DEF Fail, Goto, IInv, TypeOK, LocalKept
<1>2. TurnInv(t)'
  BY <1>1 DEF TurnInv, TurnOf, KnownOf, Entered, Joined, HasSession, Spoke, Nothing
<1>3. NoRequest \in [session : Turns \cup {Unknown, None}, ext : ExternalIds \cup {None}]
  BY DEF NoRequest
<1>4. Nothing \in [agents : SUBSET Turns, sessions : SUBSET SessionRow, chat : SUBSET Message]
  BY DEF Nothing
<1>5. QED
  BY <1>1, <1>2, <1>3, <1>4 DEF Fail, Goto, IInv, TypeOK

\* A turn starts with what is committed.
LEMMA StartKeeps ==
  ASSUME IInv, NEW t \in Turns, StartTurn(t)
  PROVE  IInv'
<1>. USE DEF IInv, TypeOK
<1>1. PICK i \in Ids \cup {Unknown, None}, x \in ExternalIds \cup {None} :
        request' = [request EXCEPT ![t] = [session |-> i, ext |-> x]]
  BY DEF StartTurn
<1>2. /\ pc[t] = "idle" /\ pc' = [pc EXCEPT ![t] = "agent"]
      /\ known' = [known EXCEPT ![t] = Committed]
      /\ UNCHANGED <<agents, sessions, chat, said, clock, agent, session, at, history, deletes>>
  BY DEF StartTurn, Goto, rows, messages
<1>3. Ids \subseteq Turns
  BY DEF Ids, SessionRow
<1>4. Committed \in [agents : SUBSET Turns, sessions : SUBSET SessionRow, chat : SUBSET Message]
  BY DEF Committed
<1>5. TypeOK'
  BY <1>1, <1>2, <1>3, <1>4
<1>6. RowsInv'
  BY <1>2 DEF RowsInv, Ids
<1>7. TurnInv(t)'
  BY <1>2 DEF TurnInv, TurnOf, KnownOf, Entered, Joined, HasSession, Spoke, Committed
<1>8. RowsGrow /\ \A s \in Turns : s # t => LocalKept(s)
  BY <1>1, <1>2 DEF RowsGrow, LocalKept
<1>9. QED
  BY <1>2, <1>5, <1>6, <1>7, <1>8, OneTurnMoves

\* A turn fails, and its transaction leaves nothing.
LEMMA RolledBack ==
  ASSUME IInv, NEW t \in Turns, Fail(t), pc[t] # "idle", UNCHANGED <<rows, clock, deletes>>
  PROVE  IInv'
<1>1. RowsGrow /\ clock' \in Nat
  BY DEF IInv, TypeOK, RowsGrow, rows, messages
<1>2. TypeOK'
  BY <1>1, FailKeeps DEF IInv, TypeOK, rows, messages
<1>3. RowsInv'
  BY <1>1, FailKeeps DEF IInv, TypeOK, RowsInv, Ids, rows, messages
<1>4. QED
  BY <1>1, <1>2, <1>3, FailKeeps, OneTurnMoves DEF IInv

\* The agent the turn found, or its own.
LEMMA SelectAgentKeeps ==
  ASSUME IInv, NEW t \in Turns, SelectAgent(t)
  PROVE  IInv'
<1>. USE DEF IInv, TypeOK
<1>1. ASSUME NEW a \in Turns, FoundAgent(t, a), agents = {a} \/ agents = {},
             UNCHANGED <<rows, clock, deletes>>, pc[t] = "agent"
      PROVE  IInv'
  <2>1. /\ pc' = [pc EXCEPT ![t] = "session"] /\ agent' = [agent EXCEPT ![t] = a]
        /\ UNCHANGED <<agents, sessions, chat, said, clock, deletes, request, session, at,
                       history, known>>
    BY <1>1 DEF FoundAgent, Goto, rows, messages
  <2>2. TypeOK'
    BY <2>1
  <2>3. RowsInv'
    BY <1>1, <2>1 DEF RowsInv, Ids
  <2>4. TurnInv(t)
    OBVIOUS
  <2>5. known[t].agents # {} => a \in known[t].agents
    BY <1>1, <2>4 DEF TurnInv, KnownOf
  <2>6. TurnOf(t)'
    BY <1>1, <2>1, <2>4 DEF TurnInv, TurnOf, Entered, Joined, HasSession
  <2>7. KnownOf(t)'
    BY <1>1, <2>1, <2>4, <2>5 DEF TurnInv, TurnOf, KnownOf, Entered, Spoke
  <2>8. RowsGrow /\ \A s \in Turns : s # t => LocalKept(s)
    BY <2>1 DEF RowsGrow, LocalKept
  <2>9. QED
    BY <2>1, <2>2, <2>3, <2>6, <2>7, <2>8, OneTurnMoves DEF TurnInv
<1>2. QED
  BY <1>1, RolledBack DEF SelectAgent

\* The newest session of the thread exists as soon as the thread has a session.
LEMMA ThreadFound ==
  ASSUME IInv, NEW t \in Turns, request[t].ext # None, Thread(t) = {}
  PROVE  \A s \in sessions : ~(s.agent = agent[t] /\ s.ext = request[t].ext)
<1>. DEFINE S == {s \in sessions : s.agent = agent[t] /\ s.ext = request[t].ext}
<1>1. SUFFICES ASSUME S # {} PROVE FALSE
  OBVIOUS
<1>2. clock \in Nat /\ \A s \in S : s.at \in Nat /\ s.at <= clock
  BY DEF IInv, TypeOK, SessionRow, RowsInv
<1>3. PICK s \in S : \A o \in S : o.at <= s.at
  BY <1>1, <1>2, NewestRow
<1>4. s \in Thread(t)
  BY <1>3 DEF Thread
<1>5. QED
  BY <1>4

\* The session a turn joins, or the one it is to create.
LEMMA SelectSessionKeeps ==
  ASSUME IInv, NEW t \in Turns, SelectSession(t)
  PROVE  IInv'
<1>. USE DEF IInv, TypeOK
<1>0. pc[t] = "session" /\ UNCHANGED rows /\ deletes' = deletes /\ TurnInv(t)
  BY DEF SelectSession
<1>M. ASSUME NEW i \in Turns, session' = [session EXCEPT ![t] = i],
             pc' = [pc EXCEPT ![t] = "commit"], clock' \in Nat, clock <= clock',
             at' \in [Turns -> Nat], \A s \in Turns : s # t => at'[s] = at[s],
             UNCHANGED <<request, agent, history, known>>,
             at'[t] <= clock', at'[t] # 0 => i = t,
             at'[t] = 0 => i \in Ids,
             at'[t] = 0 /\ request[t].session = None =>
               request[t].ext # None /\ \E s \in sessions : s.id = i /\ s.ext = request[t].ext,
             at'[t] # 0 => \A s \in sessions :
               ~(request[t].ext # None /\ s.ext = request[t].ext /\ s.agent = agent[t])
      PROVE  IInv'
  <2>1. UNCHANGED <<agents, sessions, chat, said, deletes>>
    BY <1>0 DEF rows, messages
  <2>2. TypeOK'
    BY <1>M, <2>1
  <2>3. RowsInv'
    BY <1>0, <1>M, <2>1 DEF RowsInv, Ids, SessionRow
  <2>4. TurnOf(t)'
    BY <1>0, <1>M, <2>1 DEF TurnInv, TurnOf, Entered, Joined, HasSession, Ids
  <2>5. KnownOf(t)'
    BY <1>0, <1>M, <2>1 DEF TurnInv, KnownOf, Entered, Spoke
  <2>6. RowsGrow /\ \A s \in Turns : s # t => LocalKept(s)
    BY <1>M, <2>1 DEF RowsGrow, LocalKept
  <2>7. QED
    BY <1>M, <2>2, <2>3, <2>4, <2>5, <2>6, OneTurnMoves DEF TurnInv
<1>1. ASSUME NEW i \in Ids, Join(t, i),
             request[t].session = None =>
               request[t].ext # None /\ \E s \in sessions : s.id = i /\ s.ext = request[t].ext
      PROVE  IInv'
  <2>1. i \in Turns /\ at[t] = 0
    BY <1>0 DEF Ids, SessionRow, TurnInv, TurnOf
  <2>2. session' = [session EXCEPT ![t] = i] /\ pc' = [pc EXCEPT ![t] = "commit"]
        /\ UNCHANGED <<clock, request, agent, at, history, known>>
    BY <1>1 DEF Join, Goto
  <2>3. /\ clock' \in Nat /\ clock <= clock' /\ at' \in [Turns -> Nat] /\ at'[t] = 0
        /\ at'[t] <= clock' /\ \A s \in Turns : s # t => at'[s] = at[s]
    BY <2>1, <2>2
  <2>4. UNCHANGED <<request, agent, history, known>>
    BY <2>2
  <2>5. QED
    BY <1>1, <1>M, <2>1, <2>2, <2>3, <2>4
<1>2. CASE request[t].session \in Ids /\ Join(t, request[t].session)
  <2>1. request[t].session # None
    BY <1>2, ConversationAssumption DEF Ids, SessionRow
  <2>2. QED
    BY <1>1, <1>2, <2>1
<1>3. CASE Fail(t) /\ clock' = clock
  BY <1>0, <1>3, RolledBack
<1>4. CASE \E s \in Thread(t) : Join(t, s.id)
  <2>1. PICK s \in Thread(t) : Join(t, s.id)
    BY <1>4
  <2>2. s \in sessions /\ s.id \in Ids /\ request[t].ext # None /\ s.ext = request[t].ext
    BY DEF Thread, Ids
  <2>3. QED
    BY <1>1, <2>1, <2>2
<1>5. CASE /\ request[t].session = None
           /\ Thread(t) = {}
           /\ session' = [session EXCEPT ![t] = t]
           /\ clock' = clock + 1
           /\ at' = [at EXCEPT ![t] = clock + 1]
           /\ Goto(t, "commit")
           /\ UNCHANGED <<request, agent, history, known>>
  <2>1. at'[t] = clock + 1 /\ clock' = clock + 1 /\ at'[t] # 0
    BY <1>5
  <2>2. \A s \in sessions : ~(request[t].ext # None /\ s.ext = request[t].ext /\ s.agent = agent[t])
    BY <1>5, ThreadFound
  <2>3. /\ clock' \in Nat /\ clock <= clock' /\ at' \in [Turns -> Nat]
        /\ at'[t] <= clock' /\ \A s \in Turns : s # t => at'[s] = at[s]
    BY <1>5
  <2>4. session' = [session EXCEPT ![t] = t] /\ pc' = [pc EXCEPT ![t] = "commit"]
        /\ UNCHANGED <<request, agent, history, known>>
    BY <1>5 DEF Goto
  <2>5. QED
    BY <1>M, <2>1, <2>2, <2>3, <2>4
<1>6. QED
  BY <1>2, <1>3, <1>4, <1>5 DEF SelectSession

\* The commit of agent, session and run, noticed or not.
LEMMA CommitKeeps ==
  ASSUME IInv, NEW t \in Turns, Commit(t)
  PROVE  IInv'
<1>. USE DEF IInv, TypeOK
<1>. DEFINE new == [id |-> t, agent |-> agent[t], ext |-> request[t].ext, at |-> at[t]]
<1>1. PICK o \in DbOutcomes :
       /\ IF o = "fail" THEN UNCHANGED <<agents, sessions>>
          ELSE /\ agents' = agents \cup {agent[t]}
               /\ sessions' = IF at[t] = 0 THEN sessions ELSE sessions \cup {new}
       /\ IF o = "ok" THEN Proceed(t, "user") ELSE Fail(t)
  BY DEF Commit
<1>2. pc[t] = "commit" /\ UNCHANGED <<clock, chat, said, deletes>> /\ TurnInv(t)
  BY DEF Commit, messages
<1>3. /\ agent[t] \in Turns /\ at[t] <= clock /\ t \notin Ids
      /\ at[t] = 0 => session[t] \in Ids
      /\ at[t] # 0 => session[t] = t
  BY <1>2 DEF TurnInv, TurnOf, Entered, Joined, RowsInv
<1>4. new \in SessionRow
  BY <1>3 DEF SessionRow
<1>5. agents' \subseteq Turns /\ sessions' \subseteq SessionRow
  BY <1>1, <1>3, <1>4
<1>6. RowsGrow /\ clock' \in Nat
  BY <1>1, <1>2 DEF RowsGrow
<1>7. \A s \in sessions' : s \in sessions \/ (s = new /\ at[t] # 0 /\ o # "fail")
  BY <1>1
<1>8. pc' = [pc EXCEPT ![t] = IF o = "ok" THEN "user" ELSE "failed"]
  BY <1>1 DEF Proceed, Fail, Goto
<1>9. RowsInv'
  <2>1. \A s \in sessions' : s.agent \in agents' /\ s.at <= clock'
    <3>1. \A s \in sessions : s.agent \in agents' /\ s.at <= clock'
      BY <1>2, <1>6 DEF RowsInv, RowsGrow
    <3>2. o # "fail" => agent[t] \in agents'
      BY <1>1
    <3>3. QED
      BY <1>2, <1>3, <1>7, <3>1, <3>2
  <2>2. \A s \in sessions : s.id # t
    BY <1>3 DEF Ids
  <2>3. \A s, p \in sessions' : s.id = p.id => s = p
    <3>. HIDE DEF new
    <3>1. new.id = t
      BY DEF new
    <3>2. QED
      BY <1>7, <2>2, <3>1 DEF RowsInv
  <2>4. \A s \in Turns : pc'[s] \in {"idle", "agent", "session", "commit"} => s \notin Ids'
    <3>1. \A s \in Turns : s # t /\ s \in Ids' => s \in Ids
      BY <1>7 DEF Ids
    <3>2. QED
      BY <1>8, <3>1 DEF RowsInv
  <2>5. \A m \in chat' : m.session \in Ids' /\ m.agent \in agents'
    BY <1>2, <1>6 DEF RowsInv, RowsGrow, Ids
  <2>6. QED
    BY <1>2, <2>1, <2>3, <2>4, <2>5 DEF RowsInv
<1>10. CASE o = "ok"
  <2>1. UNCHANGED <<request, agent, session, at, history, known>>
    BY <1>1, <1>10 DEF Proceed, local
  <2>2. TypeOK'
    BY <1>2, <1>5, <1>8, <1>10, <2>1
  <2>3. agent[t] \in agents' /\ (at[t] # 0 => new \in sessions')
    BY <1>1, <1>10
  <2>4. session[t] \in Ids'
    <3>1. at[t] # 0 => t \in Ids'
      BY <2>3 DEF Ids
    <3>2. QED
      BY <1>3, <1>6, <3>1 DEF RowsGrow, Ids
  <2>5. TurnOf(t)'
    BY <1>2, <1>3, <1>6, <1>8, <1>10, <2>1, <2>3, <2>4
       DEF TurnInv, TurnOf, Entered, Joined, HasSession, RowsGrow
  <2>6. KnownOf(t)'
    BY <1>2, <1>6, <1>8, <1>10, <2>1 DEF TurnInv, KnownOf, Entered, Spoke, RowsGrow
  <2>7. \A s \in Turns : s # t => LocalKept(s)
    BY <1>8, <2>1 DEF LocalKept
  <2>8. QED
    BY <1>6, <1>9, <2>2, <2>5, <2>6, <2>7, OneTurnMoves DEF TurnInv
<1>11. CASE o # "ok"
  <2>1. Fail(t)
    BY <1>1, <1>11
  <2>2. TypeOK'
    BY <1>2, <1>5, <1>6, <2>1, FailKeeps
  <2>3. QED
    BY <1>6, <1>9, <2>1, <2>2, FailKeeps, OneTurnMoves
<1>12. QED
  BY <1>10, <1>11

\* A message of a turn that has its session: its agent and its session are committed.
LEMMA SayKeepsRows ==
  ASSUME IInv, NEW t \in Turns, HasSession(t), NEW role \in {"user", "assistant"}, NEW o,
         Say(t, role, o), UNCHANGED <<agents, sessions, clock, deletes>>
  PROVE  /\ RowsGrow /\ clock' \in Nat
         /\ chat' \subseteq Message /\ said' \in Nat
         /\ IsFiniteSet(chat')
         /\ \A m \in chat' : m.session \in Ids /\ m.agent \in agents
         /\ o # "fail" => \E m \in chat' : m.turn = t /\ m.role = role /\ m.session = session[t]
<1>. USE DEF IInv, TypeOK
<1>. DEFINE new == [session |-> session[t], agent |-> agent[t], turn |-> t, role |-> role,
                    at |-> said + 1]
<1>1. session[t] \in Ids /\ agent[t] \in agents /\ Ids \subseteq Turns
  BY DEF TurnInv, TurnOf, Ids, SessionRow
<1>2. new \in Message
  BY <1>1 DEF Message
<1>3. CASE o = "fail"
  BY <1>3 DEF Say, messages, RowsGrow, RowsInv
<1>4. CASE o # "fail"
  <2>1. chat' = chat \cup {new} /\ said' = said + 1
    BY <1>4 DEF Say
  <2>2. IsFiniteSet(chat')
    BY <2>1, FS_AddElement DEF RowsInv
  <2>3. chat' \subseteq Message /\ said' \in Nat
    BY <1>2, <2>1
  <2>4. /\ new.session = session[t] /\ new.agent = agent[t]
        /\ new.turn = t /\ new.role = role
    OBVIOUS
  <2>. HIDE DEF new
  <2>5. RowsGrow /\ clock' \in Nat
    BY <2>1 DEF RowsGrow
  <2>6. \A m \in chat' : m.session \in Ids /\ m.agent \in agents
    BY <1>1, <2>1, <2>4 DEF RowsInv
  <2>7. \E m \in chat' : m.turn = t /\ m.role = role /\ m.session = session[t]
    BY <2>1, <2>4
  <2>8. QED
    BY <2>2, <2>3, <2>5, <2>6, <2>7
<1>5. QED
  BY <1>3, <1>4

\* A step of a turn that has its session, with at most one message more.
LEMMA MessageKeeps ==
  ASSUME IInv, NEW t \in Turns, HasSession(t), NEW role \in {"user", "assistant"},
         NEW o \in DbOutcomes \cup {"fail"}, Say(t, role, o),
         NEW l \in {"read", "done"},
         IF o = "ok" THEN Proceed(t, l) ELSE Fail(t),
         l = "read" => role = "user",
         l = "done" => pc[t] = "reply",
         UNCHANGED <<agents, sessions, clock, deletes>>
  PROVE  IInv'
<1>. USE DEF IInv, TypeOK
<1>1. /\ RowsGrow /\ clock' \in Nat
      /\ chat' \subseteq Message /\ said' \in Nat
      /\ IsFiniteSet(chat')
      /\ \A m \in chat' : m.session \in Ids /\ m.agent \in agents
      /\ o # "fail" => \E m \in chat' : m.turn = t /\ m.role = role /\ m.session = session[t]
  BY SayKeepsRows
<1>2. pc' = [pc EXCEPT ![t] = IF o = "ok" THEN l ELSE "failed"]
  BY DEF Proceed, Fail, Goto
<1>3. RowsInv'
  BY <1>1, <1>2 DEF RowsInv, Ids
<1>4. CASE o = "ok"
  <2>1. UNCHANGED <<request, agent, session, at, history, known>>
    BY <1>4 DEF Proceed, local
  <2>2. TypeOK'
    BY <1>1, <1>2, <1>4, <2>1
  <2>3. TurnInv(t) /\ chat \subseteq chat'
    BY DEF Say, messages
  <2>4. TurnOf(t)'
    BY <1>2, <1>4, <2>1, <2>3 DEF TurnInv, TurnOf, Entered, Joined, HasSession, Ids
  <2>5. deletes' = 0 =>
          \E m \in chat' : m.turn = t /\ m.role = "user" /\ m.session = session[t]
    BY <1>1, <1>4, <2>3 DEF TurnInv, KnownOf, Spoke
  <2>6. KnownOf(t)'
    BY <1>2, <1>4, <2>1, <2>3, <2>5 DEF TurnInv, KnownOf, Entered, Spoke, HasSession
  <2>7. \A s \in Turns : s # t => LocalKept(s)
    BY <1>2, <2>1 DEF LocalKept
  <2>8. QED
    BY <1>1, <1>3, <2>2, <2>4, <2>6, <2>7, OneTurnMoves DEF TurnInv
<1>5. CASE o # "ok"
  <2>1. Fail(t)
    BY <1>5
  <2>2. /\ request' \in [Turns -> [session : Turns \cup {Unknown, None},
                                  ext : ExternalIds \cup {None}]]
        /\ agent' \in [Turns -> Turns \cup {None}]
        /\ session' \in [Turns -> Turns \cup {None}]
        /\ at' \in [Turns -> Nat]
        /\ history' \in [Turns -> SUBSET Message]
        /\ known' \in [Turns -> [agents : SUBSET Turns, sessions : SUBSET SessionRow,
                                 chat : SUBSET Message]]
    BY <1>1, <2>1, FailKeeps
  <2>3. TypeOK'
    BY <1>1, <1>2, <1>5, <2>2
  <2>4. QED
    BY <1>1, <1>3, <2>1, <2>3, FailKeeps, OneTurnMoves
<1>6. QED
  BY <1>4, <1>5

\* The history a turn reads: all of its thread when it is shorter than the limit.
LEMMA HistoryKeeps ==
  ASSUME IInv, NEW t \in Turns, GetChatHistory(t)
  PROVE  IInv'
<1>. USE DEF IInv, TypeOK
<1>. DEFINE thread == {m \in chat : m.session = session[t]}
<1>1. /\ pc[t] = "read" /\ pc' = [pc EXCEPT ![t] = "reply"]
      /\ history' = [history EXCEPT ![t] = Oldest(thread)]
      /\ UNCHANGED <<agents, sessions, chat, said, clock, request, agent, session, at, known, deletes>>
  BY DEF GetChatHistory, Goto, rows, messages
<1>2. Oldest(thread) \subseteq Message
  BY DEF Oldest
<1>3. TypeOK'
  BY <1>1, <1>2
<1>4. RowsInv'
  BY <1>1 DEF RowsInv, Ids
<1>5. TurnInv(t)
  OBVIOUS
<1>6. TurnOf(t)'
  BY <1>1, <1>5 DEF TurnInv, TurnOf, Entered, Joined, HasSession, Ids
<1>7. history'[t] = Oldest(thread)
  BY <1>1
<1>8. Cardinality(Oldest(thread)) < Limit => Oldest(thread) = thread
  <2>1. IsFiniteSet(thread) /\ \A m \in thread : m.at \in Nat
    BY FS_Subset DEF RowsInv, Message
  <2>. HIDE DEF thread
  <2>2. QED
    BY <2>1, ShortHistoryIsWhole
<1>9. deletes = 0 =>
        /\ \E m \in thread : m.turn = t /\ m.role = "user"
        /\ {m \in known[t].chat : m.session = session[t]} \subseteq thread
  BY <1>1, <1>5 DEF TurnInv, KnownOf, Spoke
<1>10. KnownOf(t)'
  <2>. HIDE DEF thread
  <2>1. QED
    BY <1>1, <1>5, <1>7, <1>8, <1>9 DEF TurnInv, KnownOf, Entered, Spoke
<1>11. RowsGrow /\ \A s \in Turns : s # t => LocalKept(s)
  BY <1>1 DEF RowsGrow, LocalKept
<1>12. QED
  BY <1>1, <1>3, <1>4, <1>6, <1>10, <1>11, OneTurnMoves DEF TurnInv

\* Each action keeps the invariant.
LEMMA IInvStep ==
  ASSUME IInv, [Next]_vars
  PROVE  IInv'
<1>1. ASSUME NEW t \in Turns, AddUserMessage(t) PROVE IInv'
  <2>1. PICK o \in DbOutcomes :
          Say(t, "user", o) /\ IF o = "ok" THEN Proceed(t, "read") ELSE Fail(t)
    BY <1>1 DEF AddUserMessage
  <2>2. HasSession(t) /\ UNCHANGED <<agents, sessions, clock, deletes>>
    BY <1>1 DEF AddUserMessage, HasSession
  <2>3. QED
    BY <2>1, <2>2, MessageKeeps
<1>2. ASSUME NEW t \in Turns, Answer(t) PROVE IInv'
  <2>1. PICK o \in DbOutcomes \cup {"fail"} :
          Say(t, "assistant", o) /\ IF o = "ok" THEN Proceed(t, "done") ELSE Fail(t)
    BY <1>2 DEF Answer
  <2>2. HasSession(t) /\ pc[t] = "reply" /\ UNCHANGED <<agents, sessions, clock, deletes>>
    BY <1>2 DEF Answer, HasSession
  <2>3. QED
    BY <2>1, <2>2, MessageKeeps
<1>3. CASE DeleteHistory
  <2>. USE DEF IInv, TypeOK
  <2>1. /\ chat' \subseteq chat /\ deletes' = deletes + 1 /\ deletes' \in 0 .. MaxDeletes
        /\ UNCHANGED <<agents, sessions, clock, said, pc, request, agent, session, at, history, known>>
    BY <1>3, ConversationAssumption DEF DeleteHistory, local
  <2>2. TypeOK'
    BY <2>1
  <2>3. RowsInv'
    BY <2>1, FS_Subset DEF RowsInv, Ids
  <2>4. RowsGrow /\ clock' \in Nat /\ \A s \in Turns : LocalKept(s)
    BY <2>1 DEF RowsGrow, LocalKept
  <2>5. QED
    BY <2>2, <2>3, <2>4, StandsStill
<1>4. CASE UNCHANGED vars
  <2>. USE DEF IInv, TypeOK
  <2>1. UNCHANGED <<agents, sessions, chat, said, clock, pc, request, agent, session, at, history,
                    known, deletes>>
    BY <1>4 DEF vars, rows, messages, local
  <2>2. TypeOK' /\ RowsInv'
    BY <2>1 DEF RowsInv, Ids
  <2>3. RowsGrow /\ clock' \in Nat /\ \A s \in Turns : LocalKept(s)
    BY <2>1 DEF RowsGrow, LocalKept
  <2>4. QED
    BY <2>2, <2>3, StandsStill
<1>5. QED
  BY <1>1, <1>2, <1>3, <1>4, StartKeeps, SelectAgentKeeps, SelectSessionKeeps, CommitKeeps,
     HistoryKeeps DEF Next, Idle

(***************************************************************************)
(* Theorems                                                                *)
(***************************************************************************)
\* The inductive invariant.
THEOREM ConversationInvariant == Spec => []IInv
<1>1. Init => IInv
  <2>. SUFFICES ASSUME Init PROVE IInv
    OBVIOUS
  <2>. USE DEF Init
  <2>1. TypeOK
    BY ConversationAssumption DEF TypeOK, NoRequest, Nothing
  <2>2. RowsInv
    BY FS_EmptySet DEF RowsInv, Ids
  <2>3. ASSUME NEW t \in Turns PROVE TurnInv(t)
    BY DEF TurnInv, TurnOf, KnownOf, Entered, Joined, HasSession, Spoke, Nothing
  <2>4. QED
    BY <2>1, <2>2, <2>3 DEF IInv
<1>2. IInv /\ [Next]_vars => IInv'
  BY IInvStep
<1>3. QED
  BY <1>1, <1>2, PTL DEF Spec

\* The types of the tables and of the turns.
THEOREM ConversationTypes == Spec => []TypeOK
<1>1. IInv => TypeOK
  BY DEF IInv
<1>2. QED
  BY <1>1, ConversationInvariant, PTL

\* Rows exist as a whole: sessions, messages and turns refer to committed rows.
THEOREM RowsAreWhole == Spec => []NoDanglingRows
<1>1. IInv => NoDanglingRows
  BY DEF IInv, RowsInv, TurnInv, TurnOf, NoDanglingRows
<1>2. QED
  BY <1>1, ConversationInvariant, PTL

\* Turns share a session only when one of them named it or they gave one external id.
THEOREM ThreadsApart == Spec => []ThreadsDoNotMix
<1>1. IInv => ThreadsDoNotMix
  <2>. SUFFICES ASSUME IInv, NEW t \in Turns, NEW u \in Turns, t # u,
                       HasSession(t), HasSession(u), session[t] = session[u],
                       request[t].session = None, request[u].session = None
                PROVE  request[t].ext = request[u].ext /\ request[t].ext # None
    BY DEF ThreadsDoNotMix
  <2>1. ASSUME NEW v \in {t, u}
        PROVE  \E s \in sessions : /\ s.id = session[v] /\ s.ext = request[v].ext
                                   /\ session[v] = v \/ request[v].ext # None
    <3>1. TurnOf(v) /\ HasSession(v) /\ Joined(v) /\ request[v].session = None
      BY DEF IInv, TurnInv, HasSession, Joined
    <3>2. QED
      BY <3>1 DEF TurnOf
  <2>2. PICK s \in sessions : /\ s.id = session[t] /\ s.ext = request[t].ext
                              /\ session[t] = t \/ request[t].ext # None
    BY <2>1
  <2>3. PICK o \in sessions : /\ o.id = session[u] /\ o.ext = request[u].ext
                              /\ session[u] = u \/ request[u].ext # None
    BY <2>1
  <2>4. s = o
    BY <2>2, <2>3 DEF IInv, RowsInv
  <2>5. QED
    BY <2>2, <2>3, <2>4
<1>2. QED
  BY <1>1, ConversationInvariant, PTL

\* A turn that starts when its agent and its thread are there creates neither.
THEOREM LateTurnsCreateNothing == Spec => []LateTurnCreatesNothing
<1>1. IInv => LateTurnCreatesNothing
  <2>. SUFFICES ASSUME IInv, NEW t \in Turns, HasSession(t)
                PROVE  /\ known[t].agents # {} => agent[t] \in known[t].agents
                       /\ \A s \in known[t].sessions :
                            request[t].ext # None /\ s.ext = request[t].ext /\ s.agent = agent[t]
                              => at[t] = 0
    BY DEF LateTurnCreatesNothing
  <2>1. KnownOf(t) /\ Entered(t)
    BY DEF IInv, TurnInv, HasSession, Entered
  <2>2. QED
    BY <2>1 DEF KnownOf
<1>2. QED
  BY <1>1, ConversationInvariant, PTL

\* A turn sees its own message and what was said in its session before it started.
THEOREM TurnsSeeConversation == Spec => []TurnSeesConversation
<1>1. IInv => TurnSeesConversation
  BY DEF IInv, TurnInv, KnownOf, TurnSeesConversation
<1>2. QED
  BY <1>1, ConversationInvariant, PTL
==============================================================================
