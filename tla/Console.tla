------------------------------- MODULE Console -------------------------------
(***************************************************************************)
(* What the backoffice shows of a project's conversations                  *)
(* (backoffice/sessions.py, stats.py) while agents write them.  A view is  *)
(* read in several statements of one session; each statement sees what is  *)
(* committed by then, so the parts of a view are of different moments.     *)
(* The views are: the detail of a session, a page of the list of sessions  *)
(* and the summary statistics.                                             *)
(*                                                                         *)
(* Abstracted: the list and the summary may be asked for an agent and for  *)
(* dates of creation, which never change: together they are the set of     *)
(* sessions the view is among.  The order of the rows is left open.  Left  *)
(* out: the search for a text, the costs and tokens, and the counts of     *)
(* tasks and messages, each filtered by its own date and related to no     *)
(* other part; for the same reason the whole of the daily statistics.      *)
(***************************************************************************)
EXTENDS Integers, Sequences, FiniteSets

CONSTANTS Talks,      \* sessions
          Works,      \* workflow runs
          Viewers,
          MaxTasks,   \* bound: task rows of a run
          MaxMessages, \* bound: messages of a run
          PageSize,   \* limit of a page of the list
          Offsets,    \* offsets that are asked for
          NoTalk

ASSUME ConsoleAssumption == /\ MaxTasks \in Nat /\ MaxMessages \in Nat /\ NoTalk \notin Talks
                            /\ PageSize \in Nat /\ Offsets \subseteq Nat

VARIABLES
  talkOf,     \* rows of runs: the session of each, or NoTalk
  tasksOf,    \* number of task rows of each run
  messagesOf, \* number of chat_messages of each run
  shown,      \* per viewer: the view it reads and what it was asked for, see View
  left,       \* per viewer: the statements still to come
  got,        \* per viewer: what the statements of each name returned
  cleared     \* history, per viewer: sessions whose history was deleted during the view

tables == <<talkOf, tasksOf, messagesOf>>
views == <<shown, left, got>>
consoleVars == <<tables, views, cleared>>

Recorded == {w \in Works : talkOf[w] # NoTalk}
OpenTalks == {talkOf[w] : w \in Recorded}
RunsOf(k) == {w \in Recorded : talkOf[w] = k}
TasksOf(k) == [w \in RunsOf(k) |-> tasksOf[w]]
Speaking(k) == {w \in RunsOf(k) : messagesOf[w] > 0}

\* The sessions of K and their runs: a run is counted by the date of its session.
SessionsAmong(K) == OpenTalks \cap K
RunsAmong(K) == {w \in Recorded : talkOf[w] \in K}

\* The parts of the views.
ReadNames == {"messages", "runs", "tasks", "total", "rows", "first", "last",
              "sessions", "runCount"}

\* The detail of the session k; the sessions of K, from the offset o on.
View(name, k, K, o) == [view |-> name, talk |-> k, among |-> K, offset |-> o]

ConsoleInit ==
  /\ talkOf = [w \in Works |-> NoTalk]
  /\ tasksOf = [w \in Works |-> 0] /\ messagesOf = [w \in Works |-> 0]
  /\ shown = [v \in Viewers |-> View("none", NoTalk, {}, 0)]
  /\ left = [v \in Viewers |-> <<>>]
  /\ got = [v \in Viewers |-> [n \in ReadNames |-> {}]]
  /\ cleared = [v \in Viewers |-> {}]

\* initialize_workflow_run commits a new session with its first run.
RecordRun(w, k) ==
  /\ w \notin Recorded
  /\ talkOf' = [talkOf EXCEPT ![w] = k]
  /\ UNCHANGED <<tasksOf, messagesOf, views, cleared>>

RecordTask(w) ==
  /\ w \in Recorded /\ tasksOf[w] < MaxTasks
  /\ tasksOf' = [tasksOf EXCEPT ![w] = @ + 1]
  /\ UNCHANGED <<talkOf, messagesOf, views, cleared>>

\* The user's message or the answer.
RecordMessage(w) ==
  /\ w \in Recorded /\ messagesOf[w] < MaxMessages
  /\ messagesOf' = [messagesOf EXCEPT ![w] = @ + 1]
  /\ UNCHANGED <<talkOf, tasksOf, views, cleared>>

\* delete_history_for_session, or delete_history_for_agent for all its sessions.
ClearHistory(K) ==
  /\ tasksOf' = [w \in Works |-> IF talkOf[w] \in K THEN 0 ELSE tasksOf[w]]
  /\ messagesOf' = [w \in Works |-> IF talkOf[w] \in K THEN 0 ELSE messagesOf[w]]
  /\ cleared' = [v \in Viewers |-> IF left[v] = <<>> THEN cleared[v] ELSE cleared[v] \cup K]
  /\ UNCHANGED <<talkOf, views>>

(***************************************************************************)
(* The views, as the statements that make them up                          *)
(***************************************************************************)
\* Mutant: the runs of a session are read before its messages.
RunsFirst == <<"runs", "messages", "tasks">>

DetailStatements == <<"messages", "runs", "tasks">>

\* Every session that matches is counted, one page of them is listed; then come the
\* first and the last message of each row, see ReadRows.
ListStatements == <<"total", "rows">>

\* get_summary_stats.
SummaryStatements == <<"sessions", "runCount">>

About(k, reads) == [n \in DOMAIN reads |-> [read |-> reads[n], talk |-> k]]

Show(v, view, statements) ==
  /\ shown' = [shown EXCEPT ![v] = view]
  /\ left' = [left EXCEPT ![v] = About(view.talk, statements)]

Open(v) ==
  /\ shown[v].view = "none"
  /\ \/ \E k \in OpenTalks : Show(v, View("detail", k, {}, 0), DetailStatements)
     \/ \E K \in SUBSET Talks : \/ \E o \in Offsets : Show(v, View("list", NoTalk, K, o), ListStatements)
                                \/ Show(v, View("summary", NoTalk, K, 0), SummaryStatements)
  /\ UNCHANGED <<tables, got, cleared>>

\* What one statement returns; of the messages, the runs they are of.  The previews
\* are collected row by row.
Result(v, read, k) ==
  CASE read = "messages" -> Speaking(k)
    [] read \in {"runs", "tasks"} -> TasksOf(k)
    [] read \in {"total", "sessions"} -> Cardinality(SessionsAmong(shown[v].among))
    [] read = "runCount" -> Cardinality(RunsAmong(shown[v].among))
    [] read \in {"first", "last"} -> got[v][read] \cup {t \in {k} : Speaking(t) # {}}

ReadNext(v) ==
  /\ left[v] # <<>>
  /\ LET s == Head(left[v])
     IN  /\ s.read # "rows"
         /\ got' = [got EXCEPT ![v] = [got[v] EXCEPT ![s.read] = Result(v, s.read, s.talk)]]
  /\ left' = [left EXCEPT ![v] = Tail(left[v])]
  /\ UNCHANGED <<tables, shown, cleared>>

\* LIMIT and OFFSET: of so many sessions, those of one page.
RowCount(sessions, o) ==
  IF sessions <= o THEN 0 ELSE IF sessions - o < PageSize THEN sessions - o ELSE PageSize

Pages(v) ==
  LET S == SessionsAmong(shown[v].among)
  IN  {page \in SUBSET S : Cardinality(page) = RowCount(Cardinality(S), shown[v].offset)}

\* Two statements for each of the rows that were read, row after row in their order.
Previews(page, p) ==
  \A k \in page : \E n \in 1 .. Cardinality(page) :
    p[2 * n - 1] = [read |-> "first", talk |-> k] /\ p[2 * n] = [read |-> "last", talk |-> k]

\* A row says how many messages its session has; what is kept is whether it has any.
ReadRows(v) ==
  /\ left[v] # <<>> /\ Head(left[v]).read = "rows"
  /\ \E page \in Pages(v) :
       /\ got' = [got EXCEPT ![v] = [got[v] EXCEPT !["rows"] = [k \in page |-> Speaking(k) # {}]]]
       /\ \E p \in [1 .. 2 * Cardinality(page) -> [read : {"first", "last"}, talk : page]] :
            Previews(page, p) /\ left' = [left EXCEPT ![v] = p]
  /\ UNCHANGED <<tables, shown, cleared>>

ConsoleNext ==
  \/ \E w \in Works : RecordTask(w) \/ RecordMessage(w) \/ \E k \in Talks : RecordRun(w, k)
  \/ ClearHistory(Talks) \/ \E k \in Talks : ClearHistory({k})
  \/ \E v \in Viewers : Open(v) \/ ReadNext(v) \/ ReadRows(v)

ConsoleSpec == ConsoleInit /\ [][ConsoleNext]_consoleVars

\* A view agrees with itself although its parts are of different moments: the detail
\* of a session has the run of every message it shows, and no run of it counts more
\* tasks than are shown; a page of the list that is not full has all the sessions that
\* were counted beyond its offset, and each of its sessions that has messages has both
\* previews; the summary counts no more sessions than runs.  Only deleting the history
\* meanwhile makes a difference.
ViewsAgree ==
  \A v \in Viewers : left[v] = <<>> =>
    LET d == got[v]
    IN  CASE shown[v].view = "none" -> TRUE
          [] shown[v].view = "detail" ->
               /\ d["messages"] \subseteq DOMAIN d["runs"]
               /\ DOMAIN d["runs"] \subseteq DOMAIN d["tasks"]
               /\ shown[v].talk \notin cleared[v] =>
                    \A w \in DOMAIN d["runs"] : d["runs"][w] <= d["tasks"][w]
          [] shown[v].view = "list" ->
               /\ \/ Cardinality(DOMAIN d["rows"]) = PageSize
                  \/ d["total"] <= shown[v].offset + Cardinality(DOMAIN d["rows"])
               /\ \A k \in DOMAIN d["rows"] \ cleared[v] : d["rows"][k] => k \in d["first"] \cap d["last"]
          [] shown[v].view = "summary" -> d["sessions"] <= d["runCount"]
=============================================================================
