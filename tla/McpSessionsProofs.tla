-------------------------- MODULE McpSessionsProofs --------------------------
(***************************************************************************)
(* Proofs about McpSessions, for any runs, tool calls and servers.         *)
(***************************************************************************)
EXTENDS McpSessions, SequenceTheorems, TLAPS

\* The first n entries of mcp_cleanups.
UpTo(n) == {cleanups[j] : j \in 1 .. n}

\* mcp_cleanups is a sequence; the other types are those of TypeOK.
TypeInv == TypeOK /\ cleanups \in Seq(Entries)

\* A call that is suspended belongs to a run that has not begun to close, and what
\* a call has entered so far says where it is.
CallOf(c) ==
  /\ call[c] \notin {"idle", "done"} => run[RunOf[c]] = "walk"
  /\ Transport(c) \in Listed => call[c] \notin {"idle", "entering"}
  /\ Session(c) \in Listed => call[c] \notin {"idle", "entering", "opening"}

Emptied == cleanups = <<>> /\ \A s \in Servers : sessions[s] = None

KernelInv ==
  /\ \A c \in Calls : CallOf(c)
  /\ Clashing => clash
  /\ Quiet => Emptied

\* Without a clash, a closing run still has in front of it every manager that was
\* entered and not asked to exit, unless another run emptied the kernel meanwhile.
CloserOf(r) ==
  run[r] = "closing" =>
    \/ open = {} /\ cleanups = <<>>
    \/ at[r] <= Len(cleanups) /\ open \subseteq UpTo(at[r])

\* Without a clash, the two managers of a connection are entered, listed and asked
\* to exit in order.
PairOf(c) ==
  /\ call[c] \in {"opening", "initializing"} => Transport(c) \in open
  /\ \A j \in DOMAIN cleanups :
       cleanups[j] = Session(c) => \E k \in 1 .. j - 1 : cleanups[k] = Transport(c)
  /\ Session(c) \in open => Transport(c) \in open

OrderInv ==
  /\ open \subseteq Listed
  /\ \A r \in Runs : CloserOf(r)
  /\ \A c \in Calls : PairOf(c)

IInv == TypeInv /\ KernelInv /\ (~clash => OrderInv)

(***************************************************************************)
(* The two ways mcp_cleanups changes                                       *)
(***************************************************************************)
\* Appending a manager that is not in the list.
LEMMA EnteredListed ==
  ASSUME TypeInv, NEW e \in Entries, e \notin Listed, Entered(e)
  PROVE  /\ cleanups' \in Seq(Entries) /\ IsInjective(cleanups')
         /\ Listed' = Listed \cup {e} /\ open' = open \cup {e}
         /\ Len(cleanups) \in Nat /\ Len(cleanups') = Len(cleanups) + 1
         /\ DOMAIN cleanups = 1 .. Len(cleanups) /\ DOMAIN cleanups' = 1 .. Len(cleanups')
         /\ \A j \in 1 .. Len(cleanups) : cleanups'[j] = cleanups[j]
         /\ cleanups'[Len(cleanups')] = e
<1>1. /\ cleanups \in Seq(Entries) /\ IsInjective(cleanups)
      /\ cleanups' = Append(cleanups, e) /\ open' = open \cup {e}
  BY DEF Entered, TypeInv, TypeOK
<1>2. /\ cleanups' \in Seq(Entries) /\ Len(cleanups) \in Nat
      /\ Len(cleanups') = Len(cleanups) + 1
      /\ DOMAIN cleanups = 1 .. Len(cleanups) /\ DOMAIN cleanups' = 1 .. Len(cleanups')
      /\ \A j \in 1 .. Len(cleanups) : cleanups'[j] = cleanups[j]
      /\ cleanups'[Len(cleanups')] = e
  BY <1>1, AppendProperties, LenProperties
<1>3. \A j \in 1 .. Len(cleanups) : cleanups[j] # e
  BY <1>2 DEF Listed, ToSet
<1>4. IsInjective(cleanups')
  BY <1>1, <1>2, <1>3 DEF IsInjective
<1>5. Listed' = Listed \cup {e}
  BY <1>2 DEF Listed, ToSet
<1>6. QED
  BY <1>1, <1>2, <1>4, <1>5

\* What one turn of the loop of close() does.
LEMMA IterateEffect ==
  ASSUME TypeInv, NEW r \in Runs, NEW i \in Nat, Iterate(r, i)
  PROVE  \/ /\ i \in 1 .. Len(cleanups)
            /\ open' = open \ {cleanups[i]} /\ at'[r] = i - 1 /\ run'[r] = "closing"
            /\ sessions' = sessions /\ cleanups' = cleanups /\ Listed' = Listed
         \/ /\ i \notin 1 .. Len(cleanups)
            /\ Emptied' /\ Listed' = {} /\ open' = open /\ at'[r] = 0 /\ run'[r] = "ended"
            /\ sessions' = [s \in Servers |-> None]
<1>1. DOMAIN cleanups = 1 .. Len(cleanups)
  BY LenProperties DEF TypeInv
<1>2. CASE i \in DOMAIN cleanups
  BY <1>1, <1>2 DEF Iterate, Item, TypeInv, TypeOK, Listed
<1>3. CASE i \notin DOMAIN cleanups
  BY <1>1, <1>3 DEF Iterate, ClearedSessions, TypeInv, TypeOK, Listed, ToSet, Emptied
<1>4. QED
  BY <1>2, <1>3

\* A closing run touches no other run's position.
LEMMA IterateOthers ==
  ASSUME TypeInv, NEW r \in Runs, NEW i \in Nat, Iterate(r, i), NEW q \in Runs, q # r
  PROVE  run'[q] = run[q] /\ at'[q] = at[q]
BY DEF Iterate, TypeInv, TypeOK

(***************************************************************************)
(* Type correctness                                                        *)
(***************************************************************************)
\* The managers a call has not entered are not in mcp_cleanups.
LEMMA NotYetListed ==
  ASSUME KernelInv, NEW c \in Calls
  PROVE  /\ call[c] = "entering" => Transport(c) \notin Listed
         /\ call[c] = "opening" => Session(c) \notin Listed
         /\ Transport(c) \in Entries /\ Session(c) \in Entries
BY DEF KernelInv, CallOf, Transport, Session, Entries

Closing(r) == StartClose(r) \/ ContinueClose(r)

\* A closing run is at some index of the list.
LEMMA ClosingIterates ==
  ASSUME TypeInv, NEW r \in Runs, Closing(r)
  PROVE  /\ \E i \in Nat : Iterate(r, i) /\ i = (IF run[r] = "walk" THEN Len(cleanups) ELSE at[r])
         /\ run[r] \in {"walk", "closing"}
         /\ call' = call /\ server' = server
         /\ run[r] = "walk" => \A c \in Calls : RunOf[c] = r => call[c] \in {"idle", "done"}
<1>1. Len(cleanups) \in Nat
  BY LenProperties DEF TypeInv
<1>2. QED
  BY <1>1 DEF Closing, StartClose, ContinueClose, TypeInv, TypeOK

\* Each action keeps the types.
LEMMA TypeStep ==
  ASSUME TypeInv, KernelInv, Next
  PROVE  TypeInv'
<1>. USE DEF TypeInv, TypeOK
<1>1. clash' \in BOOLEAN
  BY DEF Next, Done, vars, Clashing
<1>2. ASSUME NEW r \in Runs, StartRun(r) PROVE TypeInv'
  BY <1>1, <1>2 DEF StartRun, Listed
<1>3. ASSUME NEW r \in Runs, Closing(r) PROVE TypeInv'
  <2>1. PICK i \in Nat : Iterate(r, i)
    BY <1>3, ClosingIterates
  <2>2. call' = call /\ server' = server
    BY <1>3, ClosingIterates
  <2>3. CASE i \in DOMAIN cleanups
    <3>1. i - 1 \in Nat
      BY <2>3, LenProperties
    <3>2. QED
      BY <1>1, <2>1, <2>2, <2>3, <3>1 DEF Iterate, Listed
  <2>4. CASE i \notin DOMAIN cleanups
    <3>1. cleanups' = <<>> /\ <<>> \in Seq(Entries) /\ IsInjective(<<>>) /\ ToSet(<<>>) = {}
      BY <2>1, <2>4 DEF Iterate, IsInjective, ToSet
    <3>2. /\ cleanups' \in Seq(Entries) /\ IsInjective(cleanups') /\ Listed' \subseteq Entries
      BY <3>1 DEF Listed
    <3>3. /\ run' = [run EXCEPT ![r] = "ended"] /\ at' = [at EXCEPT ![r] = 0] /\ open' = open
          /\ sessions' = [q \in Servers |-> None]
      BY <2>1, <2>4 DEF Iterate, ClearedSessions
    <3>4. QED
      BY <1>1, <2>2, <3>2, <3>3
  <2>5. QED
    BY <2>3, <2>4
<1>4. ASSUME NEW c \in Calls, StartCall(c) \/ ListTools(c) \/ Reply(c) PROVE TypeInv'
  BY <1>1, <1>4 DEF StartCall, ListTools, Reply, Await, Listed, Connecting
<1>5. ASSUME NEW c \in Calls, Raises(c), run' = run, at' = at PROVE TypeInv'
  BY <1>1, <1>5 DEF Raises, Await, Forget, Listed
<1>6. ASSUME NEW c \in Calls, EnterTransport(c) PROVE TypeInv'
  <2>1. CASE Raises(c)
    BY <1>5, <1>6, <2>1 DEF EnterTransport
  <2>2. CASE Entered(Transport(c)) /\ Await(c, "opening") /\ UNCHANGED <<server, sessions>>
    <3>1. call[c] = "entering" /\ run' = run /\ at' = at
      BY <1>6 DEF EnterTransport
    <3>2. QED
      BY <1>1, <2>2, <3>1, NotYetListed, EnteredListed DEF Await, Connecting
  <2>3. QED
    BY <1>6, <2>1, <2>2 DEF EnterTransport
<1>7. ASSUME NEW c \in Calls, EnterSession(c) PROVE TypeInv'
  <2>1. CASE Raises(c)
    BY <1>5, <1>7, <2>1 DEF EnterSession
  <2>2. CASE Entered(Session(c)) /\ Await(c, "initializing") /\ UNCHANGED <<server, sessions>>
    <3>1. call[c] = "opening" /\ run' = run /\ at' = at
      BY <1>7 DEF EnterSession
    <3>2. QED
      BY <1>1, <2>2, <3>1, NotYetListed, EnteredListed DEF Await, Connecting
  <2>3. QED
    BY <1>7, <2>1, <2>2 DEF EnterSession
<1>8. ASSUME NEW c \in Calls, Initialize(c) PROVE TypeInv'
  <2>1. CASE Raises(c)
    BY <1>5, <1>8, <2>1 DEF Initialize
  <2>2. CASE ~Raises(c)
    BY <1>1, <1>8, <2>2 DEF Initialize, Register, Await, Forget, Listed, Connecting
  <2>3. QED
    BY <2>1, <2>2
<1>9. CASE Done
  BY <1>9 DEF Done, vars, Listed
<1>10. QED
  BY <1>2, <1>3, <1>4, <1>6, <1>7, <1>8, <1>9 DEF Next, CallStep, Closing

(***************************************************************************)
(* What holds whether or not closing and connecting overlap                *)
(***************************************************************************)
\* Each action keeps KernelInv.
LEMMA KernelStep ==
  ASSUME TypeInv, KernelInv, Next
  PROVE  KernelInv'
<1>. USE McpAssumption
<1>1. Clashing' => clash'
  BY DEF Next, Done, vars, Clashing, KernelInv, Connecting
<1>2. ASSUME NEW r \in Runs, StartRun(r) PROVE KernelInv'
  <2>1. run'[r] = "walk" /\ \A q \in Runs : q # r => run'[q] = run[q]
    BY <1>2 DEF StartRun, TypeInv, TypeOK
  <2>2. call' = call /\ Listed' = Listed
    BY <1>2 DEF StartRun, Listed
  <2>3. \A c \in Calls : CallOf(c)'
    BY <2>1, <2>2 DEF KernelInv, CallOf, Transport, Session
  <2>4. QED
    BY <1>1, <2>1, <2>3 DEF KernelInv, Quiet
<1>3. ASSUME NEW r \in Runs, Closing(r) PROVE KernelInv'
  <2>1. PICK i \in Nat : Iterate(r, i)
    BY <1>3, ClosingIterates
  <2>2. /\ call' = call
        /\ \A c \in Calls : RunOf[c] = r => call[c] \in {"idle", "done"}
    BY <1>3, ClosingIterates DEF KernelInv, CallOf
  <2>3. \A q \in Runs : q # r => run'[q] = run[q]
    BY <2>1, IterateOthers
  <2>4. Listed' \subseteq Listed
    BY <2>1, IterateEffect
  <2>5. \A c \in Calls : CallOf(c)'
    BY <2>2, <2>3, <2>4 DEF KernelInv, CallOf, Transport, Session
  <2>6. Quiet' => Emptied'
    BY <2>1, IterateEffect DEF Quiet
  <2>7. QED
    BY <1>1, <2>5, <2>6 DEF KernelInv
\* A step of a call: its run is in the walk, before and after.
<1>C. ASSUME NEW c \in Calls, run' = run, run[RunOf[c]] = "walk",
             \A d \in Calls : CallOf(d)'
      PROVE  KernelInv'
  BY <1>1, <1>C DEF KernelInv, Quiet
<1>W. ASSUME NEW c \in Calls, CallStep(c) PROVE run' = run /\ run[RunOf[c]] = "walk"
  BY <1>W DEF CallStep, StartCall, EnterTransport, EnterSession, Initialize, ListTools, Reply,
              KernelInv, CallOf
<1>D. ASSUME NEW c \in Calls, CallStep(c), Listed' = Listed,
             call' = [call EXCEPT ![c] = call'[c]],
             \/ call'[c] \in {"using", "listing", "done"} /\ call[c] # "idle"
             \/ call[c] = "idle"  /\ call'[c] \in {"using", "entering"}
      PROVE  KernelInv'
  <2>1. ASSUME NEW d \in Calls, d # c PROVE CallOf(d)'
    BY <1>D, <1>W, <2>1 DEF KernelInv, CallOf, TypeInv, TypeOK, Transport, Session
  <2>2. CallOf(c)'
    BY <1>D, <1>W DEF KernelInv, CallOf, TypeInv, TypeOK, Transport, Session
  <2>3. QED
    BY <1>C, <1>D, <1>W, <2>1, <2>2
<1>4. ASSUME NEW c \in Calls, StartCall(c) \/ ListTools(c) \/ Reply(c) PROVE KernelInv'
  BY <1>4, <1>D DEF CallStep, StartCall, ListTools, Reply, Await, Listed, TypeInv, TypeOK
<1>5. ASSUME NEW c \in Calls, CallStep(c), Raises(c), call[c] \in Connecting PROVE KernelInv'
  BY <1>5, <1>D DEF Raises, Await, Listed, TypeInv, TypeOK, Connecting
<1>6. ASSUME NEW c \in Calls, EnterTransport(c) PROVE KernelInv'
  <2>1. CASE Raises(c)
    BY <1>5, <1>6, <2>1 DEF EnterTransport, CallStep, Connecting
  <2>2. CASE Entered(Transport(c)) /\ Await(c, "opening")
    <3>1. call[c] = "entering" /\ CallStep(c)
      BY <1>6 DEF EnterTransport, CallStep
    <3>2. Listed' = Listed \cup {Transport(c)}
      BY <2>2, <3>1, NotYetListed, EnteredListed
    <3>3. \A d \in Calls : CallOf(d)'
      BY <2>2, <3>1, <3>2, <1>W DEF Await, KernelInv, CallOf, TypeInv, TypeOK, Transport, Session
    <3>4. QED
      BY <1>C, <1>W, <3>1, <3>3
  <2>3. QED
    BY <1>6, <2>1, <2>2 DEF EnterTransport
<1>7. ASSUME NEW c \in Calls, EnterSession(c) PROVE KernelInv'
  <2>1. CASE Raises(c)
    BY <1>5, <1>7, <2>1 DEF EnterSession, CallStep, Connecting
  <2>2. CASE Entered(Session(c)) /\ Await(c, "initializing")
    <3>1. call[c] = "opening" /\ CallStep(c)
      BY <1>7 DEF EnterSession, CallStep
    <3>2. Listed' = Listed \cup {Session(c)}
      BY <2>2, <3>1, NotYetListed, EnteredListed
    <3>3. \A d \in Calls : CallOf(d)'
      BY <2>2, <3>1, <3>2, <1>W DEF Await, KernelInv, CallOf, TypeInv, TypeOK, Transport, Session
    <3>4. QED
      BY <1>C, <1>W, <3>1, <3>3
  <2>3. QED
    BY <1>7, <2>1, <2>2 DEF EnterSession
<1>8. ASSUME NEW c \in Calls, Initialize(c) PROVE KernelInv'
  <2>1. CASE Raises(c)
    BY <1>5, <1>8, <2>1 DEF Initialize, CallStep, Connecting
  <2>2. CASE ~Raises(c)
    BY <1>8, <2>2, <1>D DEF Initialize, CallStep, Await, Listed, TypeInv, TypeOK
  <2>3. QED
    BY <2>1, <2>2
<1>9. CASE Done
  BY <1>9 DEF Done, vars, KernelInv, CallOf, Clashing, Quiet, Emptied, Listed, Connecting,
              Transport, Session
<1>10. QED
  BY <1>2, <1>3, <1>4, <1>6, <1>7, <1>8, <1>9 DEF Next, CallStep, Closing
(***************************************************************************)
(* What holds as long as closing and connecting do not overlap             *)
(***************************************************************************)
\* A call connects while no run is closing, or the two overlap in the state itself.
LEMMA ConnectsAlone ==
  ASSUME KernelInv, ~clash, NEW c \in Calls, call[c] \in Connecting, NEW r \in Runs
  PROVE  run[r] # "closing"
BY DEF KernelInv, Clashing

\* A run closes while no call connects, before the step and after it.
LEMMA ClosesAlone ==
  ASSUME Next, ~clash', NEW r \in Runs, Closing(r), run'[r] = "closing", NEW c \in Calls
  PROVE  call'[c] \notin Connecting
<1>1. ~Clashing'
  BY DEF Next, Done, vars, Clashing, Closing, StartClose, ContinueClose
<1>2. QED
  BY <1>1 DEF Clashing, Connecting

\* One turn of a closing run's loop keeps the order of the managers.
LEMMA IterateKeepsOrder ==
  ASSUME TypeInv, TypeInv', KernelInv, OrderInv, Next, ~clash', NEW r \in Runs, Closing(r)
  PROVE  OrderInv'
<1>1. PICK i \in Nat : Iterate(r, i) /\ i = (IF run[r] = "walk" THEN Len(cleanups) ELSE at[r])
  BY ClosingIterates
<1>. DEFINE n == Len(cleanups)
<1>2. /\ n \in Nat /\ DOMAIN cleanups = 1 .. n /\ Listed = UpTo(n) /\ at[r] \in Nat
      /\ \A j, k \in 1 .. n : cleanups[j] = cleanups[k] => j = k
  BY LenProperties DEF TypeInv, TypeOK, Listed, ToSet, UpTo, IsInjective
<1>3. call' = call /\ run[r] \in {"walk", "closing"}
  BY ClosingIterates
\* What is still entered is in front of the iterator.
<1>4. \/ open = {} /\ cleanups = <<>>
      \/ i <= n /\ open \subseteq UpTo(i)
  <2>1. CASE run[r] = "walk"
    <3>1. i = n /\ open \subseteq UpTo(n)
      BY <1>1, <1>2, <2>1 DEF OrderInv
    <3>2. QED
      BY <1>2, <3>1
  <2>2. CASE run[r] = "closing"
    <3>1. i = at[r] /\ CloserOf(r)
      BY <1>1, <2>2 DEF OrderInv
    <3>2. QED
      BY <2>2, <3>1 DEF CloserOf
  <2>3. QED
    BY <1>3, <2>1, <2>2
<1>5. CASE i \in 1 .. n
  <2>1. /\ open' = open \ {cleanups[i]} /\ at'[r] = i - 1 /\ run'[r] = "closing"
        /\ cleanups' = cleanups /\ Listed' = Listed
    BY <1>1, <1>5, IterateEffect
  <2>2. n > 0 /\ open \subseteq UpTo(i)
    BY <1>2, <1>4, <1>5 DEF UpTo
  <2>3. open' \subseteq UpTo(i - 1)
    BY <1>5, <2>1, <2>2 DEF UpTo
  <2>4. CloserOf(r)'
    BY <1>2, <1>5, <2>1, <2>3 DEF CloserOf, UpTo
  <2>5. ASSUME NEW q \in Runs, q # r PROVE CloserOf(q)'
    <3>1. run'[q] = run[q] /\ at'[q] = at[q]
      BY <1>1, <2>5, IterateOthers
    <3>2. CloserOf(q)
      BY DEF OrderInv
    <3>3. QED
      BY <2>1, <3>1, <3>2 DEF CloserOf, UpTo
  <2>6. ASSUME NEW c \in Calls PROVE PairOf(c)'
    <3>1. call'[c] \notin {"opening", "initializing"}
      BY <2>1, ClosesAlone DEF Connecting
    <3>2. PairOf(c)
      BY DEF OrderInv
    \* The transport is not asked to exit while its session is still in front.
    <3>3. ASSUME Session(c) \in open', Transport(c) \notin open' PROVE FALSE
      <4>1. Session(c) \in open /\ Transport(c) \in open /\ Transport(c) = cleanups[i]
        BY <2>1, <3>2, <3>3 DEF PairOf
      <4>2. PICK j \in 1 .. i - 1 : cleanups[j] = Session(c)
        BY <2>3, <3>3 DEF UpTo
      <4>3. PICK k \in 1 .. j - 1 : cleanups[k] = Transport(c)
        BY <1>2, <1>5, <3>2, <4>2 DEF PairOf
      <4>4. k \in 1 .. n /\ k # i
        BY <1>2, <1>5, <4>2, <4>3
      <4>5. QED
        BY <1>2, <1>5, <4>1, <4>3, <4>4
    <3>4. QED
      BY <2>1, <3>1, <3>2, <3>3 DEF PairOf, Transport, Session
  <2>7. open' \subseteq Listed'
    BY <2>1 DEF OrderInv
  <2>8. QED
    BY <2>4, <2>5, <2>6, <2>7 DEF OrderInv
<1>6. CASE i \notin 1 .. n
  <2>1. cleanups' = <<>> /\ open' = open /\ run'[r] = "ended"
    BY <1>1, <1>6, IterateEffect DEF Emptied
  <2>2. open = {}
    BY <1>2, <1>4, <1>6 DEF UpTo
  <2>3. \A q \in Runs : CloserOf(q)'
    BY <2>1, <2>2 DEF CloserOf
  <2>4. \A c \in Calls : PairOf(c)'
    <3>1. \A c \in Calls : call'[c] \notin {"opening", "initializing"}
      BY <1>3, <2>2 DEF OrderInv, PairOf
    <3>2. DOMAIN cleanups' = {}
      BY <2>1
    <3>3. QED
      BY <2>1, <2>2, <3>1, <3>2 DEF PairOf
  <2>5. QED
    BY <2>1, <2>2, <2>3, <2>4 DEF OrderInv
<1>7. QED
  BY <1>5, <1>6

\* Entering one manager more, while no run closes, keeps the order.
LEMMA EnterKeepsOrder ==
  ASSUME TypeInv, KernelInv, OrderInv, ~clash, NEW c \in Calls,
         NEW e \in {Transport(c), Session(c)}, e \notin Listed, Entered(e), run' = run,
         call[c] = (IF e = Transport(c) THEN "entering" ELSE "opening"),
         call' = [call EXCEPT ![c] = IF e = Transport(c) THEN "opening" ELSE "initializing"]
  PROVE  OrderInv'
<1>. DEFINE n == Len(cleanups)
<1>1. /\ Listed' = Listed \cup {e} /\ open' = open \cup {e} /\ n \in Nat
      /\ Len(cleanups') = n + 1 /\ DOMAIN cleanups = 1 .. n /\ DOMAIN cleanups' = 1 .. n + 1
      /\ \A j \in 1 .. n : cleanups'[j] = cleanups[j]
      /\ cleanups'[n + 1] = e
  BY NotYetListed, EnteredListed
<1>2. \A r \in Runs : CloserOf(r)'
  BY ConnectsAlone DEF CloserOf, Connecting
<1>3. ASSUME NEW d \in Calls PROVE PairOf(d)'
  <2>1. PairOf(d) /\ PairOf(c)
    BY DEF OrderInv
  <2>2. /\ Transport(d) # Session(c) /\ Transport(c) # Session(d)
        /\ d # c => Transport(d) # Transport(c) /\ Session(d) # Session(c)
    BY DEF Transport, Session
  <2>3. call'[d] \in {"opening", "initializing"} => Transport(d) \in open'
    BY <1>1, <2>1, <2>2 DEF PairOf, TypeInv, TypeOK
  <2>4. Session(d) \in open' => Transport(d) \in open'
    BY <1>1, <2>1, <2>2 DEF PairOf
  <2>5. ASSUME NEW j \in 1 .. n + 1, cleanups'[j] = Session(d)
        PROVE  \E k \in 1 .. j - 1 : cleanups'[k] = Transport(d)
    <3>1. CASE j \in 1 .. n
      <4>1. PICK k \in 1 .. j - 1 : cleanups[k] = Transport(d)
        BY <1>1, <2>1, <2>5, <3>1 DEF PairOf
      <4>2. k \in 1 .. n
        BY <1>1, <3>1, <4>1
      <4>3. QED
        BY <1>1, <4>1, <4>2
    <3>2. CASE j = n + 1
      <4>1. d = c /\ e = Session(c)
        BY <1>1, <2>2, <2>5, <3>2
      <4>2. Transport(c) \in Listed
        BY <2>1, <2>2, <4>1 DEF PairOf, OrderInv
      <4>3. PICK k \in 1 .. n : cleanups[k] = Transport(c)
        BY <1>1, <4>2 DEF Listed, ToSet
      <4>4. QED
        BY <1>1, <3>2, <4>1, <4>3
    <3>3. QED
      BY <1>1, <2>5, <3>1, <3>2
  <2>6. QED
    BY <1>1, <2>3, <2>4, <2>5 DEF PairOf, Transport, Session
<1>4. QED
  BY <1>1, <1>2, <1>3 DEF OrderInv

\* Each action keeps OrderInv, as long as there was no clash.
LEMMA OrderStep ==
  ASSUME IInv, TypeInv', Next, ~clash'
  PROVE  OrderInv'
<1>1. ~clash /\ TypeInv /\ KernelInv /\ OrderInv
  <2>1. clash => clash'
    BY Zenon DEF Next, Done, vars
  <2>2. QED
    BY <2>1 DEF IInv
<1>U. ASSUME UNCHANGED <<cleanups, open, at>>,
             \A r \in Runs : run'[r] = "closing" => run[r] = "closing",
             \A c \in Calls : call'[c] \in {"opening", "initializing"} => call'[c] = call[c]
      PROVE  OrderInv'
  BY <1>1, <1>U DEF OrderInv, CloserOf, PairOf, Listed, UpTo, Transport, Session
<1>2. ASSUME NEW r \in Runs, StartRun(r) PROVE OrderInv'
  BY <1>1, <1>2, <1>U DEF StartRun, TypeInv, TypeOK
<1>3. ASSUME NEW r \in Runs, Closing(r) PROVE OrderInv'
  BY <1>1, <1>3, IterateKeepsOrder
<1>4. ASSUME NEW c \in Calls, StartCall(c) \/ ListTools(c) \/ Reply(c) PROVE OrderInv'
  BY <1>1, <1>4, <1>U DEF StartCall, ListTools, Reply, Await, TypeInv, TypeOK
<1>5. ASSUME NEW c \in Calls, Raises(c), run' = run, at' = at PROVE OrderInv'
  BY <1>1, <1>5, <1>U DEF Raises, Await, TypeInv, TypeOK
<1>6. ASSUME NEW c \in Calls, EnterTransport(c) PROVE OrderInv'
  <2>1. CASE Raises(c)
    BY <1>5, <1>6, <2>1 DEF EnterTransport
  <2>2. CASE Entered(Transport(c)) /\ Await(c, "opening")
    BY <1>1, <1>6, <2>2, NotYetListed, EnterKeepsOrder DEF EnterTransport, Await
  <2>3. QED
    BY <1>6, <2>1, <2>2 DEF EnterTransport
<1>7. ASSUME NEW c \in Calls, EnterSession(c) PROVE OrderInv'
  <2>1. CASE Raises(c)
    BY <1>5, <1>7, <2>1 DEF EnterSession
  <2>2. CASE Entered(Session(c)) /\ Await(c, "initializing")
    <3>1. Session(c) # Transport(c)
      BY DEF Session, Transport
    <3>2. QED
      BY <1>1, <1>7, <2>2, <3>1, NotYetListed, EnterKeepsOrder DEF EnterSession, Await
  <2>3. QED
    BY <1>7, <2>1, <2>2 DEF EnterSession
<1>8. ASSUME NEW c \in Calls, Initialize(c) PROVE OrderInv'
  <2>1. CASE Raises(c)
    BY <1>5, <1>8, <2>1 DEF Initialize
  <2>2. CASE ~Raises(c)
    BY <1>1, <1>8, <2>2, <1>U DEF Initialize, Await, TypeInv, TypeOK
  <2>3. QED
    BY <2>1, <2>2
<1>9. CASE Done
  BY <1>9, <1>U DEF Done, vars
<1>10. QED
  BY <1>2, <1>3, <1>4, <1>6, <1>7, <1>8, <1>9 DEF Next, CallStep, Closing

(***************************************************************************)
(* Theorems                                                                *)
(***************************************************************************)
\* The inductive invariant.
THEOREM KernelInvariant == Spec => []IInv
<1>1. Init => IInv
  <2>. SUFFICES ASSUME Init PROVE IInv
    OBVIOUS
  <2>1. cleanups = <<>> /\ Listed = {} /\ open = {} /\ cleanups \in Seq(Entries) /\ DOMAIN cleanups = {}
    BY DEF Init, Listed, ToSet
  <2>2. TypeInv
    BY <2>1 DEF Init, TypeInv, TypeOK, IsInjective
  <2>3. KernelInv
    BY <2>1 DEF Init, KernelInv, CallOf, Clashing, Emptied, Connecting
  <2>4. OrderInv
    BY <2>1 DEF Init, OrderInv, CloserOf, PairOf
  <2>5. QED
    BY <2>2, <2>3, <2>4 DEF IInv
<1>2. IInv /\ [Next]_vars => IInv'
  <2>. SUFFICES ASSUME IInv, [Next]_vars PROVE IInv'
    OBVIOUS
  <2>1. CASE Next
    BY <2>1, TypeStep, KernelStep, OrderStep DEF IInv
  <2>2. CASE UNCHANGED vars
    <3>1. TypeInv' /\ KernelInv'
      BY <2>2 DEF vars, IInv, TypeInv, TypeOK, KernelInv, CallOf, Clashing, Quiet, Emptied, Listed,
                  Connecting, Transport, Session
    <3>2. ~clash' => OrderInv'
      BY <2>2 DEF vars, IInv, OrderInv, CloserOf, PairOf, UpTo, Listed, Transport, Session
    <3>3. QED
      BY <3>1, <3>2 DEF IInv
  <2>3. QED
    BY <2>1, <2>2
<1>3. QED
  BY <1>1, <1>2, PTL DEF Spec

\* Type correctness; a manager is in mcp_cleanups once.
THEOREM McpTypeCorrect == Spec => []TypeOK
<1>1. IInv => TypeOK
  BY DEF IInv, TypeInv
<1>2. QED
  BY <1>1, KernelInvariant, PTL

\* Nothing that was entered is forgotten unless closing and connecting overlapped,
\* and the kernel is empty whenever no run is in progress.
THEOREM NothingForgotten == Spec => []NothingIsForgotten
<1>1. IInv => NothingIsForgotten
  BY DEF IInv, KernelInv, Emptied, OrderInv, NothingIsForgotten
<1>2. QED
  BY <1>1, KernelInvariant, PTL

\* A transport is never asked to exit under a session that is still entered.
THEOREM SessionsExitFirst == Spec => []SessionExitsFirst
<1>1. IInv => SessionExitsFirst
  BY DEF IInv, OrderInv, PairOf, SessionExitsFirst
<1>2. QED
  BY <1>1, KernelInvariant, PTL

\* Even when closing and connecting overlap, a dead session is registered only while
\* some run is still inside close().
THEOREM DeadWhileClosing == Spec => []DeadOnlyWhileClosing
<1>1. Init => DeadOnlyWhileClosing
  BY DEF Init, DeadOnlyWhileClosing
<1>2. IInv /\ DeadOnlyWhileClosing /\ [Next]_vars => DeadOnlyWhileClosing'
  <2>. SUFFICES ASSUME IInv, DeadOnlyWhileClosing, [Next]_vars PROVE DeadOnlyWhileClosing'
    OBVIOUS
  <2>. USE DEF IInv, TypeInv, TypeOK
  \* A session stays alive while managers are only entered, and no run ends.
  <2>1. ASSUME sessions' = sessions, open \subseteq open',
               \A r \in Runs : run[r] = "closing" => run'[r] = "closing"
        PROVE  DeadOnlyWhileClosing'
    BY <2>1 DEF DeadOnlyWhileClosing, Transport, Session
  <2>2. ASSUME NEW r \in Runs, Closing(r) PROVE DeadOnlyWhileClosing'
    <3>1. PICK i \in Nat : Iterate(r, i)
      BY <2>2, ClosingIterates
    <3>2. run'[r] = "closing" \/ sessions' = [s \in Servers |-> None]
      BY <3>1, IterateEffect
    <3>3. QED
      BY <3>2 DEF DeadOnlyWhileClosing
  <2>3. ASSUME NEW c \in Calls, CallStep(c) PROVE DeadOnlyWhileClosing'
    <3>1. run' = run
      BY <2>3 DEF CallStep, StartCall, EnterTransport, EnterSession, Initialize, ListTools, Reply
    <3>2. CASE sessions' = sessions
      BY <2>1, <2>3, <3>1, <3>2 DEF CallStep, StartCall, EnterTransport, EnterSession, Initialize,
         ListTools, Reply, Entered, Raises
    <3>3. CASE sessions' # sessions
      <4>1. /\ {Transport(c), Session(c)} \subseteq open /\ open' = open
            /\ sessions' = Register(c)
        BY <2>3, <3>3 DEF CallStep, StartCall, EnterTransport, EnterSession, Initialize,
           ListTools, Reply, Raises
      <4>2. \A s \in Servers : sessions'[s] \in {sessions[s], c}
        BY <4>1 DEF Register
      <4>3. QED
        BY <3>1, <4>1, <4>2 DEF DeadOnlyWhileClosing, Transport, Session
    <3>4. QED
      BY <3>2, <3>3
  <2>4. ASSUME NEW r \in Runs, StartRun(r) PROVE DeadOnlyWhileClosing'
    BY <2>1, <2>4 DEF StartRun
  <2>5. CASE UNCHANGED vars
    BY <2>1, <2>5 DEF vars
  <2>6. QED
    BY <2>2, <2>3, <2>4, <2>5 DEF Next, Closing, Done
<1>3. QED
  BY <1>1, <1>2, KernelInvariant, PTL DEF Spec
==============================================================================
