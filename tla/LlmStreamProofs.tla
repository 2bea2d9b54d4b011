---------------------------- MODULE LlmStreamProofs ----------------------------
(***************************************************************************)
(* One model call, for any provider, numbers of retries and chunks, delays *)
(* and timeout: the answer is one attempt's response, the call implements  *)
(* ModelCall, and a retry that comes after the consumer's patience is      *)
(* heard by nobody.                                                        *)
(***************************************************************************)
EXTENDS LlmStream, SequenceTheorems, FiniteSetTheorems, TLAPS

(***************************************************************************)
(* Powers of two: 2^n counts the subsets of 1 .. n.                        *)
(***************************************************************************)
\* A power of two is a positive natural number, and the next one is twice as large.
LEMMA PowersOfTwo ==
  /\ 2 ^ 0 = 1
  /\ \A n \in Nat : 2 ^ n \in Nat /\ 2 ^ (n + 1) = 2 ^ n + 2 ^ n
<1>1. 2 ^ 0 = 1
  <2>1. SUBSET {} = {{}}
    OBVIOUS
  <2>2. Cardinality({{}}) = 1 /\ IsFiniteSet({}) /\ Cardinality({}) = 0
    BY FS_Singleton, FS_EmptySet, Zenon
  <2>3. Cardinality(SUBSET {}) = 2 ^ 0
    BY <2>2, FS_SUBSET, Zenon
  <2>4. QED
    BY <2>1, <2>2, <2>3, Zenon
<1>2. ASSUME NEW n \in Nat
      PROVE  /\ IsFiniteSet(SUBSET (1 .. n)) /\ Cardinality(SUBSET (1 .. n)) = 2 ^ n
             /\ 2 ^ n \in Nat
  <2>1. IsFiniteSet(1 .. n) /\ Cardinality(1 .. n) = n
    BY FS_Interval
  <2>2. IsFiniteSet(SUBSET (1 .. n)) /\ Cardinality(SUBSET (1 .. n)) = 2 ^ n
    BY <2>1, FS_SUBSET
  <2>3. QED
    BY <2>2, FS_CardinalityType
<1>3. ASSUME NEW n \in Nat PROVE 2 ^ (n + 1) = 2 ^ n + 2 ^ n
  <2>. DEFINE old == SUBSET (1 .. n)
              new == {B \cup {n + 1} : B \in old}
  <2>1. n + 1 \in Nat /\ n + 1 \notin 1 .. n /\ 1 .. n + 1 = (1 .. n) \cup {n + 1}
    OBVIOUS
  <2>2. SUBSET (1 .. n + 1) = old \cup new
    <3>1. ASSUME NEW B \in SUBSET (1 .. n + 1), n + 1 \in B PROVE B \in new
      <4>1. B \ {n + 1} \in old /\ B = (B \ {n + 1}) \cup {n + 1}
        BY <2>1, <3>1
      <4>2. QED
        BY <4>1
    <3>2. ASSUME NEW B \in SUBSET (1 .. n + 1), n + 1 \notin B PROVE B \in old
      BY <2>1, <3>2
    <3>3. old \subseteq SUBSET (1 .. n + 1) /\ new \subseteq SUBSET (1 .. n + 1)
      BY <2>1
    <3>4. QED
      BY <3>1, <3>2, <3>3
  <2>3. old \cap new = {}
    BY <2>1
  <2>4. ExistsBijection(old, new)
    <3>. DEFINE f == [B \in old |-> B \cup {n + 1}]
    <3>1. f \in [old -> new]
      OBVIOUS
    <3>2. ASSUME NEW B \in old, NEW C \in old, f[B] = f[C] PROVE B = C
      <4>1. B \cup {n + 1} = C \cup {n + 1} /\ n + 1 \notin B /\ n + 1 \notin C
        BY <2>1, <3>2
      <4>2. QED
        BY <4>1
    <3>3. \A C \in new : \E B \in old : f[B] = C
      OBVIOUS
    <3>4. f \in Bijection(old, new)
      BY <3>1, <3>2, <3>3, Zenon DEF Bijection, Injection, Surjection, IsInjective
    <3>5. QED
      BY <3>4, Zenon DEF ExistsBijection
  <2>5. IsFiniteSet(old) /\ Cardinality(old) = 2 ^ n
    BY <1>2
  <2>6. IsFiniteSet(new) /\ Cardinality(new) = Cardinality(old)
    BY <2>4, <2>5, FS_Bijection, Zenon
  <2>7. Cardinality(SUBSET (1 .. n + 1)) = 2 ^ (n + 1)
    BY <1>2, <2>1
  <2>. HIDE DEF old, new
  <2>8. Cardinality(old \cup new) = Cardinality(old) + Cardinality(new)
    <3>1. Cardinality(old \cap new) = 0
      BY <2>3, FS_EmptySet
    <3>2. Cardinality(old) \in Nat /\ Cardinality(new) \in Nat
      BY <2>5, <2>6, FS_CardinalityType
    <3>3. QED
      BY <2>5, <2>6, <3>1, <3>2, FS_Union
  <2>9. QED
    BY <2>2, <2>5, <2>6, <2>7, <2>8
<1>4. QED
  BY <1>1, <1>2, <1>3
\* Every pause of with_retry is within what TypeOK allows for the delay.
LEMMA PausesAreBounded ==
  ASSUME attempt \in 1 .. MaxRetries + 1
  PROVE  Backoff \subseteq 0 .. MaxDelay
<1>1. attempt - 1 \in Nat /\ BaseDelay \in Nat /\ MaxDelay \in Nat
  BY StreamAssumption
<1>2. 2 ^ (attempt - 1) \in Nat
  BY <1>1, PowersOfTwo
<1>. DEFINE p == 2 ^ (attempt - 1)
<1>. HIDE DEF p
<1>3. BaseDelay * p \in Nat
  BY <1>1, <1>2 DEF p
<1>. DEFINE q == BaseDelay * p
<1>. HIDE DEF q
<1>4. q \in Nat
  BY <1>3 DEF q
<1>5. Backoff = {IF d < MaxDelay THEN d ELSE MaxDelay : d \in {q + jitter : jitter \in 0 .. 1}}
  BY DEF Backoff, p, q
<1>6. QED
  BY <1>1, <1>4, <1>5

(***************************************************************************)
(* The answer                                                              *)
(***************************************************************************)
Streams == {"response", "thought"}
Messages == [type : {"partial", "complete", "error"}, name : {"response", "thought", "error"},
             value : Values]

\* The names on the active list: those of the attempts so far, at least those of the
\* attempt that is under way; the last attempt is not followed by a pause.
ActiveInv ==
  /\ prod = "begin" => active <= 2 * (attempt - 1)
  /\ prod # "begin" => active <= 2 * attempt
  /\ prod = "calling" => active >= (IF thinking THEN 2 ELSE 1)
  /\ prod = "backoff" => ~LastAttempt

\* The buffers hold chunks of the attempt that filled them.
BufferInv ==
  prod # "begin" =>
    \A n \in Streams : \A i \in 1 .. Len(buffer[n]) : buffer[n][i] = Chunk(n)

Completes(m, n) == m.type = "complete" /\ m.name = n

\* The provider's stream has ended: the call was counted, or could not be.
Completed == stats = 1 \/ unsent

\* A complete chunk is queued when the call completed and holds its buffer, the
\* response is completed once, and before the thoughts.
QueueInv ==
  /\ ~Waiting => queue = <<>>
  /\ \A i \in 1 .. Len(queue) : queue[i].type = "complete" =>
       /\ Completed
       /\ queue[i].name \in Streams
       /\ queue[i].value = buffer[queue[i].name]
  /\ \A i, j \in 1 .. Len(queue) :
       Completes(queue[i], "response") /\ Completes(queue[j], "response") => i = j
  /\ mode = "whole" => \A i \in 1 .. Len(queue) : Completes(queue[i], "thought") =>
       \E j \in 1 .. i - 1 : Completes(queue[j], "response")

\* What the consumer took was completed, and is not in the queue again.
AnswerInv ==
  /\ Completed => prod = "over"
  /\ answer # <<>> =>
       /\ Completed
       /\ answer = <<buffer["response"]>>
       /\ \A i \in 1 .. Len(queue) : ~Completes(queue[i], "response")
  /\ cons \in {"answered", "stopped"} => Completed

IInv == TypeOK /\ ActiveInv /\ BufferInv /\ QueueInv /\ AnswerInv

NoneCompleted == \A i \in 1 .. Len(queue) : queue[i].type # "complete"

\* Until the call completes nothing in the queue is complete, and nothing was taken.
LEMMA NothingYet ==
  ASSUME IInv, prod # "over"
  PROVE  /\ stats = 0 /\ ~unsent /\ NoneCompleted /\ answer = <<>>
         /\ cons \in {"waiting", "raised", "timed_out"}
BY DEF Completed, IInv, TypeOK, QueueInv, AnswerInv, NoneCompleted

\* A queue of chunks that are not complete satisfies QueueInv.
LEMMA PlainQueue ==
  ASSUME NoneCompleted, ~Waiting => queue = <<>>
  PROVE  QueueInv
BY DEF NoneCompleted, QueueInv, Completes

\* Putting a chunk that is not complete.
LEMMA PutPlain ==
  ASSUME queue \in Seq(Messages), NoneCompleted, NEW m \in Messages, m.type # "complete",
         Put(<<m>>), cons' = cons, ~Waiting => queue = <<>>
  PROVE  queue' \in Seq(Messages) /\ NoneCompleted' /\ (~Waiting' => queue' = <<>>)
<1>1. CASE Waiting
  <2>1. <<m>> \in Seq(Messages) /\ Len(<<m>>) = 1 /\ <<m>>[1] = m
    OBVIOUS
  <2>2. queue' = queue \o <<m>>
    BY <1>1 DEF Put
  <2>3. /\ queue' \in Seq(Messages) /\ Len(queue') = Len(queue) + 1
        /\ \A i \in 1 .. Len(queue) + 1 :
             queue'[i] = IF i <= Len(queue) THEN queue[i] ELSE <<m>>[i - Len(queue)]
    BY <2>1, <2>2, ConcatProperties
  <2>4. Len(queue) \in Nat
    BY LenProperties
  <2>5. ASSUME NEW i \in 1 .. Len(queue') PROVE queue'[i].type # "complete"
    <3>1. CASE i <= Len(queue)
      BY <2>3, <2>4, <2>5, <3>1 DEF NoneCompleted
    <3>2. CASE i = Len(queue) + 1
      BY <2>1, <2>3, <2>4, <3>2
    <3>3. QED
      BY <2>3, <2>4, <2>5, <3>1, <3>2
  <2>6. QED
    BY <1>1, <2>3, <2>5 DEF NoneCompleted, Waiting
<1>2. CASE ~Waiting
  BY <1>2 DEF Put, NoneCompleted, Waiting
<1>3. QED
  BY <1>1, <1>2

\* A new attempt has empty buffers.
LEMMA BeginKeeps ==
  ASSUME IInv, BeginAttempt
  PROVE  IInv'
<1>. USE DEF IInv, TypeOK
<1>1. /\ stats = 0 /\ ~unsent /\ NoneCompleted /\ answer = <<>>
      /\ cons \in {"waiting", "raised", "timed_out"}
  BY NothingYet DEF BeginAttempt
<1>2. /\ UNCHANGED <<mode, thinking, attempt, lastException, delay, queue, stats, unsent, cons,
                     answer, idle, silent>>
      /\ prod = "begin" /\ prod' = "calling"
      /\ buffer' = EmptyBuffer
      /\ active' = active + (IF thinking THEN 2 ELSE 1)
  BY DEF BeginAttempt, retry, consumer
<1>3. EmptyBuffer \in [Streams -> Values] /\ \A n \in Streams : EmptyBuffer[n] = <<>>
  BY DEF EmptyBuffer, Values, Streams
<1>4. thinking \in BOOLEAN /\ MaxRetries \in Nat
  BY StreamAssumption
<1>5. active' \in 0 .. 2 * (MaxRetries + 1) /\ ActiveInv'
  BY <1>2, <1>4 DEF ActiveInv
<1>6. TypeOK'
  BY <1>2, <1>3, <1>5 DEF Streams
<1>7. BufferInv'
  BY <1>2, <1>3 DEF BufferInv
<1>8. QueueInv'
  BY <1>1, <1>2, PlainQueue DEF QueueInv, NoneCompleted, Waiting, Completes
<1>9. AnswerInv'
  BY <1>1, <1>2 DEF AnswerInv, Completed
<1>10. QED
  BY <1>5, <1>6, <1>7, <1>8, <1>9

\* A chunk joins the buffer of its name.
LEMMA StreamKeeps ==
  ASSUME IInv, NEW n \in Streams, StreamPartial(n)
  PROVE  IInv'
<1>. USE DEF IInv, TypeOK
<1>1. /\ stats = 0 /\ ~unsent /\ NoneCompleted /\ answer = <<>>
      /\ cons \in {"waiting", "raised", "timed_out"}
  BY NothingYet DEF StreamPartial
<1>2. /\ UNCHANGED <<mode, thinking, prod, attempt, lastException, delay, active, stats, unsent,
                     cons, answer, idle>>
      /\ prod = "calling" /\ silent' = FALSE
      /\ buffer' = [buffer EXCEPT ![n] = Append(@, Chunk(n))]
      /\ Put(<<Message("partial", n, buffer'[n])>>)
  BY DEF StreamPartial, retry, consumer
<1>. DEFINE C == [name : {"response", "thought"}, attempt : Nat]
<1>3. Chunk(n) \in C /\ buffer[n] \in Seq(C) /\ Values = Seq(C)
  BY StreamAssumption DEF Chunk, Values, Streams
<1>. DEFINE b == Append(buffer[n], Chunk(n))
<1>4. /\ b \in Seq(C) /\ Len(b) = Len(buffer[n]) + 1 /\ Len(buffer[n]) \in Nat
      /\ \A i \in 1 .. Len(buffer[n]) : b[i] = buffer[n][i]
      /\ b[Len(buffer[n]) + 1] = Chunk(n)
  <2>. HIDE DEF C
  <2>1. QED
    BY <1>3, AppendProperties, LenProperties
<1>5. buffer'[n] = b /\ \A k \in Streams : k # n => buffer'[k] = buffer[k]
  BY <1>2 DEF Streams
<1>. HIDE DEF b, C
<1>6. buffer' \in [Streams -> Values]
  BY <1>2, <1>3, <1>4, <1>5 DEF Streams, b
<1>7. BufferInv'
  <2>1. ASSUME NEW k \in Streams, NEW i \in 1 .. Len(buffer'[k]) PROVE buffer'[k][i] = Chunk(k)
    <3>1. CASE k # n
      BY <1>2, <1>5, <2>1, <3>1 DEF BufferInv
    <3>2. CASE k = n /\ i <= Len(buffer[n])
      BY <1>2, <1>4, <1>5, <2>1, <3>2 DEF BufferInv
    <3>3. CASE k = n /\ i = Len(buffer[n]) + 1
      BY <1>4, <1>5, <3>3
    <3>4. QED
      BY <1>4, <1>5, <2>1, <3>1, <3>2, <3>3
  <2>2. QED
    BY <1>2, <2>1 DEF BufferInv, Chunk
<1>. DEFINE m == Message("partial", n, buffer'[n])
<1>8. m \in Messages /\ m.type # "complete"
  BY <1>6 DEF Message, Messages, Streams
<1>. HIDE DEF m
<1>9. queue' \in Seq(Messages) /\ NoneCompleted' /\ (~Waiting' => queue' = <<>>)
  <2>1. Put(<<m>>)
    BY <1>2 DEF m
  <2>2. queue \in Seq(Messages) /\ (~Waiting => queue = <<>>)
    BY DEF Messages, QueueInv
  <2>3. QED
    BY <1>1, <1>2, <1>8, <2>1, <2>2, PutPlain
<1>10. QueueInv'
  BY <1>9, PlainQueue DEF QueueInv, NoneCompleted, Waiting, Completes
<1>11. ActiveInv' /\ AnswerInv'
  BY <1>1, <1>2 DEF ActiveInv, AnswerInv, Completed
<1>12. TypeOK'
  BY <1>2, <1>6, <1>9 DEF Streams, Messages
<1>13. QED
  BY <1>7, <1>10, <1>11, <1>12

\* What is put when the provider's stream ended: the response, then the thoughts.
LEMMA CompletionsAre ==
  ASSUME IInv
  PROVE  /\ Completions \in Seq(Messages)
         /\ Len(Completions) \in 1 .. 2
         /\ Completions[1] = Message("complete", "response", buffer["response"])
         /\ Len(Completions) = 2 =>
              Completions[2] = Message("complete", "thought", buffer["thought"])
<1>. DEFINE r == Message("complete", "response", buffer["response"])
            t == Message("complete", "thought", buffer["thought"])
<1>1. r \in Messages /\ t \in Messages
  BY DEF IInv, TypeOK, Message, Messages
<1>. HIDE DEF r, t
<1>2. Completions = IF thinking THEN <<r>> \o <<t>> ELSE <<r>> \o <<>>
  BY DEF Completions, r, t
<1>3. <<r>> \in Seq(Messages) /\ <<t>> \in Seq(Messages) /\ <<>> \in Seq(Messages)
  BY <1>1
<1>4. <<r>> \o <<>> = <<r>>
  BY <1>3, ConcatEmptySeq
<1>5. /\ <<r>> \o <<t>> \in Seq(Messages) /\ Len(<<r>> \o <<t>>) = 2
      /\ (<<r>> \o <<t>>)[1] = r /\ (<<r>> \o <<t>>)[2] = t
  <2>1. Len(<<r>>) = 1 /\ Len(<<t>>) = 1 /\ <<r>>[1] = r /\ <<t>>[1] = t
    OBVIOUS
  <2>2. QED
    BY <1>3, <2>1, ConcatProperties
<1>6. CASE thinking
  BY <1>2, <1>5, <1>6 DEF r, t
<1>7. CASE ~thinking
  BY <1>1, <1>2, <1>4, <1>7 DEF r, t
<1>8. QED
  BY <1>6, <1>7

\* What the background task puts when the provider's stream ended: the completed values,
\* with or without an error behind them.
Closing(p) ==
  /\ p \in Seq(Messages) /\ Len(p) >= 1
  /\ p[1] = Message("complete", "response", buffer["response"])
  /\ \A k \in 2 .. Len(p) : p[k].type = "complete" =>
       k = 2 /\ p[k] = Message("complete", "thought", buffer["thought"])

LEMMA BothAreClosing ==
  ASSUME IInv
  PROVE  Closing(Completions) /\ Closing(Completions \o <<ErrorMessage>>)
<1>1. /\ Completions \in Seq(Messages)
      /\ Len(Completions) \in 1 .. 2
      /\ Completions[1] = Message("complete", "response", buffer["response"])
      /\ Len(Completions) = 2 =>
           Completions[2] = Message("complete", "thought", buffer["thought"])
  BY CompletionsAre
<1>2. ErrorMessage \in Messages /\ ErrorMessage.type # "complete"
  BY DEF ErrorMessage, Message, Messages, Values
<1>. DEFINE c == Completions
            e == ErrorMessage
<1>. HIDE DEF c, e
<1>3. Closing(c)
  <2>1. Len(c) \in 1 .. 2
    BY <1>1 DEF c
  <2>2. \A k \in 2 .. Len(c) : k = 2 /\ Len(c) = 2
    <3>1. \A n \in 1 .. 2 : \A k \in 2 .. n : k = 2 /\ n = 2
      OBVIOUS
    <3>2. QED
      BY <2>1, <3>1
  <2>3. c \in Seq(Messages) /\ Len(c) >= 1 /\ c[1] = Message("complete", "response", buffer["response"])
    BY <1>1, <2>1 DEF c
  <2>4. Len(c) = 2 => c[2] = Message("complete", "thought", buffer["thought"])
    BY <1>1 DEF c
  <2>5. QED
    BY <2>2, <2>3, <2>4 DEF Closing
<1>4. <<e>> \in Seq(Messages) /\ Len(<<e>>) = 1 /\ <<e>>[1] = e
  BY <1>2 DEF e
<1>5. /\ c \o <<e>> \in Seq(Messages) /\ Len(c \o <<e>>) = Len(c) + 1
      /\ \A i \in 1 .. Len(c) + 1 :
           (c \o <<e>>)[i] = IF i <= Len(c) THEN c[i] ELSE <<e>>[i - Len(c)]
  BY <1>1, <1>4, ConcatProperties DEF c
<1>6. Closing(c \o <<e>>)
  <2>1. Len(c) \in 1 .. 2
    BY <1>1 DEF c
  <2>2. (c \o <<e>>)[1] = c[1] /\ Len(c \o <<e>>) >= 1
    BY <1>5, <2>1
  <2>3. ASSUME NEW k \in 2 .. Len(c) + 1, (c \o <<e>>)[k].type = "complete"
        PROVE  k = 2 /\ (c \o <<e>>)[k] = Message("complete", "thought", buffer["thought"])
    <3>1. CASE k <= Len(c)
      BY <1>1, <1>5, <2>1, <2>3, <3>1 DEF c
    <3>2. CASE k = Len(c) + 1
      <4>1. k - Len(c) = 1 /\ ~(k <= Len(c)) /\ k \in 1 .. Len(c) + 1
        BY <2>1, <3>2
      <4>2. (c \o <<e>>)[k] = e
        BY <1>4, <1>5, <4>1
      <4>3. QED
        BY <1>2, <2>3, <4>2 DEF e
    <3>3. QED
      BY <2>1, <2>3, <3>1, <3>2
  <2>4. c[1] = Message("complete", "response", buffer["response"])
    BY <1>1 DEF c
  <2>5. QED
    BY <1>5, <2>2, <2>3, <2>4 DEF Closing
<1>7. QED
  BY <1>3, <1>6 DEF c, e

\* The provider's stream ended: the completed values join the queue.
LEMMA EndKeeps ==
  ASSUME IInv, NEW p, Closing(p), Put(p), prod = "calling", prod' = "over",
         active' = active - (IF thinking THEN 2 ELSE 1),
         Completed', stats' \in 0 .. 1, unsent' \in BOOLEAN,
         UNCHANGED <<mode, thinking, attempt, lastException, delay, buffer, cons, answer, idle,
                     silent>>
  PROVE  IInv'
<1>. USE DEF IInv, TypeOK
<1>1. /\ stats = 0 /\ ~unsent /\ NoneCompleted /\ answer = <<>>
      /\ cons \in {"waiting", "raised", "timed_out"}
  BY NothingYet
<1>4. thinking \in BOOLEAN
  BY StreamAssumption
<1>5. active' \in 0 .. 2 * (MaxRetries + 1) /\ ActiveInv'
  BY <1>4, StreamAssumption DEF ActiveInv
<1>6. BufferInv'
  BY DEF BufferInv, Chunk
<1>7. CASE ~Waiting
  <2>1. queue' = queue /\ queue = <<>>
    BY <1>7 DEF Put, QueueInv
  <2>2. QueueInv'
    BY <2>1 DEF QueueInv, Waiting
  <2>3. AnswerInv'
    BY <1>1 DEF AnswerInv
  <2>4. TypeOK'
    BY <1>5, <2>1
  <2>5. QED
    BY <1>5, <1>6, <2>2, <2>3, <2>4
<1>8. CASE Waiting
  <2>. DEFINE L == Len(queue)
  <2>1. queue \in Seq(Messages) /\ L \in Nat
    BY LenProperties DEF Messages
  <2>2. queue' = queue \o p
    BY <1>8 DEF Put
  <2>0. /\ p \in Seq(Messages) /\ Len(p) \in Nat /\ Len(p) >= 1
        /\ p[1] = Message("complete", "response", buffer["response"])
        /\ \A k \in 2 .. Len(p) : p[k].type = "complete" =>
             k = 2 /\ p[k] = Message("complete", "thought", buffer["thought"])
    BY LenProperties DEF Closing
  <2>3. /\ queue' \in Seq(Messages) /\ Len(queue') = L + Len(p)
        /\ \A i \in 1 .. L + Len(p) :
             queue'[i] = IF i <= L THEN queue[i] ELSE p[i - L]
    BY <2>0, <2>1, <2>2, ConcatProperties
  <2>. HIDE DEF L
  <2>4. \A i \in 1 .. L : queue'[i].type # "complete"
    BY <1>1, <2>0, <2>1, <2>3 DEF NoneCompleted, L
  <2>5. L + 1 \in 1 .. Len(queue') /\ queue'[L + 1] = p[1]
    <3>1. L + 1 \in 1 .. L + Len(p) /\ ~(L + 1 <= L) /\ (L + 1) - L = 1
      BY <2>0, <2>1
    <3>2. QED
      BY <2>3, <3>1
  <2>6. \A i \in 1 .. Len(queue') : queue'[i].type = "complete" =>
          \/ i = L + 1 /\ queue'[i].name = "response" /\ queue'[i].value = buffer["response"]
          \/ i = L + 2 /\ queue'[i].name = "thought" /\ queue'[i].value = buffer["thought"]
    <3>1. SUFFICES ASSUME NEW i \in 1 .. L + Len(p), i > L, queue'[i].type = "complete"
          PROVE \/ i = L + 1 /\ queue'[i].name = "response" /\ queue'[i].value = buffer["response"]
                \/ i = L + 2 /\ queue'[i].name = "thought" /\ queue'[i].value = buffer["thought"]
      BY <2>1, <2>3, <2>4
    <3>2. CASE i = L + 1
      BY <2>0, <2>5, <3>2 DEF Message
    <3>3. CASE i # L + 1
      <4>1. i - L \in 2 .. Len(p) /\ ~(i <= L)
        BY <2>0, <2>1, <3>1, <3>3
      <4>2. queue'[i] = p[i - L]
        BY <2>3, <3>1, <4>1
      <4>3. i - L = 2 /\ p[i - L] = Message("complete", "thought", buffer["thought"])
        BY <2>0, <3>1, <4>1, <4>2
      <4>4. i = L + 2
        BY <2>1, <4>3
      <4>5. QED
        BY <4>2, <4>3, <4>4 DEF Message
    <3>4. QED
      BY <3>2, <3>3
  <2>7. QueueInv'
    <3>1. \A i \in 1 .. Len(queue') : queue'[i].type = "complete" =>
            /\ Completed' /\ queue'[i].name \in Streams
            /\ queue'[i].value = buffer'[queue'[i].name]
      BY <2>6 DEF Streams
    <3>2. \A i, j \in 1 .. Len(queue') :
            Completes(queue'[i], "response") /\ Completes(queue'[j], "response") => i = j
      BY <2>6 DEF Completes
    <3>3. ASSUME NEW i \in 1 .. Len(queue'), Completes(queue'[i], "thought")
          PROVE  \E j \in 1 .. i - 1 : Completes(queue'[j], "response")
      <4>1. i = L + 2
        BY <2>6, <3>3 DEF Completes
      <4>2. L + 1 \in 1 .. i - 1 /\ Completes(queue'[L + 1], "response")
        BY <2>0, <2>1, <2>5, <4>1 DEF Completes, Message
      <4>3. QED
        BY <4>2
    <3>4. Waiting'
      BY <1>8 DEF Waiting
    <3>5. QED
      BY <3>1, <3>2, <3>3, <3>4 DEF QueueInv
  <2>8. AnswerInv'
    BY <1>1 DEF AnswerInv
  <2>9. TypeOK'
    BY <1>5, <2>3 DEF Messages
  <2>10. QED
    BY <1>5, <1>6, <2>7, <2>8, <2>9
<1>9. QED
  BY <1>7, <1>8

\* The call completes, and is counted or not.
LEMMA CompleteKeeps ==
  ASSUME IInv, Complete \/ StatisticsFail
  PROVE  IInv'
<1>1. stats = 0 /\ ~unsent
  BY NothingYet DEF Complete, StatisticsFail
<1>2. /\ UNCHANGED <<mode, thinking, attempt, lastException, delay, buffer, cons, answer, idle,
                     silent>>
      /\ prod = "calling" /\ prod' = "over"
      /\ active' = active - (IF thinking THEN 2 ELSE 1)
  BY DEF Complete, StatisticsFail, retry, consumer
<1>3. CASE Complete
  <2>1. stats' = 1 /\ unsent' = unsent /\ Put(Completions)
    BY <1>1, <1>3 DEF Complete
  <2>2. Completed' /\ stats' \in 0 .. 1 /\ unsent' \in BOOLEAN
    BY <2>1 DEF Completed, IInv, TypeOK
  <2>3. QED
    BY <1>2, <2>1, <2>2, BothAreClosing, EndKeeps
<1>4. CASE StatisticsFail
  <2>1. /\ Completed' /\ stats' \in 0 .. 1 /\ unsent' \in BOOLEAN
        /\ Put(Completions \o <<ErrorMessage>>)
    BY <1>1, <1>4 DEF StatisticsFail, Completed
  <2>2. QED
    BY <1>2, <2>1, BothAreClosing, EndKeeps
<1>5. QED
  BY <1>3, <1>4

\* The provider raises: the attempt is given up, repeated, or repeated after a pause.
LEMMA FailsKeeps ==
  ASSUME IInv, NEW e \in Errors, AttemptFails(e)
  PROVE  IInv'
<1>. USE DEF IInv, TypeOK
<1>1. /\ stats = 0 /\ ~unsent /\ NoneCompleted /\ answer = <<>>
      /\ cons \in {"waiting", "raised", "timed_out"}
  BY NothingYet DEF AttemptFails
<1>2. /\ UNCHANGED <<mode, thinking, buffer, active, stats, unsent, cons, answer, idle>>
      /\ prod = "calling"
      /\ lastException' \in {"none", "transient", "client"}
  BY StreamAssumption DEF AttemptFails, consumer
<1>3. \/ prod' = "over" /\ attempt' = attempt /\ Put(<<ErrorMessage>>)
         /\ UNCHANGED <<delay, silent>>
      \/ prod' = "begin" /\ attempt' = attempt + 1 /\ ~LastAttempt
         /\ silent' = FALSE /\ UNCHANGED <<delay, queue>>
      \/ prod' = "backoff" /\ attempt' = attempt /\ ~LastAttempt /\ delay' \in Backoff
         /\ UNCHANGED <<queue, silent>>
  BY DEF AttemptFails, GiveUp
<1>4. queue' \in Seq(Messages) /\ NoneCompleted' /\ (~Waiting' => queue' = <<>>)
  <2>1. queue \in Seq(Messages) /\ (~Waiting => queue = <<>>)
    BY DEF Messages, QueueInv
  <2>2. ErrorMessage \in Messages /\ ErrorMessage.type # "complete"
    BY DEF ErrorMessage, Message, Messages, Values
  <2>3. CASE Put(<<ErrorMessage>>)
    BY <1>1, <1>2, <2>1, <2>2, <2>3, PutPlain
  <2>4. CASE queue' = queue
    BY <1>1, <1>2, <2>1, <2>4 DEF NoneCompleted, Waiting
  <2>5. QED
    BY <1>3, <2>3, <2>4
<1>5. attempt' \in 1 .. MaxRetries + 1 /\ delay' \in 0 .. MaxDelay
  BY <1>3, PausesAreBounded, StreamAssumption DEF LastAttempt
<1>6. ActiveInv'
  BY <1>2, <1>3 DEF ActiveInv, LastAttempt
<1>7. BufferInv'
  BY <1>2, <1>3 DEF BufferInv, Chunk
<1>8. QueueInv'
  BY <1>4 DEF QueueInv, NoneCompleted, Completes
<1>9. AnswerInv'
  BY <1>1, <1>2 DEF AnswerInv, Completed
<1>10. TypeOK'
  <2>1. prod' \in {"begin", "calling", "backoff", "over"} /\ silent' \in BOOLEAN
    BY <1>3
  <2>2. QED
    BY <1>2, <1>4, <1>5, <2>1 DEF Messages
<1>11. QED
  BY <1>6, <1>7, <1>8, <1>9, <1>10

\* The pause is over.
LEMMA WakeKeeps ==
  ASSUME IInv, Wake
  PROVE  IInv'
<1>. USE DEF IInv, TypeOK
<1>1. /\ stats = 0 /\ ~unsent /\ NoneCompleted /\ answer = <<>>
      /\ cons \in {"waiting", "raised", "timed_out"}
  BY NothingYet DEF Wake
<1>2. /\ UNCHANGED <<mode, thinking, lastException, delay, buffer, active, queue, stats, unsent,
                     cons, answer, idle, silent>>
      /\ prod = "backoff" /\ prod' = "begin" /\ attempt' = attempt + 1
  BY DEF Wake, stream, consumer
<1>3. attempt' \in 1 .. MaxRetries + 1
  BY <1>2, StreamAssumption DEF LastAttempt, ActiveInv
<1>4. ActiveInv' /\ BufferInv'
  BY <1>2 DEF ActiveInv, BufferInv
<1>5. QueueInv' /\ AnswerInv'
  BY <1>1, <1>2 DEF QueueInv, AnswerInv, Completed, NoneCompleted, Waiting, Completes
<1>6. TypeOK'
  BY <1>2, <1>3
<1>7. QED
  BY <1>4, <1>5, <1>6
\* The consumer takes the first chunk: a completed response once, as the answer.
LEMMA ReceiveKeeps ==
  ASSUME IInv, Receive
  PROVE  IInv' /\ (cons' \in {"answered", "stopped"} => Completed)
<1>. USE DEF IInv, TypeOK
<1>. DEFINE m == Head(queue)
<1>1. /\ UNCHANGED <<mode, thinking, prod, attempt, lastException, delay, buffer, active, stats,
                     unsent, silent>>
      /\ cons = "waiting" /\ queue # <<>> /\ idle' = 0
      /\ answer' = IF m.type = "complete" /\ (mode = "whole" \/ m.name = "response")
                   THEN Append(answer, m.value) ELSE answer
      /\ \/ m.type = "error" /\ cons' = "raised"
         \/ /\ m.type = "complete" /\ mode = "whole"
            /\ cons' \in {"answered", "raised"}
         \/ /\ m.type = "complete" /\ mode = "stream"
            /\ cons' \in {"stopped", "waiting"}
         \/ m.type = "partial" /\ cons' = "waiting"
      /\ queue' = IF cons' = "waiting" THEN Tail(queue) ELSE <<>>
  BY DEF Receive, Keep, Waiting, retry
<1>2. queue \in Seq(Messages)
  BY DEF Messages
<1>3. m \in Messages /\ m = queue[1] /\ Len(queue) \in Nat /\ Len(queue) >= 1
  BY <1>1, <1>2, HeadTailProperties, LenProperties, EmptySeq
<1>4. /\ Tail(queue) \in Seq(Messages) /\ Len(Tail(queue)) = Len(queue) - 1
      /\ \A i \in 1 .. Len(queue) - 1 : Tail(queue)[i] = queue[i + 1]
  BY <1>1, <1>2, HeadTailProperties
<1>. HIDE DEF m
<1>5. m.type = "complete" =>
        Completed /\ m.name \in Streams /\ m.value = buffer[m.name]
  BY <1>3 DEF QueueInv
\* In one piece the response comes first.
<1>6. m.type = "complete" /\ (mode = "whole" \/ m.name = "response") => m.name = "response"
  BY <1>3, <1>5 DEF QueueInv, Completes, Streams
<1>7. m.type = "complete" /\ m.name = "response" => answer = <<>>
  BY <1>3 DEF AnswerInv, Completes
<1>8. \/ answer' = answer
      \/ answer' = <<buffer["response"]>> /\ Completes(m, "response")
  <2>1. CASE m.type = "complete" /\ (mode = "whole" \/ m.name = "response")
    <3>1. m.value = buffer["response"] /\ answer = <<>> /\ Completes(m, "response")
      BY <1>5, <1>6, <1>7, <2>1 DEF Completes
    <3>2. Append(<<>>, m.value) = <<m.value>>
      OBVIOUS
    <3>3. answer' = Append(answer, m.value)
      BY <1>1, <2>1
    <3>4. QED
      BY <3>1, <3>2, <3>3
  <2>2. CASE ~(m.type = "complete" /\ (mode = "whole" \/ m.name = "response"))
    BY <1>1, <2>2
  <2>3. QED
    BY <2>1, <2>2
<1>9. answer' \in Seq(Values) /\ cons' \in {"waiting", "answered", "stopped", "raised"}
  <2>1. buffer["response"] \in Values
    OBVIOUS
  <2>2. answer' \in Seq(Values)
    <3>. DEFINE b == buffer["response"]
    <3>1. b \in Values /\ (answer' = answer \/ answer' = <<b>>)
      BY <1>8, <2>1
    <3>. HIDE DEF b
    <3>2. <<b>> \in Seq(Values)
      BY <3>1
    <3>3. QED
      BY <3>1, <3>2
  <2>3. QED
    BY <1>1, <2>2
\* What stays in the queue was in it, one place further.
<1>10. /\ queue' \in Seq(Messages) /\ Len(queue') < Len(queue) /\ Len(queue') \in Nat
       /\ \A i \in 1 .. Len(queue') :
            i + 1 \in 1 .. Len(queue) /\ queue'[i] = queue[i + 1] /\ cons' = "waiting"
  <2>1. CASE cons' = "waiting"
    BY <1>1, <1>3, <1>4, <2>1
  <2>2. CASE cons' # "waiting"
    <3>1. queue' = <<>> /\ Len(queue') = 0 /\ queue' \in Seq(Messages)
      BY <1>1, <2>2, EmptySeq
    <3>2. QED
      BY <1>3, <3>1
  <2>3. QED
    BY <2>1, <2>2
<1>11. QueueInv'
  <2>1. ~Waiting' => queue' = <<>>
    BY <1>1 DEF Waiting
  <2>2. \A i \in 1 .. Len(queue') : queue'[i].type = "complete" =>
          /\ Completed' /\ queue'[i].name \in Streams
          /\ queue'[i].value = buffer'[queue'[i].name]
    BY <1>1, <1>10 DEF QueueInv, Completed
  <2>3. \A i, j \in 1 .. Len(queue') :
          Completes(queue'[i], "response") /\ Completes(queue'[j], "response") => i = j
    <3>1. ASSUME NEW i \in 1 .. Len(queue'), NEW j \in 1 .. Len(queue'),
                 Completes(queue'[i], "response"), Completes(queue'[j], "response")
          PROVE  i = j
      <4>1. /\ i + 1 \in 1 .. Len(queue) /\ j + 1 \in 1 .. Len(queue)
            /\ Completes(queue[i + 1], "response") /\ Completes(queue[j + 1], "response")
        BY <1>10, <3>1
      <4>2. i + 1 = j + 1
        BY <4>1 DEF QueueInv
      <4>3. QED
        BY <1>10, <4>2
    <3>2. QED
      BY <3>1
  <2>4. ASSUME mode' = "whole", NEW i \in 1 .. Len(queue'), Completes(queue'[i], "thought")
        PROVE  \E j \in 1 .. i - 1 : Completes(queue'[j], "response")
    <3>1. i + 1 \in 1 .. Len(queue) /\ Completes(queue[i + 1], "thought") /\ mode = "whole"
      BY <1>1, <1>10, <2>4
    <3>2. PICK j \in 1 .. i : Completes(queue[j], "response")
      BY <3>1 DEF QueueInv
    <3>3. cons' = "waiting"
      BY <1>10, <2>4
    <3>4. m.type = "partial"
      BY <1>1, <3>1, <3>3
    <3>5. j # 1
      BY <1>3, <3>2, <3>4 DEF Completes
    <3>6. j - 1 \in 1 .. i - 1 /\ j - 1 \in 1 .. Len(queue') /\ (j - 1) + 1 = j
      <4>1. \A a, b, n \in Int : a \in 1 .. b /\ a # 1 /\ b <= n =>
              a - 1 \in 1 .. b - 1 /\ a - 1 \in 1 .. n /\ (a - 1) + 1 = a
        OBVIOUS
      <4>2. j \in Int /\ i \in Int /\ Len(queue') \in Int /\ i <= Len(queue')
        BY <1>10, <2>4, <3>2
      <4>3. QED
        BY <3>2, <3>5, <4>1, <4>2
    <3>7. queue'[j - 1] = queue[j]
      BY <1>10, <3>6
    <3>8. QED
      BY <3>2, <3>6, <3>7
  <2>5. QED
    BY <2>1, <2>2, <2>3, <2>4 DEF QueueInv
<1>12. cons' \in {"answered", "stopped"} => Completed
  BY <1>1, <1>5
<1>13. AnswerInv'
  <2>1. ASSUME answer' # <<>>, NEW i \in 1 .. Len(queue')
        PROVE  ~Completes(queue'[i], "response")
    <3>1. CASE Completes(m, "response")
      <4>1. 1 \in 1 .. Len(queue) /\ i + 1 \in 1 .. Len(queue) /\ queue'[i] = queue[i + 1]
        BY <1>3, <1>10, <2>1
      <4>2. Completes(queue[i + 1], "response") => 1 = i + 1
        BY <1>3, <3>1, <4>1 DEF QueueInv
      <4>3. QED
        BY <1>10, <2>1, <4>1, <4>2
    <3>2. CASE answer' = answer
      BY <1>10, <2>1, <3>2 DEF AnswerInv
    <3>3. QED
      BY <1>8, <3>1, <3>2
  <2>2. answer' # <<>> => Completed' /\ answer' = <<buffer'["response"]>>
    BY <1>1, <1>5, <1>8 DEF AnswerInv, Completes, Completed
  <2>3. QED
    BY <1>1, <1>12, <2>1, <2>2 DEF AnswerInv, Completed
<1>14. ActiveInv' /\ BufferInv'
  BY <1>1 DEF ActiveInv, BufferInv, Chunk, LastAttempt
<1>15. TypeOK'
  BY <1>1, <1>9, <1>10, StreamAssumption DEF Messages
<1>16. QED
  BY <1>11, <1>12, <1>13, <1>14, <1>15

\* The consumer gives up, or a second passes.
LEMMA ClockKeeps ==
  ASSUME IInv, TimesOut \/ Tick
  PROVE  IInv'
<1>. USE DEF IInv, TypeOK
<1>1. UNCHANGED <<mode, thinking, prod, attempt, lastException, buffer, active, stats, unsent,
                  answer, silent>>
  BY DEF TimesOut, Tick, retry, stream
<1>2. \/ cons' = cons /\ queue' = queue
      \/ cons' = "timed_out" /\ queue' = <<>>
  BY DEF TimesOut, Tick, stream
<1>3. delay' \in 0 .. MaxDelay
  BY StreamAssumption DEF TimesOut, Tick, retry
<1>4. idle' \in 0 .. Timeout
  BY StreamAssumption DEF TimesOut, Tick
<1>5. queue' \in Seq(Messages)
  BY <1>2, EmptySeq DEF Messages
<1>6. ActiveInv' /\ BufferInv'
  BY <1>1 DEF ActiveInv, BufferInv, Chunk, LastAttempt
<1>7. QueueInv'
  <2>1. CASE cons' = cons /\ queue' = queue
    BY <1>1, <2>1 DEF QueueInv, Waiting, Completed
  <2>2. CASE queue' = <<>>
    <3>1. Len(queue') = 0
      BY <2>2, EmptySeq
    <3>2. QED
      BY <2>2, <3>1 DEF QueueInv
  <2>3. QED
    BY <1>2, <2>1, <2>2
<1>8. AnswerInv'
  <2>1. \A i \in 1 .. Len(queue') : i \in 1 .. Len(queue) /\ queue'[i] = queue[i]
    BY <1>2, EmptySeq
  <2>2. QED
    BY <1>1, <1>2, <2>1 DEF AnswerInv, Completed
<1>9. TypeOK'
  BY <1>1, <1>2, <1>3, <1>4, <1>5 DEF Messages
<1>10. QED
  BY <1>6, <1>7, <1>8, <1>9

\* Nothing that the invariant speaks of changes.
LEMMA StutterKeeps ==
  ASSUME IInv, UNCHANGED vars
  PROVE  IInv'
BY DEF IInv, TypeOK, ActiveInv, BufferInv, QueueInv, AnswerInv, Completed, Chunk, LastAttempt, Waiting, vars,
       retry, stream, consumer

\* Every step keeps the invariant.
LEMMA InvStep ==
  ASSUME IInv, [Next]_vars
  PROVE  IInv'
<1>1. CASE BeginAttempt
  BY <1>1, BeginKeeps
<1>2. CASE Complete \/ StatisticsFail
  BY <1>2, CompleteKeeps
<1>3. CASE Wake
  BY <1>3, WakeKeeps
<1>4. CASE \E n \in Streams : StreamPartial(n)
  BY <1>4, StreamKeeps
<1>5. CASE \E e \in Errors : AttemptFails(e)
  BY <1>5, FailsKeeps
<1>6. CASE Receive
  BY <1>6, ReceiveKeeps
<1>7. CASE TimesOut \/ Tick
  BY <1>7, ClockKeeps
<1>8. CASE Done \/ UNCHANGED vars
  BY <1>8, StutterKeeps DEF Done
<1>9. QED
  BY <1>1, <1>2, <1>3, <1>4, <1>5, <1>6, <1>7, <1>8 DEF Next, Producer, Streams

\* The invariant holds initially.
LEMMA InvInit ==
  ASSUME Init
  PROVE  IInv
<1>1. EmptyBuffer \in [Streams -> Values]
  BY DEF EmptyBuffer, Values, Streams
<1>2. <<>> \in Seq(Messages) /\ <<>> \in Seq(Values) /\ Len(<<>>) = 0
  BY EmptySeq
<1>3. TypeOK
  <2>1. /\ attempt \in 1 .. MaxRetries + 1 /\ delay \in 0 .. MaxDelay /\ stats \in 0 .. 1
        /\ active \in 0 .. 2 * (MaxRetries + 1) /\ idle \in 0 .. Timeout
    BY StreamAssumption DEF Init
  <2>2. unsent \in BOOLEAN /\ silent \in BOOLEAN
    BY DEF Init
  <2>3. QED
    BY <1>1, <1>2, <2>1, <2>2 DEF Init, TypeOK, Streams, Messages
<1>4. QED
  BY <1>2, <1>3 DEF Init, IInv, ActiveInv, BufferInv, QueueInv, AnswerInv, Completed, Waiting

\* The inductive invariant holds for any provider, consumer, delays and retries.
THEOREM CallInvariant == Spec => []IInv
<1>1. Init => IInv
  BY InvInit
<1>2. IInv /\ [Next]_vars => IInv'
  BY InvStep
<1>3. QED
  BY <1>1, <1>2, PTL DEF Spec

\* The state of a call is well typed: the pauses within max_delay, the active list
\* within what the attempts can have put on it.
THEOREM CallTypeCorrect == Spec => []TypeOK
<1>1. IInv => TypeOK
  BY DEF IInv
<1>2. QED
  BY <1>1, CallInvariant, PTL

\* An answer is the whole response of the attempt that completed, and nothing else.
THEOREM AnswersAreWhole == Spec => []AnswerIsWhole
<1>1. IInv => AnswerIsWhole
  <2>. SUFFICES ASSUME IInv, answer # <<>> PROVE AnswerIsWhole
    BY DEF AnswerIsWhole
  <2>1. answer = <<buffer["response"]>> /\ prod # "begin"
    BY DEF IInv, AnswerInv
  <2>2. \A i \in 1 .. Len(buffer["response"]) : buffer["response"][i] = Chunk("response")
    BY <2>1 DEF IInv, BufferInv, Streams
  <2>3. DOMAIN buffer["response"] = 1 .. Len(buffer["response"])
    BY LenProperties DEF IInv, TypeOK, Values
  <2>4. QED
    BY <2>1, <2>2, <2>3 DEF AnswerIsWhole
<1>2. QED
  BY <1>1, CallInvariant, PTL
(***************************************************************************)
(* The call implements ModelCall                                           *)
(***************************************************************************)
\* Every step counts, abandons, answers or fails the call, or is none of the caller's
\* business.
LEMMA StepRefines ==
  ASSUME IInv, [Next]_vars
  PROVE  [Call!Next]_<<OutcomeOf, BackgroundOf>>
<1>. USE DEF IInv, TypeOK
<1>1. ASSUME UNCHANGED <<cons, prod, stats, unsent>>
      PROVE  UNCHANGED <<OutcomeOf, BackgroundOf>>
  BY <1>1 DEF OutcomeOf, BackgroundOf
\* The background task goes on.
<1>2. ASSUME cons' = cons, stats' = stats, prod # "over", prod' # "over"
      PROVE  UNCHANGED <<OutcomeOf, BackgroundOf>>
  BY <1>2 DEF OutcomeOf, BackgroundOf
<1>3. CASE Complete \/ StatisticsFail
  <2>1. /\ cons' = cons /\ prod = "calling" /\ prod' = "over"
        /\ stats' = 1 \/ (stats' = 0 /\ unsent')
    BY <1>3, NothingYet DEF Complete, StatisticsFail, consumer
  <2>2. Call!Count \/ Call!Miss
    BY <2>1 DEF Call!Count, Call!Miss, OutcomeOf, BackgroundOf
  <2>3. QED
    BY <2>2 DEF Call!Next
<1>4. CASE \E e \in Errors : AttemptFails(e)
  <2>1. PICK e \in Errors : AttemptFails(e)
    BY <1>4
  <2>2. cons' = cons /\ prod = "calling" /\ stats' = stats /\ stats = 0
        /\ ~unsent /\ unsent' = unsent
        /\ prod' \in {"over", "begin", "backoff"}
    BY <2>1, NothingYet DEF AttemptFails, GiveUp, consumer
  <2>3. CASE prod' = "over"
    <3>1. Call!Abandon
      BY <2>2, <2>3 DEF Call!Abandon, OutcomeOf, BackgroundOf
    <3>2. QED
      BY <3>1 DEF Call!Next
  <2>4. CASE prod' # "over"
    BY <1>2, <2>2, <2>4
  <2>5. QED
    BY <2>3, <2>4
<1>5. CASE Receive
  <2>1. /\ cons = "waiting" /\ prod' = prod /\ stats' = stats /\ unsent' = unsent
        /\ cons' \in {"waiting", "answered", "stopped", "raised"}
    BY <1>5 DEF Receive, Waiting
  <2>2. CASE cons' = "waiting"
    BY <1>1, <2>1, <2>2
  <2>3. CASE cons' \in {"answered", "stopped"}
    <3>1. Completed /\ prod = "over"
      BY <1>5, <2>3, ReceiveKeeps DEF AnswerInv
    <3>2. BackgroundOf \in {"counted", "uncounted"}
      BY <3>1 DEF Completed, BackgroundOf
    <3>3. UNCHANGED BackgroundOf
      BY <2>1 DEF BackgroundOf
    <3>4. Call!Answer
      BY <2>1, <2>3, <3>2, <3>3 DEF Call!Answer, OutcomeOf
    <3>5. QED
      BY <3>4 DEF Call!Next
  <2>4. CASE cons' = "raised"
    <3>1. Call!Fail
      BY <2>1, <2>4 DEF Call!Fail, OutcomeOf, BackgroundOf
    <3>2. QED
      BY <3>1 DEF Call!Next
  <2>5. QED
    BY <2>1, <2>2, <2>3, <2>4
<1>6. CASE TimesOut
  <2>1. cons = "waiting" /\ cons' = "timed_out" /\ prod' = prod /\ stats' = stats
        /\ unsent' = unsent
    BY <1>6 DEF TimesOut, Waiting
  <2>2. Call!Fail
    BY <2>1 DEF Call!Fail, OutcomeOf, BackgroundOf
  <2>3. QED
    BY <2>2 DEF Call!Next
<1>7. CASE BeginAttempt \/ Wake \/ \E n \in Streams : StreamPartial(n)
  BY <1>2, <1>7 DEF BeginAttempt, Wake, StreamPartial, consumer
<1>8. CASE Tick \/ Done \/ UNCHANGED vars
  BY <1>1, <1>8 DEF Tick, Done, vars, consumer
<1>9. QED
  BY <1>3, <1>4, <1>5, <1>6, <1>7, <1>8 DEF Next, Producer, Streams

\* The caller gets an answer only of a call that completed, the call is counted at most
\* once, and an answer goes uncounted only when its statistics could not be sent:
\* every call implements ModelCall.
THEOREM CallRefinesModelCall == Spec => ImplementsModelCall
<1>1. Init => Call!Init
  BY DEF Init, Call!Init, OutcomeOf, BackgroundOf
<1>2. IInv /\ [Next]_vars => [Call!Next]_<<OutcomeOf, BackgroundOf>>
  BY StepRefines
<1>3. QED
  BY <1>1, <1>2, CallInvariant, PTL DEF Spec, ImplementsModelCall, Call!Spec

(***************************************************************************)
(* The last retry and the consumer's patience                              *)
(***************************************************************************)
\* The pauses add up to more than the timeout, and max_delay cuts none of them.  The
\* defaults (5 retries, 1 and 60 seconds, a timeout of 30 seconds) are such: 31 > 30.
PausesOutlastPatience ==
  /\ \A k \in 1 .. MaxRetries : BaseDelay * 2 ^ (k - 1) <= MaxDelay
  /\ BaseDelay * (2 ^ MaxRetries - 1) > Timeout

\* What a consumer that waits for its first chunk has waited for: every pause so far.
PauseInv ==
  silent /\ Waiting =>
    /\ prod # "over" => queue = <<>>
    /\ prod \in {"begin", "calling"} => idle >= BaseDelay * (2 ^ (attempt - 1) - 1)
    /\ prod = "backoff" => idle + delay >= BaseDelay * (2 ^ attempt - 1)

\* A pause that is not cut: it brings the sum of the pauses to the next power of two.
LEMMA PauseCompletes ==
  ASSUME IInv, PausesOutlastPatience, ~LastAttempt, delay' \in Backoff,
         idle >= BaseDelay * (2 ^ (attempt - 1) - 1)
  PROVE  idle + delay' >= BaseDelay * (2 ^ attempt - 1)
<1>. DEFINE p == 2 ^ (attempt - 1)
            q == BaseDelay * p
<1>1. attempt \in 1 .. MaxRetries /\ attempt - 1 \in Nat /\ BaseDelay \in Nat /\ idle \in Nat
      /\ MaxDelay \in Nat
  BY StreamAssumption DEF IInv, TypeOK, LastAttempt
<1>2. p \in Nat /\ 2 ^ attempt = p + p
  <2>1. 2 ^ ((attempt - 1) + 1) = p + p /\ p \in Nat
    BY <1>1, PowersOfTwo
  <2>2. (attempt - 1) + 1 = attempt
    BY <1>1
  <2>3. QED
    BY <2>1, <2>2
<1>3. q <= MaxDelay
  BY <1>1 DEF PausesOutlastPatience
<1>4. PICK jitter \in 0 .. 1 :
        delay' = IF q + jitter < MaxDelay THEN q + jitter ELSE MaxDelay
  BY DEF Backoff
<1>. HIDE DEF p
<1>5. q \in Nat /\ BaseDelay * (p - 1) = q - BaseDelay
      /\ BaseDelay * (p + p - 1) = q + q - BaseDelay
  BY <1>1, <1>2
<1>. HIDE DEF q
<1>6. delay' >= q
  BY <1>1, <1>3, <1>4, <1>5
<1>7. idle >= q - BaseDelay
  BY <1>1, <1>5 DEF p
<1>8. delay' \in Nat
  BY <1>1, <1>4, <1>5
<1>9. idle + delay' >= q + q - BaseDelay
  <2>1. \A x, y, z, b \in Int : x >= z - b /\ y >= z => x + y >= z + z - b
    OBVIOUS
  <2>2. q \in Int /\ BaseDelay \in Int /\ idle \in Int /\ delay' \in Int
    BY <1>1, <1>5, <1>8
  <2>3. QED
    BY <1>6, <1>7, <2>1, <2>2
<1>10. QED
  BY <1>2, <1>5, <1>9

\* Every step keeps the sum of the pauses.
LEMMA PauseInvStep ==
  ASSUME IInv, PauseInv, PausesOutlastPatience, [Next]_vars
  PROVE  PauseInv'
<1>. USE DEF IInv, TypeOK
<1>1. CASE BeginAttempt
  BY <1>1 DEF BeginAttempt, PauseInv, Waiting, retry, consumer
<1>2. CASE Complete \/ StatisticsFail
  BY <1>2 DEF Complete, StatisticsFail, PauseInv, Waiting
<1>3. CASE Wake
  <2>1. /\ prod = "backoff" /\ prod' = "begin" /\ delay = 0 /\ attempt' = attempt + 1
        /\ UNCHANGED <<queue, cons, idle, silent>>
    BY <1>3 DEF Wake, stream, consumer
  <2>2. attempt' - 1 = attempt
    BY <2>1
  <2>3. idle + 0 = idle
    OBVIOUS
  <2>4. QED
    BY <2>1, <2>2, <2>3 DEF PauseInv, Waiting
<1>4. CASE \E n \in Streams : StreamPartial(n)
  BY <1>4 DEF StreamPartial, PauseInv
<1>5. CASE \E e \in Errors : AttemptFails(e)
  <2>1. UNCHANGED <<cons, idle>> /\ prod = "calling"
    BY <1>5 DEF AttemptFails, consumer
  <2>2. \/ prod' = "over"
        \/ silent' = FALSE
        \/ /\ prod' = "backoff" /\ ~LastAttempt /\ delay' \in Backoff
           /\ UNCHANGED <<attempt, queue, silent>>
    BY <1>5 DEF AttemptFails, GiveUp
  <2>3. ASSUME silent', Waiting', prod' = "backoff"
        PROVE  queue' = <<>> /\ idle' + delay' >= BaseDelay * (2 ^ attempt' - 1)
    <3>1. silent /\ Waiting /\ ~LastAttempt /\ delay' \in Backoff
          /\ UNCHANGED <<attempt, queue, idle>>
      BY <2>1, <2>2, <2>3 DEF Waiting
    <3>2. queue = <<>> /\ idle >= BaseDelay * (2 ^ (attempt - 1) - 1)
      BY <2>1, <3>1 DEF PauseInv
    <3>3. QED
      BY <3>1, <3>2, PauseCompletes
  <2>4. QED
    BY <2>2, <2>3 DEF PauseInv
\* Before the first chunk there is nothing to receive.
<1>6. CASE Receive
  <2>1. Waiting /\ queue # <<>> /\ prod' = prod /\ silent' = silent
    BY <1>6 DEF Receive
  <2>2. QED
    BY <2>1 DEF PauseInv
<1>7. CASE TimesOut
  BY <1>7 DEF TimesOut, PauseInv, Waiting
<1>8. CASE Tick
  <2>1. UNCHANGED <<prod, attempt, queue, cons, silent>>
    BY <1>8 DEF Tick, stream
  <2>2. ASSUME Waiting
        PROVE  idle' = idle + 1 /\ delay' = IF prod = "backoff" THEN delay - 1 ELSE delay
    BY <1>8, <2>2 DEF Tick
  <2>3. idle \in Nat /\ delay \in Nat
    BY StreamAssumption
  <2>4. ASSUME Waiting, prod \in {"begin", "calling"}, NEW x \in Int, idle >= x
        PROVE  idle' >= x
    BY <2>2, <2>3, <2>4
  <2>5. ASSUME Waiting, prod = "backoff" PROVE idle' + delay' = idle + delay
    BY <2>2, <2>3, <2>5
  <2>6. BaseDelay * (2 ^ (attempt - 1) - 1) \in Int
    <3>1. 2 ^ (attempt - 1) \in Nat /\ BaseDelay \in Nat
      BY PowersOfTwo, StreamAssumption
    <3>. DEFINE p == 2 ^ (attempt - 1)
    <3>. HIDE DEF p
    <3>2. BaseDelay * (p - 1) \in Int
      BY <3>1 DEF p
    <3>3. QED
      BY <3>2 DEF p
  <2>7. QED
    BY <2>1, <2>4, <2>5, <2>6 DEF PauseInv, Waiting
<1>9. CASE Done \/ UNCHANGED vars
  BY <1>9 DEF Done, PauseInv, Waiting, vars, retry, stream, consumer
<1>10. QED
  BY <1>1, <1>2, <1>3, <1>4, <1>5, <1>6, <1>7, <1>8, <1>9 DEF Next, Producer, Streams

\* When the pauses add up to more than the timeout, as they do by default, the last
\* retry of a call that streamed nothing serves nobody.
THEOREM LastRetryUnheard ==
  ASSUME PausesOutlastPatience
  PROVE  Spec => []LastSilentRetryIsUnheard
<1>1. Init => PauseInv
  <2>1. SUFFICES ASSUME Init PROVE BaseDelay * (2 ^ 0 - 1) = 0
    BY StreamAssumption DEF Init, PauseInv
  <2>2. QED
    BY PowersOfTwo, StreamAssumption
<1>2. IInv /\ PauseInv /\ [Next]_vars => PauseInv'
  BY PauseInvStep
<1>3. IInv /\ PauseInv => LastSilentRetryIsUnheard
  <2>1. SUFFICES ASSUME IInv, PauseInv, LastAttempt, prod \in {"begin", "calling"}, silent, Waiting
                 PROVE  FALSE
    BY DEF LastSilentRetryIsUnheard
  <2>2. attempt - 1 = MaxRetries
    BY <2>1, StreamAssumption DEF LastAttempt
  <2>3. idle >= BaseDelay * (2 ^ MaxRetries - 1)
    BY <2>1, <2>2 DEF PauseInv
  <2>. DEFINE sum == BaseDelay * (2 ^ MaxRetries - 1)
  <2>4. sum \in Int
    <3>. DEFINE p == 2 ^ MaxRetries
    <3>1. p \in Nat /\ BaseDelay \in Nat
      BY PowersOfTwo, StreamAssumption
    <3>. HIDE DEF p
    <3>2. BaseDelay * (p - 1) \in Int
      BY <3>1
    <3>3. QED
      BY <3>2 DEF p
  <2>5. sum > Timeout
    BY DEF PausesOutlastPatience
  <2>. HIDE DEF sum
  <2>6. idle <= Timeout /\ idle \in Nat /\ Timeout \in Nat
    BY <2>1, StreamAssumption DEF IInv, TypeOK
  <2>7. QED
    BY <2>3, <2>4, <2>5, <2>6 DEF sum
<1>4. QED
  BY <1>1, <1>2, <1>3, CallInvariant, PTL DEF Spec
==============================================================================
