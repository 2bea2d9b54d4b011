------------------------------ MODULE LlmStream ------------------------------
(***************************************************************************)
(* One model call of kavalai/llm_clients: the background task started by   *)
(* stream_chat_completions (with_retry around a provider's                 *)
(* _run_chat_completions), the Streamer's queue, and its consumer, which   *)
(* is either chat_completions ("whole") or an application that iterates    *)
(* over the Streamer ("stream").  Time passes in seconds.                  *)
(*                                                                         *)
(* Putting on the unbounded queue never suspends, so everything a provider *)
(* does after its last chunk - the complete chunks, the callbacks that     *)
(* take the names off the active list, the statistics - is one step.       *)
(***************************************************************************)
EXTENDS Naturals, Sequences

CONSTANTS
  Modes,        \* consumers considered: "whole", "stream"
  Thinking,     \* whether the provider streams thoughts too (Gemini): BOOLEAN
  Errors,       \* classes of exceptions the provider may raise
  MaxRetries, BaseDelay, MaxDelay,   \* with_retry's parameters
  Timeout,      \* timeout_seconds of the Streamer
  MaxChunks     \* bound: chunks of each kind that an attempt receives

\* transient: what _retriable_exceptions lists, except Gemini's ClientError
\* client:    Gemini's ClientError other than 404
\* final:     a 404 of Gemini's, and everything else
ASSUME StreamAssumption ==
  /\ Modes \subseteq {"whole", "stream"}
  /\ Thinking \subseteq BOOLEAN
  /\ Errors \subseteq {"transient", "client", "final"}
  /\ MaxRetries \in Nat /\ BaseDelay \in Nat /\ MaxDelay \in Nat
  /\ Timeout \in Nat /\ MaxChunks \in Nat

VARIABLES
  mode, thinking,   \* the consumer and the provider of this call
  prod,             \* the background task: begin, calling, backoff, over
  attempt,          \* with_retry's attempt, counted from 1
  lastException,    \* with_retry's last_exception
  delay,            \* seconds of asyncio.sleep that are left
  buffer,           \* the buffers of the attempt's ValueStreamers
  active,           \* the length of _active_streamer_names
  queue,            \* the Streamer's queue
  stats,            \* calls of receive_model_stats
  cons,             \* the consumer: waiting, answered, stopped, raised, timed_out
  answer,           \* the completed values that the consumer took as the answer
  idle,             \* seconds the consumer has waited for the next chunk
  unsent,           \* history: the statistics of the completed call could not be sent
  silent            \* history: no chunk was streamed and every retry was paused for

retry == <<attempt, lastException, delay>>
stream == <<buffer, active, queue>>
consumer == <<cons, answer, idle>>
vars == <<mode, thinking, prod, retry, stream, stats, unsent, consumer, silent>>

Names == {"response"} \cup (IF thinking THEN {"thought"} ELSE {})
Chunk(n) == [name |-> n, attempt |-> attempt]
Message(t, n, v) == [type |-> t, name |-> n, value |-> v]
ErrorMessage == Message("error", "error", <<>>)
Waiting == cons = "waiting"
EmptyBuffer == [n \in {"response", "thought"} |-> <<>>]

Init ==
  /\ mode \in Modes
  /\ thinking \in Thinking
  /\ prod = "begin"
  /\ attempt = 1
  /\ lastException = "none"
  /\ delay = 0
  /\ buffer = EmptyBuffer
  /\ active = 0
  /\ queue = <<>>
  /\ stats = 0 /\ unsent = FALSE
  /\ cons = "waiting"
  /\ answer = <<>>
  /\ idle = 0
  /\ silent = TRUE

(***************************************************************************)
(* The background task                                                     *)
(***************************************************************************)
\* queue.put.  The queue of a consumer that is gone is garbage: it is kept empty.
Put(messages) == queue' = IF Waiting THEN queue \o messages ELSE queue

\* Mutant: an attempt goes on with the buffers of the last one.
BeginWithOldBuffer ==
  /\ prod = "begin"
  /\ prod' = "calling"
  /\ active' = active + (IF thinking THEN 2 ELSE 1)
  /\ UNCHANGED <<mode, thinking, retry, buffer, queue, stats, unsent, consumer, silent>>

\* get_value_streamer: a new buffer, and the name is active (once more).  What a
\* failed attempt left on the active list stays there.
BeginAttempt ==
  /\ prod = "begin"
  /\ prod' = "calling"
  /\ buffer' = EmptyBuffer
  /\ active' = active + (IF thinking THEN 2 ELSE 1)
  /\ UNCHANGED <<mode, thinking, retry, queue, stats, unsent, consumer, silent>>

\* stream_partial
StreamPartial(n) ==
  /\ prod = "calling"
  /\ n \in Names
  /\ Len(buffer[n]) < MaxChunks
  /\ buffer' = [buffer EXCEPT ![n] = Append(@, Chunk(n))]
  /\ Put(<<Message("partial", n, buffer'[n])>>)
  /\ UNCHANGED <<mode, thinking, prod, retry, active, stats, unsent, consumer>>
  /\ silent' = FALSE

\* Mutant: the thoughts are completed before the response.
CompletionsThoughtFirst ==
  (IF thinking THEN <<Message("complete", "thought", buffer["thought"])>> ELSE <<>>)
    \o <<Message("complete", "response", buffer["response"])>>

Completions ==
  <<Message("complete", "response", buffer["response"])>>
    \o (IF thinking THEN <<Message("complete", "thought", buffer["thought"])>> ELSE <<>>)

\* Mutant: the statistics are sent only for a call that was not retried.
CompleteUncounted ==
  /\ prod = "calling"
  /\ Put(Completions)
  /\ active' = active - (IF thinking THEN 2 ELSE 1)
  /\ stats' = IF attempt = 1 THEN stats + 1 ELSE stats
  /\ prod' = "over"
  /\ UNCHANGED <<mode, thinking, retry, buffer, unsent, consumer, silent>>

\* The provider's stream ended: stream_complete, _send_model_call_stats.
Complete ==
  /\ prod = "calling"
  /\ Put(Completions)
  /\ active' = active - (IF thinking THEN 2 ELSE 1)
  /\ stats' = stats + 1
  /\ prod' = "over"
  /\ UNCHANGED <<mode, thinking, retry, buffer, unsent, consumer, silent>>

\* stream_complete is done and the statistics after it raise: a token count that the
\* provider leaves out (None), a field that ModelCallStat refuses.  with_retry does
\* not repeat such an error: _run streams it, behind the completed values.
StatisticsFail ==
  /\ prod = "calling"
  /\ Put(Completions \o <<ErrorMessage>>)
  /\ active' = active - (IF thinking THEN 2 ELSE 1)
  /\ unsent' = TRUE
  /\ prod' = "over"
  /\ UNCHANGED <<mode, thinking, retry, buffer, stats, consumer, silent>>

LastAttempt == attempt = MaxRetries + 1

\* _run: the exception that with_retry lets out becomes an error chunk.
GiveUp ==
  /\ Put(<<ErrorMessage>>)
  /\ prod' = "over"
  /\ UNCHANGED <<attempt, delay, silent>>

\* Mutant: the delay grows linearly.
LinearBackoff ==
  {IF d < MaxDelay THEN d ELSE MaxDelay :
     d \in {BaseDelay * attempt + jitter : jitter \in 0 .. 1}}

\* min(base_delay * (2**attempt) + random.uniform(0, 1), max_delay)
Backoff ==
  {IF d < MaxDelay THEN d ELSE MaxDelay :
     d \in {BaseDelay * 2 ^ (attempt - 1) + jitter : jitter \in 0 .. 1}}

\* The provider raises in an attempt: with_retry's except clauses.
AttemptFails(e) ==
  /\ prod = "calling"
  /\ lastException' = IF e = "final" THEN lastException ELSE e
  /\ \/ (e = "final" \/ LastAttempt) /\ GiveUp
     \/ /\ e = "client" /\ ~LastAttempt          \* no sleep
        /\ prod' = "begin"
        /\ attempt' = attempt + 1
        /\ silent' = FALSE
        /\ UNCHANGED <<delay, queue>>
     \/ /\ e = "transient" /\ ~LastAttempt
        /\ prod' = "backoff"
        /\ delay' \in Backoff
        /\ UNCHANGED <<attempt, queue, silent>>
  /\ UNCHANGED <<mode, thinking, buffer, active, stats, unsent, consumer>>

\* Mutant: the retry is left out when nobody waits for it.
WakeIfHeard ==
  /\ prod = "backoff"
  /\ delay = 0 /\ cons = "waiting"
  /\ prod' = "begin"
  /\ attempt' = attempt + 1
  /\ UNCHANGED <<mode, thinking, lastException, delay, stream, stats, unsent, consumer, silent>>

\* The sleep is over: the next attempt.
Wake ==
  /\ prod = "backoff"
  /\ delay = 0
  /\ prod' = "begin"
  /\ attempt' = attempt + 1
  /\ UNCHANGED <<mode, thinking, lastException, delay, stream, stats, unsent, consumer, silent>>

(***************************************************************************)
(* The consumer: Streamer.__anext__ and the loop around it                 *)
(***************************************************************************)
\* A chunk of the response that was completed is what the caller wants; the loop
\* of chat_completions looks at the type of the chunk alone.
Keep(m) ==
  answer' = IF m.type = "complete" /\ (mode = "whole" \/ m.name = "response")
            THEN Append(answer, m.value) ELSE answer

Receive ==
  /\ Waiting
  /\ queue # <<>>
  /\ LET m == Head(queue)
     IN /\ Keep(m)
        /\ \/ m.type = "error" /\ cons' = "raised"
           \/ /\ m.type = "complete" /\ mode = "whole"
              /\ cons' \in {"answered", "raised"}     \* model_validate_json may raise
           \/ /\ m.type = "complete" /\ mode = "stream"
              /\ cons' = IF active = 0 THEN "stopped" ELSE "waiting"
           \/ m.type = "partial" /\ cons' = "waiting"
  /\ queue' = IF cons' = "waiting" THEN Tail(queue) ELSE <<>>
  /\ idle' = 0
  /\ UNCHANGED <<mode, thinking, prod, retry, buffer, active, stats, unsent, silent>>

\* Mutant: waiting is not bounded.
NeverTimesOut == FALSE /\ UNCHANGED vars

\* asyncio.wait_for gives up, even when a chunk arrives at the same moment.  The
\* background task is not cancelled.
TimesOut ==
  /\ Waiting
  /\ idle >= Timeout
  /\ cons' = "timed_out"
  /\ queue' = <<>>
  /\ UNCHANGED <<mode, thinking, prod, retry, buffer, active, stats, unsent, answer, idle, silent>>

\* A second passes: nobody has anything else to do, or the provider is working.
Tick ==
  /\ prod # "begin"
  /\ prod = "backoff" => delay > 0
  /\ Waiting => queue = <<>> /\ idle < Timeout
  /\ delay' = IF prod = "backoff" THEN delay - 1 ELSE delay
  /\ idle' = IF Waiting THEN idle + 1 ELSE idle
  /\ UNCHANGED <<mode, thinking, prod, attempt, lastException, stream, stats, unsent, cons,
                 answer, silent>>

(***************************************************************************)
(* Specification                                                           *)
(***************************************************************************)
Producer ==
  \/ BeginAttempt \/ Complete \/ StatisticsFail \/ Wake
  \/ \E n \in {"response", "thought"} : StreamPartial(n)
  \/ \E e \in Errors : AttemptFails(e)

Done == prod = "over" /\ ~Waiting /\ UNCHANGED vars

Next == Producer \/ Receive \/ TimesOut \/ Tick \/ Done

Spec == Init /\ [][Next]_vars

\* Time passes and the event loop runs whoever can run.  Nothing is assumed of the
\* provider: its call may never return (the Gemini client is built without a timeout).
Fairness ==
  /\ WF_vars(Tick)
  /\ WF_vars(Receive \/ TimesOut)
  /\ WF_vars(BeginAttempt \/ Wake)
FairSpec == Spec /\ Fairness

(***************************************************************************)
(* Properties                                                              *)
(***************************************************************************)
Values == Seq([name : {"response", "thought"}, attempt : Nat])

\* The types of the call's state.
TypeOK ==
  /\ mode \in Modes /\ thinking \in Thinking
  /\ prod \in {"begin", "calling", "backoff", "over"}
  /\ attempt \in 1 .. MaxRetries + 1
  /\ lastException \in {"none", "transient", "client"}
  /\ delay \in 0 .. MaxDelay
  /\ buffer \in [{"response", "thought"} -> Values]
  /\ active \in 0 .. 2 * (MaxRetries + 1)
  /\ queue \in Seq([type : {"partial", "complete", "error"},
                    name : {"response", "thought", "error"}, value : Values])
  /\ stats \in 0 .. 1 /\ unsent \in BOOLEAN
  /\ cons \in {"waiting", "answered", "stopped", "raised", "timed_out"}
  /\ answer \in Seq(Values)
  /\ idle \in 0 .. Timeout
  /\ silent \in BOOLEAN

\* An answer is what one attempt streamed as its response, the attempt that
\* completed: nothing of a failed attempt whose chunks the consumer saw, nothing
\* of the thoughts, nothing missing.
AnswerIsWhole ==
  answer # <<>> =>
    /\ answer = <<buffer["response"]>>
    /\ \A i \in DOMAIN buffer["response"] : buffer["response"][i] = Chunk("response")

\* The call implements ModelCall: an answer only of a call that completed, the
\* statistics at most once, and no answer without them but where sending them raised.
OutcomeOf ==
  CASE cons = "waiting" -> "waiting"
    [] cons \in {"answered", "stopped"} -> "answered"
    [] OTHER -> "failed"
BackgroundOf ==
  CASE prod # "over" -> "running"
    [] prod = "over" /\ stats = 1 -> "counted"
    [] prod = "over" /\ stats = 0 /\ unsent -> "uncounted"
    [] OTHER -> "failed"
Call == INSTANCE ModelCall WITH outcome <- OutcomeOf, background <- BackgroundOf
ImplementsModelCall == Call!Spec

\* When the pauses before the last retry add up to more than the consumer's patience
\* (with the defaults 1 + 2 + 4 + 8 + 16 > 30 seconds, in the run 1 + 2 + 4 > 6), the
\* last attempt serves nobody, provided nothing was streamed and no attempt was
\* repeated without a pause: the consumer has timed out before it starts.
LastSilentRetryIsUnheard ==
  LastAttempt /\ prod \in {"begin", "calling"} /\ silent => ~Waiting

\* Whatever the provider does, the caller is released.
ConsumerEnds == <>(cons # "waiting")

\* The background task ends, also when nobody waits for it any more, unless the
\* provider's call never returns.
ProducerEnds == <>(prod = "over") \/ <>[](prod = "calling")

==============================================================================
