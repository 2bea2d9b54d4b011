------------------------------ MODULE ModelCall ------------------------------
(***************************************************************************)
(* What one model call promises the code that makes it, whatever provider, *)
(* retries and timeouts are behind it: the caller gets an answer only of a *)
(* call that completed, gives up at any time, and the call is counted at   *)
(* most once, possibly after the caller gave up.  A completed call is      *)
(* counted unless its statistics could not be sent.  WorkflowEngine builds *)
(* on it: ModelReply is Count or Miss, then Answer; ModelFails is Fail;    *)
(* LateReply is Count after Fail, LateFailure Miss or Abandon after it.    *)
(***************************************************************************)
VARIABLES outcome,      \* of the caller: waiting, answered or failed
          background    \* of the background task: running, counted, uncounted or failed

Init == outcome = "waiting" /\ background = "running"

Count ==
  /\ background = "running"
  /\ background' = "counted"
  /\ UNCHANGED outcome

\* The statistics of a completed call are lost.
Miss ==
  /\ background = "running"
  /\ background' = "uncounted"
  /\ UNCHANGED outcome

Abandon ==
  /\ background = "running"
  /\ background' = "failed"
  /\ UNCHANGED outcome

Answer ==
  /\ outcome = "waiting"
  /\ background \in {"counted", "uncounted"}
  /\ outcome' = "answered"
  /\ UNCHANGED background

Fail ==
  /\ outcome = "waiting"
  /\ outcome' = "failed"
  /\ UNCHANGED background

Next == Count \/ Miss \/ Abandon \/ Answer \/ Fail

Spec == Init /\ [][Next]_<<outcome, background>>
==============================================================================
