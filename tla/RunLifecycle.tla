----------------------------- MODULE RunLifecycle -----------------------------
(***************************************************************************)
(* What engine.run promises a caller and a reader of the runs table, with  *)
(* nothing of how: a call is active once and ends by returning or raising, *)
(* its record is opened at most once, is final or failed only while the    *)
(* call is active, never becomes open or final again after it failed, and  *)
(* is final when a call that keeps records returns.                        *)
(***************************************************************************)
CONSTANTS Runs,
          Recorded      \* whether runs are recorded at all

VARIABLES call,         \* idle, active, returned or raised
          record        \* none, open, final or failed

Init ==
  /\ call = [r \in Runs |-> "idle"]
  /\ record = [r \in Runs |-> "none"]

Begin(r) ==
  /\ call[r] = "idle"
  /\ \E c \in {"active", "raised"} : call' = [call EXCEPT ![r] = c]
  /\ UNCHANGED record

\* The step that opens the record may be the one in which the call raises.
Open(r) ==
  /\ call[r] = "active"
  /\ Recorded
  /\ record[r] = "none"
  /\ record' = [record EXCEPT ![r] = "open"]
  /\ call' \in {call, [call EXCEPT ![r] = "raised"]}

Finalize(r) ==
  /\ call[r] = "active"
  /\ record[r] = "open"
  /\ record' = [record EXCEPT ![r] = "final"]
  /\ UNCHANGED call

Fail(r) ==
  /\ call[r] = "active"
  /\ record[r] \in {"open", "final"}
  /\ record' = [record EXCEPT ![r] = "failed"]
  /\ UNCHANGED call

End(r) ==
  /\ call[r] = "active"
  /\ \/ call' = [call EXCEPT ![r] = "raised"]
     \/ /\ Recorded => record[r] = "final"
        /\ call' = [call EXCEPT ![r] = "returned"]
  /\ UNCHANGED record

Next == \E r \in Runs : Begin(r) \/ Open(r) \/ Finalize(r) \/ Fail(r) \/ End(r)

Spec == Init /\ [][Next]_<<call, record>>
==============================================================================
