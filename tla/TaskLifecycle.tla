--------------------------- MODULE TaskLifecycle ---------------------------
(***************************************************************************)
(* What the billing of an asynchronous task promises, without pollers,     *)
(* timeouts or copies of rows: a task ends, an ended task stays ended, and *)
(* only then, and only once, is the quota it paid up front given back (it  *)
(* failed) or adjusted to its cost (it succeeded).                         *)
(***************************************************************************)
CONSTANT Tasks

VARIABLES
    state,     \* per task: "open", "SUCCESS" or "FAILURE"
    bill       \* per task: what was done with its quota: "kept", "refunded" or "adjusted"

vars == <<state, bill>>

Init ==
    /\ state = [t \in Tasks |-> "open"]
    /\ bill = [t \in Tasks |-> "kept"]

End(t) ==
    /\ state[t] = "open"
    /\ \E s \in {"SUCCESS", "FAILURE"} : state' = [state EXCEPT ![t] = s]
    /\ UNCHANGED bill

\* The administrator removed the channel: what has ended may be shown as failed.
ShowFailed(t) ==
    /\ state[t] # "open"
    /\ state' = [state EXCEPT ![t] = "FAILURE"]
    /\ UNCHANGED bill

Refund(t) ==
    /\ state[t] = "FAILURE"
    /\ bill[t] = "kept"
    /\ bill' = [bill EXCEPT ![t] = "refunded"]
    /\ UNCHANGED state

Adjust(t) ==
    /\ state[t] # "open"
    /\ bill[t] = "kept"
    /\ bill' = [bill EXCEPT ![t] = "adjusted"]
    /\ UNCHANGED state

Next == \E t \in Tasks : End(t) \/ ShowFailed(t) \/ Refund(t) \/ Adjust(t)

Spec == Init /\ [][Next]_vars
============================================================================
