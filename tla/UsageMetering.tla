--------------------------- MODULE UsageMetering ---------------------------
(***************************************************************************)
(* What the usage-recording subsystem promises, without queue, workers or  *)
(* retries: a request id is metered at most once, with the payload of one  *)
(* of the calls made for it, and the ledger row, the tenant's credit       *)
(* charge and the daily aggregate appear together and never change.        *)
(***************************************************************************)
EXTENDS Naturals

CONSTANTS
    Requests,    \* request ids (the ledger's idempotency key)
    Calls,       \* RecordUsageAsync invocations
    RequestOf,   \* the request id each call carries
    NoCall       \* "no row"

VARIABLES
    ledger,      \* per request id: the call whose payload the row holds, or NoCall
    credit,      \* per request id: how often its postpaid quota was charged
    aggregate    \* per request id: how often it was added to the daily aggregate

vars == <<ledger, credit, aggregate>>

Init ==
    /\ ledger = [r \in Requests |-> NoCall]
    /\ credit = [r \in Requests |-> 0]
    /\ aggregate = [r \in Requests |-> 0]

\* The one thing that may ever happen to a request id.
Meter(r) ==
    /\ ledger[r] = NoCall
    /\ \E c \in Calls :
        /\ RequestOf[c] = r
        /\ ledger' = [ledger EXCEPT ![r] = c]
    /\ credit' = [credit EXCEPT ![r] = 1]
    /\ aggregate' = [aggregate EXCEPT ![r] = 1]

Next == \E r \in Requests : Meter(r)

Spec == Init /\ [][Next]_vars
============================================================================
