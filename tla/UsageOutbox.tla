---------------------------- MODULE UsageOutbox ----------------------------
(***************************************************************************)
(* The usage-record outbox: service/usage_record.go over                   *)
(* model/usage_record_outbox.go, model/usage_ledger.go and                 *)
(* model/usage_aggregate.go.  A relay goroutine enqueues a row and spawns  *)
(* an inline goroutine that processes it; the master node's periodic       *)
(* worker lists due rows and processes them again.  Every SQL statement or *)
(* transaction is one atomic step; between two of them any other process   *)
(* may run, the clock may advance, the process may die.                    *)
(*                                                                         *)
(* Times are kept relative to the clock, so the state space is finite      *)
(* though the clock is not: retryIn is next_retry_at - now (0 when due),   *)
(* lockAge is now - locked_at (Unlocked for locked_at = 0), the latter     *)
(* saturating once the claim is stale.  retryCount saturates at RetryCap,  *)
(* which loses nothing once RetryDelay has reached MaxDelay.               *)
(***************************************************************************)
EXTENDS Integers, FiniteSets

CONSTANTS
    Requests,     \* request ids; numbers, also the outbox ids (insertion order)
    Calls,        \* invocations of RecordUsageAsync, each with a goroutine of its own
    RequestOf,    \* request id of each call (a client may repeat its own id)
    NoCall,       \* no payload
    Worker,       \* the master node's outbox worker
    BatchLimit,   \* usageRecordOutboxBatchLimit
    StaleAfter,   \* usageRecordOutboxStaleAfter, in ticks
    BaseDelay,    \* first retry delay, in ticks
    MaxDelay,     \* longest retry delay, in ticks
    RetryCap,     \* bound: retry_count saturates here
    MaxFaults,    \* bound: database statements that fail
    MaxCrashes    \* bound: processes that die

ASSUME OutboxAssumption ==
    /\ Requests \subseteq Nat /\ Requests # {}
    /\ RequestOf \in [Calls -> Requests]
    /\ NoCall \notin Calls
    /\ Worker \notin Calls
    /\ BatchLimit \in Nat \ {0}
    /\ StaleAfter \in Nat
    /\ BaseDelay \in Nat \ {0}
    /\ MaxDelay \in Nat \ {0}
    /\ RetryCap \in Nat \ {0}
    /\ MaxFaults \in Nat
    /\ MaxCrashes \in Nat

VARIABLES
    outbox,      \* usage_record_outbox, one row per request id at most
    ledger,      \* usage_ledgers: the call whose payload the row holds
    credit,      \* times the request's postpaid quota was charged to the tenant
    aggregate,   \* times the request was added to usage_aggregate_daily
    proc,        \* inline goroutines and the worker
    batch,       \* items the worker listed and has not reached yet
    billable,    \* does recordUsageWithMeta find the channel and an active agreement?
    faults,      \* database faults so far
    crashes      \* process deaths so far

vars == <<outbox, ledger, credit, aggregate, proc, batch, billable, faults, crashes>>
metering == <<ledger, credit, aggregate>>

Procs == Calls \cup {Worker}
Unlocked == -1

Row == [status : {"none", "pending", "processing", "succeeded", "failed"},
        payload : Calls \cup {NoCall},
        retryCount : 0..RetryCap,
        retryIn : 0..MaxDelay,
        lockAge : {Unlocked} \cup 0..(StaleAfter + 1)]

PC == {"idle", "direct", "spawned", "loaded", "claimed", "recorded", "failing", "done", "lost"}

NoRow == [status |-> "none", payload |-> NoCall, retryCount |-> 0, retryIn |-> 0,
          lockAge |-> Unlocked]

NewRow(c) == [NoRow EXCEPT !.status = "pending", !.payload = c]

\* A process outside processUsageRecordOutboxItem holds no item; its item
\* fields have a fixed value.
Home(p) == IF p \in Calls THEN RequestOf[p] ELSE CHOOSE r \in Requests : TRUE
At(p, pc) == [pc |-> pc, req |-> Home(p), retry |-> 0]

TypeOK ==
    /\ outbox \in [Requests -> Row]
    /\ ledger \in [Requests -> Calls \cup {NoCall}]
    /\ credit \in [Requests -> Nat]
    /\ aggregate \in [Requests -> Nat]
    /\ proc \in [Procs -> [pc : PC, req : Requests, retry : 0..RetryCap]]
    /\ \A c \in Calls : proc[c].req = RequestOf[c]
    /\ batch \subseteq [req : Requests, retry : 0..RetryCap]
    /\ billable \in [Requests -> BOOLEAN]
    /\ faults \in 0..MaxFaults
    /\ crashes \in 0..MaxCrashes

Init ==
    /\ outbox = [r \in Requests |-> NoRow]
    /\ ledger = [r \in Requests |-> NoCall]
    /\ credit = [r \in Requests |-> 0]
    /\ aggregate = [r \in Requests |-> 0]
    /\ proc = [p \in Procs |-> At(p, "idle")]
    /\ batch = {}
    /\ billable \in [Requests -> BOOLEAN]
    /\ faults = 0
    /\ crashes = 0

----------------------------------------------------------------------------
(* nextUsageRecordOutboxRetryAt: the loop doubles while it is below the    *)
(* cap and the result is cut to the cap.                                   *)
Doubled[n \in Nat] ==
    IF n = 0 THEN BaseDelay
    ELSE IF Doubled[n - 1] < MaxDelay THEN 2 * Doubled[n - 1] ELSE Doubled[n - 1]

RetryDelay(retryCount) ==
    LET delay == Doubled[retryCount - 1]
    IN  IF delay \in 0..MaxDelay THEN delay ELSE MaxDelay

Bumped(retryCount) == IF retryCount < RetryCap THEN retryCount + 1 ELSE RetryCap

\* Mutated Stale: abandoned claims are not looked for.
StaleNever(row) == FALSE

Stale(row) == row.status = "processing" /\ row.lockAge > StaleAfter

\* ListDueUsageRecordOutbox: the due rows, and of those the BatchLimit smallest ids.
DueRows ==
    {r \in Requests : \/ outbox[r].status \in {"pending", "failed"} /\ outbox[r].retryIn = 0
                      \/ Stale(outbox[r])}

ListDue ==
    {[req |-> r, retry |-> outbox[r].retryCount] :
        r \in {q \in DueRows : Cardinality({s \in DueRows : s < q}) < BatchLimit}}

Goto(p, pc) == proc' = [proc EXCEPT ![p].pc = pc]

\* A process starts on an item, with the retry count read with it.
Load(p, item) ==
    proc' = [proc EXCEPT ![p] = [pc |-> "loaded", req |-> item.req, retry |-> item.retry]]

\* A process leaves its item: the worker turns to its next one.
Leave(p) == proc' = [proc EXCEPT ![p] = At(p, IF p = Worker THEN "idle" ELSE "done")]

\* A database statement fails: its error path is taken and nothing is written.
Fault ==
    /\ faults < MaxFaults
    /\ faults' = faults + 1

----------------------------------------------------------------------------
(* RecordUsageAsync.                                                       *)
(***************************************************************************)
\* InsertIdempotent succeeds (a conflicting row is left alone) and the inline
\* goroutine is spawned.
Enqueue(c) ==
    LET r == RequestOf[c] IN
    /\ proc[c].pc = "idle"
    /\ outbox[r].status = "none" => \A s \in Requests : s > r => outbox[s].status = "none"
    /\ outbox' = IF outbox[r].status = "none"
                 THEN [outbox EXCEPT ![r] = NewRow(c)]
                 ELSE outbox
    /\ Goto(c, "spawned")
    /\ UNCHANGED <<metering, batch, billable, faults, crashes>>

\* The insert fails: the ledger is written by a goroutine, without an outbox row.
EnqueueFails(c) ==
    /\ proc[c].pc = "idle"
    /\ Fault
    /\ Goto(c, "direct")
    /\ UNCHANGED <<outbox, metering, batch, billable, crashes>>

----------------------------------------------------------------------------
(* recordUsageWithMeta and insertUsageLedgerWithTenantCredit: one          *)
(* transaction that inserts the ledger row unless the request id is taken, *)
(* and only for a row it inserted charges the tenant and the aggregate.    *)
(***************************************************************************)
\* Mutated: the conflict clause updates the row instead of leaving it alone.
InsertLedgerUpserts(r, payload) ==
    /\ ledger' = [ledger EXCEPT ![r] = payload]
    /\ credit' = [credit EXCEPT ![r] = 1]
    /\ aggregate' = [aggregate EXCEPT ![r] = 1]

InsertLedgerWithTenantCredit(r, payload) ==
    IF ledger[r] = NoCall
    THEN /\ ledger' = [ledger EXCEPT ![r] = payload]
         /\ credit' = [credit EXCEPT ![r] = @ + 1]
         /\ aggregate' = [aggregate EXCEPT ![r] = @ + 1]
    ELSE UNCHANGED metering

\* The direct goroutine: an error is only logged.
RecordDirect(c) ==
    /\ proc[c].pc = "direct"
    /\ \/ /\ billable[RequestOf[c]]
          /\ InsertLedgerWithTenantCredit(RequestOf[c], c)
          /\ UNCHANGED faults
       \/ /\ ~billable[RequestOf[c]]
          /\ UNCHANGED <<metering, faults>>
       \/ /\ Fault
          /\ UNCHANGED metering
    /\ Leave(c)
    /\ UNCHANGED <<outbox, batch, billable, crashes>>

----------------------------------------------------------------------------
(* The two ways to reach processUsageRecordOutboxItem.                     *)
(***************************************************************************)
\* ProcessUsageRecordOutboxByRequestID reads the row.
LoadByRequestID(c) ==
    LET r == RequestOf[c] IN
    /\ proc[c].pc = "spawned"
    /\ \/ /\ outbox[r].status = "succeeded"
          /\ Leave(c)
          /\ UNCHANGED faults
       \/ /\ outbox[r].status # "succeeded"
          /\ Load(c, [req |-> r, retry |-> outbox[r].retryCount])
          /\ UNCHANGED faults
       \/ /\ Fault
          /\ Leave(c)
    /\ UNCHANGED <<outbox, metering, batch, billable, crashes>>

\* ProcessUsageRecordOutboxBatch lists the due rows (an empty or failed
\* listing changes nothing).
ListBatch ==
    /\ proc[Worker].pc = "idle"
    /\ batch = {}
    /\ DueRows # {}
    /\ batch' = ListDue
    /\ UNCHANGED <<outbox, metering, proc, billable, faults, crashes>>

\* ... and takes them in id order.
NextItem ==
    /\ proc[Worker].pc = "idle"
    /\ \E item \in batch :
        /\ \A other \in batch : item.req <= other.req
        /\ Load(Worker, item)
        /\ batch' = batch \ {item}
    /\ UNCHANGED <<outbox, metering, billable, faults, crashes>>

----------------------------------------------------------------------------
(* processUsageRecordOutboxItem, for an inline goroutine or the worker.    *)
(***************************************************************************)
\* The columns MarkUsageRecordOutboxProcessing updates, and its WHERE clause:
\* next_retry_at is not in it.
Claimed(row) == [row EXCEPT !.status = "processing", !.lockAge = 0]

Claimable(row) == row.status \in {"pending", "failed"} \/ Stale(row)

\* Mutated MarkProcessing: the claim does not write locked_at.
MarkProcessingUnlocked(p) ==
    LET r == proc[p].req IN
    /\ proc[p].pc = "loaded"
    /\ IF Claimable(outbox[r])
       THEN outbox' = [outbox EXCEPT ![r].status = "processing"] /\ Goto(p, "claimed")
       ELSE Leave(p) /\ UNCHANGED outbox
    /\ UNCHANGED <<metering, batch, billable, faults, crashes>>

MarkProcessing(p) ==
    LET r == proc[p].req IN
    /\ proc[p].pc = "loaded"
    /\ \/ /\ Claimable(outbox[r])
          /\ outbox' = [outbox EXCEPT ![r] = Claimed(@)]
          /\ Goto(p, "claimed")
          /\ UNCHANGED faults
       \/ /\ ~Claimable(outbox[r])
          /\ Leave(p)
          /\ UNCHANGED <<outbox, faults>>
       \/ /\ Fault
          /\ Leave(p)
          /\ UNCHANGED outbox
    /\ UNCHANGED <<metering, batch, billable, crashes>>

\* recordUsageWithMeta on the row's payload.
Record(p) ==
    LET r == proc[p].req IN
    /\ proc[p].pc = "claimed"
    /\ \/ /\ billable[r]
          /\ InsertLedgerWithTenantCredit(r, outbox[r].payload)
          /\ Goto(p, "recorded")
          /\ UNCHANGED faults
       \/ /\ ~billable[r]
          /\ Goto(p, "failing")
          /\ UNCHANGED <<metering, faults>>
       \/ /\ Fault
          /\ Goto(p, "failing")
          /\ UNCHANGED metering
    /\ UNCHANGED <<outbox, batch, billable, crashes>>

\* MarkUsageRecordOutboxSucceeded: by id alone, whatever the row's status is by now.
Succeeded(row) == [row EXCEPT !.status = "succeeded", !.retryIn = 0, !.lockAge = Unlocked]

MarkSucceeded(p) ==
    LET r == proc[p].req IN
    /\ proc[p].pc = "recorded"
    /\ \/ /\ outbox' = [outbox EXCEPT ![r] = Succeeded(@)]
          /\ UNCHANGED faults
       \/ Fault /\ UNCHANGED outbox
    /\ Leave(p)
    /\ UNCHANGED <<metering, batch, billable, crashes>>

\* markUsageRecordOutboxFailed: by id alone; the delay comes from the retry
\* count that was read with the item, the stored count from the row.
Failed(row, retryCount) ==
    [row EXCEPT !.status = "failed", !.retryCount = Bumped(@),
                !.retryIn = RetryDelay(retryCount + 1), !.lockAge = Unlocked]

MarkFailed(p) ==
    LET r == proc[p].req IN
    /\ proc[p].pc = "failing"
    /\ \/ /\ outbox' = [outbox EXCEPT ![r] = Failed(@, proc[p].retry)]
          /\ UNCHANGED faults
       \/ Fault /\ UNCHANGED outbox
    /\ Leave(p)
    /\ UNCHANGED <<metering, batch, billable, crashes>>

----------------------------------------------------------------------------
(* The environment.                                                        *)
(***************************************************************************)
Older(row) ==
    [row EXCEPT !.retryIn = IF @ > 0 THEN @ - 1 ELSE 0,
                !.lockAge = IF @ \in 0..StaleAfter THEN @ + 1 ELSE @]

Tick ==
    /\ outbox' = [r \in Requests |-> Older(outbox[r])]
    /\ UNCHANGED <<metering, proc, batch, billable, faults, crashes>>

\* A supplier agreement or a channel appears or goes away.
AgreementChanges(r) ==
    /\ billable' = [billable EXCEPT ![r] = ~@]
    /\ UNCHANGED <<outbox, metering, proc, batch, faults, crashes>>

\* A process dies between two statements; the worker is started again.
Crash(p) ==
    /\ crashes < MaxCrashes
    /\ crashes' = crashes + 1
    /\ proc[p].pc \notin {"idle", "done", "lost"}
    /\ proc' = [proc EXCEPT ![p] = At(p, IF p = Worker THEN "idle" ELSE "lost")]
    /\ batch' = IF p = Worker THEN {} ELSE batch
    /\ UNCHANGED <<outbox, metering, billable, faults>>

----------------------------------------------------------------------------
ProcessItem(p) == MarkProcessing(p) \/ Record(p) \/ MarkSucceeded(p) \/ MarkFailed(p)

Inline(c) == LoadByRequestID(c) \/ RecordDirect(c) \/ ProcessItem(c)

WorkerStep == ListBatch \/ NextItem \/ ProcessItem(Worker)

Next ==
    \/ \E c \in Calls : Enqueue(c) \/ EnqueueFails(c) \/ LoadByRequestID(c) \/ RecordDirect(c)
    \/ \E p \in Procs : ProcessItem(p) \/ Crash(p)
    \/ ListBatch
    \/ NextItem
    \/ Tick
    \/ \E r \in Requests : AgreementChanges(r)

Spec == Init /\ [][Next]_vars

\* The ticker keeps firing, goroutines keep being scheduled, the clock runs.
\* Nothing forces a request to arrive, a fault, a crash or an agreement.
FairSpec ==
    /\ Spec
    /\ WF_vars(WorkerStep)
    /\ WF_vars(Tick)
    /\ \A c \in Calls : WF_vars(Inline(c))

----------------------------------------------------------------------------
(* A request is charged to the tenant's credit and to the daily aggregate  *)
(* exactly once if it has a ledger row and not at all otherwise, however   *)
(* many goroutines and workers process its outbox row.                     *)
ChargedExactlyOnce ==
    \A r \in Requests :
        LET times == IF ledger[r] = NoCall THEN 0 ELSE 1
        IN  credit[r] = times /\ aggregate[r] = times

(* An outbox row that says succeeded is never processed again, so its      *)
(* ledger row must be there.                                               *)
SucceededHasLedger ==
    \A r \in Requests : outbox[r].status = "succeeded" => ledger[r] # NoCall

(* A row in processing always carries its lock time: without it no worker  *)
(* would ever take the row over from a dead one.                           *)
ProcessingIsReclaimable ==
    \A r \in Requests : outbox[r].status = "processing" => outbox[r].lockAge # Unlocked

(* Every accepted request whose agreement is eventually in place is        *)
(* eventually in the ledger, across faults, crashes and slow workers.      *)
EnqueuedEventuallyRecorded ==
    \A r \in Requests :
        <>[]billable[r] => (outbox[r].status # "none" ~> ledger[r] # NoCall)

(* What makes the above inductive: a process that reports success has seen *)
(* its ledger row, a process or batch item has a row behind it, and a row  *)
(* holds the payload of a call for its own request id.                     *)
RecordedHasLedger ==
    \A p \in Procs : proc[p].pc = "recorded" => ledger[proc[p].req] # NoCall

ItemHasRow ==
    /\ \A p \in Procs : proc[p].pc \in {"spawned", "loaded", "claimed", "recorded", "failing"}
                            => outbox[proc[p].req].status # "none"
    /\ \A item \in batch : outbox[item.req].status # "none"

RowHasPayload ==
    \A r \in Requests : outbox[r].status # "none" =>
        outbox[r].payload \in Calls /\ RequestOf[outbox[r].payload] = r

(* Together: whoever processes a row, and however late, no row says        *)
(* succeeded without its ledger entry, no claim is beyond the reach of a   *)
(* later worker, and no request is charged but with its ledger entry.      *)
OutboxInv ==
    /\ TypeOK
    /\ ChargedExactlyOnce
    /\ SucceededHasLedger
    /\ ProcessingIsReclaimable
    /\ RecordedHasLedger
    /\ ItemHasRow
    /\ RowHasPayload

(* The ledger, the credit charge and the aggregate behave as UsageMetering *)
(* promises.                                                               *)
Metering == INSTANCE UsageMetering WITH
    ledger <- ledger, credit <- credit, aggregate <- aggregate
MeteringSpec == Metering!Spec
============================================================================
