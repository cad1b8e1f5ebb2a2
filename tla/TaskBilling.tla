---------------------------- MODULE TaskBilling ----------------------------
(***************************************************************************)
(* Asynchronous tasks (videos, music): service/task_polling.go over        *)
(* model/task.go and service/task_billing.go, and the realtime fetch of    *)
(* relay/relay_task.go.  Every master node runs the polling loop; each     *)
(* round times out old tasks, lists the unfinished ones and asks upstream  *)
(* about them, working on copies of the rows read when they were listed.   *)
(* Every database statement is one step; a round trip to the upstream is   *)
(* folded into the step that uses its answer, because only that step       *)
(* touches shared state.                                                   *)
(*                                                                         *)
(* A row is its status and whether its progress is "100%"; the quota paid  *)
(* up front is never rewritten, so it is left out, and refunds and         *)
(* adjustments are counted.  Counts saturate at MaxBills.                  *)
(***************************************************************************)
EXTENDS Naturals, FiniteSets

CONSTANTS
    Tasks,        \* inserted tasks, each paid for up front
    NoTask,
    Nodes,        \* instances of the program
    Fetchers,     \* concurrent user requests for the state of a task
    MaxBills,     \* bound: refunds and adjustments are counted up to here
    MaxFaults,    \* bound: database statements that fail
    MaxCrashes,   \* bound: nodes that die
    MaxFetches    \* bound: user requests

ASSUME TaskAssumption ==
    /\ IsFiniteSet(Nodes)
    /\ NoTask \notin Tasks
    /\ MaxBills \in Nat \ {0, 1}
    /\ MaxFaults \in Nat /\ MaxCrashes \in Nat /\ MaxFetches \in Nat

VARIABLES
    platform,     \* per task: "video", "realtime" (Gemini, Vertex) or "suno"
    masters,      \* nodes that run the loop
    row,          \* tasks table
    late,         \* per task: submitted before the timeout's cutoff?  (Never, if there is none)
    channel,      \* per task: does its channel still exist?
    upstream,     \* per task: what the upstream has made of it
    poller,       \* per node: its polling loop
    fetcher,      \* per user request: the row it read
    funds, tokens,   \* per task: refunds and adjustments of wallet or subscription, of token
    faults, crashes, fetches

vars == <<platform, masters, row, late, channel, upstream, poller, fetcher, funds, tokens, faults,
          crashes, fetches>>
deployment == <<platform, masters>>
world == <<late, channel, upstream>>
bounds == <<faults, crashes, fetches>>

Ended == {"SUCCESS", "FAILURE"}
Status == {"NOT_START", "IN_PROGRESS"} \cup Ended
Row == [status : Status, full : BOOLEAN]
Copy == [task : Tasks, status : Status]
Bills == [refund : 0..MaxBills, adjust : 0..MaxBills]

\* A row as a poll or a timeout would leave it.  The vendor's progress, when it
\* gives one, replaces the poller's; no adaptor gives "100%" for a task that goes
\* on, and lists skip an ended task whatever its progress is.
RowWith(status) == [status |-> status, full |-> status \in Ended]
NoBills == [refund |-> 0, adjust |-> 0]
Resting == [pc |-> "sleep", todo |-> {}, cur |-> NoTask, kind |-> "refund", next |-> "poll",
            copy |-> RowWith("NOT_START")]

TypeOK ==
    /\ platform \in [Tasks -> {"video", "realtime", "suno"}]
    /\ masters \subseteq Nodes
    /\ row \in [Tasks -> Row]
    /\ late \in [Tasks -> BOOLEAN] /\ channel \in [Tasks -> BOOLEAN]
    /\ upstream \in [Tasks -> {"running", "SUCCESS", "FAILURE"}]
    /\ poller \in [Nodes -> [pc : {"sleep", "sweep", "poll", "funding", "token", "save"},
                             todo : SUBSET Copy, cur : Tasks \cup {NoTask},
                             kind : {"refund", "adjust"}, next : {"sweep", "poll", "save"},
                             copy : Row]]
    /\ fetcher \in [Fetchers -> [task : Tasks \cup {NoTask}, status : Status]]
    /\ funds \in [Tasks -> Bills] /\ tokens \in [Tasks -> Bills]
    /\ faults \in 0..MaxFaults /\ crashes \in 0..MaxCrashes /\ fetches \in 0..MaxFetches

NoFetch == [task |-> NoTask, status |-> "NOT_START"]

Init ==
    /\ platform \in [Tasks -> {"video", "realtime", "suno"}]
    /\ masters \in SUBSET Nodes
    /\ row = [t \in Tasks |-> RowWith("NOT_START")]
    /\ late = [t \in Tasks |-> FALSE] /\ channel = [t \in Tasks |-> TRUE]
    /\ upstream = [t \in Tasks |-> "running"]
    /\ poller = [n \in Nodes |-> Resting]
    /\ fetcher = [f \in Fetchers |-> NoFetch]
    /\ funds = [t \in Tasks |-> NoBills] /\ tokens = [t \in Tasks |-> NoBills]
    /\ faults = 0 /\ crashes = 0 /\ fetches = 0

----------------------------------------------------------------------------
\* GetAllUnFinishSyncTasks, and GetTimedOutUnfinishedTasks before its cutoff.
Unfinished(t) == ~row[t].full /\ row[t].status \notin Ended

Copies(tasks) == {[task |-> t, status |-> row[t].status] : t \in tasks}

Fault ==
    /\ faults < MaxFaults
    /\ faults' = faults + 1

\* UpdateWithStatus: the row is written if its status is still the one given.
\* Mutated Won: the row is saved by its id.
WonAlways(item) == TRUE

Won(item) == row[item.task].status = item.status

\* Mutated UpdateWithStatus: GORM's Save falls back to an insert over the row.
UpdateWithStatusUpserts(item, new) == row' = [row EXCEPT ![item.task] = new]

UpdateWithStatus(item, new) ==
    row' = IF Won(item) THEN [row EXCEPT ![item.task] = new] ELSE row

Listed(n, pc, tasks) ==
    poller' = [poller EXCEPT ![n].pc = pc, ![n].todo = Copies(tasks)]

Skip(n, item) == poller' = [poller EXCEPT ![n].todo = @ \ {item}]

\* Turn to the billing of an item, and to next after it.
Bill(n, item, kind, next) ==
    poller' = [poller EXCEPT ![n].todo = @ \ {item}, ![n].pc = "funding", ![n].cur = item.task,
                             ![n].kind = kind, ![n].next = next]

----------------------------------------------------------------------------
(* sweepTimedOutTasks.                                                     *)
(***************************************************************************)
\* Mutated ListTimedOut: only tasks known to have started are looked for.
ListTimedOutStarted(n) ==
    /\ n \in masters
    /\ poller[n].pc = "sleep"
    /\ Listed(n, "sweep", {t \in Tasks : Unfinished(t) /\ late[t] /\ row[t].status = "IN_PROGRESS"})
    /\ UNCHANGED <<deployment, row, world, fetcher, funds, tokens, bounds>>

ListTimedOut(n) ==
    /\ n \in masters
    /\ poller[n].pc = "sleep"
    /\ Listed(n, "sweep", {t \in Tasks : Unfinished(t) /\ late[t]})
    /\ UNCHANGED <<deployment, row, world, fetcher, funds, tokens, bounds>>

\* Mutated TimeOut: the row is failed and its refund forgotten.
TimeOutForgetsRefund(n, item) ==
    /\ poller[n].pc = "sweep"
    /\ UpdateWithStatus(item, RowWith("FAILURE"))
    /\ Skip(n, item)
    /\ UNCHANGED <<deployment, world, fetcher, funds, tokens, bounds>>

\* (Tasks older than the refund itself are failed without one; they are left out.)
TimeOut(n, item) ==
    /\ poller[n].pc = "sweep"
    /\ \/ /\ UpdateWithStatus(item, RowWith("FAILURE"))
          /\ IF Won(item) THEN Bill(n, item, "refund", "sweep") ELSE Skip(n, item)
          /\ UNCHANGED faults
       \/ /\ Fault
          /\ Skip(n, item)
          /\ UNCHANGED row
    /\ UNCHANGED <<deployment, world, fetcher, funds, tokens, crashes, fetches>>

----------------------------------------------------------------------------
(* TaskPollingLoop, after the sweep.                                       *)
(***************************************************************************)
ListUnfinished(n) ==
    /\ poller[n].pc = "sweep" /\ poller[n].todo = {}
    /\ Listed(n, "poll", {t \in Tasks : Unfinished(t)})
    /\ UNCHANGED <<deployment, row, world, fetcher, funds, tokens, bounds>>

EndRound(n) ==
    /\ poller[n].pc = "poll" /\ poller[n].todo = {}
    /\ poller' = [poller EXCEPT ![n] = Resting]
    /\ UNCHANGED <<deployment, row, world, fetcher, funds, tokens, bounds>>

\* TaskBulkUpdateByID, when the task's channel is gone: the row fails, whatever
\* it has become since, and nothing is refunded.
ChannelLost(n, item) ==
    /\ poller[n].pc = "poll"
    /\ ~channel[item.task]
    /\ \/ row' = [row EXCEPT ![item.task] = RowWith("FAILURE")] /\ UNCHANGED faults
       \/ Fault /\ UNCHANGED row
    /\ Skip(n, item)
    /\ UNCHANGED <<deployment, world, fetcher, funds, tokens, crashes, fetches>>

\* No usable answer (network, 429, unknown status): the task waits for the next round.
NoAnswer(n, item) ==
    /\ poller[n].pc = "poll"
    /\ channel[item.task]
    /\ Skip(n, item)
    /\ UNCHANGED <<deployment, row, world, fetcher, funds, tokens, bounds>>

\* What the upstream may answer about a task.
Answer(t) == IF upstream[t] = "running" THEN "IN_PROGRESS" ELSE upstream[t]

\* updateVideoSingleTask.  An upstream error without a status counts as FAILURE.
\* A success is adjusted, or not: per-call prices and answers without a cost
\* leave the quota as it is (settleTaskBillingOnComplete).
PollVideo(n, item) ==
    LET t == item.task IN
    /\ poller[n].pc = "poll"
    /\ channel[t] /\ platform[t] # "suno"
    /\ \E status \in {Answer(t), "FAILURE"} :
        \/ /\ UpdateWithStatus(item, RowWith(status))
           /\ \/ status = "FAILURE" /\ Won(item) /\ Bill(n, item, "refund", "poll")
              \/ status = "SUCCESS" /\ Won(item) /\ Bill(n, item, "adjust", "poll")
              \/ (status # "FAILURE" \/ ~Won(item)) /\ Skip(n, item)
           /\ UNCHANGED faults
        \/ Fault /\ Skip(n, item) /\ UNCHANGED row
    /\ UNCHANGED <<deployment, world, fetcher, funds, tokens, crashes, fetches>>

\* Mutated PollSuno: a task with a reason to fail keeps its progress.
PollSunoKeepsProgress(n, item) ==
    LET t == item.task IN
    /\ poller[n].pc = "poll"
    /\ channel[t] /\ platform[t] = "suno"
    /\ \E reason \in {FALSE, upstream[t] = "FAILURE"} :
        LET status == IF upstream[t] = "FAILURE" /\ reason THEN item.status ELSE Answer(t)
            failed == reason \/ status = "FAILURE"
        IN  poller' = [poller EXCEPT
                ![n].todo = @ \ {item}, ![n].cur = t,
                ![n].pc = IF failed THEN "funding" ELSE "save",
                ![n].kind = "refund", ![n].next = "save",
                ![n].copy = [status |-> status, full |-> status = "SUCCESS"]]
    /\ UNCHANGED <<deployment, row, world, fetcher, funds, tokens, bounds>>

\* updateSunoTasks: the copy is changed; a failure, or any answer with a reason
\* to fail, is refunded before the row is written.
PollSuno(n, item) ==
    LET t == item.task IN
    /\ poller[n].pc = "poll"
    /\ channel[t] /\ platform[t] = "suno"
    /\ \E reason \in {FALSE, upstream[t] = "FAILURE"} :
        LET status == IF upstream[t] = "FAILURE" /\ reason THEN item.status ELSE Answer(t)
            failed == reason \/ status = "FAILURE"
        IN  poller' = [poller EXCEPT
                ![n].todo = @ \ {item}, ![n].cur = t,
                ![n].pc = IF failed THEN "funding" ELSE "save",
                ![n].kind = "refund", ![n].next = "save",
                ![n].copy = [status |-> status, full |-> failed \/ status = "SUCCESS"]]
    /\ UNCHANGED <<deployment, row, world, fetcher, funds, tokens, bounds>>

\* ... and Task.Update writes every column, whatever the row has become.
SaveTask(n) ==
    /\ poller[n].pc = "save"
    /\ \/ row' = [row EXCEPT ![poller[n].cur] = poller[n].copy] /\ UNCHANGED faults
       \/ Fault /\ UNCHANGED row
    /\ poller' = [poller EXCEPT ![n].pc = "poll"]
    /\ UNCHANGED <<deployment, world, fetcher, funds, tokens, crashes, fetches>>

----------------------------------------------------------------------------
(* RefundTaskQuota and RecalculateTaskQuota.                               *)
(***************************************************************************)
More(count) == IF count < MaxBills THEN count + 1 ELSE count

\* taskAdjustFunding; after an error the token is not touched.
AdjustFunding(n) ==
    LET p == poller[n] IN
    /\ p.pc = "funding"
    /\ \/ /\ funds' = [funds EXCEPT ![p.cur][p.kind] = More(@)]
          /\ poller' = [poller EXCEPT ![n].pc = "token"]
          /\ UNCHANGED faults
       \/ /\ Fault
          /\ poller' = [poller EXCEPT ![n].pc = p.next]
          /\ UNCHANGED funds
    /\ UNCHANGED <<deployment, row, world, fetcher, tokens, crashes, fetches>>

\* taskAdjustTokenQuota; errors are only logged.
AdjustToken(n) ==
    LET p == poller[n] IN
    /\ p.pc = "token"
    /\ \/ tokens' = [tokens EXCEPT ![p.cur][p.kind] = More(@)] /\ UNCHANGED faults
       \/ Fault /\ UNCHANGED tokens
    /\ poller' = [poller EXCEPT ![n].pc = p.next]
    /\ UNCHANGED <<deployment, row, world, fetcher, funds, crashes, fetches>>

----------------------------------------------------------------------------
(* tryRealtimeFetch: a user asks for a task; the row is read in whatever   *)
(* state it is, the upstream asked, and its answer written if the status   *)
(* of the row has not changed meanwhile.  Nothing is billed.               *)
ReadTask(f, t) ==
    /\ fetches < MaxFetches
    /\ fetches' = fetches + 1
    /\ channel[t] /\ platform[t] = "realtime"
    /\ fetcher[f].task = NoTask
    /\ fetcher' = [fetcher EXCEPT ![f] = [task |-> t, status |-> row[t].status]]
    /\ UNCHANGED <<deployment, row, world, poller, funds, tokens, faults, crashes>>

WriteAnswer(f) ==
    LET item == fetcher[f] IN
    /\ item.task \in Tasks
    /\ UpdateWithStatus(item, RowWith(Answer(item.task)))
    /\ fetcher' = [fetcher EXCEPT ![f] = NoFetch]
    /\ UNCHANGED <<deployment, world, poller, funds, tokens, bounds>>

----------------------------------------------------------------------------
(* The environment.                                                        *)
(***************************************************************************)
UpstreamEnds(t) ==
    /\ upstream[t] = "running"
    /\ \E s \in Ended : upstream' = [upstream EXCEPT ![t] = s]
    /\ UNCHANGED <<deployment, row, late, channel, poller, fetcher, funds, tokens, bounds>>

TimePasses(t) ==
    /\ ~late[t]
    /\ late' = [late EXCEPT ![t] = TRUE]
    /\ UNCHANGED <<deployment, row, channel, upstream, poller, fetcher, funds, tokens, bounds>>

DeleteChannel(t) ==
    /\ channel[t]
    /\ channel' = [channel EXCEPT ![t] = FALSE]
    /\ UNCHANGED <<deployment, row, late, upstream, poller, fetcher, funds, tokens, bounds>>

Crash(n) ==
    /\ crashes < MaxCrashes
    /\ crashes' = crashes + 1
    /\ poller[n].pc # "sleep"
    /\ poller' = [poller EXCEPT ![n] = Resting]
    /\ UNCHANGED <<deployment, row, world, fetcher, funds, tokens, faults, fetches>>

----------------------------------------------------------------------------
HandleItem(n, item) ==
    \/ TimeOut(n, item)
    \/ ChannelLost(n, item)
    \/ NoAnswer(n, item)
    \/ PollVideo(n, item)
    \/ PollSuno(n, item)

PollerStep(n) ==
    \/ ListTimedOut(n)
    \/ ListUnfinished(n)
    \/ EndRound(n)
    \/ \E item \in poller[n].todo : HandleItem(n, item)
    \/ AdjustFunding(n)
    \/ AdjustToken(n)
    \/ SaveTask(n)

\* The steps of a loop that wait for nobody but the database.
OwnStep(n) ==
    \/ ListTimedOut(n)
    \/ ListUnfinished(n)
    \/ EndRound(n)
    \/ \E item \in poller[n].todo : TimeOut(n, item)
    \/ AdjustFunding(n)
    \/ AdjustToken(n)
    \/ SaveTask(n)

Next ==
    \/ \E n \in Nodes : PollerStep(n) \/ Crash(n)
    \/ \E f \in Fetchers : WriteAnswer(f) \/ \E t \in Tasks : ReadTask(f, t)
    \/ \E t \in Tasks : UpstreamEnds(t) \/ TimePasses(t) \/ DeleteChannel(t)

Spec == Init /\ [][Next]_vars

\* The loops go on, except that FetchTask may wait for ever: its request has no
\* deadline unless RELAY_TIMEOUT is set, and everything else in the loop waits
\* behind it.  Nothing forces the upstream to end a task either, and tasks grow
\* late only where TaskTimeoutMinutes is positive.
FairSpec ==
    /\ Spec
    /\ \A n \in Nodes : WF_vars(OwnStep(n))

----------------------------------------------------------------------------
(* Tasks whose row is only ever written by the poller's compare-and-swap,  *)
(* or forced to FAILURE.                                                   *)
Guarded == {t \in Tasks : platform[t] = "video"}

(* However many nodes poll and time out a video task, on copies however    *)
(* old, it is billed as TaskLifecycle says: once, and after it has ended.  *)
State(t) == IF row[t].status \in Ended THEN row[t].status ELSE "open"
Billed(t) ==
    IF funds[t].refund > 0 THEN "refunded" ELSE IF funds[t].adjust > 0 THEN "adjusted" ELSE "kept"

Lifecycle == INSTANCE TaskLifecycle WITH
    Tasks <- Tasks,
    state <- [t \in Tasks |-> IF t \in Guarded THEN State(t) ELSE "open"],
    bill <- [t \in Tasks |-> IF t \in Guarded THEN Billed(t) ELSE "kept"]
LifecycleSpec == Lifecycle!Spec

BilledAtMostOnce(bills) ==
    bills.refund + bills.adjust <= 1

(* ... and neither its funds nor its token are given back twice, or given  *)
(* back and adjusted.                                                      *)
GuardedBilledOnce ==
    \A t \in Guarded : BilledAtMostOnce(funds[t]) /\ BilledAtMostOnce(tokens[t])

(* The token is only refunded or adjusted after the money was, so a token  *)
(* never regains quota its owner has not been given back.                  *)
TokenFollowsFunds ==
    \A t \in Tasks : tokens[t].refund <= funds[t].refund /\ tokens[t].adjust <= funds[t].adjust

(* What holds of every bill, whoever wins the row and whatever fails.      *)
BillsSound == TypeOK /\ GuardedBilledOnce /\ TokenFollowsFunds

(* A Suno task's refund precedes the write that ends it.  As long as one   *)
(* master polls and neither a statement fails nor the node dies, it is     *)
(* still refunded only once.                                               *)
SunoRefundedOnceAlone ==
    Cardinality(masters) <= 1 /\ faults = 0 /\ crashes = 0 =>
        \A t \in Tasks : platform[t] = "suno" => BilledAtMostOnce(funds[t])

(* Unless a statement fails, a node dies or its channel is deleted, a      *)
(* video task that failed, upstream or by timeout, gets its quota back.    *)
FailedEventuallyRefunded ==
    \A t \in Tasks :
        [](platform[t] = "video" /\ faults = 0 /\ crashes = 0 /\ channel[t])
            => (row[t].status = "FAILURE" ~> funds[t].refund = 1)

(* A loop that no request to an upstream keeps waiting for ever.           *)
Unblocked(n) == [](n \in masters) /\ []<>(poller[n].pc # "poll")

(* A task that has become late is finished for good, by the sweep if by    *)
(* nothing else, when some master's loop is never kept waiting for ever:   *)
(* a video task though the other masters hang in a request, a Suno task    *)
(* when no other master writes it.  Whatever the upstream answers.         *)
TaskEventuallyEnds ==
    \A t \in Tasks :
        /\ [](platform[t] = "video" \/ (platform[t] = "suno" /\ Cardinality(masters) = 1))
        /\ \E n \in Nodes : Unblocked(n)
        => (late[t] ~> []~Unfinished(t))

(* No task is refunded twice.                                              *)
NoDoubleRefund == \A t \in Tasks : funds[t].refund <= 1
============================================================================
