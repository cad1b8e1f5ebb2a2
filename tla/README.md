# Verification of token-router

token-router is a gateway in front of some forty LLM vendors (a Go server with
two web clients and a desktop shell). A relay request passes authentication and
rate limits, is routed to a channel, is charged in advance, sent upstream,
settled when the answer is known or refunded when there is none, and is metered
into a ledger from which tenants are billed and suppliers are paid. Long jobs
(videos, music) are charged up front and followed by a poller. This project
models first the part where being wrong costs money: what happens to quota,
credit, ledger, orders and statements when requests, goroutines, workers,
operators, failed statements and dying processes interleave; and then the two
clients that have concurrency of their own, the desktop shell and the chat
playground.

All modules are TLA+, checked by TLC; seven components have TLAPS proofs that
hold for every value of their constants. Paths below are relative to `src/`.

## 1. Inventory

| component | state | operations | interacts with | what is hard |
|---|---|---|---|---|
| usage outbox and ledger (`service/usage_record.go`, `model/usage_record_outbox.go`) | `usage_record_outbox`, `usage_ledgers`, `usage_aggregate_daily` | `RecordUsageAsync`, inline processing, worker batches, claim, record, mark, back off | called by the post-consume paths; charges tenant credit in the ledger's transaction | several processes on one row, death between claim and mark, repeated request ids, backoff, starvation |
| tenant credit (`service/tenant.go`) | `credit_accounts`, `billing_configs`, in-memory `TenantCreditBillingSession` | prepare, reserve, settle, roll back, refund, release, ledger charge, set configuration | wraps a billing session in mixed mode; charged by the outbox | one reserved amount shared by all sessions; recording races settling; read-then-overwrite of the account |
| tenant statements (`service/tenant.go`) | `billing_statements`, `payment_records`, the account again | generate, confirm, register payment, mark overdue | reads the ledger, books on the account | the sum is read before the transaction; concurrent operators; part payments |
| billing session and funding (`service/billing_session.go`, `service/funding_source.go`) | `users.quota`, `tokens.remain_quota`, `user_subscriptions.amount_used`, pre-consume records | choose source, pre-consume, undo, settle, refund with retries | used by the relay controller, wrapped by tenant credit | check-then-act on the wallet, two balances per charge, retries of refunds, nested transactions |
| subscriptions (`model/subscription.go`) | plans, orders, user subscriptions | order completion, pre-consume, refund, delta, reset, expiry | funding source | reset between charge and refund |
| async tasks (`service/task_polling.go`, `service/task_billing.go`, `model/task.go`, `relay/relay_task.go`) | `tasks` with their status and quota, copies of rows in every poller | list, poll, time out, refund, re-settle, fetch on demand | wallet, subscription, token, vendors | compare-and-swap on some paths and not on others; several masters; a user's fetch beside them |
| quota caches and batch updater (`model/utils.go`, `model/user.go`, `model/user_cache.go`, `common/redis.go`) | the user's row, the Redis hash, in-memory deltas | increase, decrease, record, flush, read, refill | every charge and refund | three copies of a balance changed at different times; expiry between two commands; deltas lost with a process |
| top-ups and redemptions (`controller/topup*.go`, `model/topup.go`, `model/redemption.go`) | orders, codes, reference-counted mutexes | callbacks, expiry and failure events, manual completion, redeem | wallet | repeated and racing callbacks; a mutex per process; two statements without a transaction |
| desktop shell (`electron/main.js`) | the child process, probes and timers, windows, dialogs | start, probe, show, hide, quit | the server's port and database file | events in any order; timers against exits; Electron's quit that can be called off |
| web playground (`web/default/src/features/playground`) | messages in React state, in the last render and in localStorage; the current stream | send, regenerate, edit, delete, stop, load | the relay's HTTP interface | answers without an address; clicks on a stale render; half answers saved |
| channel selection and affinity (`service/channel_select.go`, `service/channel_affinity.go`) | ability cache, affinity cache | select, retry, remember, forget | every relay request | stale cache against disabled channels; retry budget across groups |
| supply governance (`model/supply_*.go`, `model/supplier_*.go`) | decisions, plans, approvals, executions, route preferences | propose, approve, execute, roll back | routing | long workflows with early exits |
| supply telemetry, supplier settlement, rate limiters | see `PROJECT.json` | periodic import; statements; check and record | | check and record are separate |
| price expressions, vendor adapters, other screens, sign-in, localisation, command line | none that the above depend on | | | not concurrent, or floating point |

What makes the modelled components correct:

- **outbox**: a request id is metered at most once, as a whole (ledger, credit,
  aggregate together); a row that says succeeded has its usage; a claimed row
  can be taken over; an accepted request is eventually recorded.
- **credit**: what a tenant owes is what the ledger says; reserved credit
  belongs to sessions that still need it; the limit holds up to what responses
  cost beyond their estimates; reservations of recorded requests come back.
- **statements**: payments fit their statement, what is confirmed stays, and the
  account equals the open statements.
- **sessions**: wallet, token and subscription lose exactly what requests cost;
  failures may cost the user quota but never create it; overdrafts are bounded.
- **tasks**: a late task ends, a guarded one stays ended, and only then, and
  once, is its quota returned or adjusted; a failed one gets it back.
- **balances**: a change is in exactly one of row, collected deltas and what a
  failure lost; the cache follows the balance but for changes that go
  to the row alone.
- **top-ups**: an order is credited once, and when it counts as paid; where all
  its writers take its lock its outcome is final; its lock excludes, is dropped, and nobody waits on it for ever.
- **desktop shell**: the server never outlives the application; probes, start-up
  and quits end.
- **playground**: an answer lands in its own message, ends, and is settled after
  a reload.

`PROJECT.json` lists the hazards with the line where each bites and the
properties aimed at it.

## 2. Modules

```
UsageMetering            what metering promises: one atomic step per request id
  ^ implemented by
UsageOutbox              outbox, goroutines, worker      MCUsageOutbox, UsageOutbox_proofs
CreditAccount            the account row and what each transaction does to it
  ^ extended by
TenantCredit             sessions on one account         MCTenantCredit, TenantCredit_proofs
BillingStatement         statements on one account       MCBillingStatement, BillingStatement_proofs
BillingSession           wallet, token, subscription     MCBillingSession, UserQuota_proofs
TaskLifecycle            what billing a task promises
  ^ implemented by
TaskBilling              pollers, sweeps, fetches        MCTaskBilling, TaskBilling_proofs
TopUp                    one order and its handlers      MCTopUp, TopUp_proofs
QuotaUpdater             row, deltas and cache           MCQuotaUpdater, UserQuota_proofs
DesktopShell             the Electron application        MCDesktopShell, Client_proofs
Playground               one conversation                MCPlayground, Client_proofs
Totals                   sums over finite sets           TotalTheorems
```

`Totals` is used by `TenantCredit`, `BillingStatement`, `BillingSession` and
`QuotaUpdater`. `UserQuota_proofs` holds the proofs about both views of a user's
quota and `Client_proofs` those about both clients; for that they extend two
components each, which is why `QuotaUpdater` and `Playground` name their
specifications `QuotaSpec` and `ChatSpec` and their type invariants
`QuotaTypeOK` and `ChatTypeOK`.
`TenantCredit` and `BillingStatement` record usage in one atomic step; that this
is what the outbox does is `UsageOutbox`'s refinement of `UsageMetering`.
`TenantCredit` treats the prepaid session inside a mixed one as a source that
covers a fixed amount; what that session does is `BillingSession`. `TaskBilling`,
`TopUp` and `BillingSession` change balances in one step; how such a change
reaches the row and the cache is `QuotaUpdater`.

**UsageOutbox.** `outbox[r]` is the row of a request id, `ledger[r]` the call
whose payload its ledger row holds, `credit[r]` and `aggregate[r]` how often the
request was charged. Each call of `RecordUsageAsync` has a goroutine
(`Enqueue`, `EnqueueFails`, `LoadByRequestID`, `RecordDirect`); the worker lists
a batch (`ListBatch`) and works through it (`NextItem`). Both process a row by
the same steps: `MarkProcessing`, `Record`, `MarkSucceeded`, `MarkFailed`, one
per database statement or transaction. `InsertLedgerWithTenantCredit` is the one
transaction that writes the ledger, and only if the insert took effect charges
credit and aggregate. Time is counted in ticks: `retryIn` is what is left of
`next_retry_at`, `lockAge` how long ago `locked_at` was. Whether the channel has
an active supplier agreement, without which recording fails, changes freely.

**CreditAccount** is the row of `credit_accounts` as a record with one operator
per transaction of `service/tenant.go`; each reads the row under `FOR UPDATE`,
changes amounts, recalculates and writes.

**TenantCredit.** `session[s]` is a relay request with its
`TenantCreditBillingSession`; `queue` holds the usage handed to the outbox.
`PreparePostpaid` and `PrepareMixed` are `PrepareTenantBillingSession`;
`PostConsume` is the end of `PostTextConsumeQuota` and its two siblings, which
enqueue the usage *before* settling, or settle without enqueueing any (no usage
came back, or the request submits a task); `SettlePostpaid`, `SettlePrepaid` and
`RollbackPostpaid` are the transactions of `Settle`; `Refund` and `Release` the
flag and the goroutine of `Refund`; `ReadAccount` and `UpsertCreditAccount` the
two halves of `SetTenantBillingConfig`, whose read may fail and then counts as
an account without amounts; `config.spoiled` remembers that amounts were written
back which the account no longer had. Mode and policy are fixed per run, the
limit changes.

**BillingStatement.** One statement per period. `SumLedger` and `WriteDraft` are
the read and the transaction of `GenerateTenantBillingStatement`; `Confirm`,
`RegisterPayment` and `MarkOverdue` are one transaction each. The due date is
left open: a sweep may find any confirmed statement due. The configuration
change of `TenantCredit` is here too, since it writes back the billed and the
overdue amount as well.

**BillingSession.** Each session walks through `NewBillingSession`'s choice of
source (`Begin`, `ReadWallet`, `Refused`), `preConsume` (`ReadToken`,
`DecreaseToken`, `PreConsumeWallet` or `PreConsumeSubscription`, `UndoToken`),
`Settle` (`SettleFunding`, `SettleToken`) and `Refund` (`RefundWallet`, or
`RefundSubscription` and `SaveRefunded` with `refundWithRetry`, then
`RefundToken`), one step per statement, on balances shared by all sessions; the
subscription may be reset or expire at any time. The transactions on the
subscription ask for its row's lock by `tx.Set("gorm:query_option", "FOR
UPDATE")`, which gorm v2 ignores, so each is two steps: `ReadSubscription`
remembers `amount_used` in `seen[s]`, and the step that ends it saves what it
computed from that. `sub.lost` remembers that a save was made from an outdated
read.

**TaskBilling.** `row[t]` is a task's status and whether its progress is "100%".
Each master's `poller` goes through `TaskPollingLoop`: `ListTimedOut` and
`TimeOut` are `sweepTimedOutTasks`, `ListUnfinished` the list of the round, and
each listed copy is handled by `PollVideo` (`updateVideoSingleTask`), `PollSuno`
and `SaveTask` (`updateSunoTasks`, whose refund comes before an unconditional
write), `ChannelLost` (`TaskBulkUpdateByID`) or `NoAnswer`. `Won` and
`UpdateWithStatus` are the compare-and-swap. `AdjustFunding` and `AdjustToken`
are the two statements of `RefundTaskQuota` and `RecalculateTaskQuota`.
`OwnStep` is every step of a loop that does not wait for a vendor. `ReadTask` and
`WriteAnswer` are `tryRealtimeFetch`, which Gemini and Vertex
tasks (platform "realtime") have. The vendor's answer is folded into the step
that uses it. `LifecycleSpec` maps the tasks whose row is only written by
compare-and-swap, or forced to FAILURE, to `TaskLifecycle`.

**TopUp.** One order and the HTTP requests about it, each with the node it runs
on. `RefMutex`, `LockMutex`, `UnlockMutex` and `UnrefMutex` are the halves of
`LockOrder` and `UnlockOrder`; `ReadInTransaction` and `Commit` the transaction
of `Recharge` and its siblings, `ManualCompleteTopUp`,
`UpdatePendingTopUpStatus` and `Redeem`; `ReadOrder`, `SaveOrder` and
`IncreaseUserQuota` the three statements of `EpayNotify` (the first two also
those of `sessionAsyncPaymentFailed`). The kinds in `Unlocked` take no mutex:
redemptions, Waffo's callback for a failed payment ("declined", a transaction)
and the request whose order Waffo refuses ("refused", `RefuseOrder`: a plain
write of "failed" that looks at no status). Whether a read "FOR UPDATE" locks its row
is chosen initially.

**QuotaUpdater.** `row`, `stores` and `taken` hold quota, used quota and request
count. `ChangeQuota` is `IncreaseUserQuota` and `DecreaseUserQuota`, with the
goroutine they start for the cache in `tasks`; `UpdateUsed` and `RecordCount`
are `UpdateUserUsedQuotaAndRequestCount`; `ChangeRowOnly` is every change of
`users.quota` that does not touch the cache (top-ups, redeemed codes, balance
payments, the administrator's override), which `hidden` adds up until the next
refill; `Wake`, `TakeStore` and `WriteBatch`
are `batchUpdate`; `GetUserQuota` is a read that falls through to the row and
starts a refill, because the entry is not there or Redis failed; `CheckTTL` and `CacheWrite` are the two commands of a cache
access. `expected`, `lost`, `hidden` and `overlap` are history.

**DesktopShell.** One action per callback of `main.js`: probe answered, failed
or retried, the child's error and close events, tray, dock, close, before-quit,
its timer, and the dialogs. Child, port, user and Electron's order of events on
`app.quit` are external.

**Playground.** One action per handler: the user's (`handleSendMessage`,
`handleRegenerateMessage`, `handleEditMessage`, `applyEdit`,
`handleDeleteMessage`, `stopGeneration`), the network's (`Chunk`, `Done`,
`StreamError`, `StreamCut`, `PlainAnswer`), React's (`Render`) and the page's
(`Leave`, `Load`, and `LateUpdate` for a request that outlives its page). A
message's content is the set of requests that have written into it. `rendered`
is what a click sees; an update from the network is drawn, and may be saved,
later.

Definitions named `...Again`, `...Forgotten` and so on, each marked "Mutated",
are plausible bugs put beside the definition they change; no specification uses
them. They show that each property can fail.

## 3. Runs

| run | cfg | states | shows |
|---|---|---|---|
| outbox_recovery | OutboxRecovery | 373k | two calls for one request id, a worker, a fault, a crash and backoff: succeeded has ledger, reclaimable (in `OutboxInv`), refinement of UsageMetering, and an accepted request is eventually recorded |
| credit_overrun | CreditOverrun | 1.3M | three sessions, mixed mode with trust bypass, one repeated key, costs over and under the estimate, requests that settle without recording, a fault and a crash: account sound, overrun bounded, and what stays reserved once all is recorded bounded by the overruns |
| credit_estimates | CreditEstimates | 416k | costs up to the estimate, one repeated key, a fault, a crash and a configuration change: until a stale configuration is written back, unbilled equals the ledger and reserved is exactly what sessions hold; every reservation of an undisturbed run whose upstream calls end and whose usage is recorded comes back (liveness) |
| statements | Statements | 1.2M | an operator, two periods, adjustments of either sign, the sweep and a configuration change: payments sound, confirmed is final, the account never shows more than is open; until a payment crosses billed and overdue amounts or a stale configuration is written back it equals the open statements, and debt equals usage less payments |
| session_funds | SessionFunds | 2.2M | two requests, all four preferences, fallbacks, trust bypass, two faults, a crash, a reset, expiry: undisturbed, quota is conserved (of the subscription, unless a save undid another); disturbed, the wallet is never credited twice, overdraft is bounded, the subscription stays within 0 and its total |
| task_billing | TaskBilling | 358k | a task of any platform, up to two masters, two fetches, a fault, a crash, a deleted channel: refinement of TaskLifecycle, billed once, token follows funds, Suno refunded once by a single undisturbed master, a late task ends if some master is not blocked, a failed one is refunded (liveness) |
| topup | TopUp | 672k | three requests about one order on one or two nodes, with and without row locks, a fault and a crash: credited once where what credits is serialised, final where every write is, lock exclusive and dropped, paid means credited, handlers finish (liveness) |
| quota_updater | QuotaUpdater | 798k | two nodes, two changes, one read, a mishap: conservation, the cache is behind the balance by what was changed in the row alone, collected deltas are written (liveness) |
| desktop_shell | DesktopShell | 51k | three retries, two windows, two quits: no orphaned server, probes bounded, no stranded window, quit and start-up end (liveness) |
| playground | Playground | 339k | two requests, streamed or plain: answers in their own message, settled stays settled, Stop is offered, loading settles, no stream that ends blocks the page for ever (liveness) |
| session_double_refund, task_realtime | | | expected violations, section 5 |

Some invariants are checked together, as a conjunction of named parts that each
have their comment in the module. `OutboxInv` joins `SucceededHasLedger`,
`ProcessingIsReclaimable` and the parts that make them inductive; `StatementInv`
is `TypeOK` and `PaymentsSound`; `BillsSound` has `GuardedBilledOnce` and
`TokenFollowsFunds`; `LocksSound` has `LockIsExclusive` and `LocksAreForgotten`;
`CreditedOnce` has `CreditedAtMostOnce` and `SuccessIsCredited`; `BalancesSound`
has `ChangesConserved`; `WindowsSound` has `NoWindowIsStranded`;
`ConversationSound` has `AnswersAreOwn` and `StopIsOffered`. The module's type
invariant is a conjunct of each but `CreditedOnce`.

**Bounds.** Two actors on one row are what a race needs; a third session is
there so that one session can lose its reservation to another while the limit is
reached. One repeated request id covers repetition, since the ledger only
distinguishes the first from the others. Estimates and costs are the least that
allow cost below, equal to and above the estimate, and limits the least at which
one more request no longer fits. In `SessionFunds` the refund is retried once
instead of twice, so that two faults also exhaust it. Faults and crashes are bounded by 1 or 2, so
that an error path, an error on that path's own rollback and a retry all happen.
`RetryCap` lies above the count at which the backoff reaches `MaxDelay`, after
which a larger count changes nothing; the code's five seconds and five minutes
keep their ratio's effect (growth, then the cut). In `BillingStatement` two
periods suffice to tell bookings on one statement from those on another, and
one operator, whose generation is itself two steps, suffices beside the
administrator: a second one adds only drafts that overwrite each other. Tasks
share nothing, so one task of each platform stands for all. Three handlers let
two wait on a mutex that a third drops; of the placements on two nodes, all
others are renamings of the two checked. Of
Waffo's refused orders there is one request at most, as there is one that creates
the order. In `QuotaUpdater` a second change is
what a flush or a refill can miss. Three retries are the least at which doubled
retries meet the limit. Two requests let an answer meet another's message; a
third multiplies the states beyond reach and meets nothing new but the same
again. Where a
specification ends when all its requests have ended, its cfg turns the deadlock
check off; `UsageOutbox` never ends (the clock and the worker go on) and is
checked for deadlock.

**Fairness.** Assumed only of what the process keeps doing by itself: the
outbox ticker and goroutines run, the clock advances (`UsageOutbox!FairSpec`);
goroutines are scheduled and the outbox records what it was given
(`TenantCredit!FairSpec`). Upstream and vendor calls are not trusted to end:
`RELAY_TIMEOUT` is 0 by default and the HTTP client then has no timeout.
`ReservationsReturned` therefore has that they end as a premise. Nothing forces a
request, fault, crash, reset or operator. `EnqueuedEventuallyRecorded` asks for
an agreement that is eventually in place, without which recording must fail; the
batch limit is not below the number of rows, and with fewer places than failing
rows that come due together, later ones can starve. In `TaskBilling` each
loop takes its own steps (`OwnStep`), but one that waits for a vendor may wait
for ever, no vendor is trusted to finish a task, and time is not made to pass,
since `TaskTimeoutMinutes` of 0 or less switches the sweep off;
`TaskEventuallyEnds` is about a task that has become late, and asks for one
master whose loop is not kept waiting for ever (`Unblocked`);
in `TopUp` a request that has begun is scheduled, and weak
fairness is enough because each takes its locks once; in `QuotaUpdater` the
flush loop runs on; in `DesktopShell` timers fire, a probe is answered, refused
or times out, and Node reports a child's exit, but neither server nor user is
trusted to act; in `Playground` React draws what is
due, and a response is assumed to end somehow, which is not the client's doing:
it sets no timeout.

## 4. Proofs

| theorem | module | statement |
|---|---|---|
| OutboxInvariant | UsageOutbox_proofs | `Spec => []OutboxInv` |
| SucceededNeverLosesUsage, ProcessingAlwaysReclaimable | UsageOutbox_proofs | `SucceededHasLedger` and `ProcessingIsReclaimable`, each always |
| OutboxImplementsMetering | UsageOutbox_proofs | `Spec => MeteringSpec` |
| CreditTypeCorrect | TenantCredit_proofs | `Spec => []TypeOK` |
| UnbilledMatchesLedger, ReservedMatchesHeld, OverrunBounded, LeftoversBounded | TenantCredit_proofs | `UnbilledIsLedger`, `ReservedIsHeld`, `CreditOverrunBounded` and `LeftoverBounded`, each always |
| StatementInvariant, PaymentsAlwaysSound | BillingStatement_proofs | `Spec => []StatementInv`, hence `Spec => []PaymentsSound` |
| ConfirmedStaysFinal | BillingStatement_proofs | `Spec => ConfirmedIsFinal` |
| BookedMatchesStatements, DebtMatchesUsage | BillingStatement_proofs | `AccountMatchesStatements` and `DebtIsUsage`, each always |
| SessionInvariant, SessionTypeCorrect | UserQuota_proofs | `Spec => []SessionInv`, hence `Spec => []TypeOK` |
| QuotaAlwaysConserved, WalletNeverGains, OverdraftAlwaysBounded | UserQuota_proofs | `QuotaConserved`, `WalletNeverCreditedTwice` and `OverdraftBounded`, each always |
| QuotaInvariant | UserQuota_proofs | `QuotaSpec => []QuotaInv` |
| QuotaBalances, QuotaCache | UserQuota_proofs | `BalancesSound` and `CacheFollowsBalance`, each always |
| TaskInvariant, BillsAlwaysSound | TaskBilling_proofs | `Spec => []TaskInv`, hence `Spec => []BillsSound` |
| TaskImplementsLifecycle | TaskBilling_proofs | `Spec => LifecycleSpec` |
| SunoInvariant, SunoAlwaysRefundedOnceAlone | TaskBilling_proofs | `Spec => []SunoInv`, hence `Spec => []SunoRefundedOnceAlone` |
| LocksAlwaysSound | TopUp_proofs | `Spec => []LocksSound` |
| TopUpInvariant, CreditedExactlyWhenPaid | TopUp_proofs | `Spec => []TopUpInv`, hence `Spec => []CreditedOnce` |
| OutcomeStaysFinal | TopUp_proofs | `Spec => OutcomeIsFinal` |
| ProbesAreBounded, ServerIsNeverOrphaned, WindowsAlwaysSound | Client_proofs | `ProbesBounded`, `NoOrphanedServer` and `WindowsSound`, each always |
| ChatInvariant, ChatSound | Client_proofs | `ChatSpec => []ChatInv`, hence `ChatSpec => []ConversationSound` |
| ChatSettled, ChatLoads | Client_proofs | `ChatSpec => SettledStaysSettled`, `ChatSpec => LoadSettles` |

They hold for every value of the constants that satisfies the named assumption
of the module (`OutboxAssumption`, `CreditAssumption`, `StatementAssumption`,
`SessionAssumption`, `TaskAssumption`, `TopUpAssumption`,
`QuotaUpdaterAssumption`, `DesktopShellAssumption`, `PlaygroundAssumption`). The
assumptions state types, that marker values are not members, and that there are
finitely many sessions, periods, nodes, amounts and handlers (and at least one session in `BillingSession`, where the bound on the
overdraft names one), as in any run of the program. The bounds on faults,
crashes, resets and the like are arbitrary natural numbers. Each inductive
invariant was first checked by TLC on the bounds of its component's run.

*Sums.* `Total(f, S)` is the community modules' fold, a recursive function
chosen by `CHOOSE`. `TotalTheorems` first shows that the function exists
(`SumExists`: one that satisfies the recursion up to sets of size k, for every
k), then replaces induction, which would need an operator as parameter, by the
choice of a minimal counterexample among the subsets of S (`MinimalSubset`,
`PickInduction`), where the induction hypothesis is a set. From these follow the
facts the components use: changing one summand changes the total by as much
(`TotalChange`), totals add and compare term by term (`TotalPlus`, `TotalLeq`),
and no summand of a total of natural numbers exceeds it (`TotalAtLeast`); a
total over a set that gains or loses a member or is cut down to a part moves
accordingly (`TotalAdd`, `TotalRemove`, `TotalPart`, `TotalSub`).

*Outbox.* `ChargedExactlyOnce`, `SucceededHasLedger` and
`ProcessingIsReclaimable` do not make an inductive invariant by themselves: that a row marked
succeeded has its ledger row depends on the process that is about to mark it
having seen that row (`RecordedHasLedger`); that it is the right row depends on
every process and batch item having a row behind it (`ItemHasRow`) that holds a
payload of its own request id (`RowHasPayload`). `OutboxInv` is their
conjunction with the type invariant. The proof has a lemma per group of
conjuncts (`TypeStep`, `LedgerStep`, `RowSteps`, `ProcSteps`, `BatchStep`) and
`InvStep` combines them. The refinement follows: the insert is `Meter`
because, by `ChargedExactlyOnce`, nothing was charged before, and every other
step leaves ledger, credit and aggregate alone.

*Credit.* `TypeOK` says that the account is sound: charges are not negative and
the available credit is what the other columns say. It is inductive because it
also covers the row a configuration change holds between its read and its
write. `RecalculateSound` and `CreditOpsSound` carry it; the clamps of release
and ledger charge are what they rest on. The sums need `CreditInv`. That
reserved is what sessions hold is false once usage overruns, so the invariant
brackets it: `reserved` lies between what the sessions claim and that plus what
recorded usage overran (`AmountsSound`). For the limit, the charges already made
and those that reservations still stand for fit it together but for the recorded
overruns; the second sum (`AllExpected`) is needed because recording moves a
charge from expected to made. `SessionSound` says what a session's position
implies about its amounts, among it that usage handed to the outbox still has
the lesser of reservation and cost behind it. All of it is claimed
until a stale configuration is written back; a configuration that is written
over unchanged amounts changes the limit only, so the sums survive it.

*Statements.* `StatementInv` is type and `PaymentsSound`: a draft may be
overwritten only because nothing was paid on it, which is a part of
`PaymentsSound` itself. `ConfirmedKept` then gives the action property.
`SumsInv` adds the account: each period has a share in the billed, the overdue
and the unbilled amount, and the account is at most (until a payment crosses:
exactly) their sum. Usage only grows and a statement is for usage that was
recorded (`AmountsRecorded`), so moving a payable sum from unbilled to billed
never meets the clamp at zero unless a surcharge made it larger
(`NoSurcharge`). As in `TenantCredit`, a configuration written over unchanged
amounts keeps the sums, and a stale one ends the claim.

*Sessions.* Every position in the code has a claim on each balance: what the
session has taken from its source (`Due`) and from the token (`TokenDue`) and
not given back. `SessionInv` says that wallet and token are what they were less
the sum of the claims as long as nothing failed or died, that a subscription not
reset, and of which no save undid another, has used exactly the claims on it (a
transaction that read an amount either saves over that amount, and then moves it
by its own claim, or is recorded as having lost an update), and that the wallet is at most that
whatever failed. `Moves` says that a step changes one session, and a balance by
as much as the claim on it; each action has a lemma that it does
(`BeginMoves`, ..., `CrashMoves`), `MoveBalances` turns that into the sums. The
clamp of `PostConsumeUserSubscriptionDelta` at zero, which would break the
equality, is never met because a session's own claim is part of the sum
(`TotalAtLeast`). For the overdraft a claim is not enough: what is bounded is
the wallet plus the quotas and overruns *already taken* of all sessions but the
one whose read succeeded last (`Slack`, `LastSlack`); a successful read makes
its session the last, and everything the others have still to take was already
in their slack.

*Quota updater.* That an accepted change is in exactly one place is an equation
over the deltas of all nodes (`BalanceInv`): row, collected and lost amounts are
what was accepted. The equation alone bounds nothing, since deltas of either
sign cancel, so the invariant also weighs them: the absolute values of all of
them together never exceed what the operations so far can have moved (`Cap`).
A flush only splits or moves an amount, and splitting adds no weight
(`AbsMoves`). Finally what a node has taken of a record type is empty until
that type's turn in the batch; otherwise taking the store would overwrite
amounts not yet written. For the cache,
`CacheInv` says that as long as no refill has met a change, refills find no
increment in flight and carry the balance, a command that has seen the key finds
it, and the entry, the increments on their way and the changes made in the row
alone since the last refill add up to the balance. Sums
over goroutines need each to be a task of its own, also when two carry the same
amount (`TasksInv`).

*Tasks.* `TaskInv` says of a video task that is open that nothing was billed and
nobody is about to bill; of one that is being billed that exactly one node does,
that its row has ended (in FAILURE for a refund) and what was billed so far.
Steps fall into four shapes: quiet ones, a node that wins the row, a node that
moves the funds, a node that moves the token. `StepSound` shows that each action
has a shape and the shapes keep the invariant; the refinement uses the same
shapes, where winning is the abstract end of the task and moving funds is the
abstract bill. That no token is ahead of its funds (`TokensBehind`) counts the
nodes between the two statements. For Suno tasks, refunded before the write that
ends them, `SunoInv` follows a task through one master's round: while it is on
the list it has not been refunded, and from its refund until its row is finished
the node stays with it and holds a copy that will finish it, so no later list
can name it. The list names no task twice and other nodes sleep, which is where
the single master is used; a failed save or a crash is what the last clause
would not survive.

*Top-ups.* `LocksInv` ties the map, the mutexes and their counts to the handlers:
the count is the number of handlers that refer to the mutex, every handler
between lock and unlock is the holder of the mutex in the map, so two on one node
have the same. `FreshInv` says that where every write of the status
is serialised (all handlers behind one mutex, or all in transactions that lock the
row) what a handler read of the order still holds when it writes; the finality of
the outcome follows. For the credit less is needed, and less is true of Waffo's
orders: `CreditInv` says that where only what credits is serialised, a handler
about to credit knows that nobody has, although a failure may be written over the
status at any time; no failure makes an order pending again, and so at most one
credit follows.

*Desktop shell.* That start-up sends fewer than twice its probes is not
inductive: a timed-out probe schedules two retries. `ProbeBalance`, timers plus
twice the probes in flight never exceed the probes sent plus one, is, and at the
last probe that still retries it bounds what is to come. That no server is left
behind rests on `ChildInv`: `serverProcess` is cleared only when the child is
dead, so whoever exits has either seen it dead or kills it. `WindowInv` says
that a set `mainWindow` is open and that it is the only one unless the dock made
one too early; a window is stranded exactly when both fail.

*Playground.* Callbacks update "the last message", and nothing in the code ties
it to the request that calls back. `AnswersInv` says what does, as long as the
conversation is left alone under an answer: only the last message of a page
waits, the one open request is the one it waits for, and in a page that was left
the last message is the one of its orphaned request; besides, every copy of the
conversation (the page's, the saved one, those of pages left) holds its own text
only. `PageInv` adds that what a click acts on is what the page holds unless a
re-render is due; with it, a send, save or deletion that finds nothing under way
works on a conversation at rest (`PageAtRest`). Steps come in three shapes: those
that draw (`DrawKeeps`, used for sending, editing, deleting, stopping, rendering
and loading), updates from the network (`UpdateKeeps`) and requests that end
without a callback (`EndKeeps`). The length of a conversation is bounded because
requests are sent in order and bring two messages each (`Lists`), which a request
still to be sent has to know of. `SettledStaysSettled` follows since an update
changes the last message only and that one waits; `LoadSettles` because where
only the last message waits, repairing one message is enough.

*Only model-checked:* the liveness properties, which need fairness and are out of
the prover's reach: `EnqueuedEventuallyRecorded`, `ReservationsReturned`,
`TaskEventuallyEnds`, `FailedEventuallyRefunded`, `HandlersFinish`,
`CollectedEventuallyWritten`, `QuitEventuallyExits`, `StartEventuallySettles` and
`GeneratingEnds`. Every invariant, action property and refinement that a passing
run checks is also stated by a theorem.

## 5. Findings

Each is a run that is expected to be violated; `PROJECT.json` quotes the lines.

1. **session_double_refund.** The refund of a subscription commits its effect in
   a transaction of its own inside the one that records it, so the retry that is
   documented as idempotent can give the quota back again.
2. **task_realtime.** A user who asks for a Gemini or Vertex task that the sweep
   has failed and refunded sets it back to in progress, because the fetch
   compares and swaps from whatever status it has just read
   (`relay/relay_task.go:477`); the poller then refunds it again.

Observed while modelling. The properties of the passing runs are stated so that
they hold beside these, and name the exception:

- *Outbox.* A worker slower than the stale limit can turn a succeeded row into a
  failed one, which only costs another, harmless pass. The direct path taken
  when enqueueing fails loses the usage if its single write fails too.
- *Credit.* The usage is enqueued before the session is settled
  (`service/text_quota.go:372`), although ADR 0004 says recording follows
  settlement. If it is recorded first and cost more than was reserved, the
  settlement reserves the difference and nothing consumes it; `LeftoverBounded`
  bounds what is left that way. `SetTenantBillingConfig` (`service/tenant.go:190`)
  writes back all amounts it read outside a transaction: reservations, charges,
  confirmations and payments made in between are undone, so a tenant may use more
  than it owes, or owe again what it has paid; if the read fails, all amounts
  become 0 (the limit is set all the same). A request with an id that was used before is
  settled but not recorded, so what it reserved stays reserved. The same holds of
  every request that settles a cost it never hands to the outbox: the submission of
  a task (`relay/relay_task.go:208`, `controller/relay.go:609`) and a text request
  for which the upstream reported no usage (`service/text_quota.go:372`). Nothing
  takes these reservations back.
- *Statements.* A payment reduces both the billed and the overdue amount
  (`service/tenant.go:800`): with two statements, one overdue, it frees credit
  twice (`crossed` marks that it has happened; by `AccountMatchesStatements`
  the account still never shows more than is open). The sweep has no production caller at this commit, only a test. Usage
  that arrives for a period already confirmed stays unbilled.
- *Processes that die.* A session, its reservation and the goroutine that would
  refund it live in memory only (`service/billing_session.go:102`,
  `service/tenant.go:1060`); `CreditOverrunBounded` and
  `WalletNeverCreditedTwice` say what that cannot lead to.
- *Sessions.* A reset of the subscription between charge and refund forgives the
  charge. Of two transactions on one subscription that overlap, the later save
  undoes the earlier (`model/subscription.go:1181`, `1254`, `1298`, `1365`): gorm v2
  (`go.mod:60`) ignores the query option by which they ask for the lock. No fault
  is needed for it.
- *Tasks.* The Suno poller refunds before it writes the row
  (`service/task_polling.go:237`), so two masters, a failing write or the sweep
  refund twice. A fetch that sees a task fail ends it without a refund. A vendor
  call without a timeout (`service/task_polling.go:195`, `362`; `RELAY_TIMEOUT`
  is 0 by default) stops the one loop of its node, and the timeout sweep with it. A task
  whose channel is deleted fails without a refund. `legacyTaskCutoff`
  (`service/task_polling.go:51`) is 2025-02-22, its comment says 2026-02-22.
- *Top-ups.* The Epay callback marks the order paid and then adds the quota: a
  failure in between leaves it paid and uncredited, and no later callback makes
  up for it. On two nodes the mutexes do not exclude each other, so an Epay
  callback and a manual completion, or transactions whose read does not lock the
  row, can credit an order twice; `CreditsSerialised` says where they cannot. Waffo's
  failure paths take no mutex (`controller/topup_waffo.go:228`, `272`, `279`, `382`;
  likewise `topup_waffo_pancake.go:405`): an order may be credited and end as failed,
  or be marked failed and then completed by a callback that read it before.
- *Quota.* Top-ups, redeemed codes, balance payments and the administrator's
  override (`model/topup.go:144`, `model/redemption.go:140`,
  `model/subscription.go:762`, `controller/user.go:1032`) change `users.quota` and
  not the cache, which then differs by as much until it is refilled. A refill from
  the row lacks the deltas still collected, and one that
  overlaps a change can overwrite or repeat it in the cache. An increment whose
  key expires after the TTL check creates a hash with the one field only, and
  readers then find a user without group or status. Every increment sets the TTL
  anew to what was left of it, rounded to seconds, so a busy key may live long.
  The cache is adjusted even when the row's update fails.
- *Desktop shell.* A server that exits normally "closes" the window, which only
  hides it. A dock click during start-up makes a window that start-up then
  forgets, and closing either hides the other. `serverProcess` is not cleared
  when the server dies by itself, so a later quit waits five seconds. In
  development mode the system's quit only hides the window. Any program that
  answers on the port passes the probe.
- *Playground.* Suggestions and Save & Submit are not guarded by `isGenerating`:
  two streams then mix in the last message. A plain request never blocks the page;
  an answer without choices leaves its message loading. A stream cut off without
  `[DONE]`, and a connection that stays silent, block until Stop. Where two streams
  overlap, the `[DONE]` of one makes the other skip its errors. Loading repairs one stuck message only. A request
  that outlives its page can save the conversation of that page over a newer one.

## 6. Assumptions and what is left out

- In `service/tenant.go` a transaction reads its row under a gorm locking clause
  (not on SQLite, which has one writer) and is atomic. In `model/subscription.go`
  the lock is not taken, and transactions overlap; in `TopUp` both cases are
  explored.
- `retryTenantDBWrite` repeats a transaction that SQLite refused as locked; a
  refused transaction has no effect, so only the final failure is a step.
- In `BillingSession`, `TaskBilling` and `TopUp` balances are the database rows;
  Redis copies and batch updates are `QuotaUpdater`'s. Writes of a whole user row
  (`model/user.go:347`, `512`) and the transfer of affiliate quota (`379`) are in no
  module. Playground requests, which
  have no token, and `Reserve` of a running session, which no production path
  calls, are left out of `BillingSession`.
- A task's quota is never zero, and tasks older than the refund itself, which the
  sweep fails without one, are left out of `TaskBilling`.
- Of a user's Redis entry only the quota and whether the other fields are there
  are modelled; the token's entry and record type behave alike.
- `Playground` assumes what React and sse.js do: a click's update is drawn before
  the next event, a network callback's update some time later, an update of an
  unmounted component is never drawn but its updater may run once; a closed
  source fires nothing more. `DesktopShell` assumes Electron's documented order
  of quit events and that SIGKILL kills; exceptions of `mkdirSync`, `spawn` and
  `createTray`, and the death of the Electron process itself, are left out.
- Quotas are small numbers. The products of token counts and price ratios that
  yield them are decimal and floating-point arithmetic and are left opaque.
- Statuses the code compares with but never writes (a suspended account, an
  adjusted statement) are left out; the account exists from the start; periods do
  not overlap.
- A dead process leaves its reservations and pre-consumed quota behind; the code
  has no reaper, and the properties are stated so that this is allowed.

### Not modelled

- **Midjourney poller** (`controller/midjourney.go`): a loop of its own over
  tasks of its own with the same shape as the Suno poller, whose order of refund
  and write `TaskBilling` has.
- **Channel selection and affinity, subscription orders, supply governance,
  supplier settlement, telemetry**: planned, section 7.
- **Rate limiters**: a window over Redis lists; the check and the record are
  separate commands and the limit is approximate by design.
- **Price expressions, prices**: decimal and floating-point arithmetic.
- **Vendor adapters**: translation of request and response formats without shared
  state.
- **The other screens of the two web clients.** Nearly all of the repository's
  TypeScript and JavaScript is here: forms, tables, charts, dialogs and
  translations. A screen runs a query, renders its result and sends one request
  per button; its state belongs to one page and is replaced by the next query.
  There is no protocol, no shared state and no order of events in them for a
  model checker to explore beyond what the playground has, and a module per form
  would restate its fields. The share of the clients' lines that the modules
  cover therefore stays small; the logic this project is about is the server's.

## 7. Plan

1. `Subscriptions`: orders and their callbacks, several subscriptions, reset
   and expiry with the choice among them.
2. `ChannelSelection`: retry over priorities and groups, affinity against
   disabled channels.
3. `SupplyGovernance`: decision, plan, approval, execution, rollback.
4. Supplier settlement, telemetry worker.
