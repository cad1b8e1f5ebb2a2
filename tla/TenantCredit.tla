---------------------------- MODULE TenantCredit ----------------------------
(***************************************************************************)
(* A tenant's postpaid credit under concurrent relay requests:             *)
(* TenantCreditBillingSession, the reserve, release and ledger             *)
(* transactions of service/tenant.go, and the order in which the           *)
(* post-consume paths (service/text_quota.go, service/quota.go) call       *)
(* RecordUsageAsync and SettleBilling.                                     *)
(*                                                                         *)
(* A session is used by one relay goroutine, but its usage is recorded by  *)
(* others, and every transaction on the shared account is a step of its    *)
(* own.  Recording is the atomic step UsageMetering promises, which        *)
(* UsageOutbox is shown to implement.  What a prepaid session inside a     *)
(* mixed one does to wallet and token is BillingSession's subject, what    *)
(* statements and payments do to the account is BillingStatement's.        *)
(***************************************************************************)
EXTENDS CreditAccount, Totals, FiniteSets

CONSTANTS
    Sessions,     \* relay requests of the tenant
    Requests,     \* idempotency keys of the ledger
    RequestOf,    \* key of each relay request (clients choose it and may repeat it)
    NoSession,
    Mode,         \* the tenant's billing mode: "postpaid" or "mixed"
    Policy,       \* the over-credit policy: "block" or one that only warns, "allow"
    Limit,        \* the credit limit the tenant starts with
    NewLimits,    \* limits an administrator may set
    Estimates,    \* quotas to pre-consume
    Actuals,      \* quotas the responses turn out to cost; 0: no usage came back
    Trusting,     \* may a prepaid session skip its pre-consume (shouldTrust)?
    MaxFaults,    \* bound: transactions that fail
    MaxCrashes,   \* bound: relay goroutines that die
    MaxConfigs    \* bound: changes of the billing configuration

ASSUME CreditAssumption ==
    /\ IsFiniteSet(Sessions)
    /\ RequestOf \in [Sessions -> Requests]
    /\ NoSession \notin Sessions
    /\ Mode \in {"postpaid", "mixed"}
    /\ Policy \in {"block", "allow"}
    /\ Limit \in Nat
    /\ NewLimits \subseteq Nat
    /\ Estimates \subseteq Nat
    /\ Actuals \subseteq Nat
    /\ Trusting \in BOOLEAN
    /\ MaxFaults \in Nat /\ MaxCrashes \in Nat /\ MaxConfigs \in Nat

VARIABLES
    account,     \* the tenant's row of credit_accounts
    session,     \* relay requests and their TenantCreditBillingSession
    queue,       \* sessions whose usage is handed to the outbox and not yet recorded
    ledger,      \* usage_ledgers: the session whose usage the row holds
    config,      \* SetTenantBillingConfig between its read and its write; spoiled,
                 \* a history: has one written amounts the account no longer had?
    faults, crashes, configs

vars == <<account, session, queue, ledger, config, faults, crashes, configs>>
bounds == <<faults, crashes, configs>>

NoPrepaid == -1    \* no prepaid session inside
NoConfig == [writing |-> FALSE, row |-> NewAccount(0), spoiled |-> FALSE]

PC == {"idle", "rejected", "serving", "posting", "settling", "rollback", "settled", "unsettled",
       "releasing", "refunded", "lost"}

\* prepaid: pre-consumed quota of the prepaid session inside; held:
\* reservedPostpaidQuota; opened: what Prepare reserved; actual: settled quota.
NewSession == [pc |-> "idle", prepaid |-> NoPrepaid, held |-> 0, opened |-> 0, actual |-> 0]

SessionType ==
    [pc : PC, prepaid : Int, held : Nat, opened : Nat, actual : Nat]

\* A row no transaction spoiled: only the available credit may be negative,
\* and it always is what the other columns say.
SoundAccount(a) ==
    /\ a \in [Amounts -> Int]
    /\ \A f \in Amounts \ {"available"} : a[f] >= 0
    /\ a = Recalculate(a)

TypeOK ==
    /\ SoundAccount(account)
    /\ session \in [Sessions -> SessionType]
    /\ queue \subseteq Sessions
    /\ ledger \in [Requests -> Sessions \cup {NoSession}]
    /\ config \in [writing : BOOLEAN, row : [Amounts -> Int], spoiled : BOOLEAN]
    /\ SoundAccount(config.row)
    /\ faults \in 0..MaxFaults /\ crashes \in 0..MaxCrashes /\ configs \in 0..MaxConfigs

Init ==
    /\ account = NewAccount(Limit)
    /\ session = [s \in Sessions |-> NewSession]
    /\ queue = {}
    /\ ledger = [r \in Requests |-> NoSession]
    /\ config = NoConfig
    /\ faults = 0 /\ crashes = 0 /\ configs = 0

----------------------------------------------------------------------------
(* TenantPostpaidQuota: what the prepaid session did not cover.            *)
PostpaidQuota(sellQuota, prepaid) ==
    IF prepaid = NoPrepaid THEN sellQuota ELSE NonNegative(sellQuota - prepaid)

PostpaidOf(s) == PostpaidQuota(session[s].actual, session[s].prepaid)

Fault ==
    /\ faults < MaxFaults
    /\ faults' = faults + 1

\* reservePostpaid: move the session's reservation to target, in one
\* transaction or none; the session goes to ok or, on an error, to bad.
ReservePostpaid(s, target, ok, bad) ==
    LET held == session[s].held IN
    \/ /\ target > held
       /\ MayReserve(account, target - held, Policy)
       /\ account' = ReserveCredit(account, target - held)
       /\ session' = [session EXCEPT ![s].held = target, ![s].pc = ok]
       /\ UNCHANGED faults
    \/ /\ target < held
       /\ account' = ReleaseCredit(account, held - target)
       /\ session' = [session EXCEPT ![s].held = target, ![s].pc = ok]
       /\ UNCHANGED faults
    \/ /\ target = held
       /\ session' = [session EXCEPT ![s].pc = ok]
       /\ UNCHANGED <<account, faults>>
    \/ /\ target > held
       /\ ~MayReserve(account, target - held, Policy)
       /\ session' = [session EXCEPT ![s].pc = bad]
       /\ UNCHANGED <<account, faults>>
    \/ /\ target # held
       /\ Fault
       /\ session' = [session EXCEPT ![s].pc = bad]
       /\ UNCHANGED account

----------------------------------------------------------------------------
(* PrepareTenantBillingSession.                                            *)
(***************************************************************************)
\* A postpaid session, or a mixed one whose prepaid session was refused for
\* lack of quota: the estimate is reserved, or the request is turned away.
\* (A refused request never had a session, so nothing is held for it.)
PreparePostpaid(s, estimate) ==
    /\ session[s].pc = "idle"
    /\ \/ /\ estimate = 0 \/ MayReserve(account, estimate, Policy)
          /\ account' = IF estimate = 0 THEN account ELSE ReserveCredit(account, estimate)
          /\ session' = [session EXCEPT ![s].pc = "serving", ![s].held = estimate,
                                        ![s].opened = estimate]
          /\ UNCHANGED faults
       \/ /\ estimate > 0 /\ ~MayReserve(account, estimate, Policy)
          /\ session' = [session EXCEPT ![s].pc = "rejected"]
          /\ UNCHANGED <<account, faults>>
       \/ /\ Fault
          /\ session' = [session EXCEPT ![s].pc = "rejected"]
          /\ UNCHANGED account
    /\ UNCHANGED <<queue, ledger, config, crashes, configs>>

\* A mixed session whose prepaid session was opened: it holds no credit.
PrepareMixed(s, estimate) ==
    /\ Mode = "mixed"
    /\ session[s].pc = "idle"
    /\ \E prepaid \in {estimate} \cup (IF Trusting THEN {0} ELSE {}) :
        session' = [session EXCEPT ![s].pc = "serving", ![s].prepaid = prepaid]
    /\ UNCHANGED <<account, queue, ledger, config, bounds>>

----------------------------------------------------------------------------
(* The end of the relay request.                                           *)
(***************************************************************************)
\* Mutated Refund: the session is flagged, the release never started.
RefundForgetsCredit(s) ==
    /\ session[s].pc = "serving"
    /\ session' = [session EXCEPT ![s].pc = "refunded"]
    /\ UNCHANGED <<account, queue, ledger, config, bounds>>

\* The upstream failed: Refund.  The release runs in a goroutine of its own,
\* for the amount held until here.
Refund(s) ==
    /\ session[s].pc = "serving"
    /\ session' = [session EXCEPT ![s].pc = IF session[s].held > 0 THEN "releasing" ELSE "refunded"]
    /\ UNCHANGED <<account, queue, ledger, config, bounds>>

\* ... ReleaseTenantCredit; an error is only logged.
Release(s) ==
    /\ session[s].pc = "releasing"
    /\ \/ /\ account' = ReleaseCredit(account, session[s].held)
          /\ session' = [session EXCEPT ![s].pc = "refunded", ![s].held = 0]
          /\ UNCHANGED faults
       \/ /\ Fault
          /\ session' = [session EXCEPT ![s].pc = "refunded"]
          /\ UNCHANGED account
    /\ UNCHANGED <<queue, ledger, config, crashes, configs>>

\* The upstream answered: PostTextConsumeQuota and its siblings hand the usage
\* to RecordUsageAsync, if the upstream reported any, and only then settle.
\* Without a report the cost is estimated and settled but never recorded, and
\* the submission of a task settles without recording in any case.
PostConsume(s, actual) ==
    /\ session[s].pc = "serving"
    /\ session' = [session EXCEPT ![s].pc = "posting", ![s].actual = actual]
    /\ queue' \in {queue} \cup (IF actual > 0 THEN {queue \cup {s}} ELSE {})
    /\ UNCHANGED <<account, ledger, config, bounds>>

\* Mutated SettlePostpaid: a reservation is only ever raised.
SettlePostpaidUpwards(s) ==
    /\ session[s].pc = "posting"
    /\ ReservePostpaid(s, IF PostpaidOf(s) > session[s].held THEN PostpaidOf(s) ELSE session[s].held,
                       IF session[s].prepaid = NoPrepaid THEN "settled" ELSE "settling",
                       "unsettled")
    /\ UNCHANGED <<queue, ledger, config, crashes, configs>>

\* TenantCreditBillingSession.Settle: first the credit ...
SettlePostpaid(s) ==
    /\ session[s].pc = "posting"
    /\ ReservePostpaid(s, PostpaidOf(s),
                       IF session[s].prepaid = NoPrepaid THEN "settled" ELSE "settling",
                       "unsettled")
    /\ UNCHANGED <<queue, ledger, config, crashes, configs>>

\* ... then the prepaid session; if that fails the credit is put back to what
\* the session held before, which is nothing.
SettlePrepaid(s) ==
    /\ session[s].pc = "settling"
    /\ \/ session' = [session EXCEPT ![s].pc = "settled"] /\ UNCHANGED faults
       \/ Fault /\ session' = [session EXCEPT ![s].pc = "rollback"]
    /\ UNCHANGED <<account, queue, ledger, config, crashes, configs>>

RollbackPostpaid(s) ==
    /\ session[s].pc = "rollback"
    /\ ReservePostpaid(s, session[s].opened, "unsettled", "unsettled")
    /\ UNCHANGED <<queue, ledger, config, crashes, configs>>

----------------------------------------------------------------------------
(* insertUsageLedgerWithTenantCredit, for a queued session: the usage is   *)
(* charged unless the request id already has a row.                        *)
\* Mutated: the number of inserted rows is not looked at.
RecordUsageAgain(s) ==
    /\ s \in queue
    /\ queue' = queue \ {s}
    /\ ledger' = [ledger EXCEPT ![RequestOf[s]] = IF @ = NoSession THEN s ELSE @]
    /\ account' = ApplyLedgerCredit(account, PostpaidOf(s))
    /\ UNCHANGED <<session, config, bounds>>

RecordUsage(s) ==
    LET r == RequestOf[s] IN
    /\ s \in queue
    /\ queue' = queue \ {s}
    /\ IF ledger[r] = NoSession
       THEN /\ ledger' = [ledger EXCEPT ![r] = s]
            /\ account' = IF PostpaidOf(s) > 0 THEN ApplyLedgerCredit(account, PostpaidOf(s))
                          ELSE account
       ELSE UNCHANGED <<ledger, account>>
    /\ UNCHANGED <<session, config, bounds>>

----------------------------------------------------------------------------
(* SetTenantBillingConfig: the account is read in one statement and all of *)
(* its columns are written back in another.  A read that fails counts as   *)
(* an account without amounts.                                             *)
(***************************************************************************)
ReadAccount(limit) ==
    /\ configs < MaxConfigs
    /\ ~config.writing
    /\ \/ /\ config' = [config EXCEPT !.writing = TRUE, !.row = ConfiguredAccount(account, limit)]
          /\ UNCHANGED faults
       \/ /\ Fault
          /\ config' = [config EXCEPT !.writing = TRUE, !.row = NewAccount(limit)]
    /\ configs' = configs + 1
    /\ UNCHANGED <<account, session, queue, ledger, crashes>>

UpsertCreditAccount ==
    /\ config.writing
    /\ \/ /\ account' = config.row
          /\ config' = [NoConfig EXCEPT !.spoiled =
                            config.spoiled \/ ~SameAmounts(config.row, account)]
          /\ UNCHANGED faults
       \/ /\ Fault
          /\ config' = [NoConfig EXCEPT !.spoiled = config.spoiled]
          /\ UNCHANGED account
    /\ UNCHANGED <<session, queue, ledger, crashes, configs>>

\* A relay goroutine dies; its session lives in memory only, a queued usage
\* record survives in the outbox.
Crash(s) ==
    /\ crashes < MaxCrashes
    /\ crashes' = crashes + 1
    /\ session[s].pc \in {"serving", "posting", "settling", "rollback", "releasing"}
    /\ session' = [session EXCEPT ![s].pc = "lost"]
    /\ UNCHANGED <<account, queue, ledger, config, faults, configs>>

----------------------------------------------------------------------------
Next ==
    \/ \E s \in Sessions, estimate \in Estimates :
          PreparePostpaid(s, estimate) \/ PrepareMixed(s, estimate)
    \/ \E s \in Sessions :
          \/ Refund(s)
          \/ \E actual \in Actuals : PostConsume(s, actual)
          \/ Release(s)
          \/ SettlePostpaid(s)
          \/ SettlePrepaid(s)
          \/ RollbackPostpaid(s)
          \/ RecordUsage(s)
          \/ Crash(s)
    \/ \E limit \in NewLimits : ReadAccount(limit)
    \/ UpsertCreditAccount

Spec == Init /\ [][Next]_vars

\* Goroutines are scheduled and the outbox records what it was given.  Nothing
\* is assumed of the upstream: its client has no timeout unless one is set.
FairSpec ==
    /\ Spec
    /\ \A s \in Sessions :
        /\ WF_vars(Release(s))
        /\ WF_vars(SettlePostpaid(s) \/ SettlePrepaid(s) \/ RollbackPostpaid(s))
        /\ WF_vars(RecordUsage(s))

----------------------------------------------------------------------------
Recorded(s) == ledger[RequestOf[s]] = s

Charge(s) == IF Recorded(s) THEN PostpaidOf(s) ELSE 0
Claim(s) == session[s].held - Charge(s)
Overrun(s) == NonNegative(PostpaidOf(s) - session[s].opened)

\* The postpaid part of the ledger; what sessions still hold beyond the usage
\* they were charged; what requests cost over what was reserved up front.
Charged == Total([s \in Sessions |-> Charge(s)], Sessions)
Claimed == Total([s \in Sessions |-> Claim(s)], Sessions)
Overruns == Total([s \in Sessions |-> Overrun(s)], Sessions)

(* Until a configuration change writes back amounts that have changed      *)
(* meanwhile, the account's unbilled amount is the postpaid part of the    *)
(* ledger: nothing is charged twice, lost, or charged without a row, and a *)
(* configuration change that overlaps no charge leaves it alone.           *)
UnbilledIsLedger == ~config.spoiled => account.unbilled = Charged

(* As long as no request costs more than its estimate, and until a         *)
(* configuration change writes back stale amounts, the reserved amount is  *)
(* exactly what sessions still hold beyond the usage they have already     *)
(* been charged, so no session's transaction takes another's reservation,  *)
(* in any order of settlement, release and recording.                      *)
ReservedIsHeld ==
    ~config.spoiled /\ (\A s \in Sessions : Overrun(s) = 0) => account.reserved = Claimed

(* Under the block policy, and until the limit is changed, the tenant is   *)
(* never in debt beyond its limit by more than its requests cost over what *)
(* was reserved for them up front.                                         *)
CreditOverrunBounded ==
    Policy = "block" /\ configs = 0
        => account.reserved + Debt(account) <= account.limit + Overruns

\* No transaction fails, no goroutine dies, no stale configuration is written;
\* and whatever a request cost is recorded under a request id of its own.
Undisturbed == faults = 0 /\ crashes = 0 /\ ~config.spoiled
AllRecorded == \A s \in Sessions : session[s].actual > 0 /\ s \notin queue => Recorded(s)

(* If nothing disturbs the requests, all their usage is recorded and every *)
(* upstream call ends, every reservation is eventually consumed by its     *)
(* usage or released.  Both conditions are needed: the reservation of a    *)
(* request that settles a cost it never records, as every task submission  *)
(* does, is never taken back.                                              *)
ReservationsReturned ==
    [](Undisturbed /\ AllRecorded) /\ <>[](\A s \in Sessions : session[s].pc # "serving")
        => <>[](account.reserved = 0)

(* When every request of an undisturbed run has been answered, settled and *)
(* recorded, no more is left reserved than the requests cost over what was *)
(* reserved for them up front (for a request that is never recorded, its   *)
(* whole cost stays reserved).  That much can be left: usage recorded      *)
(* before the settlement consumes the old reservation, and the settlement  *)
(* then reserves the difference, which nothing consumes.                   *)
Finished(s) == session[s].pc \in {"idle", "rejected", "settled", "refunded"} /\ s \notin queue
LeftoverBounded ==
    Undisturbed /\ AllRecorded /\ (\A s \in Sessions : Finished(s)) => account.reserved <= Overruns
============================================================================
