-------------------------- MODULE BillingStatement --------------------------
(***************************************************************************)
(* A tenant's billing statements (service/tenant.go): generated from the   *)
(* ledger, confirmed, paid in parts, swept when overdue, and booked on the *)
(* credit account.  Several finance operators act concurrently and usage   *)
(* keeps arriving, also for past periods: the outbox records late and      *)
(* keeps the time of the request.  Each transaction is one step; the       *)
(* ledger sum a statement is generated from is read before its             *)
(* transaction starts.  An administrator may change the billing            *)
(* configuration meanwhile, which reads the account in one statement and   *)
(* writes all of its columns back in another.                              *)
(***************************************************************************)
EXTENDS CreditAccount, Totals, FiniteSets

CONSTANTS
    Periods,       \* disjoint billing periods, one statement each
    Operators,     \* concurrent calls of GenerateTenantBillingStatement
    NoPeriod,
    Limit,         \* the tenant's credit limit
    NewLimits,     \* limits an administrator may set
    Quotas,        \* postpaid quota of one ledger row
    MaxUsage,      \* bound: quota recorded per period
    Adjustments,   \* adjustments an operator may enter
    MaxConfigs     \* bound: changes of the billing configuration

ASSUME StatementAssumption ==
    /\ IsFiniteSet(Periods)
    /\ NoPeriod \notin Periods
    /\ Limit \in Nat
    /\ NewLimits \subseteq Nat
    /\ Quotas \subseteq Nat
    /\ MaxUsage \in Nat
    /\ Adjustments \subseteq Int
    /\ MaxConfigs \in Nat

VARIABLES
    account,       \* the tenant's row of credit_accounts
    usage,         \* per period: sum of postpaid_quota in usage_ledgers
    statement,     \* per period: row of billing_statements
    paid,          \* per period: sum of its payment_records
    generating,    \* per operator: the statement computed and not yet written
    crossed,       \* history: was a payment booked while both billed and overdue were owed?
    config         \* SetTenantBillingConfig between its read and its write, and a
                   \* history: its calls, and has one spoiled the account, writing
                   \* amounts the account no longer had?

vars == <<account, usage, statement, paid, generating, crossed, config>>

Status == {"none", "draft", "confirmed", "invoiced", "paid", "overdue"}

NoStatement == [status |-> "none", amount |-> 0, payable |-> 0]
Idle == [period |-> NoPeriod, amount |-> 0, payable |-> 0]
NoConfig == [writing |-> FALSE, row |-> NewAccount(0), spoiled |-> FALSE, calls |-> 0]

TypeOK ==
    /\ account \in [Amounts -> Int]
    /\ usage \in [Periods -> Nat]
    /\ statement \in [Periods -> [status : Status, amount : Nat, payable : Nat]]
    /\ paid \in [Periods -> Nat]
    /\ generating \in [Operators -> [period : Periods \cup {NoPeriod}, amount : Nat, payable : Nat]]
    /\ crossed \in BOOLEAN
    /\ config \in [writing : BOOLEAN, row : [Amounts -> Int], spoiled : BOOLEAN,
                   calls : Nat]

Init ==
    /\ account = NewAccount(Limit)
    /\ usage = [p \in Periods |-> 0]
    /\ statement = [p \in Periods |-> NoStatement]
    /\ paid = [p \in Periods |-> 0]
    /\ generating = [o \in Operators |-> Idle]
    /\ crossed = FALSE
    /\ config = NoConfig

----------------------------------------------------------------------------
\* insertUsageLedgerWithTenantCredit.
RecordUsage(p, quota) ==
    /\ usage[p] + quota <= MaxUsage
    /\ usage' = [usage EXCEPT ![p] = @ + quota]
    /\ account' = ApplyLedgerCredit(account, quota)
    /\ UNCHANGED <<statement, paid, generating, crossed, config>>

\* billingStatementRegenerationLocked.
RegenerationLocked(status) == status \in {"confirmed", "invoiced", "paid", "overdue"}

\* GenerateTenantBillingStatement reads the ledger ...
SumLedger(o, p, adjustment) ==
    /\ generating[o] = Idle
    /\ generating' = [generating EXCEPT ![o] =
            [period |-> p, amount |-> usage[p], payable |-> NonNegative(usage[p] + adjustment)]]
    /\ UNCHANGED <<account, usage, statement, paid, crossed, config>>

\* Mutated WriteDraft: a locked statement still gets the new amount.
WriteDraftRefreshesAmount(o) ==
    LET g == generating[o] IN
    /\ g.period \in Periods
    /\ generating' = [generating EXCEPT ![o] = Idle]
    /\ statement' =
         IF RegenerationLocked(statement[g.period].status)
         THEN [statement EXCEPT ![g.period].amount = g.amount]
         ELSE [statement EXCEPT ![g.period] =
                  [status |-> "draft", amount |-> g.amount, payable |-> g.payable]]
    /\ UNCHANGED <<account, usage, paid, crossed, config>>

\* ... and writes the draft, unless the statement is locked by now.
WriteDraft(o) ==
    LET g == generating[o] IN
    /\ g.period \in Periods
    /\ generating' = [generating EXCEPT ![o] = Idle]
    /\ statement' =
         IF RegenerationLocked(statement[g.period].status) THEN statement
         ELSE [statement EXCEPT ![g.period] =
                  [status |-> "draft", amount |-> g.amount, payable |-> g.payable]]
    /\ UNCHANGED <<account, usage, paid, crossed, config>>

----------------------------------------------------------------------------
\* Mutated Confirm: an already confirmed statement is booked again.
ConfirmAgain(p) ==
    /\ statement[p].status \in {"draft", "confirmed"}
    /\ statement' = [statement EXCEPT ![p].status = "confirmed"]
    /\ account' = ConfirmCredit(account, statement[p].payable)
    /\ account.billed < 20
    /\ UNCHANGED <<usage, paid, generating, crossed, config>>

\* ConfirmTenantBillingStatement.
Confirm(p) ==
    /\ statement[p].status = "draft"
    /\ statement' = [statement EXCEPT ![p].status = "confirmed"]
    /\ account' = ConfirmCredit(account, statement[p].payable)
    /\ UNCHANGED <<usage, paid, generating, crossed, config>>

Remaining(p) == statement[p].payable - paid[p]

\* Mutated MayPay: the amount is compared with the whole payable sum.
MayPayTwice(p, amount) == amount > 0 /\ amount <= statement[p].payable

\* The early returns of RegisterTenantPaymentAndInvoice.
MayPay(p, amount) == amount > 0 /\ amount <= Remaining(p)

StatusAfterPayment(p, amount) ==
    IF paid[p] + amount >= statement[p].payable THEN "paid"
    ELSE IF statement[p].status = "overdue" THEN "overdue" ELSE "invoiced"

RegisterPayment(p, amount) ==
    /\ statement[p].status \in {"confirmed", "invoiced", "overdue"}
    /\ MayPay(p, amount)
    /\ paid' = [paid EXCEPT ![p] = @ + amount]
    /\ statement' = [statement EXCEPT ![p].status = StatusAfterPayment(p, amount)]
    /\ account' = PayCredit(account, amount)
    /\ crossed' = (crossed \/ (account.billed > 0 /\ account.overdue > 0))
    /\ UNCHANGED <<usage, generating, config>>

\* Mutated MarkOverdue: a partly paid statement is moved with its whole sum.
MarkOverdueWhole(p) ==
    /\ statement[p].status \in {"confirmed", "invoiced"}
    /\ statement' = [statement EXCEPT ![p].status = IF Remaining(p) <= 0 THEN "paid" ELSE "overdue"]
    /\ account' = IF Remaining(p) <= 0 THEN account ELSE OverdueCredit(account, statement[p].payable)
    /\ UNCHANGED <<usage, paid, generating, crossed, config>>

\* MarkOverdueTenantStatements, for one listed statement: what the list said is
\* read again under the lock.  That the due date has passed is left open.
MarkOverdue(p) ==
    /\ statement[p].status \in {"confirmed", "invoiced"}
    /\ statement' = [statement EXCEPT ![p].status = IF Remaining(p) <= 0 THEN "paid" ELSE "overdue"]
    /\ account' = IF Remaining(p) <= 0 THEN account ELSE OverdueCredit(account, Remaining(p))
    /\ UNCHANGED <<usage, paid, generating, crossed, config>>

----------------------------------------------------------------------------
\* SetTenantBillingConfig reads the account; a read that fails counts as an
\* account without amounts ...
ReadAccount(limit) ==
    /\ ~config.writing
    /\ config.calls < MaxConfigs
    /\ \E row \in {ConfiguredAccount(account, limit), NewAccount(limit)} :
          config' = [config EXCEPT !.writing = TRUE, !.row = row, !.calls = @ + 1]
    /\ UNCHANGED <<account, usage, statement, paid, generating, crossed>>

\* ... and writes all of it back, whatever was booked since.
UpsertCreditAccount ==
    /\ config.writing
    /\ account' = config.row
    /\ config' = [config EXCEPT !.writing = FALSE, !.row = NewAccount(0),
                                !.spoiled = @ \/ ~SameAmounts(config.row, account)]
    /\ UNCHANGED <<usage, statement, paid, generating, crossed>>

----------------------------------------------------------------------------
Next ==
    \/ \E p \in Periods, quota \in Quotas : RecordUsage(p, quota)
    \/ \E o \in Operators, p \in Periods, adjustment \in Adjustments : SumLedger(o, p, adjustment)
    \/ \E o \in Operators : WriteDraft(o)
    \/ \E p \in Periods : Confirm(p)
    \/ \E p \in Periods, amount \in 1..MaxUsage + 1 : RegisterPayment(p, amount)
    \/ \E p \in Periods : MarkOverdue(p)
    \/ \E limit \in NewLimits : ReadAccount(limit)
    \/ UpsertCreditAccount

Spec == Init /\ [][Next]_vars

----------------------------------------------------------------------------
PaidSoundly(p) ==
    /\ paid[p] <= statement[p].payable
    /\ statement[p].status = "paid" => paid[p] = statement[p].payable
    /\ statement[p].status \in {"none", "draft", "confirmed"} => paid[p] = 0
    /\ statement[p].status \in {"invoiced", "overdue"} => Remaining(p) > 0

(* A statement is never paid beyond what is payable, counts as paid only   *)
(* when everything was received, and has no payments before it is          *)
(* confirmed, whatever operators regenerate meanwhile.                     *)
PaymentsSound == \A p \in Periods : PaidSoundly(p)

(* TypeOK and PaymentsSound hold of one another's steps: a draft may be    *)
(* overwritten only because nothing was paid on it, and the amounts a      *)
(* payment or an overdue run takes off the account are never negative.     *)
StatementInv == TypeOK /\ PaymentsSound

(* What has been confirmed is final: neither a generation started before   *)
(* the confirmation nor a later one changes it or reopens it.              *)
ConfirmedIsFinal ==
    [][\A p \in Periods : statement[p].status \notin {"none", "draft"} =>
            /\ statement'[p].payable = statement[p].payable
            /\ statement'[p].amount = statement[p].amount
            /\ statement'[p].status \notin {"none", "draft"}]_vars

\* What the statements in one of the statuses still lack, and all that is unpaid.
Outstanding(statuses) ==
    Total([p \in Periods |-> IF statement[p].status \in statuses THEN Remaining(p) ELSE 0], Periods)
Unpaid == Total([p \in Periods |-> usage[p] - paid[p]], Periods)

(* The account's billed and overdue amounts are what the open statements   *)
(* still lack, so a payment frees exactly the credit it pays for, until a  *)
(* payment is booked while the tenant owes both billed and overdue sums:   *)
(* RegisterTenantPaymentAndInvoice takes it off both.  Even after that the *)
(* account never shows more owed than the open statements lack.  Changing  *)
(* the configuration keeps all of this unless it writes back amounts that  *)
(* were booked otherwise meanwhile; then what was paid may be owed again.  *)
AccountMatchesStatements ==
    LET billed == Outstanding({"confirmed", "invoiced"})
        overdue == Outstanding({"overdue"})
    IN  ~config.spoiled =>
            /\ account.billed <= billed /\ account.overdue <= overdue
            /\ ~crossed => account.billed = billed /\ account.overdue = overdue

(* Unless a statement carries a surcharge, and until a payment crosses or  *)
(* a stale configuration is written back, the tenant owes exactly the      *)
(* usage recorded for it less what it paid, however late usage arrives.    *)
DebtIsUsage ==
    /\ ~crossed /\ ~config.spoiled
    /\ \A p \in Periods : statement[p].payable <= statement[p].amount
    => Debt(account) = Unpaid
============================================================================
