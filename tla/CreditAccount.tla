--------------------------- MODULE CreditAccount ---------------------------
(***************************************************************************)
(* The row of a tenant's credit account (model/tenant.go) and what each    *)
(* transaction of service/tenant.go does to it.  Every one of them reads   *)
(* the row FOR UPDATE, changes amounts, recalculates and writes it back.   *)
(***************************************************************************)
EXTENDS Integers

Amounts == {"limit", "reserved", "unbilled", "billed", "overdue", "available"}

Least(a, b) == IF a < b THEN a ELSE b
NonNegative(a) == IF a < 0 THEN 0 ELSE a

Debt(a) == a.unbilled + a.billed + a.overdue

Recalculate(a) == [a EXCEPT !.available = a.limit - a.reserved - Debt(a)]

NewAccount(limit) ==
    [limit |-> limit, reserved |-> 0, unbilled |-> 0, billed |-> 0, overdue |-> 0,
     available |-> limit]

\* SetTenantBillingConfig copies every amount and sets the limit.
ConfiguredAccount(a, limit) == Recalculate([a EXCEPT !.limit = limit])
SameAmounts(a, b) == \A f \in {"reserved", "unbilled", "billed", "overdue"} : a[f] = b[f]

----------------------------------------------------------------------------
\* Mutated MayReserve: the quota is held against the limit, not what is left of it.
MayReserveLimit(a, quota, policy) == policy = "block" => quota <= a.limit

\* ReserveTenantCredit.  Only the "block" policy looks at the available credit.
MayReserve(a, quota, policy) == policy = "block" => quota <= Recalculate(a).available
ReserveCredit(a, quota) == Recalculate([a EXCEPT !.reserved = @ + quota])

\* Mutated ReleaseCredit: more may be released than is reserved.
ReleaseCreditUnclamped(a, quota) == Recalculate([a EXCEPT !.reserved = @ - quota])

\* ReleaseTenantCredit.
ReleaseCredit(a, quota) == Recalculate([a EXCEPT !.reserved = @ - Least(@, quota)])

\* Mutated ApplyLedgerCredit: the reservation is not consumed.
ApplyLedgerCreditOnTop(a, quota) == Recalculate([a EXCEPT !.unbilled = @ + quota])

\* applyTenantLedgerCreditTx: the usage takes the place of reserved credit.
ApplyLedgerCredit(a, quota) ==
    Recalculate([a EXCEPT !.reserved = @ - Least(@, quota), !.unbilled = @ + quota])

----------------------------------------------------------------------------
\* ConfirmTenantBillingStatement.
ConfirmCredit(a, payable) ==
    Recalculate([a EXCEPT !.unbilled = NonNegative(@ - payable), !.billed = @ + payable])

\* RegisterTenantPaymentAndInvoice: both amounts are reduced, whichever of
\* them the statement that is paid was booked in.
PayCredit(a, amount) ==
    Recalculate([a EXCEPT !.billed = NonNegative(@ - amount),
                          !.overdue = NonNegative(@ - amount)])

\* MarkOverdueTenantStatements.
OverdueCredit(a, remaining) ==
    Recalculate([a EXCEPT !.billed = NonNegative(@ - remaining), !.overdue = @ + remaining])
============================================================================
