----------------------- MODULE BillingStatement_proofs -----------------------
(***************************************************************************)
(* Proofs about BillingStatement for any number of periods and concurrent  *)
(* operators, any amounts and any adjustments.                             *)
(***************************************************************************)
EXTENDS BillingStatement, TotalTheorems, TLAPS

USE StatementAssumption

(* The types of the rows: what each transaction writes back.               *)
Account == [Amounts -> Int]
Statement == [status : Status, amount : Nat, payable : Nat]
Generation == [period : Periods \cup {NoPeriod}, amount : Nat, payable : Nat]
Configuration == [writing : BOOLEAN, row : [Amounts -> Int], spoiled : BOOLEAN, calls : Nat]

(* NewAccount, Recalculate and the transactions built on it keep the       *)
(* columns of the account integers.                                        *)
LEMMA AccountType ==
    ASSUME NEW a \in Account, NEW q \in Int
    PROVE  /\ ApplyLedgerCredit(a, q) \in Account
           /\ ConfirmCredit(a, q) \in Account
           /\ PayCredit(a, q) \in Account
           /\ OverdueCredit(a, q) \in Account
  <1>1. ASSUME NEW b \in Account PROVE Recalculate(b) \in Account
    BY DEF Recalculate, Debt, Account, Amounts
  <1>2. ASSUME NEW f \in Amounts, NEW g \in Amounts, NEW x \in Int, NEW y \in Int
        PROVE  [a EXCEPT ![f] = x, ![g] = y] \in Account
    BY DEF Account
  <1>3. /\ "reserved" \in Amounts /\ "unbilled" \in Amounts
        /\ "billed" \in Amounts /\ "overdue" \in Amounts
    BY DEF Amounts
  <1>4. /\ a.reserved - Least(a.reserved, q) \in Int
        /\ a.unbilled + q \in Int /\ NonNegative(a.unbilled - q) \in Int
        /\ a.billed + q \in Int /\ NonNegative(a.billed - q) \in Int
        /\ a.overdue + q \in Int /\ NonNegative(a.overdue - q) \in Int
    BY <1>3 DEF Account, Least, NonNegative
  <1>5. [a EXCEPT !.reserved = @ - Least(@, q), !.unbilled = @ + q] \in Account
    BY <1>2, <1>3, <1>4
  <1>6. [a EXCEPT !.unbilled = NonNegative(@ - q), !.billed = @ + q] \in Account
    BY <1>2, <1>3, <1>4
  <1>7. [a EXCEPT !.billed = NonNegative(@ - q), !.overdue = NonNegative(@ - q)] \in Account
    BY <1>2, <1>3, <1>4
  <1>8. [a EXCEPT !.billed = NonNegative(@ - q), !.overdue = @ + q] \in Account
    BY <1>2, <1>3, <1>4
  <1> QED
    BY <1>1, <1>5, <1>6, <1>7, <1>8
       DEF ApplyLedgerCredit, ConfirmCredit, PayCredit, OverdueCredit

(* SetTenantBillingConfig holds an account row between read and write.     *)
LEMMA ConfiguredType ==
    ASSUME NEW a \in Account, NEW limit \in Nat
    PROVE  ConfiguredAccount(a, limit) \in Account /\ NewAccount(limit) \in Account
  <1>1. [a EXCEPT !.limit = limit] \in Account
    BY DEF Account
  <1>2. ASSUME NEW b \in Account PROVE Recalculate(b) \in Account
    BY DEF Recalculate, Debt, Account, Amounts
  <1>3. NewAccount(limit) \in Account
    BY DEF NewAccount, Account, Amounts
  <1> QED
    BY <1>1, <1>2, <1>3 DEF ConfiguredAccount

----------------------------------------------------------------------------
(* StatementInv holds before anything is generated ...                               *)
LEMMA StatementInvInit == Init => StatementInv
  <1> SUFFICES ASSUME Init PROVE StatementInv
    OBVIOUS
  <1>1. NewAccount(Limit) \in Account
    BY DEF NewAccount, Account, Amounts
  <1>2. crossed \in BOOLEAN
    BY DEF Init
  <1>3. config \in Configuration
    BY DEF Init, NoConfig, NewAccount, Configuration, Amounts
  <1> QED
    BY <1>1, <1>2, <1>3 DEF Configuration, Init, StatementInv, TypeOK, PaymentsSound, PaidSoundly, NoStatement, Idle, Status, Account

(* One statement row written and its payments, the others left alone.      *)
LEMMA OneStatementWritten ==
    ASSUME StatementInv, NEW p \in Periods,
           statement'[p] \in Statement, paid'[p] \in Nat, PaidSoundly(p)',
           statement' = [statement EXCEPT ![p] = statement'[p]],
           paid' = [paid EXCEPT ![p] = paid'[p]]
    PROVE  /\ statement' \in [Periods -> Statement]
           /\ paid' \in [Periods -> Nat]
           /\ PaymentsSound'
  <1>1. statement \in [Periods -> Statement] /\ paid \in [Periods -> Nat]
    BY DEF StatementInv, TypeOK, Statement
  <1>2. statement' \in [Periods -> Statement] /\ paid' \in [Periods -> Nat]
    BY <1>1
  <1>3. ASSUME NEW q \in Periods, q # p
        PROVE  PaidSoundly(q)'
    <2>1. statement'[q] = statement[q] /\ paid'[q] = paid[q]
      BY <1>1, <1>3
    <2> QED
      BY <2>1 DEF StatementInv, PaymentsSound, PaidSoundly, Remaining
  <1>4. PaymentsSound'
    BY <1>3 DEF PaymentsSound
  <1> QED
    BY <1>2, <1>4

(* ... and is kept by every transaction.                                   *)
LEMMA StatementInvStep == StatementInv /\ [Next]_vars => StatementInv'
  <1> SUFFICES ASSUME StatementInv, [Next]_vars PROVE StatementInv'
    OBVIOUS
  <1> USE DEF Statement, Generation, Account
  <1>0. /\ account \in Account /\ usage \in [Periods -> Nat]
        /\ statement \in [Periods -> Statement] /\ paid \in [Periods -> Nat]
        /\ generating \in [Operators -> Generation]
        /\ config \in Configuration
    BY DEF StatementInv, TypeOK, Configuration
  <1>1. ASSUME NEW p \in Periods, NEW quota \in Quotas, RecordUsage(p, quota)
        PROVE  StatementInv'
    <2>1. account' \in Account /\ usage' \in [Periods -> Nat]
      BY <1>0, <1>1, AccountType DEF RecordUsage
    <2> QED
      BY <1>1, <2>1 DEF RecordUsage, StatementInv, TypeOK, PaymentsSound, PaidSoundly, Remaining
  <1>2. ASSUME NEW o \in Operators, NEW p \in Periods, NEW adjustment \in Adjustments,
               SumLedger(o, p, adjustment)
        PROVE  StatementInv'
    <2>1. usage[p] \in Nat /\ NonNegative(usage[p] + adjustment) \in Nat
      BY <1>0 DEF NonNegative
    <2>2. generating' \in [Operators -> Generation]
      BY <1>0, <1>2, <2>1 DEF SumLedger
    <2> QED
      BY <1>2, <2>2 DEF SumLedger, StatementInv, TypeOK, PaymentsSound, PaidSoundly, Remaining
  <1>3. ASSUME NEW o \in Operators, WriteDraft(o)
        PROVE  StatementInv'
    <2>1. generating[o] \in Generation /\ generating[o].period \in Periods
      BY <1>0, <1>3 DEF WriteDraft
    <2> PICK p \in Periods : p = generating[o].period
      BY <2>1
    <2> DEFINE row == [status |-> "draft", amount |-> generating[o].amount,
                       payable |-> generating[o].payable]
    <2>2. generating' \in [Operators -> Generation]
      BY <1>0, <1>3 DEF WriteDraft, Idle
    <2>3. CASE RegenerationLocked(statement[p].status)
      BY <1>3, <2>2, <2>3 DEF WriteDraft, StatementInv, TypeOK, PaymentsSound, PaidSoundly, Remaining
    <2>4. CASE ~RegenerationLocked(statement[p].status)
      <3>1. statement[p].status \in {"none", "draft"}
        BY <1>0, <2>4 DEF RegenerationLocked, Status
      <3>2. paid[p] = 0
        BY <3>1 DEF StatementInv, PaymentsSound, PaidSoundly
      <3>3. statement' = [statement EXCEPT ![p] = row] /\ paid' = paid
        BY <1>3, <2>4 DEF WriteDraft
      <3>4. statement'[p] = row /\ paid'[p] = 0
        BY <1>0, <3>2, <3>3
      <3>5. row \in Statement /\ PaidSoundly(p)'
        BY <2>1, <3>4 DEF Status, PaidSoundly, Remaining
      <3>6. statement' \in [Periods -> Statement] /\ paid' \in [Periods -> Nat] /\ PaymentsSound'
        BY <1>0, <3>3, <3>4, <3>5, OneStatementWritten
      <3> QED
        BY <1>3, <2>2, <3>6 DEF WriteDraft, StatementInv, TypeOK
    <2> QED
      BY <2>3, <2>4
  <1>4. ASSUME NEW p \in Periods, Confirm(p)
        PROVE  StatementInv'
    <2> DEFINE row == [statement[p] EXCEPT !.status = "confirmed"]
    <2>1. statement' = [statement EXCEPT ![p] = row] /\ paid' = paid
      BY <1>4 DEF Confirm
    <2>2. statement'[p] = row /\ paid'[p] = 0
      BY <1>0, <1>4, <2>1 DEF Confirm, StatementInv, PaymentsSound, PaidSoundly
    <2>3. row \in Statement /\ PaidSoundly(p)'
      BY <1>0, <2>2 DEF Status, PaidSoundly, Remaining
    <2>4. statement' \in [Periods -> Statement] /\ paid' \in [Periods -> Nat] /\ PaymentsSound'
      BY <1>0, <2>1, <2>2, <2>3, OneStatementWritten
    <2>5. account' \in Account
      BY <1>0, <1>4, AccountType DEF Confirm
    <2> QED
      BY <1>4, <2>4, <2>5 DEF Confirm, StatementInv, TypeOK
  <1>5. ASSUME NEW p \in Periods, NEW amount \in 1..MaxUsage + 1, RegisterPayment(p, amount)
        PROVE  StatementInv'
    <2> DEFINE row == [statement[p] EXCEPT !.status = StatusAfterPayment(p, amount)]
               sum == paid[p] + amount
    <2>1. /\ statement[p].payable \in Nat /\ paid[p] \in Nat
          /\ StatusAfterPayment(p, amount) \in {"paid", "overdue", "invoiced"}
      BY <1>0 DEF StatusAfterPayment
    <2>2. statement' = [statement EXCEPT ![p] = row] /\ paid' = [paid EXCEPT ![p] = sum]
      BY <1>5 DEF RegisterPayment
    <2>3. statement'[p] = row /\ paid'[p] = sum
      BY <1>0, <2>2
    <2>4. sum \in Nat /\ sum <= statement[p].payable
      BY <1>5, <2>1 DEF RegisterPayment, MayPay, Remaining
    <2>5. row \in Statement /\ PaidSoundly(p)'
      <3>1. /\ row \in Statement
            /\ row.status = StatusAfterPayment(p, amount)
            /\ row.payable = statement[p].payable
        BY <1>0, <2>1 DEF Status
      <3>2. StatusAfterPayment(p, amount) = "paid" <=> sum >= statement[p].payable
        BY <2>1 DEF StatusAfterPayment
      <3> HIDE DEF row, sum
      <3> QED
        BY <2>1, <2>3, <2>4, <3>1, <3>2 DEF PaidSoundly, Remaining
    <2>6. statement' \in [Periods -> Statement] /\ paid' \in [Periods -> Nat] /\ PaymentsSound'
      BY <1>0, <2>2, <2>3, <2>4, <2>5, OneStatementWritten
    <2>7. account' \in Account
      BY <1>0, <1>5, AccountType DEF RegisterPayment
    <2> QED
      BY <1>5, <2>6, <2>7 DEF RegisterPayment, StatementInv, TypeOK
  <1>6. ASSUME NEW p \in Periods, MarkOverdue(p)
        PROVE  StatementInv'
    <2> DEFINE status == IF Remaining(p) <= 0 THEN "paid" ELSE "overdue"
               row == [statement[p] EXCEPT !.status = status]
    <2>1. statement' = [statement EXCEPT ![p] = row] /\ paid' = paid
      BY <1>6 DEF MarkOverdue
    <2>2. /\ statement[p].payable \in Nat /\ paid[p] \in Nat
          /\ paid[p] <= statement[p].payable
      BY <1>0 DEF StatementInv, PaymentsSound, PaidSoundly
    <2>3. statement'[p] = row /\ paid'[p] = paid[p]
      BY <1>0, <2>1
    <2>4. row \in Statement /\ PaidSoundly(p)'
      <3>1. row \in Statement /\ row.status = status /\ row.payable = statement[p].payable
        BY <1>0 DEF Status
      <3>2. /\ status = "paid" => paid[p] = statement[p].payable
            /\ status = "overdue" => statement[p].payable - paid[p] > 0
            /\ status \in {"paid", "overdue"}
        BY <2>2 DEF Remaining
      <3> HIDE DEF row, status
      <3> QED
        BY <2>2, <2>3, <3>1, <3>2 DEF PaidSoundly, Remaining
    <2>5. statement' \in [Periods -> Statement] /\ paid' \in [Periods -> Nat] /\ PaymentsSound'
      BY <1>0, <2>1, <2>3, <2>4, OneStatementWritten
    <2>6. account' \in Account
      <3>1. Remaining(p) \in Int
        BY <2>2 DEF Remaining
      <3> QED BY <1>0, <1>6, <3>1, AccountType DEF MarkOverdue
    <2> QED
      BY <1>6, <2>5, <2>6 DEF MarkOverdue, StatementInv, TypeOK
  <1>7. ASSUME NEW limit \in NewLimits, ReadAccount(limit)
        PROVE  StatementInv'
    <2>1. ConfiguredAccount(account, limit) \in Account /\ NewAccount(limit) \in Account
      BY <1>0, ConfiguredType
    <2>2. PICK row \in Account :
              config' = [config EXCEPT !.writing = TRUE, !.row = row, !.calls = @ + 1]
      BY <1>7, <2>1 DEF ReadAccount
    <2>3. config' \in Configuration
      <3>1. config.calls \in Nat /\ config.spoiled \in BOOLEAN
        BY <1>0 DEF Configuration
      <3>2. config.calls + 1 \in Nat
        BY <3>1
      <3>3. config' = [writing |-> TRUE, row |-> row, spoiled |-> config.spoiled,
                       calls |-> config.calls + 1]
        BY <1>0, <2>2 DEF Configuration
      <3> QED
        BY <3>1, <3>2, <3>3 DEF Configuration
    <2> QED
      BY <1>7, <2>3
         DEF ReadAccount, StatementInv, TypeOK, Configuration, PaymentsSound, PaidSoundly, Remaining
  <1>8. ASSUME UpsertCreditAccount
        PROVE  StatementInv'
    <2>1. account' \in Account
      BY <1>0, <1>8 DEF UpsertCreditAccount, Configuration
    <2>2. NewAccount(0) \in Account
      BY <1>0, 0 \in Nat, ConfiguredType
    <2> DEFINE b == config.spoiled \/ ~SameAmounts(config.row, account)
    <2>3. b \in BOOLEAN /\ config' = [config EXCEPT !.writing = FALSE, !.row = NewAccount(0), !.spoiled = b]
      BY <1>8 DEF UpsertCreditAccount
    <2> HIDE DEF b
    <2>4. config' \in Configuration
      BY <1>0, <2>2, <2>3 DEF Configuration
    <2> QED
      BY <1>8, <2>1, <2>4
         DEF UpsertCreditAccount, StatementInv, TypeOK, Configuration, PaymentsSound, PaidSoundly,
             Remaining
  <1>9. CASE UNCHANGED vars
    BY <1>9 DEF vars, StatementInv, TypeOK, PaymentsSound, PaidSoundly, Remaining
  <1> QED
    BY <1>1, <1>2, <1>3, <1>4, <1>5, <1>6, <1>7, <1>8, <1>9 DEF Next

----------------------------------------------------------------------------
(* StatementInv is an invariant of the statements' life cycle.             *)
THEOREM StatementInvariant == Spec => []StatementInv
  BY StatementInvInit, StatementInvStep, PTL DEF Spec

(* GenerateTenantBillingStatement, RegisterTenantPaymentAndInvoice and the *)
(* overdue sweep keep payments sound: no statement is paid beyond its      *)
(* payable sum or regenerated under its payments.                          *)
THEOREM PaymentsAlwaysSound == Spec => []PaymentsSound
  <1>1. StatementInv => PaymentsSound
    BY DEF StatementInv
  <1> QED
    BY <1>1, StatementInvariant, PTL

(* A step leaves amount and payable of a confirmed statement alone and     *)
(* does not reopen it.                                                     *)
LEMMA ConfirmedKept ==
    ASSUME StatementInv, [Next]_vars, NEW p \in Periods,
           statement[p].status \notin {"none", "draft"}
    PROVE  /\ statement'[p].payable = statement[p].payable
           /\ statement'[p].amount = statement[p].amount
           /\ statement'[p].status \notin {"none", "draft"}
  <1>0. statement \in [Periods -> Statement]
    BY DEF StatementInv, TypeOK, Statement
  <1>1. ASSUME NEW o \in Operators, WriteDraft(o) PROVE statement'[p] = statement[p]
    <2>1. RegenerationLocked(statement[p].status)
      BY <1>0 DEF RegenerationLocked, Statement, Status
    <2> QED
      BY <1>0, <1>1, <2>1 DEF WriteDraft
  <1>2. ASSUME NEW q \in Periods, NEW status, status \notin {"none", "draft"},
               statement' = [statement EXCEPT ![q].status = status]
        PROVE  /\ statement'[p].payable = statement[p].payable
               /\ statement'[p].amount = statement[p].amount
               /\ statement'[p].status \notin {"none", "draft"}
    BY <1>0, <1>2 DEF Statement
  <1>3. ASSUME NEW q \in Periods, Confirm(q)
        PROVE  statement' = [statement EXCEPT ![q].status = "confirmed"]
    BY <1>3 DEF Confirm
  <1>4. ASSUME NEW q \in Periods, NEW amount \in 1..MaxUsage + 1, RegisterPayment(q, amount)
        PROVE  \E status \in {"paid", "overdue", "invoiced"} :
                  statement' = [statement EXCEPT ![q].status = status]
    BY <1>4 DEF RegisterPayment, StatusAfterPayment
  <1>5. ASSUME NEW q \in Periods, MarkOverdue(q)
        PROVE  \E status \in {"paid", "overdue"} :
                  statement' = [statement EXCEPT ![q].status = status]
    BY <1>5 DEF MarkOverdue
  <1>6. CASE UNCHANGED statement
    BY <1>6
  <1>7. ASSUME NEW q \in Periods,
               \E status \in {"confirmed", "paid", "overdue", "invoiced"} :
                  statement' = [statement EXCEPT ![q].status = status]
        PROVE  /\ statement'[p].payable = statement[p].payable
               /\ statement'[p].amount = statement[p].amount
               /\ statement'[p].status \notin {"none", "draft"}
    BY <1>2, <1>7
  <1> QED
    BY <1>1, <1>3, <1>4, <1>5, <1>6, <1>7 DEF Next, vars, RecordUsage, SumLedger, ReadAccount, UpsertCreditAccount

(* A confirmed statement keeps its amount and payable sum for good, though *)
(* a generation may have read the ledger before the confirmation and write *)
(* after it.                                                               *)
THEOREM ConfirmedStaysFinal == Spec => ConfirmedIsFinal
  <1>1. StatementInv /\ [Next]_vars =>
           [\A p \in Periods : statement[p].status \notin {"none", "draft"} =>
               /\ statement'[p].payable = statement[p].payable
               /\ statement'[p].amount = statement[p].amount
               /\ statement'[p].status \notin {"none", "draft"}]_vars
    BY ConfirmedKept
  <1> QED
    BY <1>1, StatementInvariant, PTL DEF Spec, ConfirmedIsFinal

----------------------------------------------------------------------------
(* The inductive invariant of the sums.                                    *)
(***************************************************************************)
\* What one period contributes to the billed, the overdue and the unbilled
\* amount of the account.
BilledShare(p) == IF statement[p].status \in {"confirmed", "invoiced"} THEN Remaining(p) ELSE 0
OverdueShare(p) == IF statement[p].status \in {"overdue"} THEN Remaining(p) ELSE 0
Locked(p) == RegenerationLocked(statement[p].status)
UnbilledShare(p) == usage[p] - (IF Locked(p) THEN statement[p].payable ELSE 0)

OpenBilled == Total([p \in Periods |-> BilledShare(p)], Periods)
OpenOverdue == Total([p \in Periods |-> OverdueShare(p)], Periods)
OpenUnbilled == Total([p \in Periods |-> UnbilledShare(p)], Periods)

\* A statement, written or being generated, is for usage that was recorded.
AmountsRecorded ==
    /\ \A p \in Periods : statement[p].amount <= usage[p]
    /\ \A o \in Operators : generating[o].period \in Periods =>
            generating[o].amount <= usage[generating[o].period]

BookedSound ==
    /\ account.billed \in Nat /\ account.overdue \in Nat
    /\ account.billed <= OpenBilled /\ account.overdue <= OpenOverdue
    /\ ~crossed => account.billed = OpenBilled /\ account.overdue = OpenOverdue

\* A confirmed statement is final, so a surcharge on one stays.
NoSurcharge == \A p \in Periods : Locked(p) => statement[p].payable <= statement[p].amount

SumsSound ==
    /\ AmountsRecorded
    /\ BookedSound
    /\ NoSurcharge => account.unbilled = OpenUnbilled

SumsInv == StatementInv /\ SumsSound

\* The types of a period's fields and of its shares of the sums.
PeriodsTyped ==
    \A q \in Periods :
        /\ usage[q] \in Nat /\ paid[q] \in Nat /\ statement[q].payable \in Nat
        /\ statement[q].amount \in Nat /\ statement[q].status \in Status
        /\ Remaining(q) \in Nat
        /\ BilledShare(q) \in Nat /\ OverdueShare(q) \in Nat /\ UnbilledShare(q) \in Int

(* A period's fields and its shares of the sums are integers, and no more  *)
(* was paid than is payable.                                               *)
LEMMA PeriodFields == StatementInv => PeriodsTyped
  <1> SUFFICES ASSUME StatementInv, NEW p \in Periods
               PROVE  /\ usage[p] \in Nat /\ paid[p] \in Nat /\ statement[p].payable \in Nat
                      /\ statement[p].amount \in Nat /\ statement[p].status \in Status
                      /\ Remaining(p) \in Nat
                      /\ BilledShare(p) \in Nat /\ OverdueShare(p) \in Nat
                      /\ UnbilledShare(p) \in Int
    BY DEF PeriodsTyped
  <1>1. /\ usage[p] \in Nat /\ paid[p] \in Nat /\ statement[p].payable \in Nat
        /\ statement[p].amount \in Nat /\ statement[p].status \in Status
    BY DEF StatementInv, TypeOK
  <1>2. Remaining(p) \in Nat
    BY <1>1 DEF StatementInv, PaymentsSound, PaidSoundly, Remaining
  <1>3. BilledShare(p) \in Nat /\ OverdueShare(p) \in Nat /\ UnbilledShare(p) \in Int
    BY <1>1, <1>2 DEF BilledShare, OverdueShare, UnbilledShare
  <1> QED
    BY <1>1, <1>2, <1>3

(* The sums are integers, and a period's share is at most the sum.         *)
LEMMA OpenTotals ==
    StatementInv =>
        /\ OpenBilled \in Nat /\ OpenOverdue \in Nat /\ OpenUnbilled \in Int
        /\ \A q \in Periods : BilledShare(q) <= OpenBilled /\ OverdueShare(q) <= OpenOverdue
  <1> SUFFICES ASSUME StatementInv
               PROVE  /\ OpenBilled \in Nat /\ OpenOverdue \in Nat /\ OpenUnbilled \in Int
                      /\ \A p \in Periods : /\ BilledShare(p) <= OpenBilled
                                            /\ OverdueShare(p) <= OpenOverdue
    OBVIOUS
  <1> DEFINE billed == [p \in Periods |-> BilledShare(p)]
             overdue == [p \in Periods |-> OverdueShare(p)]
             unbilled == [p \in Periods |-> UnbilledShare(p)]
  <1>1. \A p \in Periods : billed[p] \in Nat /\ overdue[p] \in Nat /\ unbilled[p] \in Int
    BY PeriodFields DEF PeriodsTyped
  <1>2. \A p \in Periods : billed[p] = BilledShare(p) /\ overdue[p] = OverdueShare(p)
    OBVIOUS
  <1>3. /\ OpenBilled = Total(billed, Periods) /\ OpenOverdue = Total(overdue, Periods)
        /\ OpenUnbilled = Total(unbilled, Periods)
    BY DEF OpenBilled, OpenOverdue, OpenUnbilled
  <1> HIDE DEF billed, overdue, unbilled
  <1>4. Total(billed, Periods) \in Nat /\ Total(overdue, Periods) \in Nat
    BY <1>1, TotalNat
  <1>5. Total(unbilled, Periods) \in Int
    BY <1>1, TotalType
  <1>6. ASSUME NEW p \in Periods
        PROVE  billed[p] <= Total(billed, Periods) /\ overdue[p] <= Total(overdue, Periods)
    BY <1>1, TotalAtLeast
  <1> QED
    BY <1>2, <1>3, <1>4, <1>5, <1>6

(* The step leaves every period but p alone.                               *)
Beside(p) ==
    \A q \in Periods \ {p} :
        usage'[q] = usage[q] /\ statement'[q] = statement[q] /\ paid'[q] = paid[q]

(* A step on one period changes each sum by that period's share.           *)
LEMMA OnePeriod ==
    ASSUME StatementInv, StatementInv', NEW p \in Periods, Beside(p)
    PROVE  /\ OpenBilled' = OpenBilled + BilledShare(p)' - BilledShare(p)
           /\ OpenOverdue' = OpenOverdue + OverdueShare(p)' - OverdueShare(p)
           /\ OpenUnbilled' = OpenUnbilled + UnbilledShare(p)' - UnbilledShare(p)
  <1>1. \A q \in Periods : /\ BilledShare(q) \in Int /\ OverdueShare(q) \in Int
                           /\ UnbilledShare(q) \in Int
    BY PeriodFields DEF PeriodsTyped
  <1>2. PeriodsTyped'
    BY PeriodFields, PTL
  <1>3. BilledShare(p)' \in Int /\ OverdueShare(p)' \in Int /\ UnbilledShare(p)' \in Int
    BY <1>2 DEF PeriodsTyped
  <1>4. ASSUME NEW q \in Periods \ {p}
        PROVE  /\ BilledShare(q)' = BilledShare(q) /\ OverdueShare(q)' = OverdueShare(q)
               /\ UnbilledShare(q)' = UnbilledShare(q)
    BY DEF Beside, BilledShare, OverdueShare, UnbilledShare, Locked, Remaining
  <1>5. OpenBilled' = OpenBilled + BilledShare(p)' - BilledShare(p)
    <2> DEFINE f == [q \in Periods |-> BilledShare(q)]
               g == [q \in Periods |-> BilledShare(q)']
    <2>1. /\ \A y \in Periods : f[y] \in Int
          /\ g[p] \in Int
          /\ \A y \in Periods \ {p} : g[y] = f[y]
      BY <1>1, <1>3, <1>4
    <2>2. Total(g, Periods) = Total(f, Periods) + g[p] - f[p]
      <3> HIDE DEF f, g
      <3> QED BY <2>1, TotalChange
    <2> QED
      BY <2>2 DEF OpenBilled
  <1>6. OpenOverdue' = OpenOverdue + OverdueShare(p)' - OverdueShare(p)
    <2> DEFINE f == [q \in Periods |-> OverdueShare(q)]
               g == [q \in Periods |-> OverdueShare(q)']
    <2>1. /\ \A y \in Periods : f[y] \in Int
          /\ g[p] \in Int
          /\ \A y \in Periods \ {p} : g[y] = f[y]
      BY <1>1, <1>3, <1>4
    <2>2. Total(g, Periods) = Total(f, Periods) + g[p] - f[p]
      <3> HIDE DEF f, g
      <3> QED BY <2>1, TotalChange
    <2> QED
      BY <2>2 DEF OpenOverdue
  <1>7. OpenUnbilled' = OpenUnbilled + UnbilledShare(p)' - UnbilledShare(p)
    <2> DEFINE f == [q \in Periods |-> UnbilledShare(q)]
               g == [q \in Periods |-> UnbilledShare(q)']
    <2>1. /\ \A y \in Periods : f[y] \in Int
          /\ g[p] \in Int
          /\ \A y \in Periods \ {p} : g[y] = f[y]
      BY <1>1, <1>3, <1>4
    <2>2. Total(g, Periods) = Total(f, Periods) + g[p] - f[p]
      <3> HIDE DEF f, g
      <3> QED BY <2>1, TotalChange
    <2> QED
      BY <2>2 DEF OpenUnbilled
  <1> QED
    BY <1>5, <1>6, <1>7

(* What each transaction leaves of the three amounts.                      *)
LEMMA BookingColumns ==
    ASSUME NEW a \in Account, NEW q \in Int
    PROVE  /\ a.unbilled \in Int /\ a.billed \in Int /\ a.overdue \in Int
           /\ LET b == ApplyLedgerCredit(a, q) IN
              b.unbilled = a.unbilled + q /\ b.billed = a.billed /\ b.overdue = a.overdue
           /\ LET b == ConfirmCredit(a, q) IN
              /\ b.unbilled = NonNegative(a.unbilled - q) /\ b.billed = a.billed + q
              /\ b.overdue = a.overdue
           /\ LET b == PayCredit(a, q) IN
              /\ b.unbilled = a.unbilled /\ b.billed = NonNegative(a.billed - q)
              /\ b.overdue = NonNegative(a.overdue - q)
           /\ LET b == OverdueCredit(a, q) IN
              /\ b.unbilled = a.unbilled /\ b.billed = NonNegative(a.billed - q)
              /\ b.overdue = a.overdue + q
  <1>1. {"reserved", "unbilled", "billed", "overdue"} \subseteq Amounts
    BY DEF Amounts
  <1>2. ASSUME NEW b \in Account
        PROVE  /\ Recalculate(b).unbilled = b.unbilled /\ Recalculate(b).billed = b.billed
               /\ Recalculate(b).overdue = b.overdue
    BY <1>1 DEF Recalculate, Account
  <1>3. /\ a.unbilled \in Int /\ a.billed \in Int /\ a.overdue \in Int /\ a.reserved \in Int
        /\ a.reserved - Least(a.reserved, q) \in Int /\ a.unbilled + q \in Int
        /\ a.billed + q \in Int /\ a.overdue + q \in Int
        /\ NonNegative(a.unbilled - q) \in Int /\ NonNegative(a.billed - q) \in Int
        /\ NonNegative(a.overdue - q) \in Int
    BY <1>1 DEF Account, Least, NonNegative
  <1>4. LET b == ApplyLedgerCredit(a, q) IN
        b.unbilled = a.unbilled + q /\ b.billed = a.billed /\ b.overdue = a.overdue
    <2> DEFINE c == [a EXCEPT !.reserved = @ - Least(@, q), !.unbilled = @ + q]
    <2>1. /\ c \in Account /\ c.unbilled = a.unbilled + q /\ c.billed = a.billed
          /\ c.overdue = a.overdue
      BY <1>1, <1>3 DEF Account
    <2>2. ApplyLedgerCredit(a, q) = Recalculate(c)
      BY DEF ApplyLedgerCredit
    <2> HIDE DEF c
    <2> QED
      BY <1>2, <2>1, <2>2
  <1>5. LET b == ConfirmCredit(a, q) IN
        /\ b.unbilled = NonNegative(a.unbilled - q) /\ b.billed = a.billed + q
        /\ b.overdue = a.overdue
    <2> DEFINE c == [a EXCEPT !.unbilled = NonNegative(@ - q), !.billed = @ + q]
    <2>1. /\ c \in Account /\ c.unbilled = NonNegative(a.unbilled - q) /\ c.billed = a.billed + q
          /\ c.overdue = a.overdue
      BY <1>1, <1>3 DEF Account
    <2>2. ConfirmCredit(a, q) = Recalculate(c)
      BY DEF ConfirmCredit
    <2> HIDE DEF c
    <2> QED
      BY <1>2, <2>1, <2>2
  <1>6. LET b == PayCredit(a, q) IN
        /\ b.unbilled = a.unbilled /\ b.billed = NonNegative(a.billed - q)
        /\ b.overdue = NonNegative(a.overdue - q)
    <2> DEFINE c == [a EXCEPT !.billed = NonNegative(@ - q), !.overdue = NonNegative(@ - q)]
    <2>1. /\ c \in Account /\ c.unbilled = a.unbilled /\ c.billed = NonNegative(a.billed - q)
          /\ c.overdue = NonNegative(a.overdue - q)
      BY <1>1, <1>3 DEF Account
    <2>2. PayCredit(a, q) = Recalculate(c)
      BY DEF PayCredit
    <2> HIDE DEF c
    <2> QED
      BY <1>2, <2>1, <2>2
  <1>7. LET b == OverdueCredit(a, q) IN
        /\ b.unbilled = a.unbilled /\ b.billed = NonNegative(a.billed - q)
        /\ b.overdue = a.overdue + q
    <2> DEFINE c == [a EXCEPT !.billed = NonNegative(@ - q), !.overdue = @ + q]
    <2>1. /\ c \in Account /\ c.unbilled = a.unbilled /\ c.billed = NonNegative(a.billed - q)
          /\ c.overdue = a.overdue + q
      BY <1>1, <1>3 DEF Account
    <2>2. OverdueCredit(a, q) = Recalculate(c)
      BY DEF OverdueCredit
    <2> HIDE DEF c
    <2> QED
      BY <1>2, <2>1, <2>2
  <1> QED
    BY <1>3, <1>4, <1>5, <1>6, <1>7

----------------------------------------------------------------------------
(* SumsInv holds before anything is recorded.                              *)
LEMMA SumsInit == Init => SumsInv
  <1> SUFFICES ASSUME Init PROVE SumsInv
    OBVIOUS
  <1>1. StatementInv
    BY StatementInvInit
  <1>2. ASSUME NEW p \in Periods
        PROVE  BilledShare(p) = 0 /\ OverdueShare(p) = 0 /\ UnbilledShare(p) = 0
    BY DEF Init, NoStatement, BilledShare, OverdueShare, UnbilledShare, Locked, RegenerationLocked
  <1>3. OpenBilled = 0
    BY <1>2, TotalZero DEF OpenBilled
  <1>4. OpenOverdue = 0
    BY <1>2, TotalZero DEF OpenOverdue
  <1>5. OpenUnbilled = 0
    BY <1>2, TotalZero DEF OpenUnbilled
  <1>6. account.billed = 0 /\ account.overdue = 0 /\ account.unbilled = 0
    BY DEF Init, NewAccount
  <1>7. AmountsRecorded
    BY DEF Init, AmountsRecorded, NoStatement, Idle
  <1> QED
    BY <1>1, <1>3, <1>4, <1>5, <1>6, <1>7 DEF SumsInv, SumsSound, BookedSound

(* A step that changes no share of any period and books nothing.           *)
LEMMA SharesKept ==
    ASSUME SumsInv, StatementInv', NEW p \in Periods, Beside(p),
           UNCHANGED <<account, crossed>>, AmountsRecorded',
           BilledShare(p)' = BilledShare(p), OverdueShare(p)' = OverdueShare(p),
           UnbilledShare(p)' = UnbilledShare(p), NoSurcharge' => NoSurcharge
    PROVE  SumsInv'
  <1>1. StatementInv
    BY DEF SumsInv
  <1>2. /\ BilledShare(p) \in Int /\ OverdueShare(p) \in Int /\ UnbilledShare(p) \in Int
        /\ OpenBilled \in Int /\ OpenOverdue \in Int /\ OpenUnbilled \in Int
    BY <1>1, PeriodFields, OpenTotals DEF PeriodsTyped
  <1>3. OpenBilled' = OpenBilled /\ OpenOverdue' = OpenOverdue /\ OpenUnbilled' = OpenUnbilled
    BY <1>1, <1>2, OnePeriod
  <1> QED
    BY <1>3 DEF SumsInv, SumsSound, BookedSound

(* A statement without surcharge leaves a period's unbilled share          *)
(* non-negative, so that Confirm's clamp is never hit.                     *)
LEMMA UnbilledCovers ==
    ASSUME SumsInv, NoSurcharge, NEW p \in Periods
    PROVE  UnbilledShare(p) <= account.unbilled
  <1>1. StatementInv /\ AmountsRecorded
    BY DEF SumsInv, SumsSound
  <1> DEFINE f == [q \in Periods |-> UnbilledShare(q)]
  <1>2. \A q \in Periods : f[q] \in Nat
    <2> SUFFICES ASSUME NEW q \in Periods PROVE UnbilledShare(q) \in Nat
      OBVIOUS
    <2>1. /\ usage[q] \in Nat /\ statement[q].payable \in Nat /\ statement[q].amount \in Nat
          /\ statement[q].amount <= usage[q]
          /\ Locked(q) => statement[q].payable <= statement[q].amount
      BY <1>1, PeriodFields DEF PeriodsTyped, AmountsRecorded, NoSurcharge
    <2> QED
      BY <2>1 DEF UnbilledShare
  <1>3. f[p] = UnbilledShare(p) /\ account.unbilled = Total(f, Periods)
    BY DEF SumsInv, SumsSound, OpenUnbilled
  <1> HIDE DEF f
  <1>4. f[p] <= Total(f, Periods)
    BY <1>2, TotalAtLeast
  <1> QED
    BY <1>3, <1>4

(* SumsInv is inductive as long as no stale configuration is written.      *)
LEMMA SumsStep == SumsInv /\ [Next]_vars /\ ~config'.spoiled => SumsInv'
  <1> SUFFICES ASSUME SumsInv, [Next]_vars, ~config'.spoiled PROVE SumsInv'
    OBVIOUS
  <1>a. StatementInv /\ StatementInv' /\ AmountsRecorded /\ BookedSound
    BY StatementInvStep DEF SumsInv, SumsSound
  <1>b. /\ account \in Account /\ usage \in [Periods -> Nat]
        /\ statement \in [Periods -> Statement] /\ paid \in [Periods -> Nat]
        /\ generating \in [Operators -> Generation]
    BY <1>a DEF StatementInv, TypeOK, Account, Statement, Generation
  <1>c. ASSUME NEW p \in Periods
        PROVE  /\ usage[p] \in Nat /\ paid[p] \in Nat /\ statement[p].payable \in Nat
               /\ statement[p].amount \in Nat /\ statement[p].status \in Status
               /\ Remaining(p) \in Nat
               /\ BilledShare(p) \in Nat /\ OverdueShare(p) \in Nat /\ UnbilledShare(p) \in Int
               /\ PaidSoundly(p)
               /\ BilledShare(p) <= OpenBilled /\ OverdueShare(p) <= OpenOverdue
    BY <1>a, PeriodFields, OpenTotals DEF PeriodsTyped, StatementInv, PaymentsSound
  <1>d. /\ OpenBilled \in Nat /\ OpenOverdue \in Nat /\ OpenUnbilled \in Int
        /\ account.unbilled \in Int /\ account.billed \in Nat /\ account.overdue \in Nat
    BY <1>a, <1>b, OpenTotals, BookingColumns DEF BookedSound
  <1>e. ASSUME NEW p \in Periods, NEW status, statement' = [statement EXCEPT ![p].status = status],
               UNCHANGED <<usage, generating>>
        PROVE  /\ statement'[p].status = status /\ statement'[p].payable = statement[p].payable
               /\ statement'[p].amount = statement[p].amount
               /\ \A q \in Periods \ {p} : statement'[q] = statement[q]
               /\ AmountsRecorded'
    <2>1. /\ statement'[p].status = status /\ statement'[p].payable = statement[p].payable
          /\ statement'[p].amount = statement[p].amount
          /\ \A q \in Periods \ {p} : statement'[q] = statement[q]
      BY <1>b, <1>e DEF Statement
    <2>2. \A q \in Periods : statement'[q].amount = statement[q].amount
      BY <2>1
    <2> QED
      BY <1>a, <1>e, <2>1, <2>2 DEF AmountsRecorded
  <1>1. ASSUME NEW p \in Periods, NEW quota \in Quotas, RecordUsage(p, quota)
        PROVE  SumsInv'
    <2>1. /\ usage' = [usage EXCEPT ![p] = @ + quota] /\ quota \in Nat
          /\ account' = ApplyLedgerCredit(account, quota)
          /\ UNCHANGED <<statement, paid, generating, crossed>>
      BY <1>1 DEF RecordUsage
    <2>2. usage'[p] = usage[p] + quota /\ \A q \in Periods \ {p} : usage'[q] = usage[q]
      BY <1>b, <2>1
    <2>3. /\ account'.unbilled = account.unbilled + quota
          /\ account'.billed = account.billed /\ account'.overdue = account.overdue
      BY <1>b, <2>1, quota \in Int, BookingColumns
    <2>4. /\ BilledShare(p)' = BilledShare(p) /\ OverdueShare(p)' = OverdueShare(p)
          /\ UnbilledShare(p)' = UnbilledShare(p) + quota
      BY <1>c, <2>1, <2>2 DEF BilledShare, OverdueShare, UnbilledShare, Locked, Remaining
    <2>5. Beside(p)
      BY <2>1, <2>2 DEF Beside
    <2>6. /\ OpenBilled' = OpenBilled /\ OpenOverdue' = OpenOverdue
          /\ OpenUnbilled' = OpenUnbilled + quota
      BY <1>a, <1>c, <1>d, <2>1, <2>4, <2>5, OnePeriod
    <2>7. AmountsRecorded'
      <3>1. \A q \in Periods : usage'[q] >= usage[q] /\ usage'[q] \in Nat
        BY <1>b, <2>1, <2>2
      <3>2. \A o \in Operators : generating[o].amount \in Nat
        BY <1>b DEF Generation
      <3> QED
        BY <1>a, <1>c, <2>1, <3>1, <3>2 DEF AmountsRecorded
    <2>8. NoSurcharge' <=> NoSurcharge
      BY <2>1 DEF NoSurcharge, Locked
    <2>9. BookedSound'
      BY <1>a, <2>1, <2>3, <2>6 DEF BookedSound
    <2>10. NoSurcharge' => account'.unbilled = OpenUnbilled'
      BY <2>3, <2>6, <2>8 DEF SumsInv, SumsSound
    <2> QED
      BY <1>a, <2>7, <2>9, <2>10 DEF SumsInv, SumsSound
  <1>2. ASSUME NEW o \in Operators, NEW p \in Periods, NEW adjustment \in Adjustments,
               SumLedger(o, p, adjustment)
        PROVE  SumsInv'
    <2>1. /\ UNCHANGED <<account, usage, statement, paid, crossed>>
          /\ generating' = [generating EXCEPT ![o] =
                 [period |-> p, amount |-> usage[p], payable |-> NonNegative(usage[p] + adjustment)]]
      BY <1>2 DEF SumLedger
    <2>2. AmountsRecorded'
      BY <1>a, <1>b, <1>c, <2>1 DEF AmountsRecorded
    <2>3. /\ Beside(p) /\ BilledShare(p)' = BilledShare(p) /\ OverdueShare(p)' = OverdueShare(p)
          /\ UnbilledShare(p)' = UnbilledShare(p) /\ NoSurcharge' = NoSurcharge
      BY <2>1 DEF Beside, BilledShare, OverdueShare, UnbilledShare, Locked, Remaining, NoSurcharge
    <2> QED
      BY <1>a, <2>1, <2>2, <2>3, SharesKept
  <1>3. ASSUME NEW o \in Operators, WriteDraft(o)
        PROVE  SumsInv'
    <2>1. /\ generating[o].period \in Periods /\ UNCHANGED <<account, usage, paid, crossed>>
          /\ generating' = [generating EXCEPT ![o] = Idle]
          /\ generating[o].amount <= usage[generating[o].period]
      BY <1>3, <1>a DEF WriteDraft, AmountsRecorded
    <2> PICK p \in Periods : p = generating[o].period
      BY <2>1
    <2>2. \A u \in Operators : generating'[u].period \in Periods =>
              generating'[u].amount <= usage'[generating'[u].period]
      BY <1>a, <1>b, <2>1 DEF AmountsRecorded, Idle
    <2>3. CASE Locked(p)
      <3>1. statement' = statement
        BY <1>3, <2>3 DEF WriteDraft, Locked
      <3>2. AmountsRecorded'
        BY <1>a, <2>1, <2>2, <3>1 DEF AmountsRecorded
      <3>3. /\ Beside(p) /\ BilledShare(p)' = BilledShare(p) /\ OverdueShare(p)' = OverdueShare(p)
            /\ UnbilledShare(p)' = UnbilledShare(p) /\ NoSurcharge' = NoSurcharge
        BY <2>1, <3>1
           DEF Beside, BilledShare, OverdueShare, UnbilledShare, Locked, Remaining, NoSurcharge
      <3> QED
        BY <1>a, <2>1, <3>2, <3>3, SharesKept
    <2>4. CASE ~Locked(p)
      <3> DEFINE row == [status |-> "draft", amount |-> generating[o].amount,
                         payable |-> generating[o].payable]
      <3>1. statement' = [statement EXCEPT ![p] = row]
        BY <1>3, <2>4 DEF WriteDraft, Locked
      <3>2. statement'[p] = row /\ \A q \in Periods \ {p} : statement'[q] = statement[q]
        BY <1>b, <3>1
      <3>3. statement'[p].status = "draft" /\ statement'[p].amount = generating[o].amount
        BY <3>2
      <3>4. ~Locked(p)' /\ statement[p].status \in {"none", "draft"}
        BY <1>c, <2>4, <3>3 DEF Locked, RegenerationLocked, Status
      <3>5. /\ Beside(p) /\ BilledShare(p)' = BilledShare(p) /\ OverdueShare(p)' = OverdueShare(p)
            /\ UnbilledShare(p)' = UnbilledShare(p)
        BY <2>1, <2>4, <3>2, <3>3, <3>4 DEF Beside, BilledShare, OverdueShare, UnbilledShare
      <3>6. NoSurcharge' => NoSurcharge
        BY <2>4, <3>2 DEF NoSurcharge, Locked
      <3>7. AmountsRecorded'
        BY <1>a, <2>1, <2>2, <3>2, <3>3 DEF AmountsRecorded
      <3> QED
        BY <1>a, <2>1, <3>5, <3>6, <3>7, SharesKept
    <2> QED
      BY <2>3, <2>4
  <1>4. ASSUME NEW p \in Periods, Confirm(p)
        PROVE  SumsInv'
    <2> DEFINE payable == statement[p].payable
    <2>1. /\ statement[p].status = "draft" /\ account' = ConfirmCredit(account, payable)
          /\ statement' = [statement EXCEPT ![p].status = "confirmed"]
          /\ UNCHANGED <<usage, paid, generating, crossed>>
      BY <1>4 DEF Confirm
    <2>2. /\ statement'[p].status = "confirmed" /\ statement'[p].payable = payable
          /\ statement'[p].amount = statement[p].amount
          /\ \A q \in Periods \ {p} : statement'[q] = statement[q]
          /\ AmountsRecorded'
      BY <1>e, <2>1
    <2>3. Beside(p)
      BY <2>1, <2>2 DEF Beside
    <2>4. paid[p] = 0 /\ payable \in Nat
      BY <1>c, <2>1 DEF PaidSoundly
    <2>5. ~Locked(p) /\ Locked(p)'
      BY <2>1, <2>2 DEF Locked, RegenerationLocked
    <2>6. /\ BilledShare(p) = 0 /\ BilledShare(p)' = payable
          /\ OverdueShare(p) = 0 /\ OverdueShare(p)' = 0
          /\ UnbilledShare(p) = usage[p] /\ UnbilledShare(p)' = usage[p] - payable
      BY <1>c, <2>1, <2>2, <2>4, <2>5 DEF BilledShare, OverdueShare, UnbilledShare, Remaining
    <2>7. /\ OpenBilled' = OpenBilled + payable /\ OpenOverdue' = OpenOverdue
          /\ OpenUnbilled' = OpenUnbilled - payable
      BY <1>a, <1>c, <1>d, <2>3, <2>4, <2>6, OnePeriod
    <2>8. /\ account'.unbilled = NonNegative(account.unbilled - payable)
          /\ account'.billed = account.billed + payable /\ account'.overdue = account.overdue
      BY <1>b, <2>1, <2>4, BookingColumns
    <2>9. BookedSound'
      BY <1>a, <1>d, <2>1, <2>4, <2>7, <2>8 DEF BookedSound
    <2>10. ASSUME NoSurcharge' PROVE account'.unbilled = OpenUnbilled'
      <3>1. payable <= statement[p].amount /\ NoSurcharge
        BY <2>2, <2>5, <2>10 DEF NoSurcharge, Locked
      <3>2. payable <= usage[p]
        BY <1>a, <1>c, <2>4, <3>1 DEF AmountsRecorded
      <3>3. usage[p] <= account.unbilled
        BY <2>6, <3>1, UnbilledCovers
      <3>4. account'.unbilled = account.unbilled - payable
        BY <1>c, <1>d, <2>4, <2>8, <3>2, <3>3 DEF NonNegative
      <3> QED
        BY <2>7, <3>1, <3>4 DEF SumsInv, SumsSound
    <2> QED
      BY <1>a, <2>2, <2>9, <2>10 DEF SumsInv, SumsSound
  <1>5. ASSUME NEW p \in Periods, NEW amount \in 1..MaxUsage + 1, RegisterPayment(p, amount)
        PROVE  SumsInv'
    <2> DEFINE status == StatusAfterPayment(p, amount)
    <2>1. /\ statement[p].status \in {"confirmed", "invoiced", "overdue"}
          /\ amount \in Nat /\ amount > 0 /\ amount <= Remaining(p)
          /\ paid' = [paid EXCEPT ![p] = @ + amount]
          /\ statement' = [statement EXCEPT ![p].status = status]
          /\ account' = PayCredit(account, amount)
          /\ crossed' = (crossed \/ (account.billed > 0 /\ account.overdue > 0))
          /\ UNCHANGED <<usage, generating>>
      BY <1>5 DEF RegisterPayment, MayPay
    <2>2. /\ paid'[p] = paid[p] + amount /\ \A q \in Periods \ {p} : paid'[q] = paid[q]
      BY <1>b, <2>1
    <2>3. /\ statement'[p].status = status /\ statement'[p].payable = statement[p].payable
          /\ statement'[p].amount = statement[p].amount
          /\ \A q \in Periods \ {p} : statement'[q] = statement[q]
          /\ AmountsRecorded'
      BY <1>e, <2>1
    <2>4. Beside(p)
      BY <2>1, <2>2, <2>3 DEF Beside
    <2>5. /\ Remaining(p)' = Remaining(p) - amount
          /\ status \in {"paid", "overdue", "invoiced"}
          /\ status = "paid" => Remaining(p) = amount
          /\ status = "overdue" => statement[p].status = "overdue"
          /\ status = "invoiced" => statement[p].status \in {"confirmed", "invoiced"}
      <3>1. Remaining(p)' = Remaining(p) - amount
        BY <1>c, <2>1, <2>2, <2>3 DEF Remaining
      <3>2. paid[p] + amount >= statement[p].payable => Remaining(p) = amount
        BY <1>c, <2>1 DEF Remaining
      <3>3. /\ status \in {"paid", "overdue", "invoiced"}
            /\ status = "paid" => paid[p] + amount >= statement[p].payable
            /\ status = "overdue" => statement[p].status = "overdue"
            /\ status = "invoiced" => statement[p].status # "overdue"
        BY DEF StatusAfterPayment
      <3> QED
        BY <2>1, <3>1, <3>2, <3>3
    <2> HIDE DEF status
    <2>6. Locked(p) /\ Locked(p)' /\ UnbilledShare(p)' = UnbilledShare(p)
      BY <2>1, <2>3, <2>5 DEF Locked, RegenerationLocked, UnbilledShare
    <2>7. /\ account'.unbilled = account.unbilled
          /\ account'.billed = NonNegative(account.billed - amount)
          /\ account'.overdue = NonNegative(account.overdue - amount)
      BY <1>b, <2>1, BookingColumns
    <2>8. NoSurcharge' <=> NoSurcharge
      BY <2>3, <2>6 DEF NoSurcharge, Locked
    <2>9. OpenUnbilled' = OpenUnbilled
      BY <1>a, <1>c, <1>d, <2>4, <2>6, OnePeriod
    <2>10. CASE statement[p].status \in {"confirmed", "invoiced"}
      <3>1. /\ BilledShare(p) = Remaining(p) /\ BilledShare(p)' = Remaining(p) - amount
            /\ OverdueShare(p) = 0 /\ OverdueShare(p)' = 0
        BY <1>c, <2>1, <2>3, <2>5, <2>10 DEF BilledShare, OverdueShare
      <3>2. /\ OpenBilled' = OpenBilled - amount /\ OpenOverdue' = OpenOverdue
            /\ amount <= OpenBilled
        BY <1>a, <1>c, <1>d, <2>1, <2>4, <3>1, OnePeriod
      <3>3. BookedSound'
        <4>1. account.billed <= OpenBilled /\ account.overdue <= OpenOverdue
          BY <1>a DEF BookedSound
        <4>2. /\ account'.billed \in Nat /\ account'.billed <= OpenBilled'
              /\ account.billed = OpenBilled => account'.billed = OpenBilled'
              /\ account'.overdue \in Nat /\ account'.overdue <= account.overdue
              /\ account.overdue = 0 => account'.overdue = 0
          <5>1. /\ account.billed \in Nat /\ account.overdue \in Nat /\ OpenBilled \in Nat
                /\ account.billed <= OpenBilled /\ amount \in Nat /\ amount <= OpenBilled
            BY <1>d, <2>1, <3>2, <4>1
          <5>2. /\ NonNegative(account.billed - amount) \in Nat
                /\ NonNegative(account.billed - amount) <= OpenBilled - amount
                /\ account.billed = OpenBilled => NonNegative(account.billed - amount) = OpenBilled - amount
                /\ NonNegative(account.overdue - amount) \in Nat
                /\ NonNegative(account.overdue - amount) <= account.overdue
                /\ account.overdue = 0 => NonNegative(account.overdue - amount) = 0
            BY <5>1 DEF NonNegative
          <5> QED
            BY <2>7, <3>2, <5>2
        <4>3. account'.overdue <= OpenOverdue'
          BY <1>d, <3>2, <4>1, <4>2
        <4>4. ASSUME ~crossed'
              PROVE  account'.billed = OpenBilled' /\ account'.overdue = OpenOverdue'
          <5>1. /\ account.billed = OpenBilled /\ account.overdue = OpenOverdue
                /\ ~(account.billed > 0 /\ account.overdue > 0)
            BY <1>a, <2>1, <4>4 DEF BookedSound
          <5>2. account.overdue = 0
            BY <1>d, <2>1, <3>2, <5>1
          <5> QED
            BY <3>2, <4>2, <5>1, <5>2
        <4> QED
          BY <4>2, <4>3, <4>4 DEF BookedSound
      <3> QED
        BY <1>a, <2>3, <2>7, <2>8, <2>9, <3>3 DEF SumsInv, SumsSound
    <2>11. CASE statement[p].status = "overdue"
      <3>1. /\ OverdueShare(p) = Remaining(p) /\ OverdueShare(p)' = Remaining(p) - amount
            /\ BilledShare(p) = 0 /\ BilledShare(p)' = 0
        BY <1>c, <2>1, <2>3, <2>5, <2>11 DEF BilledShare, OverdueShare
      <3>2. /\ OpenOverdue' = OpenOverdue - amount /\ OpenBilled' = OpenBilled
            /\ amount <= OpenOverdue
        BY <1>a, <1>c, <1>d, <2>1, <2>4, <3>1, OnePeriod
      <3>3. BookedSound'
        <4>1. account.billed <= OpenBilled /\ account.overdue <= OpenOverdue
          BY <1>a DEF BookedSound
        <4>2. /\ account'.overdue \in Nat /\ account'.overdue <= OpenOverdue'
              /\ account.overdue = OpenOverdue => account'.overdue = OpenOverdue'
              /\ account'.billed \in Nat /\ account'.billed <= account.billed
              /\ account.billed = 0 => account'.billed = 0
          <5>1. /\ account.billed \in Nat /\ account.overdue \in Nat /\ OpenOverdue \in Nat
                /\ account.overdue <= OpenOverdue /\ amount \in Nat /\ amount <= OpenOverdue
            BY <1>d, <2>1, <3>2, <4>1
          <5>2. /\ NonNegative(account.overdue - amount) \in Nat
                /\ NonNegative(account.overdue - amount) <= OpenOverdue - amount
                /\ account.overdue = OpenOverdue => NonNegative(account.overdue - amount) = OpenOverdue - amount
                /\ NonNegative(account.billed - amount) \in Nat
                /\ NonNegative(account.billed - amount) <= account.billed
                /\ account.billed = 0 => NonNegative(account.billed - amount) = 0
            BY <5>1 DEF NonNegative
          <5> QED
            BY <2>7, <3>2, <5>2
        <4>3. account'.billed <= OpenBilled'
          BY <1>d, <3>2, <4>1, <4>2
        <4>4. ASSUME ~crossed'
              PROVE  account'.overdue = OpenOverdue' /\ account'.billed = OpenBilled'
          <5>1. /\ account.billed = OpenBilled /\ account.overdue = OpenOverdue
                /\ ~(account.billed > 0 /\ account.overdue > 0)
            BY <1>a, <2>1, <4>4 DEF BookedSound
          <5>2. account.billed = 0
            BY <1>d, <2>1, <3>2, <5>1
          <5> QED
            BY <3>2, <4>2, <5>1, <5>2
        <4> QED
          BY <4>2, <4>3, <4>4 DEF BookedSound
      <3> QED
        BY <1>a, <2>3, <2>7, <2>8, <2>9, <3>3 DEF SumsInv, SumsSound
    <2> QED
      BY <2>1, <2>10, <2>11
  <1>6. ASSUME NEW p \in Periods, MarkOverdue(p)
        PROVE  SumsInv'
    <2> DEFINE status == IF Remaining(p) <= 0 THEN "paid" ELSE "overdue"
    <2>1. /\ statement[p].status \in {"confirmed", "invoiced"}
          /\ statement' = [statement EXCEPT ![p].status = status]
          /\ account' = IF Remaining(p) <= 0 THEN account ELSE OverdueCredit(account, Remaining(p))
          /\ UNCHANGED <<usage, paid, generating, crossed>>
      BY <1>6 DEF MarkOverdue
    <2>2. /\ statement'[p].status = status /\ statement'[p].payable = statement[p].payable
          /\ statement'[p].amount = statement[p].amount
          /\ \A q \in Periods \ {p} : statement'[q] = statement[q]
          /\ AmountsRecorded'
      BY <1>e, <2>1
    <2>3. Beside(p)
      BY <2>1, <2>2 DEF Beside
    <2>4. Locked(p) /\ Locked(p)' /\ UnbilledShare(p)' = UnbilledShare(p)
      BY <2>1, <2>2 DEF Locked, RegenerationLocked, UnbilledShare
    <2>5. NoSurcharge' <=> NoSurcharge
      BY <2>2, <2>4 DEF NoSurcharge, Locked
    <2>6. BilledShare(p) = Remaining(p) /\ OverdueShare(p) = 0 /\ Remaining(p)' = Remaining(p)
      BY <2>1, <2>2 DEF BilledShare, OverdueShare, Remaining
    <2>7. CASE Remaining(p) <= 0
      <3>1. statement'[p].status = "paid" /\ UNCHANGED <<account, crossed>> /\ Remaining(p) = 0
        BY <1>c, <2>1, <2>2, <2>7
      <3>2. BilledShare(p)' = BilledShare(p) /\ OverdueShare(p)' = OverdueShare(p)
        BY <2>6, <3>1 DEF BilledShare, OverdueShare
      <3> QED
        BY <1>a, <2>2, <2>3, <2>4, <2>5, <3>1, <3>2, SharesKept
    <2>8. CASE Remaining(p) > 0
      <3>1. statement'[p].status = "overdue" /\ account' = OverdueCredit(account, Remaining(p))
        BY <1>c, <2>1, <2>2, <2>8
      <3>2. BilledShare(p)' = 0 /\ OverdueShare(p)' = Remaining(p)
        BY <2>6, <3>1 DEF BilledShare, OverdueShare
      <3>3. /\ OpenBilled' = OpenBilled - Remaining(p) /\ OpenOverdue' = OpenOverdue + Remaining(p)
            /\ Remaining(p) <= OpenBilled /\ OpenUnbilled' = OpenUnbilled
        BY <1>a, <1>c, <1>d, <2>3, <2>4, <2>6, <3>2, OnePeriod
      <3>4. /\ account'.unbilled = account.unbilled
            /\ account'.billed = NonNegative(account.billed - Remaining(p))
            /\ account'.overdue = account.overdue + Remaining(p)
        <4>1. Remaining(p) \in Int
          BY <1>c
        <4> QED
          BY <1>b, <3>1, <4>1, BookingColumns
      <3>5. BookedSound'
        BY <1>a, <1>c, <1>d, <2>1, <3>3, <3>4 DEF BookedSound, NonNegative
      <3> QED
        BY <1>a, <2>2, <2>5, <3>3, <3>4, <3>5 DEF SumsInv, SumsSound
    <2> QED
      BY <1>c, <2>7, <2>8
  <1>7. ASSUME UNCHANGED <<usage, statement, paid, generating, crossed>>,
               SameAmounts(account', account)
        PROVE  SumsInv'
    <2>1. /\ OpenBilled' = OpenBilled /\ OpenOverdue' = OpenOverdue
          /\ OpenUnbilled' = OpenUnbilled /\ AmountsRecorded' = AmountsRecorded
          /\ NoSurcharge' = NoSurcharge
      BY <1>7 DEF OpenBilled, OpenOverdue, OpenUnbilled, BilledShare, OverdueShare, UnbilledShare,
                  Locked, Remaining, AmountsRecorded, NoSurcharge
    <2>2. /\ account'.billed = account.billed /\ account'.overdue = account.overdue
          /\ account'.unbilled = account.unbilled
      BY <1>7 DEF SameAmounts
    <2> QED
      BY <1>7, <1>a, <2>1, <2>2 DEF SumsInv, SumsSound, BookedSound
  <1>8. ASSUME NEW limit \in NewLimits, ReadAccount(limit)
        PROVE  SumsInv'
    BY <1>7, <1>8 DEF ReadAccount, SameAmounts
  <1>9. ASSUME UpsertCreditAccount
        PROVE  SumsInv'
    <2>1. config \in Configuration
      BY <1>a DEF StatementInv, TypeOK, Configuration
    <2>2. account' = config.row /\ SameAmounts(config.row, account)
      BY <1>9, <2>1 DEF UpsertCreditAccount, Configuration
    <2> QED
      BY <1>7, <1>9, <2>2 DEF UpsertCreditAccount
  <1>10. CASE UNCHANGED vars
    BY <1>7, <1>10 DEF vars, SameAmounts
  <1> QED
    BY <1>1, <1>2, <1>3, <1>4, <1>5, <1>6, <1>8, <1>9, <1>10 DEF Next

\* The sums hold until a configuration change spoils the account.
BooksInv == StatementInv /\ (~config.spoiled => SumsInv)

(* Once the account is spoiled it stays so.                                *)
LEMMA SpoiledStays ==
    ASSUME StatementInv, [Next]_vars, config.spoiled
    PROVE  config'.spoiled
  <1>1. config \in Configuration
    BY DEF StatementInv, TypeOK, Configuration
  <1>2. CASE config' = config
    BY <1>2
  <1>3. ASSUME NEW limit \in NewLimits, ReadAccount(limit) PROVE config'.spoiled
    BY <1>1, <1>3 DEF ReadAccount, Configuration
  <1>4. ASSUME UpsertCreditAccount PROVE config'.spoiled
    BY <1>1, <1>4 DEF UpsertCreditAccount, Configuration
  <1> QED
    BY <1>2, <1>3, <1>4
       DEF Next, vars, RecordUsage, SumLedger, WriteDraft, Confirm, RegisterPayment, MarkOverdue

(* BooksInv holds throughout.                                              *)
LEMMA BooksInvariant == Spec => []BooksInv
  <1>1. Init => BooksInv
    BY SumsInit DEF BooksInv, SumsInv
  <1>2. BooksInv /\ [Next]_vars => BooksInv'
    BY StatementInvStep, SumsStep, SpoiledStays DEF BooksInv
  <1> QED
    BY <1>1, <1>2, PTL DEF Spec

(* For any number of periods and any order of confirmations, payments and  *)
(* sweeps, the account never shows more billed or overdue than the open    *)
(* statements lack, and shows exactly that until a payment is booked while *)
(* both are owed, unless a stale configuration was written back.           *)
THEOREM BookedMatchesStatements == Spec => []AccountMatchesStatements
  <1>1. BooksInv => AccountMatchesStatements
    <2>1. /\ Outstanding({"confirmed", "invoiced"}) = OpenBilled
          /\ Outstanding({"overdue"}) = OpenOverdue
      BY DEF Outstanding, OpenBilled, OpenOverdue, BilledShare, OverdueShare
    <2> QED
      BY <2>1 DEF BooksInv, SumsInv, SumsSound, BookedSound, AccountMatchesStatements
  <1> QED
    BY <1>1, BooksInvariant, PTL

(* Until a payment crosses, and unless a statement carries a surcharge,    *)
(* the debt on the account is the usage recorded less what was paid,       *)
(* whatever is generated, confirmed or swept in between and whichever      *)
(* configuration is written, as long as it is not a stale one.             *)
THEOREM DebtMatchesUsage == Spec => []DebtIsUsage
  <1>1. BooksInv => DebtIsUsage
    <2> SUFFICES ASSUME SumsInv, ~crossed,
                        \A p \in Periods : statement[p].payable <= statement[p].amount
                 PROVE  Debt(account) = Unpaid
      BY DEF DebtIsUsage, BooksInv
    <2> DEFINE billed == [p \in Periods |-> BilledShare(p)]
               overdue == [p \in Periods |-> OverdueShare(p)]
               unbilled == [p \in Periods |-> UnbilledShare(p)]
               open == [p \in Periods |-> billed[p] + overdue[p]]
               unpaid == [p \in Periods |-> usage[p] - paid[p]]
    <2>1. StatementInv /\ NoSurcharge
      BY DEF SumsInv, NoSurcharge
    <2>2. /\ account.unbilled = Total(unbilled, Periods) /\ account.billed = Total(billed, Periods)
          /\ account.overdue = Total(overdue, Periods) /\ Unpaid = Total(unpaid, Periods)
      BY <2>1 DEF SumsInv, SumsSound, BookedSound, OpenBilled, OpenOverdue, OpenUnbilled, Unpaid
    <2>3. ASSUME NEW p \in Periods
          PROVE  /\ billed[p] \in Int /\ overdue[p] \in Int /\ unbilled[p] \in Int
                 /\ open[p] \in Int /\ open[p] = billed[p] + overdue[p]
                 /\ unpaid[p] = unbilled[p] + open[p]
      <3>1. /\ usage[p] \in Nat /\ paid[p] \in Nat /\ statement[p].payable \in Nat
            /\ statement[p].status \in Status /\ PaidSoundly(p)
            /\ BilledShare(p) \in Int /\ OverdueShare(p) \in Int /\ UnbilledShare(p) \in Int
        BY <2>1, PeriodFields DEF PeriodsTyped, StatementInv, PaymentsSound
      <3>2. usage[p] - paid[p] = UnbilledShare(p) + (BilledShare(p) + OverdueShare(p))
        <4>1. CASE statement[p].status \in {"confirmed", "invoiced"}
          BY <3>1, <4>1
             DEF UnbilledShare, BilledShare, OverdueShare, Locked, RegenerationLocked, Remaining
        <4>2. CASE statement[p].status = "overdue"
          BY <3>1, <4>2
             DEF UnbilledShare, BilledShare, OverdueShare, Locked, RegenerationLocked, Remaining
        <4>3. CASE statement[p].status = "paid"
          BY <3>1, <4>3
             DEF UnbilledShare, BilledShare, OverdueShare, Locked, RegenerationLocked, PaidSoundly
        <4>4. CASE statement[p].status \in {"none", "draft"}
          BY <3>1, <4>4
             DEF UnbilledShare, BilledShare, OverdueShare, Locked, RegenerationLocked, PaidSoundly
        <4> QED
          BY <3>1, <4>1, <4>2, <4>3, <4>4 DEF Status
      <3> QED
        BY <3>1, <3>2
    <2> HIDE DEF billed, overdue, unbilled, open, unpaid
    <2>4. Total(open, Periods) = Total(billed, Periods) + Total(overdue, Periods)
      BY <2>3, TotalPlus
    <2>5. Total(unpaid, Periods) = Total(unbilled, Periods) + Total(open, Periods)
      BY <2>3, TotalPlus
    <2>6. /\ Total(billed, Periods) \in Int /\ Total(overdue, Periods) \in Int
          /\ Total(unbilled, Periods) \in Int
      BY <2>3, TotalType
    <2> QED
      BY <2>2, <2>4, <2>5, <2>6 DEF Debt
  <1> QED
    BY <1>1, BooksInvariant, PTL
=============================================================================
