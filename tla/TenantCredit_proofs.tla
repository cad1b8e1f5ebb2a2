------------------------- MODULE TenantCredit_proofs -------------------------
(***************************************************************************)
(* Proofs about TenantCredit for any number of sessions, any estimates,    *)
(* costs and limits, and any number of faults, crashes and changes of the  *)
(* configuration.                                                          *)
(***************************************************************************)
EXTENDS TenantCredit, TotalTheorems, TLAPS

USE CreditAssumption

Account == [Amounts -> Int]
Charges == Amounts \ {"available"}

(* Recalculate makes any row with non-negative charges sound.              *)
LEMMA RecalculateSound ==
    ASSUME NEW a \in Account, \A f \in Charges : a[f] >= 0
    PROVE  SoundAccount(Recalculate(a))
  <1> DEFINE b == Recalculate(a)
  <1>1. b \in Account
    BY DEF Recalculate, Debt, Account, Amounts
  <1>2. \A f \in Charges : b[f] = a[f]
    BY DEF Recalculate, Account, Charges, Amounts
  <1>3. b.available = b.limit - b.reserved - Debt(b)
    BY <1>2 DEF Recalculate, Debt, Account, Charges, Amounts
  <1>4. b = [b EXCEPT !.available = b.limit - b.reserved - Debt(b)]
    <2> HIDE DEF b
    <2> QED BY <1>1, <1>3 DEF Account
  <1>5. b = Recalculate(b)
    <2> HIDE DEF b
    <2> QED BY <1>4 DEF Recalculate
  <1>6. \A f \in Charges : b[f] >= 0
    <2> HIDE DEF b
    <2> QED BY <1>2
  <1> QED
    BY <1>1, <1>5, <1>6 DEF SoundAccount, Account, Charges

(* What each transaction writes back is sound again; the clamps of         *)
(* ReleaseTenantCredit and applyTenantLedgerCreditTx are what keep the     *)
(* reserved amount from going negative.                                    *)
LEMMA CreditOpsSound ==
    ASSUME NEW a, SoundAccount(a), NEW q \in Nat
    PROVE  /\ SoundAccount(ReserveCredit(a, q))
           /\ SoundAccount(ReleaseCredit(a, q))
           /\ SoundAccount(ApplyLedgerCredit(a, q))
           /\ SoundAccount(Recalculate([a EXCEPT !.limit = q]))
  <1>1. /\ a \in Account /\ \A f \in Charges : a[f] >= 0
        /\ \A f \in Amounts : a[f] \in Int
    BY DEF SoundAccount, Account, Charges
  <1>2. {"limit", "reserved", "unbilled"} \subseteq Charges /\ Charges \subseteq Amounts
    BY DEF Charges, Amounts
  <1>3. ASSUME NEW f \in Charges, NEW x \in Nat, NEW g \in Charges, NEW y \in Nat
        PROVE  SoundAccount(Recalculate([a EXCEPT ![f] = x, ![g] = y]))
    <2> DEFINE b == [a EXCEPT ![f] = x, ![g] = y]
    <2>1. b \in Account /\ \A h \in Charges : b[h] >= 0
      BY <1>1, <1>2 DEF Account
    <2> HIDE DEF b
    <2>2. SoundAccount(Recalculate(b))
      BY <2>1, RecalculateSound
    <2> QED BY <2>2 DEF b
  <1>4. ASSUME NEW f \in Charges, NEW x \in Nat
        PROVE  SoundAccount(Recalculate([a EXCEPT ![f] = x]))
    <2> DEFINE b == [a EXCEPT ![f] = x]
    <2>1. b \in Account /\ \A h \in Charges : b[h] >= 0
      BY <1>1, <1>2 DEF Account
    <2> HIDE DEF b
    <2>2. SoundAccount(Recalculate(b))
      BY <2>1, RecalculateSound
    <2> QED BY <2>2 DEF b
  <1>5. /\ a.reserved + q \in Nat
        /\ a.reserved - Least(a.reserved, q) \in Nat
        /\ a.unbilled + q \in Nat
    BY <1>1, <1>2 DEF Least
  <1>6. SoundAccount(ReserveCredit(a, q))
    BY <1>2, <1>4, <1>5 DEF ReserveCredit
  <1>7. SoundAccount(ReleaseCredit(a, q))
    BY <1>2, <1>4, <1>5 DEF ReleaseCredit
  <1>8. SoundAccount(ApplyLedgerCredit(a, q))
    BY <1>2, <1>3, <1>5 DEF ApplyLedgerCredit
  <1>9. SoundAccount(Recalculate([a EXCEPT !.limit = q]))
    BY <1>2, <1>4
  <1> QED
    BY <1>6, <1>7, <1>8, <1>9

(* The postpaid part of a cost is never negative.                          *)
LEMMA PostpaidType ==
    ASSUME TypeOK, NEW s \in Sessions
    PROVE  PostpaidOf(s) \in Nat
  <1>1. session[s].actual \in Nat /\ session[s].prepaid \in Int
    BY DEF TypeOK, SessionType
  <1> QED
    BY <1>1 DEF PostpaidOf, PostpaidQuota, NonNegative

(* reservePostpaid keeps account and session well typed on every path.     *)
LEMMA ReservePostpaidType ==
    ASSUME TypeOK, NEW s \in Sessions, NEW target \in Nat, NEW ok \in PC, NEW bad \in PC,
           ReservePostpaid(s, target, ok, bad)
    PROVE  /\ SoundAccount(account')
           /\ session' \in [Sessions -> SessionType]
           /\ faults' \in 0..MaxFaults
  <1>1. /\ SoundAccount(account) /\ session \in [Sessions -> SessionType]
        /\ faults \in 0..MaxFaults /\ session[s].held \in Nat
    BY DEF TypeOK, SessionType
  <1>2. faults' \in 0..MaxFaults
    BY <1>1 DEF ReservePostpaid, Fault
  <1>3. session' \in [Sessions -> SessionType]
    BY <1>1 DEF ReservePostpaid, SessionType
  <1>4. SoundAccount(account')
    <2>1. CASE target > session[s].held /\ account' = ReserveCredit(account, target - session[s].held)
      <3>1. target - session[s].held \in Nat
        BY <1>1, <2>1
      <3> QED BY <1>1, <2>1, <3>1, CreditOpsSound
    <2>2. CASE target < session[s].held /\ account' = ReleaseCredit(account, session[s].held - target)
      <3>1. session[s].held - target \in Nat
        BY <1>1, <2>2
      <3> QED BY <1>1, <2>2, <3>1, CreditOpsSound
    <2>3. CASE account' = account
      BY <1>1, <2>3
    <2> QED
      BY <2>1, <2>2, <2>3 DEF ReservePostpaid
  <1> QED
    BY <1>2, <1>3, <1>4

----------------------------------------------------------------------------
(* A fresh account is sound.                                               *)
LEMMA CreditInitAccount ==
    ASSUME NEW n \in Nat
    PROVE  SoundAccount(NewAccount(n))
  <1>1. NewAccount(n) \in Account /\ \A f \in Charges : NewAccount(n)[f] >= 0
    BY DEF NewAccount, Account, Charges, Amounts
  <1>2. NewAccount(n) = Recalculate(NewAccount(n))
    BY DEF NewAccount, Recalculate, Debt
  <1> QED BY <1>1, <1>2 DEF SoundAccount, Account, Charges

(* TypeOK holds before the first request.                                  *)
LEMMA CreditInit == Init => TypeOK
  <1> SUFFICES ASSUME Init PROVE TypeOK
    OBVIOUS
  <1>1. SoundAccount(NewAccount(Limit)) /\ SoundAccount(NewAccount(0))
    BY CreditInitAccount
  <1>2. NewSession \in SessionType
    BY DEF NewSession, SessionType, PC, NoPrepaid
  <1>3. /\ NoConfig \in [writing : BOOLEAN, row : [Amounts -> Int], spoiled : BOOLEAN]
        /\ SoundAccount(NoConfig.row)
    BY <1>1 DEF NoConfig, SoundAccount
  <1> QED
    BY <1>1, <1>2, <1>3 DEF Init, TypeOK

(* The two fields PrepareTenantBillingSession and the post-consume path    *)
(* set on a session.                                                       *)
LEMMA SessionUpdateType ==
    ASSUME NEW x \in SessionType, NEW pc \in PC, NEW n \in Nat
    PROVE  /\ [x EXCEPT !.pc = pc, !.prepaid = n] \in SessionType
           /\ [x EXCEPT !.pc = pc, !.actual = n] \in SessionType
  <1>1. ASSUME NEW y \in SessionType
        PROVE  /\ [y EXCEPT !.prepaid = n] \in SessionType
               /\ [y EXCEPT !.actual = n] \in SessionType
    BY DEF SessionType
  <1>2. [x EXCEPT !.pc = pc] \in SessionType
    BY DEF SessionType
  <1>3. /\ [x EXCEPT !.pc = pc, !.prepaid = n] = [[x EXCEPT !.pc = pc] EXCEPT !.prepaid = n]
        /\ [x EXCEPT !.pc = pc, !.actual = n] = [[x EXCEPT !.pc = pc] EXCEPT !.actual = n]
    OBVIOUS
  <1> QED
    BY <1>1, <1>2, <1>3

(* TypeOK is inductive: the row a configuration change holds is sound too, *)
(* so writing it back cannot spoil the account.                            *)
LEMMA CreditStep == TypeOK /\ [Next]_vars => TypeOK'
  <1>pc. {"serving", "posting"} \subseteq PC
    BY DEF PC
  <1> SUFFICES ASSUME TypeOK, [Next]_vars PROVE TypeOK'
    OBVIOUS
  <1>0. /\ SoundAccount(account) /\ session \in [Sessions -> SessionType]
        /\ queue \subseteq Sessions /\ faults \in 0..MaxFaults
        /\ crashes \in 0..MaxCrashes /\ configs \in 0..MaxConfigs
        /\ config \in [writing : BOOLEAN, row : [Amounts -> Int], spoiled : BOOLEAN]
        /\ SoundAccount(config.row)
        /\ ledger \in [Requests -> Sessions \cup {NoSession}]
    BY DEF TypeOK
  <1>1. ASSUME NEW s \in Sessions, NEW estimate \in Estimates, PreparePostpaid(s, estimate)
        PROVE  TypeOK'
    <2>1. SoundAccount(account')
      <3>1. account' = account \/ account' = ReserveCredit(account, estimate)
        BY <1>1 DEF PreparePostpaid
      <3>2. SoundAccount(ReserveCredit(account, estimate))
        BY <1>0, estimate \in Nat, CreditOpsSound
      <3> QED BY <1>0, <3>1, <3>2
    <2>2. session' \in [Sessions -> SessionType]
      BY <1>0, <1>1 DEF PreparePostpaid, SessionType, PC
    <2>3. faults' \in 0..MaxFaults
      BY <1>0, <1>1 DEF PreparePostpaid, Fault
    <2> QED
      BY <1>0, <1>1, <2>1, <2>2, <2>3 DEF PreparePostpaid, TypeOK
  <1>2. ASSUME NEW s \in Sessions, NEW estimate \in Estimates, PrepareMixed(s, estimate)
        PROVE  TypeOK'
    <2>1. PICK prepaid \in Nat :
              session' = [session EXCEPT ![s].pc = "serving", ![s].prepaid = prepaid]
      BY <1>2, estimate \in Nat DEF PrepareMixed
    <2>2. session' \in [Sessions -> SessionType]
      <3>1. [session[s] EXCEPT !.pc = "serving", !.prepaid = prepaid] \in SessionType
        BY <1>0, <1>pc, SessionUpdateType
      <3> QED BY <1>0, <2>1, <3>1
    <2> QED
      BY <1>0, <1>2, <2>2 DEF PrepareMixed, TypeOK, bounds
  <1>3. ASSUME NEW s \in Sessions, Refund(s)
        PROVE  TypeOK'
    <2>1. session' \in [Sessions -> SessionType]
      BY <1>0, <1>3 DEF Refund, SessionType, PC
    <2> QED
      BY <1>0, <1>3, <2>1 DEF Refund, TypeOK, bounds
  <1>4. ASSUME NEW s \in Sessions, NEW actual \in Actuals, PostConsume(s, actual)
        PROVE  TypeOK'
    <2>1. session' \in [Sessions -> SessionType]
      <3>1. [session[s] EXCEPT !.pc = "posting", !.actual = actual] \in SessionType
        BY <1>0, <1>pc, actual \in Nat, SessionUpdateType
      <3> QED BY <1>0, <1>4, <3>1 DEF PostConsume
    <2> QED
      BY <1>0, <1>4, <2>1 DEF PostConsume, TypeOK, bounds
  <1>5. ASSUME NEW s \in Sessions, Release(s)
        PROVE  TypeOK'
    <2>1. session[s].held \in Nat
      BY <1>0 DEF SessionType
    <2>2. SoundAccount(account')
      <3>1. account' = account \/ account' = ReleaseCredit(account, session[s].held)
        BY <1>5 DEF Release
      <3>2. SoundAccount(ReleaseCredit(account, session[s].held))
        BY <1>0, <2>1, CreditOpsSound
      <3> QED BY <1>0, <3>1, <3>2
    <2>3. session' \in [Sessions -> SessionType]
      BY <1>0, <1>5 DEF Release, SessionType, PC
    <2>4. faults' \in 0..MaxFaults
      BY <1>0, <1>5 DEF Release, Fault
    <2> QED
      BY <1>0, <1>5, <2>2, <2>3, <2>4 DEF Release, TypeOK
  <1>6. ASSUME NEW s \in Sessions, SettlePostpaid(s)
        PROVE  TypeOK'
    <2> DEFINE ok == IF session[s].prepaid = NoPrepaid THEN "settled" ELSE "settling"
    <2>1. ok \in PC /\ "unsettled" \in PC
      BY DEF PC
    <2>2. PostpaidOf(s) \in Nat
      BY PostpaidType
    <2>3. ReservePostpaid(s, PostpaidOf(s), ok, "unsettled")
      BY <1>6 DEF SettlePostpaid
    <2>4. /\ SoundAccount(account') /\ session' \in [Sessions -> SessionType]
          /\ faults' \in 0..MaxFaults
      <3> HIDE DEF ok
      <3> QED BY <2>1, <2>2, <2>3, ReservePostpaidType
    <2> QED
      BY <1>0, <1>6, <2>4 DEF SettlePostpaid, TypeOK
  <1>7. ASSUME NEW s \in Sessions, SettlePrepaid(s)
        PROVE  TypeOK'
    <2>1. session' \in [Sessions -> SessionType]
      BY <1>0, <1>7 DEF SettlePrepaid, SessionType, PC
    <2>2. faults' \in 0..MaxFaults
      BY <1>0, <1>7 DEF SettlePrepaid, Fault
    <2> QED
      BY <1>0, <1>7, <2>1, <2>2 DEF SettlePrepaid, TypeOK
  <1>8. ASSUME NEW s \in Sessions, RollbackPostpaid(s)
        PROVE  TypeOK'
    <2>1. session[s].opened \in Nat /\ "unsettled" \in PC
      BY <1>0 DEF SessionType, PC
    <2>2. ReservePostpaid(s, session[s].opened, "unsettled", "unsettled")
      BY <1>8 DEF RollbackPostpaid
    <2>3. /\ SoundAccount(account') /\ session' \in [Sessions -> SessionType]
          /\ faults' \in 0..MaxFaults
      BY <2>1, <2>2, ReservePostpaidType
    <2> QED
      BY <1>0, <1>8, <2>3 DEF RollbackPostpaid, TypeOK
  <1>9. ASSUME NEW s \in Sessions, RecordUsage(s)
        PROVE  TypeOK'
    <2>1. PostpaidOf(s) \in Nat
      BY PostpaidType
    <2>2. SoundAccount(account')
      <3>1. account' = account \/ account' = ApplyLedgerCredit(account, PostpaidOf(s))
        BY <1>9 DEF RecordUsage
      <3>2. SoundAccount(ApplyLedgerCredit(account, PostpaidOf(s)))
        BY <1>0, <2>1, CreditOpsSound
      <3> QED BY <1>0, <3>1, <3>2
    <2>3. ledger' \in [Requests -> Sessions \cup {NoSession}] /\ queue' \subseteq Sessions
      BY <1>0, <1>9 DEF RecordUsage
    <2> QED
      BY <1>0, <1>9, <2>2, <2>3 DEF RecordUsage, TypeOK, bounds
  <1>10. ASSUME NEW s \in Sessions, Crash(s)
         PROVE  TypeOK'
    <2>1. session' \in [Sessions -> SessionType]
      BY <1>0, <1>10 DEF Crash, SessionType, PC
    <2> QED
      BY <1>0, <1>10, <2>1 DEF Crash, TypeOK
  <1>11. ASSUME NEW limit \in NewLimits, ReadAccount(limit)
         PROVE  TypeOK'
    <2>1. SoundAccount(ConfiguredAccount(account, limit)) /\ SoundAccount(NewAccount(limit))
      BY <1>0, CreditOpsSound, CreditInitAccount DEF ConfiguredAccount
    <2>2. PICK row : SoundAccount(row) /\ config' = [config EXCEPT !.writing = TRUE, !.row = row]
      BY <1>11, <2>1 DEF ReadAccount
    <2>3. /\ config' \in [writing : BOOLEAN, row : [Amounts -> Int], spoiled : BOOLEAN]
          /\ SoundAccount(config'.row)
      BY <1>0, <2>2 DEF SoundAccount
    <2>4. faults' \in 0..MaxFaults /\ configs' \in 0..MaxConfigs
      BY <1>0, <1>11 DEF ReadAccount, Fault
    <2> QED
      BY <1>0, <1>11, <2>3, <2>4 DEF ReadAccount, TypeOK
  <1>12. ASSUME UpsertCreditAccount
         PROVE  TypeOK'
    <2>1. SoundAccount(account')
      BY <1>0, <1>12 DEF UpsertCreditAccount
    <2>2. SoundAccount(NewAccount(0))
      BY CreditInitAccount
    <2>3. PICK b \in BOOLEAN : config' = [NoConfig EXCEPT !.spoiled = b]
      BY <1>0, <1>12 DEF UpsertCreditAccount
    <2>4. /\ config' \in [writing : BOOLEAN, row : [Amounts -> Int], spoiled : BOOLEAN]
          /\ SoundAccount(config'.row)
      BY <2>2, <2>3 DEF NoConfig, SoundAccount
    <2>5. faults' \in 0..MaxFaults
      BY <1>0, <1>12 DEF UpsertCreditAccount, Fault
    <2> QED
      BY <1>0, <1>12, <2>1, <2>4, <2>5 DEF UpsertCreditAccount, TypeOK
  <1>13. CASE UNCHANGED vars
    BY <1>13 DEF vars, TypeOK
  <1> QED
    BY <1>1, <1>2, <1>3, <1>4, <1>5, <1>6, <1>7, <1>8, <1>9, <1>10, <1>11, <1>12, <1>13 DEF Next

(* The tenant's account is never spoiled: no order of reserving, releasing *)
(* and recording, no fault or crash and no rewritten configuration makes a *)
(* charge negative or leaves a stale available credit.                     *)
THEOREM CreditTypeCorrect == Spec => []TypeOK
  BY CreditInit, CreditStep, PTL DEF Spec

----------------------------------------------------------------------------
(* The inductive invariant of the amounts.                                 *)
(***************************************************************************)
Posted == {"posting", "settling", "rollback", "settled", "unsettled", "lost"}

\* A session's own fields: usage is queued or recorded only once the session
\* is past the upstream call, and from then on the session holds what it
\* opened with or what it cost, so at least the lesser of both.
SessionSound(s) ==
    /\ session[s].prepaid >= NoPrepaid
    /\ s \in queue \/ Recorded(s) =>
           /\ session[s].pc \in Posted
           /\ session[s].held >= Least(session[s].opened, PostpaidOf(s))
    /\ session[s].pc \in {"idle", "rejected"} => session[s].held = 0 /\ session[s].opened = 0
    /\ session[s].pc \in {"idle", "rejected", "serving"} => session[s].actual = 0
    /\ session[s].pc \in {"serving", "posting"} => session[s].held = session[s].opened
    /\ session[s].pc \in {"settling", "settled"} => session[s].held = PostpaidOf(s)
    /\ session[s].pc = "refunded" /\ faults = 0 => session[s].held = 0

SessionsSound == \A s \in Sessions : SessionSound(s)

\* What a session's recorded usage cost over its reservation, and the charge
\* a reservation made up front still stands for.
RecordedOverrun(s) == IF Recorded(s) THEN Overrun(s) ELSE 0
Expected(s) ==
    IF Recorded(s) THEN 0
    ELSE IF s \in queue THEN Least(session[s].opened, PostpaidOf(s))
    ELSE IF session[s].pc = "serving" THEN session[s].opened ELSE 0

RecordedOverruns == Total([s \in Sessions |-> RecordedOverrun(s)], Sessions)
AllExpected == Total([s \in Sessions |-> Expected(s)], Sessions)

\* The reserved amount lies between what sessions claim and that plus what
\* recorded usage overran.
AmountsSound ==
    /\ account.billed = 0 /\ account.overdue = 0
    /\ account.unbilled = Charged
    /\ Claimed <= account.reserved
    /\ account.reserved <= Claimed + RecordedOverruns

\* The charges made and expected fit the limit but for what recorded usage
\* overran.
LimitKept ==
    Policy = "block" =>
        /\ account.unbilled + AllExpected <= account.limit + RecordedOverruns
        /\ account.reserved + account.unbilled <= account.limit + Overruns

\* What a step has to preserve besides the sessions' own fields.
Sums ==
    /\ ~config.spoiled => AmountsSound
    /\ configs = 0 => ~config.writing /\ ~config.spoiled /\ LimitKept

CreditInv == TypeOK /\ SessionsSound /\ Sums

----------------------------------------------------------------------------
(* The fields of a session, and what it has cost so far, are integers.     *)
LEMMA SessionFields ==
    ASSUME TypeOK, NEW s \in Sessions
    PROVE  /\ session[s].held \in Nat /\ session[s].opened \in Nat
           /\ session[s].actual \in Nat /\ session[s].prepaid \in Int
           /\ session[s].pc \in PC
           /\ PostpaidOf(s) \in Nat
  <1>1. session[s] \in SessionType
    BY DEF TypeOK
  <1> QED
    BY <1>1, PostpaidType DEF SessionType

(* A session's share of each total is an integer.                          *)
LEMMA SharesType ==
    ASSUME TypeOK, NEW s \in Sessions
    PROVE  /\ Charge(s) \in Nat /\ Claim(s) \in Int /\ Overrun(s) \in Nat
           /\ RecordedOverrun(s) \in Nat /\ Expected(s) \in Nat
  BY SessionFields DEF Charge, Claim, Overrun, RecordedOverrun, Expected, NonNegative, Least

(* The same for all sessions, in a form that holds of the next state too.  *)
LEMMA SharesIntegers ==
    TypeOK => \A t \in Sessions :
                 /\ Charge(t) \in Int /\ Claim(t) \in Int /\ Overrun(t) \in Int
                 /\ RecordedOverrun(t) \in Int /\ Expected(t) \in Int
  BY SharesType

(* The totals are integers.                                                *)
LEMMA TotalsType ==
    ASSUME TypeOK
    PROVE  /\ Charged \in Nat /\ Claimed \in Int /\ Overruns \in Nat
           /\ RecordedOverruns \in Nat /\ AllExpected \in Nat
  <1>1. /\ \A s \in Sessions : [t \in Sessions |-> Charge(t)][s] \in Nat
        /\ \A s \in Sessions : [t \in Sessions |-> Claim(t)][s] \in Int
        /\ \A s \in Sessions : [t \in Sessions |-> Overrun(t)][s] \in Nat
        /\ \A s \in Sessions : [t \in Sessions |-> RecordedOverrun(t)][s] \in Nat
        /\ \A s \in Sessions : [t \in Sessions |-> Expected(t)][s] \in Nat
    BY SharesType
  <1>2. Charged \in Nat
    BY <1>1, TotalNat DEF Charged
  <1>3. Claimed \in Int
    BY <1>1, TotalType DEF Claimed
  <1>4. Overruns \in Nat
    BY <1>1, TotalNat DEF Overruns
  <1>5. RecordedOverruns \in Nat
    BY <1>1, TotalNat DEF RecordedOverruns
  <1>6. AllExpected \in Nat
    BY <1>1, TotalNat DEF AllExpected
  <1> QED
    BY <1>2, <1>3, <1>4, <1>5, <1>6

(* What sessions hold covers the charges still expected of them, but for   *)
(* what recorded usage overran.                                            *)
LEMMA ClaimsCover ==
    ASSUME TypeOK, SessionsSound
    PROVE  /\ AllExpected <= Claimed + RecordedOverruns
           /\ RecordedOverruns <= Overruns
  <1> DEFINE claim == [s \in Sessions |-> Claim(s)]
             over == [s \in Sessions |-> RecordedOverrun(s)]
             both == [s \in Sessions |-> claim[s] + over[s]]
             expected == [s \in Sessions |-> Expected(s)]
             overrun == [s \in Sessions |-> Overrun(s)]
  <1>1. ASSUME NEW s \in Sessions
        PROVE  Expected(s) <= Claim(s) + RecordedOverrun(s) /\ RecordedOverrun(s) <= Overrun(s)
    <2>1. SessionSound(s)
      BY DEF SessionsSound
    <2>2. CASE Recorded(s)
      BY <2>1, <2>2, SessionFields
         DEF SessionSound, Expected, Claim, Charge, RecordedOverrun, Overrun, Least, NonNegative
    <2>3. CASE ~Recorded(s) /\ s \in queue
      BY <2>1, <2>3, SessionFields
         DEF SessionSound, Expected, Claim, Charge, RecordedOverrun, Overrun, Least, NonNegative
    <2>4. CASE ~Recorded(s) /\ s \notin queue
      BY <2>1, <2>4, SessionFields
         DEF SessionSound, Expected, Claim, Charge, RecordedOverrun, Overrun, NonNegative
    <2> QED
      BY <2>2, <2>3, <2>4
  <1>2. \A s \in Sessions : /\ claim[s] \in Int /\ over[s] \in Int /\ both[s] = claim[s] + over[s]
                            /\ both[s] \in Int /\ expected[s] \in Int /\ overrun[s] \in Int
    BY SharesType
  <1>3. \A s \in Sessions : expected[s] <= both[s] /\ over[s] <= overrun[s]
    BY <1>1
  <1> HIDE DEF claim, over, both, expected, overrun
  <1>4. Total(both, Sessions) = Total(claim, Sessions) + Total(over, Sessions)
    BY <1>2, TotalPlus
  <1>5. Total(expected, Sessions) <= Total(both, Sessions)
    BY <1>2, <1>3, TotalLeq
  <1>6. Total(over, Sessions) <= Total(overrun, Sessions)
    BY <1>2, <1>3, TotalLeq
  <1> QED
    BY <1>4, <1>5, <1>6
       DEF claim, over, expected, overrun, AllExpected, Claimed, RecordedOverruns, Overruns

(* The step leaves every session but s alone.                              *)
Beside(s) ==
    \A t \in Sessions \ {s} :
        /\ session'[t] = session[t]
        /\ t \in queue' <=> t \in queue
        /\ ledger'[RequestOf[t]] = t <=> ledger[RequestOf[t]] = t

(* A step of one session changes each total by that session's share.       *)
LEMMA OneSession ==
    ASSUME TypeOK, TypeOK', NEW s \in Sessions, Beside(s)
    PROVE  /\ Charged' = Charged + Charge(s)' - Charge(s)
           /\ Claimed' = Claimed + Claim(s)' - Claim(s)
           /\ Overruns' = Overruns + Overrun(s)' - Overrun(s)
           /\ RecordedOverruns' = RecordedOverruns + RecordedOverrun(s)' - RecordedOverrun(s)
           /\ AllExpected' = AllExpected + Expected(s)' - Expected(s)
  <1>1. \A t \in Sessions :
            /\ Charge(t) \in Int /\ Claim(t) \in Int /\ Overrun(t) \in Int
            /\ RecordedOverrun(t) \in Int /\ Expected(t) \in Int
    BY SharesType
  <1>2. (\A t \in Sessions :
            /\ Charge(t) \in Int /\ Claim(t) \in Int /\ Overrun(t) \in Int
            /\ RecordedOverrun(t) \in Int /\ Expected(t) \in Int)'
    BY SharesIntegers, PTL
  <1>3. ASSUME NEW t \in Sessions \ {s}
        PROVE  /\ Charge(t)' = Charge(t) /\ Claim(t)' = Claim(t) /\ Overrun(t)' = Overrun(t)
               /\ RecordedOverrun(t)' = RecordedOverrun(t) /\ Expected(t)' = Expected(t)
    <2>1. /\ session'[t] = session[t]
          /\ t \in queue' <=> t \in queue
          /\ Recorded(t)' <=> Recorded(t)
      BY DEF Beside, Recorded
    <2>2. PostpaidOf(t)' = PostpaidOf(t)
      BY <2>1 DEF PostpaidOf
    <2>3. Charge(t)' = Charge(t)
      BY <2>1, <2>2 DEF Charge
    <2>4. Overrun(t)' = Overrun(t)
      BY <2>1, <2>2 DEF Overrun
    <2> QED
      BY <2>1, <2>2, <2>3, <2>4 DEF Claim, RecordedOverrun, Expected
  <1>4. Charged' = Charged + Charge(s)' - Charge(s)
    <2> DEFINE f == [t \in Sessions |-> Charge(t)]
               g == [t \in Sessions |-> Charge(t)']
    <2>1. /\ \A y \in Sessions : f[y] \in Int
          /\ g[s] \in Int
          /\ \A y \in Sessions \ {s} : g[y] = f[y]
      BY <1>1, <1>2, <1>3
    <2>2. Total(g, Sessions) = Total(f, Sessions) + g[s] - f[s]
      <3> HIDE DEF f, g
      <3> QED BY <2>1, TotalChange
    <2> QED
      BY <2>2 DEF Charged
  <1>5. Claimed' = Claimed + Claim(s)' - Claim(s)
    <2> DEFINE f == [t \in Sessions |-> Claim(t)]
               g == [t \in Sessions |-> Claim(t)']
    <2>1. /\ \A y \in Sessions : f[y] \in Int
          /\ g[s] \in Int
          /\ \A y \in Sessions \ {s} : g[y] = f[y]
      BY <1>1, <1>2, <1>3
    <2>2. Total(g, Sessions) = Total(f, Sessions) + g[s] - f[s]
      <3> HIDE DEF f, g
      <3> QED BY <2>1, TotalChange
    <2> QED
      BY <2>2 DEF Claimed
  <1>6. Overruns' = Overruns + Overrun(s)' - Overrun(s)
    <2> DEFINE f == [t \in Sessions |-> Overrun(t)]
               g == [t \in Sessions |-> Overrun(t)']
    <2>1. /\ \A y \in Sessions : f[y] \in Int
          /\ g[s] \in Int
          /\ \A y \in Sessions \ {s} : g[y] = f[y]
      BY <1>1, <1>2, <1>3
    <2>2. Total(g, Sessions) = Total(f, Sessions) + g[s] - f[s]
      <3> HIDE DEF f, g
      <3> QED BY <2>1, TotalChange
    <2> QED
      BY <2>2 DEF Overruns
  <1>7. RecordedOverruns' = RecordedOverruns + RecordedOverrun(s)' - RecordedOverrun(s)
    <2> DEFINE f == [t \in Sessions |-> RecordedOverrun(t)]
               g == [t \in Sessions |-> RecordedOverrun(t)']
    <2>1. /\ \A y \in Sessions : f[y] \in Int
          /\ g[s] \in Int
          /\ \A y \in Sessions \ {s} : g[y] = f[y]
      BY <1>1, <1>2, <1>3
    <2>2. Total(g, Sessions) = Total(f, Sessions) + g[s] - f[s]
      <3> HIDE DEF f, g
      <3> QED BY <2>1, TotalChange
    <2> QED
      BY <2>2 DEF RecordedOverruns
  <1>8. AllExpected' = AllExpected + Expected(s)' - Expected(s)
    <2> DEFINE f == [t \in Sessions |-> Expected(t)]
               g == [t \in Sessions |-> Expected(t)']
    <2>1. /\ \A y \in Sessions : f[y] \in Int
          /\ g[s] \in Int
          /\ \A y \in Sessions \ {s} : g[y] = f[y]
      BY <1>1, <1>2, <1>3
    <2>2. Total(g, Sessions) = Total(f, Sessions) + g[s] - f[s]
      <3> HIDE DEF f, g
      <3> QED BY <2>1, TotalChange
    <2> QED
      BY <2>2 DEF AllExpected
  <1> QED
    BY <1>4, <1>5, <1>6, <1>7, <1>8

(* The columns each transaction leaves behind.                             *)
LEMMA CreditColumns ==
    ASSUME NEW a, SoundAccount(a), NEW q \in Nat
    PROVE  /\ \A f \in Amounts : a[f] \in Int
           /\ a.reserved >= 0 /\ a.unbilled >= 0 /\ a.limit >= 0
           /\ a.available = a.limit - a.reserved - a.unbilled - a.billed - a.overdue
           /\ LET b == ReserveCredit(a, q) IN
              /\ b.reserved = a.reserved + q /\ b.unbilled = a.unbilled
              /\ b.limit = a.limit /\ b.billed = a.billed /\ b.overdue = a.overdue
           /\ LET b == ReleaseCredit(a, q) IN
              /\ b.reserved = a.reserved - Least(a.reserved, q) /\ b.unbilled = a.unbilled
              /\ b.limit = a.limit /\ b.billed = a.billed /\ b.overdue = a.overdue
           /\ LET b == ApplyLedgerCredit(a, q) IN
              /\ b.reserved = a.reserved - Least(a.reserved, q) /\ b.unbilled = a.unbilled + q
              /\ b.limit = a.limit /\ b.billed = a.billed /\ b.overdue = a.overdue
           /\ MayReserve(a, q, "block") => a.reserved + q + Debt(a) <= a.limit
  <1>1. /\ a \in Account /\ \A f \in Charges : a[f] >= 0
        /\ \A f \in Amounts : a[f] \in Int
        /\ a = Recalculate(a)
    BY DEF SoundAccount, Account, Charges
  <1>2. a.available = a.limit - a.reserved - Debt(a)
    BY <1>1 DEF Recalculate, Account, Amounts
  <1>3. /\ a.reserved >= 0 /\ a.unbilled >= 0 /\ a.limit >= 0
        /\ a.available = a.limit - a.reserved - a.unbilled - a.billed - a.overdue
    BY <1>1, <1>2 DEF Debt, Charges, Amounts
  <1>4. ASSUME NEW b \in Account
        PROVE  /\ Recalculate(b).reserved = b.reserved /\ Recalculate(b).unbilled = b.unbilled
               /\ Recalculate(b).limit = b.limit /\ Recalculate(b).billed = b.billed
               /\ Recalculate(b).overdue = b.overdue
    BY DEF Recalculate, Account, Amounts
  <1>5. /\ a.reserved + q \in Int /\ a.reserved - Least(a.reserved, q) \in Int /\ a.unbilled + q \in Int
    BY <1>1 DEF Least, Amounts
  <1>6. LET b == ReserveCredit(a, q) IN
        /\ b.reserved = a.reserved + q /\ b.unbilled = a.unbilled
        /\ b.limit = a.limit /\ b.billed = a.billed /\ b.overdue = a.overdue
    <2> DEFINE c == [a EXCEPT !.reserved = @ + q]
    <2>1. /\ c \in Account /\ c.reserved = a.reserved + q /\ c.unbilled = a.unbilled
          /\ c.limit = a.limit /\ c.billed = a.billed /\ c.overdue = a.overdue
      BY <1>1, <1>5 DEF Account, Amounts
    <2>2. ReserveCredit(a, q) = Recalculate(c)
      BY DEF ReserveCredit
    <2> HIDE DEF c
    <2> QED
      BY <1>4, <2>1, <2>2
  <1>7. LET b == ReleaseCredit(a, q) IN
        /\ b.reserved = a.reserved - Least(a.reserved, q) /\ b.unbilled = a.unbilled
        /\ b.limit = a.limit /\ b.billed = a.billed /\ b.overdue = a.overdue
    <2> DEFINE c == [a EXCEPT !.reserved = @ - Least(@, q)]
    <2>1. /\ c \in Account /\ c.reserved = a.reserved - Least(a.reserved, q) /\ c.unbilled = a.unbilled
          /\ c.limit = a.limit /\ c.billed = a.billed /\ c.overdue = a.overdue
      BY <1>1, <1>5 DEF Account, Amounts
    <2>2. ReleaseCredit(a, q) = Recalculate(c)
      BY DEF ReleaseCredit
    <2> HIDE DEF c
    <2> QED
      BY <1>4, <2>1, <2>2
  <1>8. LET b == ApplyLedgerCredit(a, q) IN
        /\ b.reserved = a.reserved - Least(a.reserved, q) /\ b.unbilled = a.unbilled + q
        /\ b.limit = a.limit /\ b.billed = a.billed /\ b.overdue = a.overdue
    <2> DEFINE c == [a EXCEPT !.reserved = @ - Least(@, q), !.unbilled = @ + q]
    <2>1. /\ c \in Account /\ c.reserved = a.reserved - Least(a.reserved, q)
          /\ c.unbilled = a.unbilled + q
          /\ c.limit = a.limit /\ c.billed = a.billed /\ c.overdue = a.overdue
      BY <1>1, <1>5 DEF Account, Amounts
    <2>2. ApplyLedgerCredit(a, q) = Recalculate(c)
      BY DEF ApplyLedgerCredit
    <2> HIDE DEF c
    <2> QED
      BY <1>4, <2>1, <2>2
  <1>9. MayReserve(a, q, "block") => a.reserved + q + Debt(a) <= a.limit
    <2>1. MayReserve(a, q, "block") => q <= a.available
      BY <1>1 DEF MayReserve
    <2> QED
      BY <1>1, <1>2, <2>1 DEF Debt, Amounts
  <1> QED
    BY <1>1, <1>3, <1>6, <1>7, <1>8, <1>9

(* TotalsType and ClaimsCover in a form that holds of the next state too.  *)
LEMMA TotalsFacts ==
    /\ TypeOK =>
           /\ Charged \in Nat /\ Claimed \in Int /\ Overruns \in Nat
           /\ RecordedOverruns \in Nat /\ AllExpected \in Nat
    /\ TypeOK /\ SessionsSound =>
           /\ AllExpected <= Claimed + RecordedOverruns
           /\ RecordedOverruns <= Overruns
  BY TotalsType, ClaimsCover

----------------------------------------------------------------------------
(* The kinds of steps a session takes, by what they do to the amounts.     *)
(***************************************************************************)
(* A step that touches neither the account nor the session's charge.       *)
LEMMA QuietStep ==
    ASSUME CreditInv, TypeOK', NEW s \in Sessions, Beside(s),
           UNCHANGED <<account, config, configs>>,
           Charge(s)' = Charge(s), Claim(s)' = Claim(s),
           RecordedOverrun(s)' = RecordedOverrun(s),
           Overrun(s)' >= Overrun(s), Expected(s)' <= Expected(s)
    PROVE  Sums'
  <1>1. TypeOK
    BY DEF CreditInv
  <1>2. /\ Charge(s) \in Int /\ Claim(s) \in Int /\ Overrun(s) \in Int
        /\ RecordedOverrun(s) \in Int /\ Expected(s) \in Int
    BY <1>1, SharesIntegers
  <1>3. (\A t \in Sessions : Overrun(t) \in Int /\ Expected(t) \in Int)'
    <2>1. (\A t \in Sessions :
             /\ Charge(t) \in Int /\ Claim(t) \in Int /\ Overrun(t) \in Int
             /\ RecordedOverrun(t) \in Int /\ Expected(t) \in Int)'
      BY SharesIntegers, PTL
    <2> QED
      BY <2>1
  <1>4. /\ Charged \in Int /\ Claimed \in Int /\ Overruns \in Int
        /\ RecordedOverruns \in Int /\ AllExpected \in Int
    BY <1>1, TotalsFacts
  <1>5. /\ Charged' = Charged /\ Claimed' = Claimed /\ RecordedOverruns' = RecordedOverruns
        /\ Overruns' >= Overruns /\ Overruns' \in Int
        /\ AllExpected' <= AllExpected /\ AllExpected' \in Int
    BY <1>1, <1>2, <1>3, <1>4, OneSession
  <1>6. \A f \in Amounts : account[f] \in Int
    BY <1>1 DEF TypeOK, SoundAccount
  <1>7. AmountsSound => AmountsSound'
    BY <1>4, <1>5, <1>6 DEF AmountsSound, Amounts
  <1>8. LimitKept => LimitKept'
    BY <1>4, <1>5, <1>6 DEF LimitKept, Amounts
  <1> QED
    BY <1>7, <1>8 DEF CreditInv, Sums

(* Reserving: the new reservation fits what the limit leaves, and the      *)
(* reserved amount covers what the sessions, this one included, may be     *)
(* charged.                                                                *)
LEMMA ReserveStep ==
    ASSUME CreditInv, TypeOK', SessionsSound', NEW s \in Sessions, Beside(s),
           UNCHANGED <<config, configs>>, NEW q \in Nat,
           MayReserve(account, q, Policy), account' = ReserveCredit(account, q),
           Charge(s)' = Charge(s), Claim(s)' = Claim(s) + q,
           RecordedOverrun(s)' = RecordedOverrun(s), Overrun(s)' = Overrun(s)
    PROVE  Sums'
  <1>1. TypeOK
    BY DEF CreditInv
  <1>2. /\ Charge(s) \in Int /\ Claim(s) \in Int /\ Overrun(s) \in Int
        /\ RecordedOverrun(s) \in Int
    BY <1>1, SharesIntegers
  <1>3. /\ Charged \in Int /\ Claimed \in Int /\ Overruns \in Int
        /\ RecordedOverruns \in Int
    BY <1>1, TotalsFacts
  <1>4. /\ Charged' = Charged /\ Claimed' = Claimed + q /\ RecordedOverruns' = RecordedOverruns
        /\ Overruns' = Overruns
    BY <1>1, <1>2, <1>3, OneSession
  <1>5. /\ (Charged \in Nat /\ Claimed \in Int /\ Overruns \in Nat
            /\ RecordedOverruns \in Nat /\ AllExpected \in Nat)'
        /\ (AllExpected <= Claimed + RecordedOverruns /\ RecordedOverruns <= Overruns)'
    BY TotalsFacts, PTL
  <1>6. SoundAccount(account)
    BY <1>1 DEF TypeOK
  <1>7. /\ account'.reserved = account.reserved + q /\ account'.unbilled = account.unbilled
        /\ account'.limit = account.limit /\ account'.billed = account.billed
        /\ account'.overdue = account.overdue
        /\ Policy = "block" => account.reserved + q + Debt(account) <= account.limit
        /\ account.reserved \in Int /\ account.unbilled \in Int /\ account.limit \in Int
    BY <1>6, CreditColumns DEF Amounts
  <1>8. AmountsSound => AmountsSound'
    BY <1>3, <1>4, <1>5, <1>7 DEF AmountsSound
  <1>9. ASSUME AmountsSound, LimitKept PROVE LimitKept'
    <2>1. Policy = "block" => account'.reserved + account'.unbilled <= account'.limit
      BY <1>7, <1>9 DEF AmountsSound, Debt
    <2> QED
      BY <1>3, <1>4, <1>5, <1>7, <1>8, <1>9, <2>1 DEF AmountsSound, LimitKept
  <1> QED
    BY <1>8, <1>9 DEF CreditInv, Sums

(* Releasing: where the account has less reserved than the session gives   *)
(* back, the claims and recorded overruns still cover what is left.        *)
LEMMA ReleaseStep ==
    ASSUME CreditInv, TypeOK', SessionsSound', NEW s \in Sessions, Beside(s),
           UNCHANGED <<config, configs>>, NEW q \in Nat,
           account' = ReleaseCredit(account, q),
           Charge(s)' = Charge(s), Claim(s)' = Claim(s) - q,
           RecordedOverrun(s)' = RecordedOverrun(s), Overrun(s)' = Overrun(s),
           Expected(s)' <= Expected(s)
    PROVE  Sums'
  <1>1. TypeOK
    BY DEF CreditInv
  <1>2. /\ Charge(s) \in Int /\ Claim(s) \in Int /\ Overrun(s) \in Int
        /\ RecordedOverrun(s) \in Int /\ Expected(s) \in Int
    BY <1>1, SharesIntegers
  <1>3. /\ Charged \in Int /\ Claimed \in Int /\ Overruns \in Int
        /\ RecordedOverruns \in Int /\ AllExpected \in Int
    BY <1>1, TotalsFacts
  <1>4. /\ (Charged \in Nat /\ Claimed \in Int /\ Overruns \in Nat
            /\ RecordedOverruns \in Nat /\ AllExpected \in Nat)'
        /\ (AllExpected <= Claimed + RecordedOverruns /\ RecordedOverruns <= Overruns)'
    BY TotalsFacts, PTL
  <1>5. (\A t \in Sessions :
             /\ Charge(t) \in Int /\ Claim(t) \in Int /\ Overrun(t) \in Int
             /\ RecordedOverrun(t) \in Int /\ Expected(t) \in Int)'
    BY SharesIntegers, PTL
  <1>6. /\ Charged' = Charged /\ Claimed' = Claimed - q /\ RecordedOverruns' = RecordedOverruns
        /\ Overruns' = Overruns /\ AllExpected' <= AllExpected
    <2>1. AllExpected' = AllExpected + Expected(s)' - Expected(s) /\ Expected(s)' \in Int
      BY <1>1, <1>5, OneSession
    <2> QED
      BY <1>1, <1>2, <1>3, <2>1, OneSession
  <1>7. SoundAccount(account)
    BY <1>1 DEF TypeOK
  <1>8. /\ account'.reserved = account.reserved - Least(account.reserved, q)
        /\ account'.unbilled = account.unbilled
        /\ account'.limit = account.limit /\ account'.billed = account.billed
        /\ account'.overdue = account.overdue
        /\ account.reserved \in Nat /\ account.unbilled \in Int /\ account.limit \in Int
    BY <1>7, CreditColumns DEF Amounts
  <1>9. AmountsSound => AmountsSound'
    BY <1>3, <1>4, <1>6, <1>8 DEF AmountsSound, Least
  <1>10. LimitKept => LimitKept'
    BY <1>3, <1>4, <1>6, <1>8 DEF LimitKept, Least
  <1> QED
    BY <1>9, <1>10 DEF CreditInv, Sums

(* What is above a natural number is not negative.                         *)
LEMMA AboveNatural ==
    ASSUME NEW e \in Nat, NEW c \in Int, NEW r \in Nat, e <= c + r
    PROVE  0 <= c + r
  OBVIOUS

(* Recording: the charge takes the place of reserved credit, as far as     *)
(* there is any; what it takes over the session's own reservation is what  *)
(* the request overran.                                                    *)
LEMMA ChargeStep ==
    ASSUME CreditInv, TypeOK', SessionsSound', NEW s \in Sessions, Beside(s),
           UNCHANGED <<config, configs>>, NEW q \in Nat,
           account' = ApplyLedgerCredit(account, q),
           Charge(s)' = Charge(s) + q, Claim(s)' = Claim(s) - q,
           RecordedOverrun(s)' = RecordedOverrun(s) + Expected(s)' + q - Expected(s),
           RecordedOverrun(s)' >= RecordedOverrun(s), Overrun(s)' = Overrun(s)
    PROVE  Sums'
  <1>1. TypeOK
    BY DEF CreditInv
  <1>2. /\ Charge(s) \in Int /\ Claim(s) \in Int /\ Overrun(s) \in Int
        /\ RecordedOverrun(s) \in Int /\ Expected(s) \in Int
    BY <1>1, SharesIntegers
  <1>3. /\ Charged \in Int /\ Claimed \in Int /\ Overruns \in Int
        /\ RecordedOverruns \in Int /\ AllExpected \in Int
    BY <1>1, TotalsFacts
  <1>4. /\ (Charged \in Nat /\ Claimed \in Int /\ Overruns \in Nat
            /\ RecordedOverruns \in Nat /\ AllExpected \in Nat)'
        /\ (AllExpected <= Claimed + RecordedOverruns /\ RecordedOverruns <= Overruns)'
    BY TotalsFacts, PTL
  <1>5. (\A t \in Sessions :
             /\ Charge(t) \in Int /\ Claim(t) \in Int /\ Overrun(t) \in Int
             /\ RecordedOverrun(t) \in Int /\ Expected(t) \in Int)'
    BY SharesIntegers, PTL
  <1>6. /\ Charged' = Charged + q /\ Claimed' = Claimed - q /\ Overruns' = Overruns
        /\ RecordedOverruns' >= RecordedOverruns
        /\ RecordedOverruns' + AllExpected = RecordedOverruns + AllExpected' + q
    <2>1. /\ AllExpected' = AllExpected + Expected(s)' - Expected(s) /\ Expected(s)' \in Int
          /\ RecordedOverruns' = RecordedOverruns + RecordedOverrun(s)' - RecordedOverrun(s)
          /\ RecordedOverrun(s)' \in Int
      BY <1>1, <1>5, OneSession
    <2> QED
      BY <1>1, <1>2, <1>3, <2>1, OneSession
  <1>7. SoundAccount(account)
    BY <1>1 DEF TypeOK
  <1>8. /\ account'.reserved = account.reserved - Least(account.reserved, q)
        /\ account'.unbilled = account.unbilled + q
        /\ account'.limit = account.limit /\ account'.billed = account.billed
        /\ account'.overdue = account.overdue
        /\ account.reserved \in Nat /\ account.unbilled \in Int /\ account.limit \in Int
    BY <1>7, CreditColumns DEF Amounts
  <1>9. ASSUME AmountsSound PROVE AmountsSound'
    <2>1. CASE account.reserved >= q
      <3>1. account'.reserved = account.reserved - q
        BY <1>8, <2>1 DEF Least
      <3> QED
        BY <1>3, <1>4, <1>6, <1>8, <1>9, <3>1 DEF AmountsSound
    <2>2. CASE account.reserved < q
      <3>1. account'.reserved = 0
        BY <1>8, <2>2 DEF Least
      <3>2. Claimed' <= account'.reserved
        BY <1>3, <1>6, <1>8, <1>9, <2>2, <3>1 DEF AmountsSound
      <3>3. account'.reserved <= Claimed' + RecordedOverruns'
        <4>1. AllExpected' \in Nat /\ Claimed' \in Int /\ RecordedOverruns' \in Nat
          BY <1>4
        <4>2. AllExpected' <= Claimed' + RecordedOverruns'
          BY <1>4
        <4>3. 0 <= Claimed' + RecordedOverruns'
          BY <4>1, <4>2, AboveNatural
        <4> QED
          BY <3>1, <4>3
      <3>4. account'.unbilled = Charged'
        BY <1>6, <1>8, <1>9 DEF AmountsSound
      <3> QED
        BY <1>8, <1>9, <3>2, <3>3, <3>4 DEF AmountsSound
    <2> QED
      BY <1>8, <2>1, <2>2
  <1>10. ASSUME LimitKept PROVE LimitKept'
    <2>1. Policy = "block" => account'.unbilled + AllExpected' <= account'.limit + RecordedOverruns'
      BY <1>3, <1>4, <1>6, <1>8, <1>10 DEF LimitKept
    <2>2. CASE account.reserved >= q
      <3>1. account'.reserved = account.reserved - q
        BY <1>8, <2>2 DEF Least
      <3> QED
        BY <1>3, <1>4, <1>6, <1>8, <1>10, <2>1, <3>1 DEF LimitKept
    <2>3. CASE account.reserved < q
      <3>1. account'.reserved = 0
        BY <1>8, <2>3 DEF Least
      <3>2. Policy = "block" => account'.reserved + account'.unbilled <= account'.limit + Overruns'
        BY <1>4, <1>8, <2>1, <3>1
      <3> QED
        BY <2>1, <3>2 DEF LimitKept
    <2> QED
      BY <1>8, <2>2, <2>3
  <1> QED
    BY <1>9, <1>10 DEF CreditInv, Sums

----------------------------------------------------------------------------
(* A step beside which all sessions but s stay as they are keeps all of    *)
(* them sound if it keeps s sound.                                         *)
LEMMA SessionsFrame ==
    ASSUME SessionsSound, NEW s \in Sessions, Beside(s), SessionSound(s)',
           faults' = 0 => faults = 0
    PROVE  SessionsSound'
  <1> SUFFICES ASSUME NEW t \in Sessions \ {s} PROVE SessionSound(t)'
    BY DEF SessionsSound
  <1>1. /\ session'[t] = session[t]
        /\ t \in queue' <=> t \in queue
        /\ Recorded(t)' <=> Recorded(t)
    BY DEF Beside, Recorded
  <1>2. PostpaidOf(t)' = PostpaidOf(t)
    BY <1>1 DEF PostpaidOf
  <1>3. SessionSound(t)
    BY DEF SessionsSound
  <1> QED
    BY <1>1, <1>2, <1>3 DEF SessionSound

(* A request that has not been answered costs nothing yet.                 *)
LEMMA UnansweredIsFree ==
    ASSUME NEW prepaid \in Int, prepaid >= NoPrepaid
    PROVE  PostpaidQuota(0, prepaid) = 0
  BY DEF PostpaidQuota, NonNegative, NoPrepaid

(* What a session costs depends on three of its fields only.               *)
LEMMA SameCost ==
    ASSUME NEW s \in Sessions,
           session'[s].actual = session[s].actual, session'[s].prepaid = session[s].prepaid,
           session'[s].opened = session[s].opened
    PROVE  PostpaidOf(s)' = PostpaidOf(s) /\ Overrun(s)' = Overrun(s)
  <1>1. PostpaidOf(s)' = PostpaidOf(s)
    BY DEF PostpaidOf
  <1> QED
    BY <1>1 DEF Overrun

(* A step that writes one session and neither the queue nor the ledger.    *)
LEMMA OnlySession ==
    ASSUME TypeOK, NEW s \in Sessions, UNCHANGED <<queue, ledger>>,
           NEW x, session' = [session EXCEPT ![s] = x]
    PROVE  /\ session'[s] = x /\ Beside(s)
           /\ Recorded(s)' <=> Recorded(s)
  <1>1. session'[s] = x /\ \A t \in Sessions \ {s} : session'[t] = session[t]
    BY DEF TypeOK
  <1> QED
    BY <1>1 DEF Beside, Recorded

(* reservePostpaid, called once the request was answered, with either the  *)
(* cost or the first reservation as the target: it keeps the amounts,      *)
(* whichever way it ends.                                                  *)
LEMMA ReservePostpaidSums ==
    ASSUME CreditInv, TypeOK', SessionsSound', NEW s \in Sessions, NEW target \in Nat,
           NEW ok \in Posted, NEW bad \in Posted, session[s].pc \in Posted,
           ReservePostpaid(s, target, ok, bad), UNCHANGED <<queue, ledger, config, configs>>
    PROVE  Sums'
  <1>1. TypeOK
    BY DEF CreditInv
  <1>2. "serving" \notin Posted
    BY DEF Posted
  <1> DEFINE Keeps(x) == /\ x.actual = session[s].actual /\ x.prepaid = session[s].prepaid
                         /\ x.opened = session[s].opened /\ x.pc \in Posted
  <1>3. ASSUME NEW x, Keeps(x), session' = [session EXCEPT ![s] = x]
        PROVE  /\ Beside(s) /\ session'[s] = x
               /\ Charge(s)' = Charge(s) /\ RecordedOverrun(s)' = RecordedOverrun(s)
               /\ Overrun(s)' = Overrun(s) /\ Expected(s)' = Expected(s)
               /\ Claim(s)' = x.held - Charge(s)
    <2>1. /\ Beside(s) /\ session'[s] = x
          /\ Recorded(s)' <=> Recorded(s)
      BY <1>1, <1>3, OnlySession
    <2>2. PostpaidOf(s)' = PostpaidOf(s) /\ Overrun(s)' = Overrun(s)
      BY <1>3, <2>1, SameCost
    <2>3. Charge(s)' = Charge(s) /\ RecordedOverrun(s)' = RecordedOverrun(s)
      BY <2>1, <2>2 DEF Charge, RecordedOverrun
    <2>4. Expected(s)' = Expected(s)
      <3>1. session'[s].pc # "serving" /\ session[s].pc # "serving"
        BY <1>2, <1>3, <2>1
      <3>2. session'[s].opened = session[s].opened
        BY <1>3, <2>1
      <3> QED
        BY <2>1, <2>2, <3>1, <3>2 DEF Expected
    <2> QED
      BY <2>1, <2>2, <2>3, <2>4 DEF Claim
  <1>4. /\ session[s] \in SessionType /\ session[s].held \in Nat /\ Charge(s) \in Int
        /\ Expected(s) \in Int /\ Overrun(s) \in Int
    BY <1>1, SharesType DEF TypeOK, SessionType
  <1>5. CASE /\ target > session[s].held
             /\ MayReserve(account, target - session[s].held, Policy)
             /\ account' = ReserveCredit(account, target - session[s].held)
             /\ session' = [session EXCEPT ![s].held = target, ![s].pc = ok]
    <2> DEFINE x == [session[s] EXCEPT !.held = target, !.pc = ok]
    <2>1. Keeps(x) /\ x.held = target
      BY <1>4 DEF SessionType
    <2>2. session' = [session EXCEPT ![s] = x]
      BY <1>5
    <2> HIDE DEF x
    <2>3. target - session[s].held \in Nat
      BY <1>4, <1>5
    <2>4. /\ Beside(s) /\ Charge(s)' = Charge(s) /\ RecordedOverrun(s)' = RecordedOverrun(s)
          /\ Overrun(s)' = Overrun(s) /\ Claim(s)' = target - Charge(s)
      BY <1>3, <2>1, <2>2
    <2>5. Claim(s)' = Claim(s) + (target - session[s].held)
      BY <1>4, <2>4 DEF Claim
    <2> QED
      BY <1>5, <2>3, <2>4, <2>5, ReserveStep
  <1>6. CASE /\ target < session[s].held
             /\ account' = ReleaseCredit(account, session[s].held - target)
             /\ session' = [session EXCEPT ![s].held = target, ![s].pc = ok]
    <2> DEFINE x == [session[s] EXCEPT !.held = target, !.pc = ok]
    <2>1. Keeps(x) /\ x.held = target
      BY <1>4 DEF SessionType
    <2>2. session' = [session EXCEPT ![s] = x]
      BY <1>6
    <2> HIDE DEF x
    <2>3. session[s].held - target \in Nat
      BY <1>4, <1>6
    <2>4. /\ Beside(s) /\ Charge(s)' = Charge(s) /\ RecordedOverrun(s)' = RecordedOverrun(s)
          /\ Overrun(s)' = Overrun(s) /\ Claim(s)' = target - Charge(s)
          /\ Expected(s)' = Expected(s)
      BY <1>3, <2>1, <2>2
    <2>5. /\ Claim(s)' = Claim(s) - (session[s].held - target)
          /\ Expected(s)' <= Expected(s)
      BY <1>4, <2>4 DEF Claim
    <2> QED
      BY <1>6, <2>3, <2>4, <2>5, ReleaseStep
  <1>7. CASE /\ account' = account
             /\ \E pc \in {ok, bad} : session' = [session EXCEPT ![s].pc = pc]
    <2>1. PICK pc \in Posted : session' = [session EXCEPT ![s].pc = pc]
      BY <1>7
    <2> DEFINE x == [session[s] EXCEPT !.pc = pc]
    <2>2. Keeps(x) /\ x.held = session[s].held
      BY <1>4 DEF SessionType
    <2>3. session' = [session EXCEPT ![s] = x]
      BY <2>1
    <2> HIDE DEF x
    <2>4. /\ Beside(s) /\ Charge(s)' = Charge(s) /\ RecordedOverrun(s)' = RecordedOverrun(s)
          /\ Overrun(s)' = Overrun(s) /\ Claim(s)' = session[s].held - Charge(s)
          /\ Expected(s)' = Expected(s)
      BY <1>3, <2>2, <2>3
    <2>5. /\ Claim(s)' = Claim(s) /\ Expected(s)' <= Expected(s) /\ Overrun(s)' >= Overrun(s)
      BY <1>4, <2>4 DEF Claim
    <2> QED
      BY <1>7, <2>4, <2>5, QuietStep
  <1> QED
    BY <1>5, <1>6, <1>7 DEF ReservePostpaid

----------------------------------------------------------------------------
(* CreditInv holds before the first request.                               *)
LEMMA CreditInvInit == Init => CreditInv
  <1> SUFFICES ASSUME Init PROVE CreditInv
    OBVIOUS
  <1>1. TypeOK
    BY CreditInit
  <1>2. ASSUME NEW s \in Sessions
        PROVE  /\ session[s] = NewSession /\ ~Recorded(s) /\ s \notin queue
               /\ PostpaidOf(s) = 0
    <2>1. session[s] = NewSession /\ s \notin queue
      BY DEF Init
    <2>2. ~Recorded(s)
      BY DEF Init, Recorded
    <2>3. PostpaidOf(s) = 0
      BY <2>1 DEF PostpaidOf, PostpaidQuota, NewSession
    <2> QED
      BY <2>1, <2>2, <2>3
  <1>3. SessionsSound
    BY <1>2 DEF SessionsSound, SessionSound, NewSession, NoPrepaid
  <1>4. ASSUME NEW s \in Sessions
        PROVE  Charge(s) = 0 /\ Claim(s) = 0 /\ Expected(s) = 0
    BY <1>2 DEF Charge, Claim, Expected, NewSession
  <1>5. Charged = 0 /\ Claimed = 0 /\ AllExpected = 0
    <2>1. Charged = 0
      BY <1>4, TotalZero DEF Charged
    <2>2. Claimed = 0
      BY <1>4, TotalZero DEF Claimed
    <2>3. AllExpected = 0
      BY <1>4, TotalZero DEF AllExpected
    <2> QED
      BY <2>1, <2>2, <2>3
  <1>6. /\ account.unbilled = 0 /\ account.reserved = 0 /\ account.billed = 0
        /\ account.overdue = 0 /\ account.limit = Limit
        /\ ~config.writing /\ ~config.spoiled
    BY DEF Init, NewAccount, NoConfig
  <1>7. Overruns \in Nat /\ RecordedOverruns \in Nat
    BY <1>1, TotalsFacts
  <1>8. AmountsSound /\ LimitKept
    BY <1>5, <1>6, <1>7 DEF AmountsSound, LimitKept
  <1> QED
    BY <1>1, <1>3, <1>6, <1>8 DEF CreditInv, Sums

(* A step that only moves a session on, past the upstream call: the        *)
(* amounts stay sound.                                                     *)
LEMMA PcStep ==
    ASSUME CreditInv, TypeOK', NEW s \in Sessions, NEW pc, pc # "serving",
           session' = [session EXCEPT ![s].pc = pc],
           UNCHANGED <<account, queue, ledger, config, configs>>
    PROVE  /\ Beside(s) /\ Sums' /\ session'[s] = [session[s] EXCEPT !.pc = pc]
           /\ PostpaidOf(s)' = PostpaidOf(s)
           /\ Recorded(s)' <=> Recorded(s)
  <1>1. TypeOK /\ session[s] \in SessionType
    BY DEF CreditInv, TypeOK
  <1> DEFINE x == [session[s] EXCEPT !.pc = pc]
  <1>2. /\ x.pc = pc /\ x.held = session[s].held /\ x.opened = session[s].opened
        /\ x.actual = session[s].actual /\ x.prepaid = session[s].prepaid
        /\ session' = [session EXCEPT ![s] = x]
    BY <1>1 DEF SessionType
  <1> HIDE DEF x
  <1>3. /\ session'[s] = x /\ Beside(s)
        /\ Recorded(s)' <=> Recorded(s)
    BY <1>1, <1>2, OnlySession
  <1>4. PostpaidOf(s)' = PostpaidOf(s) /\ Overrun(s)' = Overrun(s)
    BY <1>2, <1>3, SameCost
  <1>5. /\ Charge(s)' = Charge(s) /\ Claim(s)' = Claim(s)
        /\ RecordedOverrun(s)' = RecordedOverrun(s)
    BY <1>2, <1>3, <1>4 DEF Charge, Claim, RecordedOverrun
  <1>6. Expected(s) \in Nat /\ Overrun(s) \in Nat /\ session[s].opened \in Nat
    BY <1>1, SharesType, SessionFields
  <1>7. Expected(s)' <= Expected(s) /\ Overrun(s)' >= Overrun(s)
    <2>1. Expected(s)' = Expected(s) \/ (Expected(s)' = 0)
      BY <1>2, <1>3, <1>4 DEF Expected
    <2> QED
      BY <1>4, <1>6, <2>1
  <1>8. Sums'
    BY <1>3, <1>4, <1>5, <1>7, QuietStep
  <1> QED
    BY <1>3, <1>4, <1>8 DEF x

(* A step that leaves the sessions alone keeps them sound and, if it keeps *)
(* the account's amounts too, leaves the sums as they are.                 *)
LEMMA AccountAlone ==
    ASSUME TypeOK, SessionsSound, UNCHANGED <<session, queue, ledger>>,
           faults' \in {faults, faults + 1}
    PROVE  /\ SessionsSound'
           /\ SameAmounts(account', account) => (AmountsSound => AmountsSound')
           /\ account' = account =>
                  (AmountsSound => AmountsSound') /\ (LimitKept => LimitKept')
  <1>1. faults \in Nat
    BY DEF TypeOK
  <1>2. faults' = 0 => faults = 0
    BY <1>1
  <1>3. SessionsSound'
    BY <1>2 DEF SessionsSound, SessionSound, PostpaidOf, Recorded
  <1>4. /\ Charged' = Charged /\ Claimed' = Claimed /\ Overruns' = Overruns
        /\ RecordedOverruns' = RecordedOverruns /\ AllExpected' = AllExpected
    BY DEF PostpaidOf, Recorded, Charged, Charge, Claimed, Claim,
           Overruns, Overrun, RecordedOverruns, RecordedOverrun, AllExpected, Expected
  <1>5. SameAmounts(account', account) => (AmountsSound => AmountsSound')
    BY <1>4 DEF SameAmounts, AmountsSound
  <1>6. account' = account => (AmountsSound => AmountsSound') /\ (LimitKept => LimitKept')
    BY <1>4 DEF AmountsSound, LimitKept
  <1> QED
    BY <1>3, <1>5, <1>6

(* CreditInv is inductive.                                                 *)
LEMMA CreditInvStep == CreditInv /\ [Next]_vars => CreditInv'
  <1> SUFFICES ASSUME CreditInv, [Next]_vars PROVE CreditInv'
    OBVIOUS
  <1>a. TypeOK /\ SessionsSound /\ TypeOK'
    BY CreditStep DEF CreditInv
  <1>b. /\ session \in [Sessions -> SessionType] /\ faults \in Nat /\ SoundAccount(account)
    BY <1>a DEF TypeOK
  <1>c. ASSUME SessionsSound', Sums' PROVE CreditInv'
    BY <1>a, <1>c DEF CreditInv, Sums
  <1>d. ASSUME NEW s \in Sessions
        PROVE  /\ session[s].held \in Nat /\ session[s].opened \in Nat
               /\ session[s].actual \in Nat /\ session[s].prepaid \in Int
               /\ session[s] \in SessionType
               /\ PostpaidOf(s) \in Nat /\ SessionSound(s)
    BY <1>a, <1>b, SessionFields DEF SessionsSound
  <1>1. ASSUME NEW s \in Sessions, NEW estimate \in Estimates, PreparePostpaid(s, estimate)
        PROVE  CreditInv'
    <2>1. /\ session[s].pc = "idle" /\ UNCHANGED <<queue, ledger, config, configs>>
          /\ faults' \in {faults, faults + 1} /\ estimate \in Nat
      BY <1>1 DEF PreparePostpaid, Fault
    <2>2. /\ ~Recorded(s) /\ s \notin queue /\ session[s].held = 0 /\ session[s].opened = 0
          /\ session[s].actual = 0 /\ PostpaidOf(s) = 0
      BY <1>d, <2>1, UnansweredIsFree DEF SessionSound, Posted, PostpaidOf
    <2>3. CASE /\ estimate = 0 \/ MayReserve(account, estimate, Policy)
               /\ account' = IF estimate = 0 THEN account ELSE ReserveCredit(account, estimate)
               /\ session' = [session EXCEPT ![s].pc = "serving", ![s].held = estimate,
                                             ![s].opened = estimate]
               /\ UNCHANGED faults
      <3> DEFINE x == [session[s] EXCEPT !.pc = "serving", !.held = estimate, !.opened = estimate]
      <3>1. /\ x.pc = "serving" /\ x.held = estimate /\ x.opened = estimate
            /\ x.actual = session[s].actual /\ x.prepaid = session[s].prepaid
            /\ session' = [session EXCEPT ![s] = x]
        BY <1>d, <2>3 DEF SessionType
      <3> HIDE DEF x
      <3>2. session'[s] = x /\ Beside(s) /\ ~Recorded(s)' /\ s \notin queue'
        BY <1>a, <2>1, <2>2, <3>1, OnlySession
      <3>3. PostpaidOf(s)' = 0
        BY <2>2, <3>1, <3>2 DEF PostpaidOf
      <3>4. SessionSound(s)'
        BY <1>d, <2>2, <3>1, <3>2 DEF SessionSound
      <3>5. SessionsSound'
        BY <1>a, <2>3, <3>2, <3>4, SessionsFrame
      <3>6. /\ Charge(s)' = 0 /\ Charge(s) = 0 /\ Claim(s)' = estimate /\ Claim(s) = 0
            /\ RecordedOverrun(s)' = 0 /\ RecordedOverrun(s) = 0
            /\ Overrun(s)' = 0 /\ Overrun(s) = 0
            /\ Expected(s)' = estimate /\ Expected(s) = 0
        BY <2>1, <2>2, <3>1, <3>2, <3>3
           DEF Charge, Claim, RecordedOverrun, Overrun, NonNegative, Expected
      <3>7. CASE estimate = 0
        BY <2>1, <2>3, <3>2, <3>6, <3>7, <1>a, <1>c, <3>5, QuietStep
      <3>8. CASE estimate # 0
        <4>1. Claim(s)' = Claim(s) + estimate
          BY <2>1, <3>6
        <4>2. /\ MayReserve(account, estimate, Policy)
              /\ account' = ReserveCredit(account, estimate)
          BY <2>3, <3>8
        <4>3. Sums'
          BY <1>a, <2>1, <3>2, <3>5, <3>6, <4>1, <4>2, ReserveStep
        <4> QED
          BY <1>c, <3>5, <4>3
      <3> QED
        BY <3>7, <3>8
    <2>4. CASE session' = [session EXCEPT ![s].pc = "rejected"] /\ UNCHANGED account
      <3> DEFINE x == [session[s] EXCEPT !.pc = "rejected"]
      <3>1. /\ x.pc = "rejected" /\ x.held = 0 /\ x.opened = 0
            /\ x.actual = session[s].actual /\ x.prepaid = session[s].prepaid
            /\ session' = [session EXCEPT ![s] = x]
        BY <1>d, <2>2, <2>4 DEF SessionType
      <3> HIDE DEF x
      <3>2. session'[s] = x /\ Beside(s) /\ ~Recorded(s)' /\ s \notin queue'
        BY <1>a, <2>1, <2>2, <3>1, OnlySession
      <3>3. PostpaidOf(s)' = 0
        BY <2>2, <3>1, <3>2 DEF PostpaidOf
      <3>4. SessionSound(s)'
        BY <1>d, <2>2, <3>1, <3>2 DEF SessionSound
      <3>5. SessionsSound'
        BY <1>a, <1>b, <2>1, <3>2, <3>4, SessionsFrame
      <3>6. /\ Charge(s)' = 0 /\ Charge(s) = 0 /\ Claim(s)' = 0 /\ Claim(s) = 0
            /\ RecordedOverrun(s)' = 0 /\ RecordedOverrun(s) = 0
            /\ Overrun(s)' = 0 /\ Overrun(s) = 0
            /\ Expected(s)' = 0 /\ Expected(s) = 0
        BY <2>1, <2>2, <3>1, <3>2, <3>3
           DEF Charge, Claim, RecordedOverrun, Overrun, NonNegative, Expected
      <3> QED
        BY <2>1, <2>4, <3>2, <3>6, <1>a, <1>c, <3>5, QuietStep
    <2> QED
      BY <1>1, <2>3, <2>4 DEF PreparePostpaid
  <1>2. ASSUME NEW s \in Sessions, NEW estimate \in Estimates, PrepareMixed(s, estimate)
        PROVE  CreditInv'
    <2>1. /\ session[s].pc = "idle" /\ UNCHANGED <<account, queue, ledger, config, bounds>>
      BY <1>2 DEF PrepareMixed
    <2>2. /\ ~Recorded(s) /\ s \notin queue /\ session[s].held = 0 /\ session[s].opened = 0
          /\ session[s].actual = 0 /\ PostpaidOf(s) = 0
      BY <1>d, <2>1, UnansweredIsFree DEF SessionSound, Posted, PostpaidOf
    <2>3. PICK prepaid \in Nat :
              session' = [session EXCEPT ![s].pc = "serving", ![s].prepaid = prepaid]
      BY <1>2, estimate \in Nat DEF PrepareMixed
    <2> DEFINE x == [session[s] EXCEPT !.pc = "serving", !.prepaid = prepaid]
    <2>4. /\ x.pc = "serving" /\ x.held = 0 /\ x.opened = 0
          /\ x.actual = 0 /\ x.prepaid = prepaid
          /\ session' = [session EXCEPT ![s] = x]
      BY <1>d, <2>2, <2>3 DEF SessionType
    <2> HIDE DEF x
    <2>5. session'[s] = x /\ Beside(s) /\ ~Recorded(s)' /\ s \notin queue'
      BY <1>a, <2>1, <2>2, <2>4, OnlySession
    <2>6. prepaid \in Int /\ prepaid >= NoPrepaid
      BY DEF NoPrepaid
    <2>7. PostpaidOf(s)' = 0
      BY <2>4, <2>5, <2>6, UnansweredIsFree DEF PostpaidOf
    <2>8. SessionSound(s)'
      BY <2>4, <2>5, <2>6 DEF SessionSound
    <2>9. SessionsSound'
      BY <1>a, <2>1, <2>5, <2>8, SessionsFrame DEF bounds
    <2>10. /\ Charge(s)' = 0 /\ Charge(s) = 0 /\ Claim(s)' = 0 /\ Claim(s) = 0
           /\ RecordedOverrun(s)' = 0 /\ RecordedOverrun(s) = 0
           /\ Overrun(s)' = 0 /\ Overrun(s) = 0
           /\ Expected(s)' = 0 /\ Expected(s) = 0
      BY <2>1, <2>2, <2>4, <2>5, <2>7
         DEF Charge, Claim, RecordedOverrun, Overrun, NonNegative, Expected
    <2>11. UNCHANGED <<account, config, configs>>
      BY <2>1 DEF bounds
    <2> QED
      BY <2>11, <2>5, <2>10, <1>a, <1>c, <2>9, QuietStep
  <1>3. ASSUME NEW s \in Sessions, Refund(s)
        PROVE  CreditInv'
    <2> DEFINE pc == IF session[s].held > 0 THEN "releasing" ELSE "refunded"
    <2>1. /\ session[s].pc = "serving" /\ session' = [session EXCEPT ![s].pc = pc]
          /\ UNCHANGED <<account, queue, ledger, config, configs>> /\ faults' = faults
      BY <1>3 DEF Refund, bounds
    <2>2. pc # "serving" /\ pc \in {"releasing", "refunded"} /\ (pc = "refunded" => session[s].held = 0)
      BY <1>d
    <2> HIDE DEF pc
    <2>3. /\ Beside(s) /\ Sums' /\ session'[s] = [session[s] EXCEPT !.pc = pc]
          /\ PostpaidOf(s)' = PostpaidOf(s)
          /\ Recorded(s)' <=> Recorded(s)
      BY <1>a, <2>1, <2>2, PcStep
    <2>4. ~Recorded(s) /\ s \notin queue
      BY <1>d, <2>1 DEF SessionSound, Posted
    <2>5. SessionSound(s)'
      BY <1>d, <2>1, <2>2, <2>3, <2>4 DEF SessionSound, SessionType
    <2>6. SessionsSound'
      BY <1>a, <2>1, <2>3, <2>5, SessionsFrame
    <2> QED
      BY <1>c, <2>3, <2>6
  <1>4. ASSUME NEW s \in Sessions, NEW actual \in Actuals, PostConsume(s, actual)
        PROVE  CreditInv'
    <2>1. /\ session[s].pc = "serving" /\ actual \in Nat
          /\ session' = [session EXCEPT ![s].pc = "posting", ![s].actual = actual]
          /\ queue' \in {queue, queue \cup {s}}
          /\ UNCHANGED <<account, ledger, config, configs>> /\ faults' = faults
      BY <1>4 DEF PostConsume, bounds
    <2>2. ~Recorded(s) /\ s \notin queue /\ session[s].actual = 0 /\ PostpaidOf(s) = 0
          /\ session[s].held = session[s].opened
      BY <1>d, <2>1, UnansweredIsFree DEF SessionSound, Posted, PostpaidOf
    <2> DEFINE x == [session[s] EXCEPT !.pc = "posting", !.actual = actual]
    <2>3. /\ x.pc = "posting" /\ x.held = session[s].held /\ x.opened = session[s].opened
          /\ x.actual = actual /\ x.prepaid = session[s].prepaid
          /\ session' = [session EXCEPT ![s] = x]
      BY <1>d, <2>1 DEF SessionType
    <2> HIDE DEF x
    <2>4. session'[s] = x /\ ~Recorded(s)' /\ Beside(s)
      <3>1. session'[s] = x /\ \A u \in Sessions \ {s} : session'[u] = session[u]
        BY <1>b, <2>3
      <3> QED
        BY <2>1, <2>2, <3>1 DEF Beside, Recorded
    <2>5. PostpaidOf(s)' \in Nat
      BY <1>d, <2>1, <2>3, <2>4 DEF PostpaidOf, PostpaidQuota, NonNegative
    <2>6. SessionSound(s)'
      <3>1. session'[s].held >= Least(session'[s].opened, PostpaidOf(s)')
        BY <1>d, <2>2, <2>3, <2>4, <2>5 DEF Least
      <3> QED
        BY <1>d, <2>2, <2>3, <2>4, <3>1 DEF SessionSound, Posted
    <2>7. SessionsSound'
      BY <1>a, <2>1, <2>4, <2>6, SessionsFrame
    <2>8. /\ Charge(s)' = Charge(s) /\ Claim(s)' = Claim(s)
          /\ RecordedOverrun(s)' = RecordedOverrun(s)
      BY <2>2, <2>3, <2>4 DEF Charge, Claim, RecordedOverrun
    <2>9. Overrun(s) = 0 /\ Overrun(s)' \in Nat
      BY <1>d, <2>2, <2>3, <2>4, <2>5 DEF Overrun, NonNegative
    <2>10. Expected(s) = session[s].opened /\ Expected(s)' <= session[s].opened
      BY <1>d, <2>1, <2>2, <2>3, <2>4, <2>5 DEF Expected, Least
    <2>11. Expected(s)' <= Expected(s) /\ Overrun(s)' >= Overrun(s)
      BY <2>9, <2>10
    <2> QED
      BY <2>1, <2>4, <2>7, <2>8, <2>11, <1>a, <1>c, QuietStep
  <1>5. ASSUME NEW s \in Sessions, Release(s)
        PROVE  CreditInv'
    <2>1. session[s].pc = "releasing" /\ UNCHANGED <<queue, ledger, config, configs>>
      BY <1>5 DEF Release
    <2>2. ~Recorded(s) /\ s \notin queue
      BY <1>d, <2>1 DEF SessionSound, Posted
    <2>3. CASE /\ account' = ReleaseCredit(account, session[s].held)
               /\ session' = [session EXCEPT ![s].pc = "refunded", ![s].held = 0]
               /\ UNCHANGED faults
      <3> DEFINE x == [session[s] EXCEPT !.pc = "refunded", !.held = 0]
      <3>1. /\ x.pc = "refunded" /\ x.held = 0 /\ x.opened = session[s].opened
            /\ x.actual = session[s].actual /\ x.prepaid = session[s].prepaid
            /\ session' = [session EXCEPT ![s] = x]
        BY <1>d, <2>3 DEF SessionType
      <3> HIDE DEF x
      <3>2. session'[s] = x /\ Beside(s) /\ ~Recorded(s)' /\ s \notin queue'
        BY <1>a, <2>1, <2>2, <3>1, OnlySession
      <3>3. Overrun(s)' = Overrun(s)
        BY <3>1, <3>2, SameCost
      <3>4. SessionSound(s)'
        BY <1>d, <3>1, <3>2 DEF SessionSound
      <3>5. SessionsSound'
        BY <1>a, <2>3, <3>2, <3>4, SessionsFrame
      <3>6. /\ Charge(s)' = Charge(s) /\ Claim(s)' = Claim(s) - session[s].held
            /\ RecordedOverrun(s)' = RecordedOverrun(s)
            /\ Expected(s)' <= Expected(s)
        BY <1>d, <2>1, <2>2, <3>1, <3>2 DEF Charge, Claim, RecordedOverrun, Expected
      <3>7. session[s].held \in Nat
        BY <1>d
      <3>8. Sums'
        BY <1>a, <2>1, <2>3, <3>2, <3>3, <3>5, <3>6, <3>7, ReleaseStep
      <3> QED
        BY <1>c, <3>5, <3>8
    <2>4. CASE /\ session' = [session EXCEPT ![s].pc = "refunded"]
               /\ Fault /\ UNCHANGED account
      <3>1. /\ Beside(s) /\ Sums' /\ session'[s] = [session[s] EXCEPT !.pc = "refunded"]
            /\ PostpaidOf(s)' = PostpaidOf(s)
            /\ Recorded(s)' <=> Recorded(s)
        BY <1>a, <2>1, <2>4, PcStep
      <3>2. faults' = faults + 1
        BY <2>4 DEF Fault
      <3>3. SessionSound(s)'
        BY <1>b, <1>d, <2>1, <2>2, <3>1, <3>2 DEF SessionSound, SessionType
      <3>4. SessionsSound'
        BY <1>a, <1>b, <3>1, <3>2, <3>3, SessionsFrame
      <3> QED
        BY <1>c, <3>1, <3>4
    <2> QED
      BY <1>5, <2>3, <2>4 DEF Release
  <1>6. ASSUME NEW s \in Sessions, SettlePostpaid(s)
        PROVE  CreditInv'
    <2> DEFINE ok == IF session[s].prepaid = NoPrepaid THEN "settled" ELSE "settling"
    <2>1. /\ session[s].pc = "posting" /\ UNCHANGED <<queue, ledger, config, configs>>
          /\ ReservePostpaid(s, PostpaidOf(s), ok, "unsettled")
      BY <1>6 DEF SettlePostpaid
    <2>2. ok \in {"settled", "settling"}
      OBVIOUS
    <2> HIDE DEF ok
    <2>3. ok \in Posted /\ "unsettled" \in Posted /\ session[s].pc \in Posted
      BY <2>1, <2>2 DEF Posted
    <2>4. PICK x : /\ session' = [session EXCEPT ![s] = x]
                   /\ x.prepaid = session[s].prepaid /\ x.actual = session[s].actual
                   /\ x.opened = session[s].opened
                   /\ \/ x.held = PostpaidOf(s) /\ x.pc = ok
                      \/ x.held = session[s].held /\ x.pc = "unsettled"
      <3>1. session' = [session EXCEPT ![s].held = PostpaidOf(s), ![s].pc = ok]
                \/ (PostpaidOf(s) = session[s].held /\ session' = [session EXCEPT ![s].pc = ok])
                \/ session' = [session EXCEPT ![s].pc = "unsettled"]
        BY <2>1 DEF ReservePostpaid
      <3>2. CASE session' = [session EXCEPT ![s].held = PostpaidOf(s), ![s].pc = ok]
        <4> WITNESS [session[s] EXCEPT !.held = PostpaidOf(s), !.pc = ok]
        <4> QED BY <1>d, <3>2 DEF SessionType
      <3>3. CASE PostpaidOf(s) = session[s].held /\ session' = [session EXCEPT ![s].pc = ok]
        <4> WITNESS [session[s] EXCEPT !.pc = ok]
        <4> QED BY <1>d, <3>3 DEF SessionType
      <3>4. CASE session' = [session EXCEPT ![s].pc = "unsettled"]
        <4> WITNESS [session[s] EXCEPT !.pc = "unsettled"]
        <4> QED BY <1>d, <3>4 DEF SessionType
      <3> QED
        BY <3>1, <3>2, <3>3, <3>4
    <2>5. /\ session'[s] = x /\ Beside(s)
          /\ Recorded(s)' <=> Recorded(s)
      BY <1>a, <2>1, <2>4, OnlySession
    <2>6. PostpaidOf(s)' = PostpaidOf(s)
      BY <2>4, <2>5, SameCost
    <2>7. SessionSound(s)'
      <3>1. x.held >= Least(x.opened, PostpaidOf(s))
        BY <1>d, <2>1, <2>4 DEF SessionSound, Least
      <3> QED
        BY <1>d, <2>1, <2>2, <2>3, <2>4, <2>5, <2>6, <3>1 DEF SessionSound
    <2>8. faults' = 0 => faults = 0
      BY <1>b, <2>1 DEF ReservePostpaid, Fault
    <2>9. SessionsSound'
      BY <1>a, <2>5, <2>7, <2>8, SessionsFrame
    <2>10. Sums'
      BY <1>a, <1>d, <2>1, <2>3, <2>9, ReservePostpaidSums
    <2> QED
      BY <1>c, <2>9, <2>10
  <1>7. ASSUME NEW s \in Sessions, SettlePrepaid(s)
        PROVE  CreditInv'
    <2>1. /\ session[s].pc = "settling" /\ UNCHANGED <<account, queue, ledger, config, configs>>
          /\ faults' \in {faults, faults + 1}
      BY <1>7 DEF SettlePrepaid, Fault
    <2>2. PICK pc \in {"settled", "rollback"} : session' = [session EXCEPT ![s].pc = pc]
      BY <1>7 DEF SettlePrepaid
    <2>3. /\ Beside(s) /\ Sums' /\ session'[s] = [session[s] EXCEPT !.pc = pc]
          /\ PostpaidOf(s)' = PostpaidOf(s)
          /\ Recorded(s)' <=> Recorded(s)
      BY <1>a, <2>1, <2>2, pc # "serving", PcStep
    <2>4. SessionSound(s)'
      BY <1>d, <2>1, <2>2, <2>3 DEF SessionSound, SessionType, Posted
    <2>5. SessionsSound'
      BY <1>a, <1>b, <2>1, <2>3, <2>4, SessionsFrame
    <2> QED
      BY <1>c, <2>3, <2>5
  <1>8. ASSUME NEW s \in Sessions, RollbackPostpaid(s)
        PROVE  CreditInv'
    <2>1. /\ session[s].pc = "rollback" /\ UNCHANGED <<queue, ledger, config, configs>>
          /\ ReservePostpaid(s, session[s].opened, "unsettled", "unsettled")
      BY <1>8 DEF RollbackPostpaid
    <2>2. "unsettled" \in Posted /\ session[s].pc \in Posted
      BY <2>1 DEF Posted
    <2>3. PICK x : /\ session' = [session EXCEPT ![s] = x]
                   /\ x.prepaid = session[s].prepaid /\ x.actual = session[s].actual
                   /\ x.opened = session[s].opened /\ x.pc = "unsettled"
                   /\ x.held \in {session[s].held, session[s].opened}
      <3>1. session' = [session EXCEPT ![s].held = session[s].opened, ![s].pc = "unsettled"]
                \/ session' = [session EXCEPT ![s].pc = "unsettled"]
        BY <2>1 DEF ReservePostpaid
      <3>2. CASE session' = [session EXCEPT ![s].held = session[s].opened, ![s].pc = "unsettled"]
        <4> WITNESS [session[s] EXCEPT !.held = session[s].opened, !.pc = "unsettled"]
        <4> QED BY <1>d, <3>2 DEF SessionType
      <3>3. CASE session' = [session EXCEPT ![s].pc = "unsettled"]
        <4> WITNESS [session[s] EXCEPT !.pc = "unsettled"]
        <4> QED BY <1>d, <3>3 DEF SessionType
      <3> QED
        BY <3>1, <3>2, <3>3
    <2>4. /\ session'[s] = x /\ Beside(s)
          /\ Recorded(s)' <=> Recorded(s)
      BY <1>a, <2>1, <2>3, OnlySession
    <2>5. PostpaidOf(s)' = PostpaidOf(s)
      BY <2>3, <2>4, SameCost
    <2>6. SessionSound(s)'
      BY <1>d, <2>1, <2>2, <2>3, <2>4, <2>5 DEF SessionSound, Least
    <2>7. faults' = 0 => faults = 0
      BY <1>b, <2>1 DEF ReservePostpaid, Fault
    <2>8. SessionsSound'
      BY <1>a, <2>4, <2>6, <2>7, SessionsFrame
    <2>9. Sums'
      BY <1>a, <1>d, <2>1, <2>2, <2>8, ReservePostpaidSums
    <2> QED
      BY <1>c, <2>8, <2>9
  <1>9. ASSUME NEW s \in Sessions, RecordUsage(s)
        PROVE  CreditInv'
    <2>1. /\ s \in queue /\ queue' = queue \ {s} /\ session' = session
          /\ UNCHANGED <<config, configs>> /\ faults' = faults
      BY <1>9 DEF RecordUsage, bounds
    <2>2. /\ session[s].pc \in Posted /\ session[s].held >= Least(session[s].opened, PostpaidOf(s))
          /\ session[s].pc # "serving"
      BY <1>d, <2>1 DEF SessionSound, Posted
    <2>3. PostpaidOf(s)' = PostpaidOf(s) /\ Overrun(s)' = Overrun(s)
      BY <2>1, SameCost
    <2>4. SessionSound(s)'
      BY <1>d, <2>1, <2>2, <2>3 DEF SessionSound
    <2>5. Overrun(s) \in Nat /\ Expected(s) \in Nat /\ Charge(s) \in Nat
      BY <1>a, SharesType
    <2>6. CASE ledger[RequestOf[s]] = NoSession
      <3>1. /\ ledger' = [ledger EXCEPT ![RequestOf[s]] = s]
            /\ account' = IF PostpaidOf(s) > 0 THEN ApplyLedgerCredit(account, PostpaidOf(s))
                          ELSE account
        BY <1>9, <2>6 DEF RecordUsage
      <3>2. ledger \in [Requests -> Sessions \cup {NoSession}] /\ RequestOf \in [Sessions -> Requests]
        BY <1>a DEF TypeOK
      <3>3. ~Recorded(s) /\ Recorded(s)'
        BY <2>6, <3>1, <3>2 DEF Recorded
      <3>4. Beside(s)
        <4> SUFFICES ASSUME NEW u \in Sessions \ {s}
                     PROVE  ledger'[RequestOf[u]] = u <=> ledger[RequestOf[u]] = u
          BY <2>1 DEF Beside
        <4>1. CASE RequestOf[u] = RequestOf[s]
          BY <2>6, <3>1, <3>2, <4>1
        <4>2. CASE RequestOf[u] # RequestOf[s]
          BY <3>1, <3>2, <4>2
        <4> QED
          BY <4>1, <4>2
      <3>5. SessionsSound'
        BY <1>a, <2>1, <2>4, <3>4, SessionsFrame
      <3>6. /\ Charge(s) = 0 /\ Charge(s)' = PostpaidOf(s)
            /\ RecordedOverrun(s) = 0 /\ RecordedOverrun(s)' = Overrun(s)
            /\ Expected(s) = Least(session[s].opened, PostpaidOf(s)) /\ Expected(s)' = 0
            /\ Claim(s) = session[s].held /\ Claim(s)' = session[s].held - PostpaidOf(s)
        BY <1>d, <2>1, <2>3, <3>3 DEF Charge, RecordedOverrun, Expected, Claim
      <3>7. Overrun(s) = PostpaidOf(s) - Least(session[s].opened, PostpaidOf(s))
        BY <1>d DEF Overrun, NonNegative, Least
      <3>8. CASE PostpaidOf(s) > 0
        <4>1. account' = ApplyLedgerCredit(account, PostpaidOf(s)) /\ PostpaidOf(s) \in Nat
          BY <1>d, <3>1, <3>8
        <4>2. /\ Charge(s)' = Charge(s) + PostpaidOf(s) /\ Claim(s)' = Claim(s) - PostpaidOf(s)
              /\ RecordedOverrun(s)' = RecordedOverrun(s) + Expected(s)' + PostpaidOf(s) - Expected(s)
              /\ RecordedOverrun(s)' >= RecordedOverrun(s)
          BY <1>d, <2>5, <3>6, <3>7
        <4>3. Sums'
          BY <1>a, <2>1, <2>3, <3>4, <3>5, <4>1, <4>2, ChargeStep
        <4> QED
          BY <1>c, <3>5, <4>3
      <3>9. CASE PostpaidOf(s) = 0
        <4>1. account' = account
          BY <3>1, <3>9
        <4>2. /\ Charge(s)' = Charge(s) /\ Claim(s)' = Claim(s)
              /\ RecordedOverrun(s)' = RecordedOverrun(s)
              /\ Overrun(s)' >= Overrun(s) /\ Expected(s)' <= Expected(s)
          BY <1>d, <2>3, <2>5, <3>6, <3>7, <3>9 DEF Least
        <4>3. Sums'
          BY <1>a, <2>1, <3>4, <4>1, <4>2, QuietStep
        <4> QED
          BY <1>c, <3>5, <4>3
      <3> QED
        BY <1>d, <3>8, <3>9
    <2>7. CASE ledger[RequestOf[s]] # NoSession
      <3>1. UNCHANGED <<ledger, account>>
        BY <1>9, <2>7 DEF RecordUsage
      <3>2. Beside(s)
        BY <2>1, <3>1 DEF Beside
      <3>3. Recorded(s)' <=> Recorded(s)
        BY <3>1 DEF Recorded
      <3>4. SessionsSound'
        BY <1>a, <2>1, <2>4, <3>2, SessionsFrame
      <3>5. /\ Charge(s)' = Charge(s) /\ Claim(s)' = Claim(s)
            /\ RecordedOverrun(s)' = RecordedOverrun(s)
        BY <2>1, <2>3, <3>3 DEF Charge, Claim, RecordedOverrun
      <3>6. Expected(s)' = 0
        BY <2>1, <2>2 DEF Expected
      <3>7. Expected(s)' <= Expected(s) /\ Overrun(s)' >= Overrun(s)
        BY <2>3, <2>5, <3>6
      <3>8. Sums'
        BY <1>a, <2>1, <3>1, <3>2, <3>5, <3>7, QuietStep
      <3> QED
        BY <1>c, <3>4, <3>8
    <2> QED
      BY <2>6, <2>7
  <1>10. ASSUME NEW s \in Sessions, Crash(s)
         PROVE  CreditInv'
    <2>1. /\ session' = [session EXCEPT ![s].pc = "lost"] /\ faults' = faults
          /\ UNCHANGED <<account, queue, ledger, config, configs>>
      BY <1>10 DEF Crash
    <2>2. /\ Beside(s) /\ Sums' /\ session'[s] = [session[s] EXCEPT !.pc = "lost"]
          /\ PostpaidOf(s)' = PostpaidOf(s)
          /\ Recorded(s)' <=> Recorded(s)
      BY <1>a, <2>1, PcStep
    <2>3. SessionSound(s)'
      BY <1>d, <2>1, <2>2 DEF SessionSound, SessionType, Posted
    <2>4. SessionsSound'
      BY <1>a, <2>1, <2>2, <2>3, SessionsFrame
    <2> QED
      BY <1>c, <2>2, <2>4
  <1>11. ASSUME NEW limit \in NewLimits, ReadAccount(limit)
         PROVE  CreditInv'
    <2>1. /\ configs' = configs + 1 /\ UNCHANGED <<account, session, queue, ledger>>
          /\ faults' \in {faults, faults + 1} /\ config'.spoiled = config.spoiled
      BY <1>11, <1>a DEF ReadAccount, Fault, TypeOK
    <2>2. SessionsSound' /\ (AmountsSound => AmountsSound')
      BY <1>a, <1>b, <2>1, AccountAlone
    <2>3. configs' # 0
      BY <1>a, <2>1 DEF TypeOK
    <2>4. Sums'
      BY <2>1, <2>2, <2>3 DEF CreditInv, Sums
    <2> QED
      BY <1>c, <2>2, <2>4
  <1>12. ASSUME UpsertCreditAccount
         PROVE  CreditInv'
    <2>1. /\ config.writing /\ UNCHANGED <<session, queue, ledger, configs>>
          /\ faults' \in {faults, faults + 1}
      BY <1>12 DEF UpsertCreditAccount, Fault
    <2>2. \/ account' = account /\ config'.spoiled = config.spoiled
          \/ config'.spoiled
          \/ SameAmounts(account', account) /\ ~config.spoiled
      BY <1>12 DEF UpsertCreditAccount, NoConfig
    <2>3. SessionsSound' /\ (SameAmounts(account', account) => (AmountsSound => AmountsSound'))
      BY <1>a, <1>b, <2>1, AccountAlone
    <2>4. configs # 0
      BY <2>1 DEF CreditInv, Sums
    <2>5. Sums'
      BY <2>1, <2>2, <2>3, <2>4 DEF CreditInv, Sums, SameAmounts
    <2> QED
      BY <1>c, <2>3, <2>5
  <1>13. CASE UNCHANGED vars
    <2>1. UNCHANGED <<account, session, queue, ledger, config, faults, configs>>
      BY <1>13 DEF vars
    <2>2. SessionsSound' /\ (AmountsSound => AmountsSound') /\ (LimitKept => LimitKept')
      BY <1>a, <1>b, <2>1, AccountAlone DEF SameAmounts
    <2>3. Sums'
      BY <2>1, <2>2 DEF CreditInv, Sums
    <2> QED
      BY <1>c, <2>2, <2>3
  <1> QED
    BY <1>1, <1>2, <1>3, <1>4, <1>5, <1>6, <1>7, <1>8, <1>9, <1>10, <1>11, <1>12, <1>13 DEF Next

----------------------------------------------------------------------------
(* CreditInv holds throughout.                                             *)
LEMMA CreditInvariant == Spec => []CreditInv
  BY CreditInvInit, CreditInvStep, PTL DEF Spec

(* For any number of requests and any order of their steps, the unbilled   *)
(* amount of the account is the postpaid part of the ledger until a        *)
(* configuration change writes back amounts that are no longer the         *)
(* account's.                                                              *)
THEOREM UnbilledMatchesLedger == Spec => []UnbilledIsLedger
  <1>1. CreditInv => UnbilledIsLedger
    BY DEF CreditInv, Sums, AmountsSound, UnbilledIsLedger
  <1> QED
    BY <1>1, CreditInvariant, PTL

(* As long as no request costs more than its estimate, sessions never take *)
(* each other's reservations, although the account keeps only their sum.   *)
THEOREM ReservedMatchesHeld == Spec => []ReservedIsHeld
  <1>1. CreditInv => ReservedIsHeld
    <2> SUFFICES ASSUME CreditInv, ~config.spoiled, \A s \in Sessions : Overrun(s) = 0
                 PROVE  account.reserved = Claimed
      BY DEF ReservedIsHeld
    <2>1. \A s \in Sessions : [u \in Sessions |-> RecordedOverrun(u)][s] = 0
      BY DEF RecordedOverrun
    <2>2. RecordedOverruns = 0
      BY <2>1, TotalZero DEF RecordedOverruns
    <2>3. Claimed \in Int /\ account.reserved \in Int
      BY TotalsFacts DEF CreditInv, TypeOK, SoundAccount, Amounts
    <2> QED
      BY <2>2, <2>3 DEF CreditInv, Sums, AmountsSound
  <1> QED
    BY <1>1, CreditInvariant, PTL

(* The block policy holds for any number of concurrent requests: the       *)
(* tenant's debt passes its limit by no more than requests overran what    *)
(* was reserved for them up front.                                         *)
THEOREM OverrunBounded == Spec => []CreditOverrunBounded
  <1>1. CreditInv => CreditOverrunBounded
    <2> SUFFICES ASSUME CreditInv, Policy = "block", configs = 0
                 PROVE  account.reserved + Debt(account) <= account.limit + Overruns
      BY DEF CreditOverrunBounded
    <2>1. account.unbilled \in Int
      BY DEF CreditInv, TypeOK, SoundAccount, Amounts
    <2>2. Debt(account) = account.unbilled
      BY <2>1 DEF CreditInv, Sums, AmountsSound, Debt
    <2> QED
      BY <2>2 DEF CreditInv, Sums, LimitKept
  <1> QED
    BY <1>1, CreditInvariant, PTL

(* When all requests of an undisturbed run are through, no more is left    *)
(* reserved than requests overran their estimates.                         *)
THEOREM LeftoversBounded == Spec => []LeftoverBounded
  <1>1. CreditInv => LeftoverBounded
    <2> SUFFICES ASSUME CreditInv, Undisturbed, AllRecorded, \A s \in Sessions : Finished(s)
                 PROVE  account.reserved <= Overruns
      BY DEF LeftoverBounded
    <2>0. TypeOK /\ SessionsSound
      BY DEF CreditInv
    <2>1. ASSUME NEW s \in Sessions PROVE Claim(s) = 0
      <3>1. /\ session[s].pc \in {"idle", "rejected", "settled", "refunded"} /\ s \notin queue
            /\ SessionSound(s) /\ faults = 0
            /\ session[s].actual > 0 => Recorded(s)
        BY <2>0 DEF Finished, Undisturbed, AllRecorded, SessionsSound
      <3>2. /\ session[s].held \in Nat /\ session[s].actual \in Nat
            /\ session[s].prepaid \in Int /\ PostpaidOf(s) \in Nat
        BY <2>0, SessionFields
      <3>3. CASE session[s].pc # "settled"
        <4>1. session[s].held = 0 /\ ~Recorded(s)
          BY <3>1, <3>3 DEF SessionSound, Posted
        <4> QED
          BY <4>1 DEF Claim, Charge
      <3>4. CASE session[s].pc = "settled" /\ Recorded(s)
        <4>1. session[s].held = PostpaidOf(s)
          BY <3>1, <3>4 DEF SessionSound
        <4> QED
          BY <3>2, <3>4, <4>1 DEF Claim, Charge
      <3>5. CASE session[s].pc = "settled" /\ ~Recorded(s)
        <4>1. session[s].actual = 0
          BY <3>1, <3>2, <3>5
        <4>2. PostpaidOf(s) = 0
          BY <3>1, <3>2, <4>1, UnansweredIsFree DEF PostpaidOf, SessionSound
        <4>3. session[s].held = 0
          BY <3>1, <3>5, <4>2 DEF SessionSound
        <4> QED
          BY <3>5, <4>3 DEF Claim, Charge
      <3> QED
        BY <3>3, <3>4, <3>5
    <2>2. \A s \in Sessions : [u \in Sessions |-> Claim(u)][s] = 0
      BY <2>1
    <2>3. Claimed = 0
      BY <2>2, TotalZero DEF Claimed
    <2>4. RecordedOverruns \in Nat /\ RecordedOverruns <= Overruns /\ Overruns \in Nat
      BY <2>0, TotalsFacts
    <2>5. account.reserved <= RecordedOverruns /\ account.reserved \in Int
      BY <2>0, <2>3, <2>4 DEF CreditInv, Sums, Undisturbed, AmountsSound, TypeOK, SoundAccount, Amounts
    <2> QED
      BY <2>4, <2>5
  <1> QED
    BY <1>1, CreditInvariant, PTL
=============================================================================
