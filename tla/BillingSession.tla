--------------------------- MODULE BillingSession ---------------------------
(***************************************************************************)
(* Pre-consume, settle and refund of one user's quota by concurrent relay  *)
(* requests: service/billing_session.go over service/funding_source.go,    *)
(* service/quota.go and the statements of model/user.go, model/token.go    *)
(* and model/subscription.go they issue.  The user has a wallet, an API    *)
(* token and one subscription.  A session is used by one goroutine, its    *)
(* refund by another; the three balances are shared by all sessions and    *)
(* every statement on them is a step of its own.  A transaction on the     *)
(* subscription reads the row and saves it later: it asks for the row's    *)
(* lock by tx.Set("gorm:query_option", "FOR UPDATE"), which gorm v2        *)
(* ignores, so others may save the row in between.                         *)
(***************************************************************************)
EXTENDS Integers, FiniteSets, Totals

CONSTANTS
    Sessions,      \* relay requests of the user, each with its own request id
    Preferences,   \* billing preferences the user may have set
    Wallet,        \* user quota at the start
    Token,         \* remain_quota of the token at the start
    Unlimited,     \* does the token have unlimited quota?
    AmountTotal,   \* amount_total of the subscription
    Overflow,      \* allow_wallet_overflow of the subscription
    Trust,         \* GetTrustQuota; 0 disables the bypass
    Estimates,     \* quotas to pre-consume
    Actuals,       \* quotas the responses turn out to cost
    MaxAttempts,   \* attempts of refundWithRetry
    MaxFaults,     \* bound: statements that fail
    MaxCrashes,    \* bound: goroutines that die
    MaxResets      \* bound: periodic resets of the subscription

ASSUME SessionAssumption ==
    /\ IsFiniteSet(Sessions) /\ Sessions # {}
    /\ Preferences \subseteq {"subscription_only", "subscription_first", "wallet_only", "wallet_first"}
    /\ Wallet \in Nat /\ Token \in Nat /\ AmountTotal \in Nat \ {0}
    /\ Unlimited \in BOOLEAN /\ Overflow \in BOOLEAN
    /\ Trust \in Nat
    /\ Estimates \subseteq Nat /\ Actuals \subseteq Nat
    /\ MaxAttempts \in Nat \ {0}
    /\ MaxFaults \in Nat /\ MaxCrashes \in Nat /\ MaxResets \in Nat

VARIABLES
    wallet,      \* users.quota
    token,       \* tokens.remain_quota
    sub,         \* the row of user_subscriptions: active, used; has an update been lost?
    seen,        \* per session: the amount_used its transaction has read, or Unread
    refunded,    \* sessions whose pre-consume record says refunded
    session,     \* BillingSession and the goroutine that uses it
    faults, crashes, resets

vars == <<wallet, token, sub, seen, refunded, session, faults, crashes, resets>>
bounds == <<faults, crashes, resets>>
balances == <<wallet, token, sub, seen, refunded>>

Unread == -1

Ended == {"rejected", "settled", "unsettled", "refunded", "lost"}
PC == {"idle", "wallet", "token", "decrease", "funding", "undo", "serving", "settling",
       "settleToken", "refunding", "recording", "refundToken"} \cup Ended

Sources == {"wallet", "subscription"}

\* estimate: preConsumedQuota of NewBillingSession; quota: effectiveQuota;
\* mayTrust: shouldTrust's conditions on request and token; fallback: may the
\* other source be tried; short: the source had too little; pre: the session's
\* preConsumedQuota; attempt: of refundWithRetry.
NewSession ==
    [pc |-> "idle", source |-> "wallet", estimate |-> 0, quota |-> 0,
     mayTrust |-> FALSE, fallback |-> FALSE, short |-> FALSE, pre |-> 0,
     tokenConsumed |-> 0, actual |-> 0, attempt |-> 0]

TypeOK ==
    /\ wallet \in Int
    /\ token \in Int
    /\ sub \in [active : BOOLEAN, used : 0..AmountTotal, lost : BOOLEAN]
    /\ seen \in [Sessions -> Unread..AmountTotal]
    /\ refunded \subseteq Sessions
    /\ session \in [Sessions ->
          [pc : PC, source : Sources, estimate : Nat, quota : Nat, mayTrust : BOOLEAN,
           fallback : BOOLEAN, short : BOOLEAN, pre : Nat, tokenConsumed : Nat, actual : Nat,
           attempt : 0..MaxAttempts]]
    /\ faults \in 0..MaxFaults /\ crashes \in 0..MaxCrashes /\ resets \in 0..MaxResets

Init ==
    /\ wallet = Wallet
    /\ token = Token
    /\ sub \in [active : BOOLEAN, used : {0}, lost : {FALSE}]
    /\ seen = [s \in Sessions |-> Unread]
    /\ refunded = {}
    /\ session = [s \in Sessions |-> NewSession]
    /\ faults = 0 /\ crashes = 0 /\ resets = 0

----------------------------------------------------------------------------
Fault ==
    /\ faults < MaxFaults
    /\ faults' = faults + 1

At(s, pc) == session[s].pc = pc
Goto(s, pc) == session' = [session EXCEPT ![s].pc = pc]

\* tryWallet starts by reading the wallet, trySubscription goes to the token;
\* a subscription pre-consumes at least 1.
Try(s, source, estimate) ==
    [session[s] EXCEPT !.pc = IF source = "wallet" THEN "wallet" ELSE "token",
                       !.source = source,
                       !.estimate = estimate,
                       !.quota = IF source = "subscription" /\ estimate = 0 THEN 1 ELSE estimate,
                       !.short = FALSE]

\* NewBillingSession: the preference picks the first source and whether the
\* other one may follow.  The token quota shouldTrust looks at was read when
\* the request was authenticated; requests for asynchronous tasks force the
\* pre-consume and are never trusted.
Begin(s, estimate, preference, force) ==
    /\ At(s, "idle")
    /\ LET first == IF \/ preference = "subscription_only"
                       \/ preference = "subscription_first" /\ sub.active
                    THEN "subscription" ELSE "wallet"
           second == \/ preference = "wallet_first"
                     \/ preference = "subscription_first" /\ first = "subscription"
       IN  session' = [session EXCEPT ![s] =
                          [Try(s, first, estimate) EXCEPT !.fallback = second,
                                                       !.mayTrust = ~force /\ (Unlimited \/ token > Trust)]]
    /\ UNCHANGED <<balances, bounds>>

\* The source refused for lack of quota: the other one is tried or the request
\* is turned away.  From subscription to wallet only if no active subscription
\* forbids it.
Refused(s) ==
    LET other == IF session[s].source = "wallet" THEN "subscription" ELSE "wallet"
        mayFallBack == session[s].fallback /\ (other = "wallet" => ~sub.active \/ Overflow)
    IN  IF mayFallBack THEN [Try(s, other, session[s].estimate) EXCEPT !.fallback = FALSE]
        ELSE [session[s] EXCEPT !.pc = "rejected"]

\* Mutated ReadWallet: the balance is only compared with zero.
ReadWalletPositive(s) ==
    /\ At(s, "wallet")
    /\ IF wallet > 0
       THEN session' = [session EXCEPT ![s].pc = "token"]
       ELSE session' = [session EXCEPT ![s] = Refused(s)]
    /\ UNCHANGED <<balances, bounds>>

\* tryWallet: GetUserQuota, the two checks and shouldTrust.
ReadWallet(s) ==
    LET quota == session[s].quota
        trusted == Trust > 0 /\ session[s].mayTrust /\ wallet > Trust
    IN
    /\ At(s, "wallet")
    /\ IF wallet <= 0 \/ wallet < quota
       THEN session' = [session EXCEPT ![s] = Refused(s)]
       ELSE session' = [session EXCEPT ![s].quota = IF trusted THEN 0 ELSE quota,
                                       ![s].pc = IF trusted \/ quota = 0 THEN "funding" ELSE "token"]
    /\ UNCHANGED <<balances, bounds>>

----------------------------------------------------------------------------
(* preConsume: the token first, then the source; a refusal of the source   *)
(* gives the token its quota back.                                         *)
(***************************************************************************)
\* PreConsumeTokenQuota reads the token ...
ReadToken(s) ==
    /\ At(s, "token")
    /\ Goto(s, IF Unlimited \/ token >= session[s].quota THEN "decrease" ELSE "rejected")
    /\ UNCHANGED <<balances, bounds>>

\* ... and decreases it by a statement of its own.
DecreaseToken(s) ==
    /\ At(s, "decrease")
    /\ \/ /\ token' = token - session[s].quota
          /\ session' = [session EXCEPT ![s].tokenConsumed = session[s].quota, ![s].pc = "funding"]
          /\ UNCHANGED faults
       \/ Fault /\ Goto(s, "rejected") /\ UNCHANGED token
    /\ UNCHANGED <<wallet, sub, seen, refunded, crashes, resets>>

Serving(s) == [session[s] EXCEPT !.pc = "serving", !.pre = session[s].quota]

\* WalletFunding.PreConsume: the balance read before is not looked at again.
PreConsumeWallet(s) ==
    /\ At(s, "funding") /\ session[s].source = "wallet"
    /\ \/ /\ wallet' = wallet - session[s].quota
          /\ session' = [session EXCEPT ![s] = Serving(s)]
          /\ UNCHANGED faults
       \/ Fault /\ session[s].quota > 0 /\ Goto(s, "undo") /\ UNCHANGED wallet
    /\ UNCHANGED <<token, sub, seen, refunded, crashes, resets>>

\* The transactions of PreConsumeUserSubscription, of PostConsumeUserSubscriptionDelta
\* to settle and of the same to refund begin by reading the row; the first reads
\* active rows only, the last follows a record that is not refunded yet.
ReadSubscription(s) ==
    /\ session[s].pc \in {"funding", "settling", "refunding"}
    /\ session[s].source = "subscription" /\ seen[s] = Unread
    /\ At(s, "funding") => sub.active
    /\ At(s, "refunding") => s \notin refunded
    /\ seen' = [seen EXCEPT ![s] = sub.used]
    /\ UNCHANGED <<wallet, token, sub, refunded, session, bounds>>

\* ... and end by saving it, whatever it has become.
SaveUsed(s, used) ==
    sub' = [sub EXCEPT !.used = used, !.lost = @ \/ sub.used # seen[s]]

EndTransaction(s) == seen' = [seen EXCEPT ![s] = Unread]

\* Mutated: the remaining amount is not compared with the request.
PreConsumeSubscriptionAny(s) ==
    /\ At(s, "funding") /\ session[s].source = "subscription"
    /\ seen[s] # Unread
    /\ SaveUsed(s, seen[s] + session[s].quota)
    /\ session' = [session EXCEPT ![s] = Serving(s)]
    /\ EndTransaction(s)
    /\ UNCHANGED <<wallet, token, refunded, bounds>>

\* PreConsumeUserSubscription.  No active row and too little left are refusals,
\* and so is a failure to look for the rows; other failures are errors.
PreConsumeSubscription(s) ==
    LET begun == seen[s] # Unread
        enough == begun /\ AmountTotal - seen[s] >= session[s].quota
    IN
    /\ At(s, "funding") /\ session[s].source = "subscription"
    /\ \/ /\ enough
          /\ SaveUsed(s, seen[s] + session[s].quota)
          /\ session' = [session EXCEPT ![s] = Serving(s)]
          /\ UNCHANGED faults
       \/ /\ ~enough /\ (begun \/ ~sub.active)
          /\ session' = [session EXCEPT ![s].pc = "undo", ![s].short = TRUE]
          /\ UNCHANGED <<sub, faults>>
       \/ /\ Fault
          /\ \E short \in {FALSE, ~begun} :
                session' = [session EXCEPT ![s].pc = "undo", ![s].short = short]
          /\ UNCHANGED sub
    /\ EndTransaction(s)
    /\ UNCHANGED <<wallet, token, refunded, crashes, resets>>

AfterUndo(s) ==
    [(IF session[s].short THEN Refused(s) ELSE [session[s] EXCEPT !.pc = "rejected"])
        EXCEPT !.tokenConsumed = 0]

\* Mutated UndoToken: the token's quota is not given back.
UndoTokenForgotten(s) ==
    /\ At(s, "undo")
    /\ session' = [session EXCEPT ![s] = AfterUndo(s)]
    /\ UNCHANGED <<balances, bounds>>

UndoToken(s) ==
    /\ At(s, "undo")
    /\ \/ token' = token + session[s].tokenConsumed /\ UNCHANGED faults
       \/ Fault /\ UNCHANGED token
    /\ session' = [session EXCEPT ![s] = AfterUndo(s)]
    /\ UNCHANGED <<wallet, sub, seen, refunded, crashes, resets>>

----------------------------------------------------------------------------
(* Settle.                                                                 *)
(***************************************************************************)
PostConsume(s, actual) ==
    /\ At(s, "serving")
    /\ session' = [session EXCEPT ![s].actual = actual,
                                  ![s].pc = IF actual = session[s].pre THEN "settled" ELSE "settling"]
    /\ UNCHANGED <<balances, bounds>>

Delta(s) == session[s].actual - session[s].pre

\* PostConsumeUserSubscriptionDelta, on the row that was pre-consumed from.
Charged(used, delta) == IF used + delta < 0 THEN 0 ELSE used + delta
Chargeable(used, delta) == Charged(used, delta) <= AmountTotal

\* The source; an error leaves the session unsettled and is only logged.
SettleFunding(s) ==
    /\ At(s, "settling")
    /\ \/ /\ session[s].source = "wallet"
          /\ wallet' = wallet - Delta(s)
          /\ Goto(s, "settleToken")
          /\ UNCHANGED <<sub, faults>>
       \/ /\ session[s].source = "subscription" /\ seen[s] # Unread
          /\ Chargeable(seen[s], Delta(s))
          /\ SaveUsed(s, Charged(seen[s], Delta(s)))
          /\ Goto(s, "settleToken")
          /\ UNCHANGED <<wallet, faults>>
       \/ /\ session[s].source = "subscription" /\ seen[s] # Unread
          /\ ~Chargeable(seen[s], Delta(s))
          /\ Goto(s, "unsettled")
          /\ UNCHANGED <<wallet, sub, faults>>
       \/ Fault /\ Goto(s, "unsettled") /\ UNCHANGED <<wallet, sub>>
    /\ EndTransaction(s)
    /\ UNCHANGED <<token, refunded, crashes, resets>>

\* The token; settled whether or not its statement fails.
SettleToken(s) ==
    /\ At(s, "settleToken")
    /\ \/ token' = token - Delta(s) /\ UNCHANGED faults
       \/ Fault /\ UNCHANGED token
    /\ Goto(s, "settled")
    /\ UNCHANGED <<wallet, sub, seen, refunded, crashes, resets>>

----------------------------------------------------------------------------
(* Refund, in a goroutine of its own.                                      *)
(***************************************************************************)
NeedsRefund(s) == session[s].tokenConsumed > 0 \/ session[s].source = "subscription"

Refund(s) ==
    /\ At(s, "serving")
    /\ Goto(s, IF NeedsRefund(s) THEN "refunding" ELSE "refunded")
    /\ UNCHANGED <<balances, bounds>>

\* Mutated: a failed refund of the wallet is tried again, also when it was
\* only its answer that was lost.
RefundWalletRetried(s) ==
    /\ At(s, "refunding") /\ session[s].source = "wallet"
    /\ wallet' = wallet + session[s].pre
    /\ \/ Goto(s, "refundToken") /\ UNCHANGED faults
       \/ Fault /\ UNCHANGED session
    /\ UNCHANGED <<token, sub, seen, refunded, crashes, resets>>

\* WalletFunding.Refund: tried once.
RefundWallet(s) ==
    /\ At(s, "refunding") /\ session[s].source = "wallet"
    /\ \/ wallet' = wallet + session[s].pre /\ UNCHANGED faults
       \/ Fault /\ UNCHANGED wallet
    /\ Goto(s, "refundToken")
    /\ UNCHANGED <<token, sub, seen, refunded, crashes, resets>>

\* The next attempt of refundWithRetry, or the end of it.
Retry(s) ==
    IF session[s].attempt + 1 < MaxAttempts
    THEN session' = [session EXCEPT ![s].attempt = @ + 1, ![s].pc = "refunding"]
    ELSE Goto(s, "refundToken")

\* RefundSubscriptionPreConsume: the record is read; the quota is given back
\* by PostConsumeUserSubscriptionDelta, which opens a transaction of its own
\* on the same database and commits it ...
RefundSubscription(s) ==
    /\ At(s, "refunding") /\ session[s].source = "subscription"
    /\ \/ /\ s \in refunded
          /\ Goto(s, "refundToken")
          /\ UNCHANGED <<sub, faults>>
       \/ /\ seen[s] # Unread
          /\ SaveUsed(s, Charged(seen[s], -session[s].pre))
          /\ Goto(s, "recording")
          /\ UNCHANGED faults
       \/ /\ Fault
          /\ Retry(s)
          /\ UNCHANGED sub
    /\ EndTransaction(s)
    /\ UNCHANGED <<wallet, token, refunded, crashes, resets>>

\* ... and only then the record is saved as refunded and the outer one commits.
SaveRefunded(s) ==
    /\ At(s, "recording")
    /\ \/ /\ refunded' = refunded \cup {s}
          /\ Goto(s, "refundToken")
          /\ UNCHANGED faults
       \/ /\ Fault
          /\ Retry(s)
          /\ UNCHANGED refunded
    /\ UNCHANGED <<wallet, token, sub, seen, crashes, resets>>

RefundToken(s) ==
    /\ At(s, "refundToken")
    /\ \/ token' = token + session[s].tokenConsumed /\ UNCHANGED faults
       \/ Fault /\ UNCHANGED token
    /\ Goto(s, "refunded")
    /\ UNCHANGED <<wallet, sub, seen, refunded, crashes, resets>>

----------------------------------------------------------------------------
\* ResetDueSubscriptions and maybeResetUserSubscriptionWithPlanTx: the amount is
\* 0 afterwards whatever it was.
ResetSubscription ==
    /\ resets < MaxResets
    /\ resets' = resets + 1
    /\ sub' = [sub EXCEPT !.used = 0]
    /\ UNCHANGED <<wallet, token, seen, refunded, session, faults, crashes>>

\* end_time passes.
Expire ==
    /\ sub.active
    /\ sub' = [sub EXCEPT !.active = FALSE]
    /\ UNCHANGED <<wallet, token, seen, refunded, session, bounds>>

Crash(s) ==
    /\ crashes < MaxCrashes
    /\ crashes' = crashes + 1
    /\ session[s].pc \notin Ended \cup {"idle"}
    /\ Goto(s, "lost")
    /\ EndTransaction(s)
    /\ UNCHANGED <<wallet, token, sub, refunded, faults, resets>>

Next ==
    \/ \E s \in Sessions :
        \/ \E estimate \in Estimates, preference \in Preferences, force \in BOOLEAN :
              Begin(s, estimate, preference, force)
        \/ ReadWallet(s) \/ ReadToken(s) \/ DecreaseToken(s)
        \/ PreConsumeWallet(s) \/ ReadSubscription(s) \/ PreConsumeSubscription(s) \/ UndoToken(s)
        \/ \E actual \in Actuals : PostConsume(s, actual)
        \/ SettleFunding(s) \/ SettleToken(s)
        \/ Refund(s) \/ RefundWallet(s) \/ RefundSubscription(s) \/ SaveRefunded(s) \/ RefundToken(s)
        \/ Crash(s)
    \/ ResetSubscription
    \/ Expire

Spec == Init /\ [][Next]_vars

----------------------------------------------------------------------------
AtRest == \A s \in Sessions : session[s].pc \in Ended \cup {"idle"}

\* What a session that has ended costs the user.
Cost(s) == CASE session[s].pc = "settled" -> session[s].actual
             [] session[s].pc = "unsettled" -> session[s].pre
             [] OTHER -> 0

CostBy(source) ==
    Total([s \in Sessions |-> IF session[s].source = source THEN Cost(s) ELSE 0], Sessions)

(* When every request has ended and nothing failed, died or was reset,     *)
(* wallet and token have each lost exactly what the requests cost: no      *)
(* fallback, rollback or interleaving takes or returns twice.  So has the  *)
(* subscription, unless one of its transactions saved the row over a       *)
(* change it had not read.                                                 *)
QuotaConserved ==
    AtRest /\ faults = 0 /\ crashes = 0 /\ resets = 0 =>
        /\ wallet = Wallet - CostBy("wallet")
        /\ sub.lost \/ sub.used = CostBy("subscription")
        /\ token = Token - CostBy("wallet") - CostBy("subscription")

(* Failures and deaths may cost the user quota but never create it: no     *)
(* refund or settlement of the wallet is applied twice.                    *)
WalletNeverCreditedTwice == AtRest => wallet <= Wallet - CostBy("wallet")

(* Nor is a subscription that was not reset, and lost no update, given back *)
(* more than was taken from it, however often its refund is retried.       *)
SubscriptionRefundIdempotent ==
    AtRest /\ resets = 0 /\ ~sub.lost => sub.used >= CostBy("subscription")

(* The wallet is read in one statement and taken from in another, so       *)
(* concurrent sessions can overdraw it: by what all but one of them        *)
(* pre-consumed and by what responses cost beyond that, never by more.     *)
WalletQuota(s) ==
    IF session[s].source = "wallet" /\ session[s].pc \notin {"wallet", "rejected"}
    THEN session[s].quota ELSE 0
Overrun(s) == IF session[s].source = "wallet" /\ Delta(s) > 0 THEN Delta(s) ELSE 0
WalletQuotasBut(last) == Total([s \in Sessions |-> IF s = last THEN 0 ELSE WalletQuota(s)], Sessions)
Overruns == Total([s \in Sessions |-> Overrun(s)], Sessions)
OverdraftBounded == \E last \in Sessions : wallet + WalletQuotasBut(last) + Overruns >= 0
============================================================================
