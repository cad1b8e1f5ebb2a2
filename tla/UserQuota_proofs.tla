-------------------------- MODULE UserQuota_proofs --------------------------
(***************************************************************************)
(* Proofs about a user's quota: what billing sessions take from it and     *)
(* give back (BillingSession), and how a change reaches the row and the    *)
(* cache (QuotaUpdater, in the second part).                               *)
(*                                                                         *)
(* BillingSession, for any finite set of sessions, any quotas and any      *)
(* number of failures, crashes and resets.  Every position in the code has *)
(* a claim on each of the three balances; a balance is what it was at the  *)
(* start minus the sum of the claims, and each step moves one balance by   *)
(* as much as it changes the claim of its session.                         *)
(***************************************************************************)
EXTENDS BillingSession, QuotaUpdater, TotalTheorems, TLAPS

Record ==
    [pc : PC, source : Sources, estimate : Nat, quota : Nat, mayTrust : BOOLEAN,
     fallback : BOOLEAN, short : BOOLEAN, pre : Nat, tokenConsumed : Nat, actual : Nat,
     attempt : 0..MaxAttempts]

SubRow == [active : BOOLEAN, used : 0..AmountTotal, lost : BOOLEAN]
Reads == [Sessions -> Unread..AmountTotal]

Before == {"idle", "wallet", "token", "decrease", "funding", "undo", "rejected"}
Taken == {"serving", "settling", "unsettled", "refunding"}
TokenTaken == {"funding", "undo", "serving", "settling", "settleToken", "unsettled",
               "refunding", "recording", "refundToken"}

\* What a session at p has taken from its source, and from the token.
Held(p) == IF p.pc \in Taken THEN p.pre
           ELSE IF p.pc \in {"settleToken", "settled"} THEN p.actual ELSE 0
Due(p, source) == IF p.source = source THEN Held(p) ELSE 0
TokenDue(p) == IF p.pc \in TokenTaken THEN p.tokenConsumed
               ELSE IF p.pc = "settled" THEN p.actual ELSE 0

\* The part of the overdraft a session accounts for: its quota and its overrun
\* once they are taken, less what it is still going to take.  The session
\* whose read of the wallet succeeded last accounts for no quota.
Beyond(p) == IF p.source = "wallet" /\ p.actual > p.pre THEN p.actual - p.pre ELSE 0
Asked(p) == IF p.source = "wallet" /\ p.pc \notin {"wallet", "rejected", "undo"} THEN p.quota ELSE 0
Pending(p) == IF p.source # "wallet" THEN 0
              ELSE IF p.pc \in {"token", "decrease", "funding"} THEN p.quota
              ELSE IF p.pc = "settling" THEN Beyond(p) ELSE 0
Slack(p) == Asked(p) + Beyond(p) - Pending(p)
LastSlack(p) == Beyond(p) - Pending(p)

\* What the position of a session says about its amounts.
RecordSound(p) ==
    /\ p.pc \in {"idle", "wallet", "token", "decrease"} => p.tokenConsumed = 0
    /\ p.pc = "idle" => p.quota = 0
    /\ p.pc \in {"funding", "undo"} => p.tokenConsumed = p.quota
    /\ p.pc \in Before => p.pre = 0 /\ p.actual = 0
    /\ p.pc \notin Before \cup {"lost"} => p.pre = p.tokenConsumed
    /\ p.pc = "serving" => p.actual = 0
    /\ p.pc = "recording" => p.source = "subscription"

Clean == faults = 0 /\ crashes = 0

Dues(source) == Total([s \in Sessions |-> Due(session[s], source)], Sessions)
TokenDues == Total([s \in Sessions |-> TokenDue(session[s])], Sessions)
SlackBut(last) ==
    Total([s \in Sessions |-> IF s = last THEN LastSlack(session[s]) ELSE Slack(session[s])], Sessions)

RecordsSound == \A s \in Sessions : RecordSound(session[s])
RefundedSound == \A s \in refunded : session[s].pc \in {"refundToken", "refunded", "lost"}
WalletSound ==
    /\ wallet <= Wallet - Dues("wallet")
    /\ Clean => wallet = Wallet - Dues("wallet")
TokenSound == Clean => token = Token - TokenDues
SubSound == Clean /\ resets = 0 /\ ~sub.lost => sub.used = Dues("subscription")
SlackSound == \E last \in Sessions : wallet + SlackBut(last) >= 0

\* The inductive invariant.
SessionInv ==
    TypeOK /\ RecordsSound /\ RefundedSound /\ WalletSound /\ TokenSound /\ SubSound /\ SlackSound

----------------------------------------------------------------------------
(* The claims are integers, and none but that of the last session on the   *)
(* overdraft is negative.                                                  *)
LEMMA ClaimTypes ==
    ASSUME NEW p \in Record
    PROVE  /\ Held(p) \in Nat
           /\ \A source : Due(p, source) \in Nat
           /\ TokenDue(p) \in Nat
           /\ Beyond(p) \in Nat /\ Asked(p) \in Nat /\ Pending(p) \in Nat
           /\ Slack(p) \in Nat /\ LastSlack(p) \in Int
  <1>1. p.pre \in Nat /\ p.actual \in Nat /\ p.tokenConsumed \in Nat /\ p.quota \in Nat
    BY DEF Record
  <1>2. Held(p) \in Nat
    BY <1>1 DEF Held
  <1>3. \A source : Due(p, source) \in Nat
    BY <1>2 DEF Due
  <1>4. TokenDue(p) \in Nat
    BY <1>1 DEF TokenDue
  <1>5. Beyond(p) \in Nat
    BY <1>1 DEF Beyond
  <1>6. Asked(p) \in Nat /\ Pending(p) \in Nat
    BY <1>1, <1>5 DEF Asked, Pending
  <1>7. Pending(p) <= Asked(p) + Beyond(p)
    BY <1>1, <1>5, <1>6 DEF Asked, Pending
  <1> QED
    BY <1>2, <1>3, <1>4, <1>5, <1>6, <1>7 DEF Slack, LastSlack

\* What a step of session s to q does: it moves each balance by the change of
\* the claim on it.  A failure may cost the wallet something.
Moves(s, q) ==
    /\ session' = [session EXCEPT ![s] = q]
    /\ q \in Record /\ RecordSound(q)
    /\ wallet' + Due(q, "wallet") <= wallet + Due(session[s], "wallet")
    /\ sub.lost => sub'.lost
    /\ Clean' => /\ Clean
                 /\ wallet' + Due(q, "wallet") = wallet + Due(session[s], "wallet")
                 /\ token' + TokenDue(q) = token + TokenDue(session[s])
                 /\ resets' = resets
                 /\ \/ sub'.used + Due(session[s], "subscription") = sub.used + Due(q, "subscription")
                    \/ sub.used < Due(session[s], "subscription")
                    \/ sub'.lost
    /\ \/ /\ wallet' + Slack(q) >= wallet + Slack(session[s])
          /\ wallet' + LastSlack(q) >= wallet + LastSlack(session[s])
       \/ wallet' + LastSlack(q) >= 0

\* The rest of the state stays in its types, and a refund is on record only
\* once the session is past it.
Fits(s, q) ==
    /\ wallet' \in Int /\ token' \in Int
    /\ sub' \in SubRow /\ seen' \in Reads
    /\ refunded' \subseteq refunded \cup {s}
    /\ s \in refunded' => q.pc \in {"refundToken", "refunded", "lost"}
    /\ faults' \in 0..MaxFaults /\ crashes' \in 0..MaxCrashes /\ resets' \in 0..MaxResets

\* The constants.
LEMMA SessionsAssumed == IsFiniteSet(Sessions) /\ Sessions # {}
  BY SessionAssumption

\* TypeOK in the form the sums need.
LEMMA RecordOf == ASSUME TypeOK PROVE session \in [Sessions -> Record]
  BY DEF TypeOK, Record

(* One session changes: so do the sums.                                    *)
LEMMA SumsMove ==
    ASSUME session \in [Sessions -> Record], NEW s \in Sessions, NEW q \in Record,
           session' = [session EXCEPT ![s] = q]
    PROVE  /\ session' \in [Sessions -> Record]
           /\ \A source : /\ Dues(source) \in Nat
                          /\ Due(session[s], source) <= Dues(source)
                          /\ Dues(source)' = Dues(source) + Due(q, source) - Due(session[s], source)
           /\ TokenDues \in Nat
           /\ TokenDues' = TokenDues + TokenDue(q) - TokenDue(session[s])
  <1>0. session'[s] = q /\ \A x \in Sessions \ {s} : session'[x] = session[x]
    OBVIOUS
  <1>1. session' \in [Sessions -> Record]
    OBVIOUS
  <1>2. ASSUME NEW source
        PROVE  /\ Dues(source) \in Nat
               /\ Due(session[s], source) <= Dues(source)
               /\ Dues(source)' = Dues(source) + Due(q, source) - Due(session[s], source)
    <2> DEFINE f == [x \in Sessions |-> Due(session[x], source)]
               g == [x \in Sessions |-> Due(session'[x], source)]
    <2>1. \A x \in Sessions : f[x] \in Nat /\ f[x] \in Int
      BY ClaimTypes
    <2>2. g[s] \in Int /\ g[s] = Due(q, source) /\ f[s] = Due(session[s], source)
      BY <1>0, ClaimTypes
    <2>3. \A x \in Sessions \ {s} : g[x] = f[x]
      BY <1>0
    <2>4. Dues(source) = Total(f, Sessions) /\ Dues(source)' = Total(g, Sessions)
      BY DEF Dues
    <2> HIDE DEF f, g
    <2>5. Total(g, Sessions) = Total(f, Sessions) + g[s] - f[s]
      BY <2>1, <2>2, <2>3, TotalChange, SessionsAssumed
    <2>6. f[s] <= Total(f, Sessions) /\ Total(f, Sessions) \in Nat
      BY <2>1, TotalAtLeast, TotalNat, SessionsAssumed
    <2> QED
      BY <2>2, <2>4, <2>5, <2>6
  <1>3. TokenDues \in Nat /\ TokenDues' = TokenDues + TokenDue(q) - TokenDue(session[s])
    <2> DEFINE f == [x \in Sessions |-> TokenDue(session[x])]
               g == [x \in Sessions |-> TokenDue(session'[x])]
    <2>1. \A x \in Sessions : f[x] \in Nat /\ f[x] \in Int
      BY ClaimTypes
    <2>2. g[s] \in Int /\ g[s] = TokenDue(q) /\ f[s] = TokenDue(session[s])
      BY <1>0, ClaimTypes
    <2>3. \A x \in Sessions \ {s} : g[x] = f[x]
      BY <1>0
    <2>4. TokenDues = Total(f, Sessions) /\ TokenDues' = Total(g, Sessions)
      BY DEF TokenDues
    <2> HIDE DEF f, g
    <2>5. Total(g, Sessions) = Total(f, Sessions) + g[s] - f[s]
      BY <2>1, <2>2, <2>3, TotalChange, SessionsAssumed
    <2>6. Total(f, Sessions) \in Nat
      BY <2>1, TotalNat, SessionsAssumed
    <2> QED
      BY <2>2, <2>4, <2>5, <2>6
  <1> QED
    BY <1>1, <1>2, <1>3

(* A step that moves a balance by the change of the claim on it keeps the  *)
(* balances equal to what is left after the claims.                        *)
LEMMA MoveBalances ==
    ASSUME SessionInv, NEW s \in Sessions, NEW q, Moves(s, q), TypeOK'
    PROVE  WalletSound' /\ TokenSound' /\ SubSound'
  <1>0. session \in [Sessions -> Record] /\ q \in Record /\ session[s] \in Record
    BY RecordOf DEF SessionInv, Moves
  <1>1. session' = [session EXCEPT ![s] = q]
    BY DEF Moves
  <1>2. /\ \A source : /\ Dues(source) \in Nat
                       /\ Due(session[s], source) <= Dues(source)
                       /\ Dues(source)' = Dues(source) + Due(q, source) - Due(session[s], source)
        /\ TokenDues \in Nat
        /\ TokenDues' = TokenDues + TokenDue(q) - TokenDue(session[s])
    BY <1>0, <1>1, SumsMove
  <1>a. /\ Dues("wallet") \in Int
        /\ Dues("wallet")' = Dues("wallet") + Due(q, "wallet") - Due(session[s], "wallet")
    BY <1>2
  <1>b. /\ Dues("subscription") \in Int
        /\ Due(session[s], "subscription") <= Dues("subscription")
        /\ Dues("subscription")' =
              Dues("subscription") + Due(q, "subscription") - Due(session[s], "subscription")
    BY <1>2
  <1>3. /\ wallet \in Int /\ token \in Int /\ sub.used \in Int
        /\ wallet' \in Int /\ token' \in Int /\ sub'.used \in Int
        /\ Wallet \in Int /\ Token \in Int
    BY SessionAssumption DEF SessionInv, TypeOK
  <1>4. /\ Due(q, "wallet") \in Int /\ Due(session[s], "wallet") \in Int
        /\ Due(q, "subscription") \in Int /\ Due(session[s], "subscription") \in Int
        /\ TokenDue(q) \in Int /\ TokenDue(session[s]) \in Int
    BY <1>0, ClaimTypes
  <1>5. wallet' <= Wallet - Dues("wallet")'
    BY <1>2, <1>3, <1>4 DEF SessionInv, WalletSound, Moves
  <1>6. ASSUME Clean' PROVE wallet' = Wallet - Dues("wallet")' /\ token' = Token - TokenDues'
    <2>1. /\ Clean
          /\ wallet' + Due(q, "wallet") = wallet + Due(session[s], "wallet")
          /\ token' + TokenDue(q) = token + TokenDue(session[s])
      BY <1>6 DEF Moves
    <2>2. wallet = Wallet - Dues("wallet") /\ token = Token - TokenDues
      BY <2>1 DEF SessionInv, WalletSound, TokenSound
    <2>3. wallet' = Wallet - Dues("wallet")'
      BY <1>a, <1>3, <1>4, <2>1, <2>2
    <2>4. token' = Token - TokenDues'
      BY <1>2, <1>3, <1>4, <2>1, <2>2
    <2> QED
      BY <2>3, <2>4
  <1>7. ASSUME Clean', resets' = 0, ~sub'.lost PROVE sub'.used = Dues("subscription")'
    <2>1. /\ Clean /\ resets = 0 /\ ~sub.lost
          /\ \/ sub'.used + Due(session[s], "subscription") = sub.used + Due(q, "subscription")
             \/ sub.used < Due(session[s], "subscription")
      BY <1>7 DEF Moves
    <2>2. sub.used = Dues("subscription")
      BY <2>1 DEF SessionInv, SubSound
    <2>3. ~(sub.used < Due(session[s], "subscription"))
      BY <1>b, <1>3, <1>4, <2>2
    <2>4. sub'.used + Due(session[s], "subscription") = sub.used + Due(q, "subscription")
      BY <2>1, <2>3
    <2> QED
      BY <1>b, <1>3, <1>4, <2>2, <2>4
  <1>8. WalletSound'
    BY <1>5, <1>6 DEF WalletSound
  <1> QED
    BY <1>6, <1>7, <1>8 DEF TokenSound, SubSound

(* Either the step leaves the slack of the last session's bound, or it is  *)
(* itself the successful read of the wallet that makes its session last.   *)
LEMMA MoveSlack ==
    ASSUME SessionInv, NEW s \in Sessions, NEW q, Moves(s, q), TypeOK'
    PROVE  SlackSound'
  <1>0. session \in [Sessions -> Record] /\ q \in Record /\ session[s] \in Record
    BY RecordOf DEF SessionInv, Moves
  <1>1. session' = [session EXCEPT ![s] = q]
    BY DEF Moves
  <1>2. session'[s] = q /\ \A x \in Sessions \ {s} : session'[x] = session[x]
    BY <1>0, <1>1
  <1>3. wallet \in Int /\ wallet' \in Int
    BY DEF SessionInv, TypeOK
  <1>4. /\ Slack(q) \in Nat /\ LastSlack(q) \in Int
        /\ \A x \in Sessions : Slack(session[x]) \in Nat /\ LastSlack(session[x]) \in Int
    BY <1>0, ClaimTypes
  <1>5. CASE /\ wallet' + Slack(q) >= wallet + Slack(session[s])
             /\ wallet' + LastSlack(q) >= wallet + LastSlack(session[s])
    <2>1. PICK last \in Sessions : wallet + SlackBut(last) >= 0
      BY DEF SessionInv, SlackSound
    <2> DEFINE f == [x \in Sessions |-> IF x = last THEN LastSlack(session[x]) ELSE Slack(session[x])]
               g == [x \in Sessions |-> IF x = last THEN LastSlack(session'[x]) ELSE Slack(session'[x])]
    <2>2. \A x \in Sessions : f[x] \in Int
      BY <1>4
    <2>3. /\ g[s] = IF s = last THEN LastSlack(q) ELSE Slack(q)
          /\ f[s] = IF s = last THEN LastSlack(session[s]) ELSE Slack(session[s])
          /\ g[s] \in Int
      BY <1>2, <1>4
    <2>4. \A x \in Sessions \ {s} : g[x] = f[x]
      BY <1>2
    <2>5. SlackBut(last) = Total(f, Sessions) /\ Total(g, Sessions) = SlackBut(last)'
      BY DEF SlackBut
    <2> HIDE DEF f, g
    <2>6. Total(g, Sessions) = Total(f, Sessions) + g[s] - f[s] /\ Total(f, Sessions) \in Int
      BY <2>2, <2>3, <2>4, TotalChange, TotalType, SessionsAssumed
    <2>7. wallet' + g[s] >= wallet + f[s]
      BY <1>5, <2>3
    <2>8. f[s] \in Int
      BY <2>2
    <2>9. wallet' + SlackBut(last)' >= 0
      BY <1>3, <2>1, <2>3, <2>5, <2>6, <2>7, <2>8
    <2> QED
      BY <2>9 DEF SlackSound
  <1>6. CASE wallet' + LastSlack(q) >= 0
    <2> DEFINE g == [x \in Sessions |-> IF x = s THEN LastSlack(session'[x]) ELSE Slack(session'[x])]
               h == [x \in Sessions |-> IF x = s THEN LastSlack(q) ELSE 0]
    <2>1. \A x \in Sessions : h[x] \in Int /\ g[x] \in Int /\ h[x] <= g[x]
      BY <1>2, <1>4
    <2>2. h[s] = LastSlack(q) /\ \A x \in Sessions \ {s} : h[x] = 0
      OBVIOUS
    <2>3. Total(g, Sessions) = SlackBut(s)'
      BY DEF SlackBut
    <2> HIDE DEF g, h
    <2>4. Total(h, Sessions) = h[s]
      BY <1>4, <2>2, TotalSingle, SessionsAssumed
    <2>5. Total(h, Sessions) <= Total(g, Sessions) /\ Total(g, Sessions) \in Int
      BY <2>1, TotalLeq, TotalType, SessionsAssumed
    <2>6. wallet' + SlackBut(s)' >= 0
      BY <1>3, <1>4, <1>6, <2>2, <2>3, <2>4, <2>5
    <2> QED
      BY <2>6 DEF SlackSound
  <1> QED
    BY <1>5, <1>6 DEF Moves

----------------------------------------------------------------------------
(* A record with another position differs in nothing else.                 *)
LEMMA Elsewhere ==
    ASSUME NEW p \in Record, NEW pc \in PC, NEW q, q = [p EXCEPT !.pc = pc]
    PROVE  /\ q \in Record /\ q.pc = pc
           /\ q.source = p.source /\ q.quota = p.quota /\ q.pre = p.pre
           /\ q.tokenConsumed = p.tokenConsumed /\ q.actual = p.actual
  BY DEF Record

(* What the invariant says about one session.                              *)
LEMMA Facts ==
    ASSUME SessionInv, NEW s \in Sessions
    PROVE  /\ session \in [Sessions -> Record] /\ session[s] \in Record
           /\ session[s].pc \in PC /\ session[s].source \in Sources
           /\ session[s].pre \in Nat /\ session[s].actual \in Nat
           /\ session[s].tokenConsumed \in Nat /\ session[s].quota \in Nat
           /\ RecordSound(session[s])
           /\ wallet \in Int /\ token \in Int
           /\ sub \in SubRow /\ sub.used \in 0..AmountTotal
           /\ seen \in Reads /\ seen[s] \in Unread..AmountTotal
           /\ faults \in 0..MaxFaults /\ crashes \in 0..MaxCrashes /\ resets \in 0..MaxResets
           /\ s \in refunded => session[s].pc \in {"refundToken", "refunded", "lost"}
           /\ AmountTotal \in Nat /\ MaxFaults \in Nat /\ MaxCrashes \in Nat /\ MaxResets \in Nat
  <1>1. session \in [Sessions -> Record] /\ session[s] \in Record
    BY RecordOf DEF SessionInv
  <1>2. /\ session[s].pc \in PC /\ session[s].source \in Sources
        /\ session[s].pre \in Nat /\ session[s].actual \in Nat
        /\ session[s].tokenConsumed \in Nat /\ session[s].quota \in Nat
    BY <1>1 DEF Record
  <1> QED
    BY <1>1, <1>2, SessionAssumption DEF SessionInv, TypeOK, RecordsSound, RefundedSound, SubRow, Reads

(* A step that only moves a session on, where its claims are the same.     *)
LEMMA GotoMoves ==
    ASSUME SessionInv, NEW s \in Sessions, NEW pc \in PC, NEW q,
           q = [session[s] EXCEPT !.pc = pc], Goto(s, pc)
    PROVE  /\ session' = [session EXCEPT ![s] = q]
           /\ q \in Record /\ q.pc = pc
           /\ q.source = session[s].source /\ q.quota = session[s].quota /\ q.pre = session[s].pre
           /\ q.tokenConsumed = session[s].tokenConsumed /\ q.actual = session[s].actual
  BY Facts, Elsewhere DEF Goto

\* The claims of q are those of session s, except that it may ask for less.
SameClaims(s, q) ==
    /\ Due(q, "wallet") = Due(session[s], "wallet")
    /\ Due(q, "subscription") = Due(session[s], "subscription")
    /\ TokenDue(q) = TokenDue(session[s])

MoreSlack(s, q) == Slack(q) >= Slack(session[s]) /\ LastSlack(q) >= LastSlack(session[s])

\* A step that moves no balance, and changes no claim; it may read the subscription.
LEMMA ReadMoves ==
    ASSUME SessionInv, NEW s \in Sessions, NEW q \in Record, RecordSound(q),
           session' = [session EXCEPT ![s] = q], UNCHANGED <<wallet, token, sub, refunded, bounds>>, seen' \in Reads,
           session[s].pc \notin {"refundToken", "refunded", "lost"},
           SameClaims(s, q), MoreSlack(s, q) \/ wallet + LastSlack(q) >= 0
    PROVE  Moves(s, q) /\ Fits(s, q)
  <1>1. /\ wallet' = wallet /\ token' = token /\ sub' = sub /\ refunded' = refunded
        /\ faults' = faults /\ crashes' = crashes /\ resets' = resets
    BY DEF bounds
  <1>2. Fits(s, q)
    BY <1>1, Facts DEF Fits
  <1>3. Clean' => Clean
    BY <1>1 DEF Clean
  <1>4. /\ Slack(q) \in Int /\ LastSlack(q) \in Int
        /\ Slack(session[s]) \in Int /\ LastSlack(session[s]) \in Int
        /\ Due(q, "wallet") \in Int /\ wallet \in Int
    BY Facts, ClaimTypes
  <1>5. wallet' + Due(q, "wallet") <= wallet + Due(session[s], "wallet")
    BY <1>1, <1>4 DEF SameClaims
  <1>6. \/ /\ wallet' + Slack(q) >= wallet + Slack(session[s])
           /\ wallet' + LastSlack(q) >= wallet + LastSlack(session[s])
        \/ wallet' + LastSlack(q) >= 0
    BY <1>1, <1>4 DEF MoreSlack
  <1>7. /\ wallet' + Due(q, "wallet") = wallet + Due(session[s], "wallet")
        /\ token' + TokenDue(q) = token + TokenDue(session[s])
        /\ sub'.used + Due(session[s], "subscription") = sub.used + Due(q, "subscription")
    BY <1>1 DEF SameClaims
  <1> QED
    BY <1>1, <1>2, <1>3, <1>5, <1>6, <1>7 DEF Moves

\* ... or read nothing either.
LEMMA StillMoves ==
    ASSUME SessionInv, NEW s \in Sessions, NEW q \in Record, RecordSound(q),
           session' = [session EXCEPT ![s] = q], UNCHANGED <<balances, bounds>>,
           session[s].pc \notin {"refundToken", "refunded", "lost"},
           SameClaims(s, q), MoreSlack(s, q) \/ wallet + LastSlack(q) >= 0
    PROVE  Moves(s, q) /\ Fits(s, q)
  <1>1. UNCHANGED <<wallet, token, sub, refunded, bounds>> /\ seen' = seen
    BY DEF balances
  <1> QED
    BY <1>1, Facts, ReadMoves

(* A statement that succeeds changes a balance by what it changes the      *)
(* claim on it.                                                            *)
LEMMA SaveMoves ==
    ASSUME SessionInv, NEW s \in Sessions, NEW q \in Record, RecordSound(q),
           session' = [session EXCEPT ![s] = q], UNCHANGED <<refunded, bounds>>,
           session[s].pc \in {"refundToken", "refunded", "lost"} => q.pc \in {"refundToken", "refunded", "lost"},
           wallet' \in Int, token' \in Int, sub' \in SubRow, seen' \in Reads, sub.lost => sub'.lost,
           wallet' + Due(q, "wallet") = wallet + Due(session[s], "wallet"),
           token' + TokenDue(q) = token + TokenDue(session[s]),
           \/ sub'.used + Due(session[s], "subscription") = sub.used + Due(q, "subscription")
           \/ sub.used < Due(session[s], "subscription")
           \/ sub'.lost,
           wallet' + Slack(q) >= wallet + Slack(session[s]),
           wallet' + LastSlack(q) >= wallet + LastSlack(session[s])
    PROVE  Moves(s, q) /\ Fits(s, q)
  <1>1. refunded' = refunded /\ faults' = faults /\ crashes' = crashes /\ resets' = resets
    BY DEF bounds
  <1>2. Fits(s, q)
    BY <1>1, Facts DEF Fits
  <1>3. Clean' => Clean
    BY <1>1 DEF Clean
  <1>4. Due(q, "wallet") \in Int /\ wallet' + Due(q, "wallet") \in Int
    BY ClaimTypes
  <1>5. wallet' + Due(q, "wallet") <= wallet + Due(session[s], "wallet")
    BY <1>4
  <1> QED
    BY <1>1, <1>2, <1>3, <1>5 DEF Moves

\* One that does not touch the subscription.
LEMMA PayMoves ==
    ASSUME SessionInv, NEW s \in Sessions, NEW q \in Record, RecordSound(q),
           session' = [session EXCEPT ![s] = q], UNCHANGED <<seen, refunded, bounds>>,
           session[s].pc \in {"refundToken", "refunded", "lost"} => q.pc \in {"refundToken", "refunded", "lost"},
           wallet' \in Int, token' \in Int, sub' = sub,
           wallet' + Due(q, "wallet") = wallet + Due(session[s], "wallet"),
           token' + TokenDue(q) = token + TokenDue(session[s]),
           \/ sub'.used + Due(session[s], "subscription") = sub.used + Due(q, "subscription")
           \/ sub.used < Due(session[s], "subscription"),
           wallet' + Slack(q) >= wallet + Slack(session[s]),
           wallet' + LastSlack(q) >= wallet + LastSlack(session[s])
    PROVE  Moves(s, q) /\ Fits(s, q)
  <1>1. UNCHANGED <<refunded, bounds>> /\ seen' \in Reads /\ sub' \in SubRow
    BY Facts
  <1> QED
    BY <1>1, SaveMoves

(* A statement that failed changed no balance; the session may lose what   *)
(* it had taken.                                                           *)
LEMMA AbortMoves ==
    ASSUME SessionInv, NEW s \in Sessions, NEW q \in Record, RecordSound(q),
           session' = [session EXCEPT ![s] = q], Fault, UNCHANGED <<wallet, token, sub, refunded, crashes, resets>>,
           seen' \in Reads,
           s \in refunded => q.pc \in {"refundToken", "refunded", "lost"},
           Due(q, "wallet") <= Due(session[s], "wallet"), MoreSlack(s, q)
    PROVE  Moves(s, q) /\ Fits(s, q)
  <1>1. /\ wallet' = wallet /\ token' = token /\ sub' = sub /\ refunded' = refunded
        /\ faults' = faults + 1 /\ faults < MaxFaults /\ crashes' = crashes /\ resets' = resets
    BY DEF Fault
  <1>2. Fits(s, q)
    BY <1>1, Facts DEF Fits
  <1>3. ~Clean'
    BY <1>1, Facts DEF Clean
  <1>4. /\ Slack(q) \in Int /\ LastSlack(q) \in Int
        /\ Slack(session[s]) \in Int /\ LastSlack(session[s]) \in Int
        /\ Due(q, "wallet") \in Int /\ Due(session[s], "wallet") \in Int /\ wallet \in Int
    BY Facts, ClaimTypes
  <1>5. wallet' + Due(q, "wallet") <= wallet + Due(session[s], "wallet")
    BY <1>1, <1>4
  <1>6. /\ wallet' + Slack(q) >= wallet + Slack(session[s])
        /\ wallet' + LastSlack(q) >= wallet + LastSlack(session[s])
    BY <1>1, <1>4 DEF MoreSlack
  <1> QED
    BY <1>1, <1>2, <1>3, <1>5, <1>6 DEF Moves

\* Nothing was being read.
LEMMA FailMoves ==
    ASSUME SessionInv, NEW s \in Sessions, NEW q \in Record, RecordSound(q),
           session' = [session EXCEPT ![s] = q], Fault, UNCHANGED <<balances, crashes, resets>>,
           s \in refunded => q.pc \in {"refundToken", "refunded", "lost"},
           Due(q, "wallet") <= Due(session[s], "wallet"), MoreSlack(s, q)
    PROVE  Moves(s, q) /\ Fits(s, q)
  <1>1. UNCHANGED <<wallet, token, sub, refunded, crashes, resets>> /\ seen' \in Reads
    BY Facts DEF balances
  <1> QED
    BY <1>1, AbortMoves

(* The end of a transaction leaves nothing read.                           *)
LEMMA NothingRead ==
    ASSUME SessionInv, NEW s \in Sessions, EndTransaction(s)
    PROVE  seen' \in Reads
  BY Facts DEF EndTransaction, Reads, Unread

\* A session that starts with a source, or is turned away, has no claims.
Fresh(q) ==
    /\ q.tokenConsumed = 0 /\ q.pre = 0 /\ q.actual = 0
    /\ q.pc \in {"wallet", "rejected"} \/ (q.pc = "token" /\ q.source = "subscription")

\* A session that has taken nothing has no claims.
LEMMA NoClaims ==
    ASSUME NEW q \in Record, Fresh(q)
    PROVE  /\ RecordSound(q)
           /\ Due(q, "wallet") = 0 /\ Due(q, "subscription") = 0 /\ TokenDue(q) = 0
           /\ Slack(q) = 0 /\ LastSlack(q) = 0
  <1>1. RecordSound(q)
    BY DEF Fresh, RecordSound, Before
  <1>2. Due(q, "wallet") = 0 /\ Due(q, "subscription") = 0 /\ TokenDue(q) = 0
    BY DEF Fresh, Due, Held, TokenDue, Taken, TokenTaken
  <1>3. Asked(q) = 0 /\ Beyond(q) = 0 /\ Pending(q) = 0
    BY DEF Fresh, Asked, Beyond, Pending
  <1> QED
    BY <1>1, <1>2, <1>3 DEF Slack, LastSlack

(* Nor has one that has not started, reads the wallet, or is about to give *)
(* the token its quota back, except on the token.                          *)
LEMMA NoClaimsYet ==
    ASSUME SessionInv, NEW s \in Sessions, session[s].pc \in {"idle", "wallet", "undo"}
    PROVE  /\ Due(session[s], "wallet") = 0 /\ Due(session[s], "subscription") = 0
           /\ TokenDue(session[s]) = IF session[s].pc = "undo" THEN session[s].tokenConsumed ELSE 0
           /\ Slack(session[s]) = 0 /\ LastSlack(session[s]) = 0
  <1>1. /\ session[s].pre = 0 /\ session[s].actual = 0
        /\ session[s].pc = "idle" => session[s].quota = 0
    BY Facts DEF RecordSound, Before
  <1>2. /\ Due(session[s], "wallet") = 0 /\ Due(session[s], "subscription") = 0
        /\ TokenDue(session[s]) = IF session[s].pc = "undo" THEN session[s].tokenConsumed ELSE 0
    BY DEF Due, Held, TokenDue, Taken, TokenTaken
  <1>3. Asked(session[s]) = 0 /\ Beyond(session[s]) = 0 /\ Pending(session[s]) = 0
    BY <1>1 DEF Asked, Beyond, Pending
  <1> QED
    BY <1>2, <1>3 DEF Slack, LastSlack

\* Trying a source starts with nothing taken.
LEMMA TryFresh ==
    ASSUME SessionInv, NEW s \in Sessions, NEW source \in Sources, NEW estimate \in Nat,
           session[s].pre = 0, session[s].actual = 0
    PROVE  /\ Try(s, source, estimate) \in Record
           /\ Try(s, source, estimate).tokenConsumed = session[s].tokenConsumed
           /\ Try(s, source, estimate).pre = 0 /\ Try(s, source, estimate).actual = 0
           /\ \/ Try(s, source, estimate).pc = "wallet"
              \/ Try(s, source, estimate).pc = "token" /\ Try(s, source, estimate).source = "subscription"
  <1>1. session[s] \in Record
    BY Facts
  <1>2. (IF source = "wallet" THEN "wallet" ELSE "token") \in PC
    BY DEF PC
  <1>3. (IF source = "subscription" /\ estimate = 0 THEN 1 ELSE estimate) \in Nat
    OBVIOUS
  <1>4. source # "wallet" => source = "subscription"
    BY DEF Sources
  <1> QED
    BY <1>1, <1>2, <1>3, <1>4 DEF Record, Try

\* So does falling back after a refusal.
LEMMA RefusedFresh ==
    ASSUME SessionInv, NEW s \in Sessions, session[s].pc \in {"wallet", "undo"}
    PROVE  /\ Refused(s) \in Record
           /\ [Refused(s) EXCEPT !.tokenConsumed = 0] \in Record
           /\ Fresh([Refused(s) EXCEPT !.tokenConsumed = 0])
           /\ Refused(s).tokenConsumed = session[s].tokenConsumed
  <1>1. session[s] \in Record /\ session[s].pre = 0 /\ session[s].actual = 0
    BY Facts DEF RecordSound, Before
  <1>2. PICK other \in Sources :
           Refused(s) \in {[Try(s, other, session[s].estimate) EXCEPT !.fallback = FALSE],
                          [session[s] EXCEPT !.pc = "rejected"]}
    BY DEF Refused, Sources
  <1>e. session[s].estimate \in Nat
    BY <1>1 DEF Record
  <1> DEFINE try == Try(s, other, session[s].estimate)
  <1>3. /\ try \in Record /\ try.tokenConsumed = session[s].tokenConsumed
        /\ try.pre = 0 /\ try.actual = 0
        /\ try.pc = "wallet" \/ (try.pc = "token" /\ try.source = "subscription")
    BY <1>1, <1>2, <1>e, TryFresh
  <1>4. Refused(s) \in {[try EXCEPT !.fallback = FALSE], [session[s] EXCEPT !.pc = "rejected"]}
    BY <1>2
  <1> HIDE DEF try
  <1>5. CASE Refused(s) = [try EXCEPT !.fallback = FALSE]
    <2>1. Refused(s) \in Record /\ [Refused(s) EXCEPT !.tokenConsumed = 0] \in Record
      BY <1>3, <1>5 DEF Record
    <2>2. Fresh([Refused(s) EXCEPT !.tokenConsumed = 0]) /\ Refused(s).tokenConsumed = session[s].tokenConsumed
      BY <1>3, <1>5 DEF Record, Fresh
    <2> QED
      BY <2>1, <2>2
  <1>6. CASE Refused(s) = [session[s] EXCEPT !.pc = "rejected"]
    <2>0. "rejected" \in PC
      BY DEF PC, Ended
    <2>1. Refused(s) \in Record /\ [Refused(s) EXCEPT !.tokenConsumed = 0] \in Record
      BY <1>1, <1>6, <2>0 DEF Record
    <2>2. /\ Refused(s).tokenConsumed = session[s].tokenConsumed /\ Refused(s).pc = "rejected"
          /\ Refused(s).pre = 0 /\ Refused(s).actual = 0
      BY <1>1, <1>6 DEF Record
    <2>3. Fresh([Refused(s) EXCEPT !.tokenConsumed = 0])
      BY <2>1, <2>2 DEF Record, Fresh
    <2> QED
      BY <2>1, <2>2, <2>3
  <1> QED
    BY <1>4, <1>5, <1>6

----------------------------------------------------------------------------
(* Every step of a session moves the balances by the change of its claims. *)
LEMMA BeginMoves ==
    ASSUME SessionInv, NEW s \in Sessions, NEW estimate \in Estimates, NEW preference, NEW force,
           Begin(s, estimate, preference, force)
    PROVE  \E q : Moves(s, q) /\ Fits(s, q)
  <1>1. session[s].pc = "idle" /\ UNCHANGED <<balances, bounds>>
    BY DEF Begin, At
  <1>2. session[s].pre = 0 /\ session[s].actual = 0 /\ session[s].tokenConsumed = 0
    BY <1>1, Facts DEF RecordSound, Before
  <1>3. PICK first \in Sources, second \in BOOLEAN, trust \in BOOLEAN :
           session' = [session EXCEPT ![s] =
                          [Try(s, first, estimate) EXCEPT !.fallback = second, !.mayTrust = trust]]
    <2>1. ASSUME NEW x PROVE (~force /\ (Unlimited \/ token > Trust)) \in BOOLEAN
      OBVIOUS
    <2> QED
      BY <2>1 DEF Begin, Sources
  <1> DEFINE try == Try(s, first, estimate)
             q == [try EXCEPT !.fallback = second, !.mayTrust = trust]
  <1>4. estimate \in Nat
    BY SessionAssumption
  <1>5. /\ try \in Record /\ try.tokenConsumed = 0 /\ try.pre = 0 /\ try.actual = 0
        /\ try.pc = "wallet" \/ (try.pc = "token" /\ try.source = "subscription")
    BY <1>2, <1>3, <1>4, TryFresh
  <1> HIDE DEF try
  <1>6. q \in Record /\ Fresh(q)
    BY <1>3, <1>5 DEF Record, Fresh
  <1>7. session' = [session EXCEPT ![s] = q]
    BY <1>3 DEF try
  <1> HIDE DEF q
  <1>8. SameClaims(s, q) /\ MoreSlack(s, q) /\ RecordSound(q)
    BY <1>1, <1>6, NoClaims, NoClaimsYet DEF SameClaims, MoreSlack
  <1> QED
    BY <1>1, <1>6, <1>7, <1>8, StillMoves

\* tryWallet's read of the wallet.
LEMMA ReadWalletMoves ==
    ASSUME SessionInv, NEW s \in Sessions, ReadWallet(s)
    PROVE  \E q : Moves(s, q) /\ Fits(s, q)
  <1>1. session[s].pc = "wallet" /\ UNCHANGED <<balances, bounds>>
    BY DEF ReadWallet, At
  <1>2. session[s].pre = 0 /\ session[s].actual = 0 /\ session[s].tokenConsumed = 0
    BY <1>1, Facts DEF RecordSound, Before
  <1>3. CASE session' = [session EXCEPT ![s] = Refused(s)]
    <2>1. PICK q : q = Refused(s)
      OBVIOUS
    <2>2. q \in Record /\ q.tokenConsumed = 0 /\ Fresh([q EXCEPT !.tokenConsumed = 0])
      BY <1>1, <1>2, <2>1, RefusedFresh
    <2>3. Fresh(q)
      BY <2>2 DEF Record, Fresh
    <2>4. SameClaims(s, q) /\ MoreSlack(s, q) /\ RecordSound(q)
      BY <1>1, <2>2, <2>3, NoClaims, NoClaimsYet DEF SameClaims, MoreSlack
    <2> QED
      BY <1>1, <1>3, <2>1, <2>2, <2>4, StillMoves
  <1>4. CASE ~(session' = [session EXCEPT ![s] = Refused(s)])
    <2>1. PICK quota \in {0, session[s].quota}, pc \in {"funding", "token"} :
             /\ wallet >= quota /\ (pc = "funding" => quota = 0)
             /\ session' = [session EXCEPT ![s].quota = quota, ![s].pc = pc]
      <3>1. /\ ~(wallet <= 0 \/ wallet < session[s].quota)
            /\ \/ session' = [session EXCEPT ![s].quota = 0, ![s].pc = "funding"]
               \/ /\ session' = [session EXCEPT ![s].quota = session[s].quota, ![s].pc = "funding"]
                  /\ session[s].quota = 0
               \/ session' = [session EXCEPT ![s].quota = session[s].quota, ![s].pc = "token"]
        BY <1>4 DEF ReadWallet
      <3>2. wallet \in Int /\ session[s].quota \in Nat
        BY Facts
      <3> QED
        BY <3>1, <3>2
    <2> DEFINE q == [session[s] EXCEPT !.quota = quota, !.pc = pc]
    <2>2. session[s] \in Record /\ quota \in Nat /\ pc \in PC
      BY <2>1, Facts DEF PC
    <2>3. /\ q \in Record /\ q.quota = quota /\ q.pc = pc /\ q.source = session[s].source
          /\ q.tokenConsumed = 0 /\ q.pre = 0 /\ q.actual = 0
      BY <1>2, <2>2 DEF Record
    <2>4. session' = [session EXCEPT ![s] = q]
      BY <2>1, Facts
    <2> HIDE DEF q
    <2>5. RecordSound(q)
      BY <2>1, <2>3 DEF RecordSound, Before
    <2>6. Due(q, "wallet") = 0 /\ Due(q, "subscription") = 0 /\ TokenDue(q) = 0
      BY <2>1, <2>3 DEF Due, Held, TokenDue, Taken, TokenTaken
    <2>7. SameClaims(s, q)
      BY <1>1, <2>6, NoClaimsYet DEF SameClaims
    <2>8. Beyond(q) = 0 /\ Pending(q) \in {0, quota}
      BY <2>1, <2>3 DEF Beyond, Pending
    <2>9. wallet + LastSlack(q) >= 0
      <3>1. wallet >= quota /\ wallet \in Int /\ quota \in Nat
        BY <2>1, <2>2, Facts
      <3> QED
        BY <2>8, <3>1 DEF LastSlack
    <2> QED
      BY <1>1, <2>3, <2>4, <2>5, <2>7, <2>9, StillMoves
  <1> QED
    BY <1>3, <1>4

\* The read of the token's balance.
LEMMA ReadTokenMoves ==
    ASSUME SessionInv, NEW s \in Sessions, ReadToken(s)
    PROVE  \E q : Moves(s, q) /\ Fits(s, q)
  <1>1. PICK pc \in {"decrease", "rejected"} : Goto(s, pc)
    BY DEF ReadToken
  <1>2. PICK q : q = [session[s] EXCEPT !.pc = pc]
    OBVIOUS
  <1>3. pc \in PC
    BY <1>1 DEF PC, Ended
  <1>4. session[s].pc = "token" /\ UNCHANGED <<balances, bounds>>
    BY DEF ReadToken, At
  <1>5. RecordSound(q)
    BY <1>1, <1>2, <1>3, <1>4, GotoMoves, Facts DEF RecordSound, Before
  <1>6. SameClaims(s, q)
    BY <1>1, <1>2, <1>3, <1>4, GotoMoves DEF SameClaims, Due, Held, TokenDue, Taken, TokenTaken
  <1>7. MoreSlack(s, q)
    BY <1>1, <1>2, <1>3, <1>4, GotoMoves, Facts, ClaimTypes
       DEF MoreSlack, Slack, LastSlack, Asked, Beyond, Pending
  <1> QED
    BY <1>1, <1>2, <1>3, <1>4, <1>5, <1>6, <1>7, GotoMoves, StillMoves

\* The token is charged first.
LEMMA DecreaseTokenMoves ==
    ASSUME SessionInv, NEW s \in Sessions, DecreaseToken(s)
    PROVE  \E q : Moves(s, q) /\ Fits(s, q)
  <1>1. /\ session[s].pc = "decrease" /\ wallet' = wallet /\ sub' = sub /\ seen' = seen /\ refunded' = refunded
        /\ crashes' = crashes /\ resets' = resets
    BY DEF DecreaseToken, At
  <1>2. session[s].pre = 0 /\ session[s].actual = 0 /\ session[s].tokenConsumed = 0
    BY <1>1, Facts DEF RecordSound, Before
  <1>3. Due(session[s], "wallet") = 0 /\ Due(session[s], "subscription") = 0 /\ TokenDue(session[s]) = 0
    BY <1>1 DEF Due, Held, TokenDue, Taken, TokenTaken
  <1>4. CASE /\ token' = token - session[s].quota
             /\ session' = [session EXCEPT ![s].tokenConsumed = session[s].quota, ![s].pc = "funding"]
             /\ UNCHANGED faults
    <2> DEFINE q == [session[s] EXCEPT !.tokenConsumed = session[s].quota, !.pc = "funding"]
    <2>1. /\ q \in Record /\ q.pc = "funding" /\ q.quota = session[s].quota
          /\ q.tokenConsumed = session[s].quota
          /\ q.source = session[s].source /\ q.pre = 0 /\ q.actual = 0
      <3>1. session[s] \in Record /\ session[s].quota \in Nat /\ "funding" \in PC
        BY Facts DEF PC
      <3> QED
        BY <1>2, <3>1 DEF Record
    <2>2. session' = [session EXCEPT ![s] = q]
      BY <1>4, Facts
    <2> HIDE DEF q
    <2>3. RecordSound(q)
      BY <2>1 DEF RecordSound, Before
    <2>4. Due(q, "wallet") = 0 /\ Due(q, "subscription") = 0 /\ TokenDue(q) = session[s].quota
      BY <2>1 DEF Due, Held, TokenDue, Taken, TokenTaken
    <2>5. Slack(q) = Slack(session[s]) /\ LastSlack(q) = LastSlack(session[s])
      BY <1>1, <1>2, <2>1 DEF Slack, LastSlack, Asked, Beyond, Pending
    <2>6. /\ wallet \in Int /\ token \in Int /\ session[s].quota \in Nat
          /\ sub \in SubRow /\ sub.used \in Int
          /\ Slack(session[s]) \in Int /\ LastSlack(session[s]) \in Int
      BY Facts, ClaimTypes
    <2>7. /\ token' \in Int /\ token' + TokenDue(q) = token + TokenDue(session[s])
      BY <1>3, <1>4, <2>4, <2>6
    <2>8. /\ wallet' + Slack(q) >= wallet + Slack(session[s])
          /\ wallet' + LastSlack(q) >= wallet + LastSlack(session[s])
      BY <1>1, <2>5, <2>6
    <2>9. UNCHANGED <<seen, refunded, bounds>>
      BY <1>1, <1>4 DEF bounds
    <2> QED
      BY <1>1, <1>3, <2>1, <2>2, <2>3, <2>4, <2>6, <2>7, <2>8, <2>9, PayMoves
  <1>5. CASE Fault /\ Goto(s, "rejected") /\ UNCHANGED token
    <2>0. "rejected" \in PC
      BY DEF PC, Ended
    <2>1. PICK q : q = [session[s] EXCEPT !.pc = "rejected"]
      OBVIOUS
    <2>2. /\ session' = [session EXCEPT ![s] = q]
          /\ q \in Record /\ q.pc = "rejected" /\ q.tokenConsumed = 0 /\ q.pre = 0 /\ q.actual = 0
          /\ q.source = session[s].source /\ q.quota = session[s].quota
      BY <1>2, <1>5, <2>0, <2>1, GotoMoves
    <2>3. Fresh(q)
      BY <2>2 DEF Fresh
    <2>4. RecordSound(q) /\ Due(q, "wallet") = 0 /\ Slack(q) = 0 /\ LastSlack(q) = 0
      BY <2>2, <2>3, NoClaims
    <2>5. MoreSlack(s, q)
      BY <1>1, <1>2, <2>4, Facts DEF MoreSlack, Slack, LastSlack, Asked, Beyond, Pending
    <2>6. UNCHANGED <<balances, crashes, resets>> /\ s \notin refunded
      BY <1>1, <1>5, Facts DEF balances
    <2>7. Due(q, "wallet") <= Due(session[s], "wallet")
      BY <1>3, <2>4
    <2> QED
      BY <1>5, <2>2, <2>4, <2>5, <2>6, <2>7, FailMoves
  <1> QED
    BY <1>4, <1>5 DEF DecreaseToken

\* The session once its source is charged.
LEMMA ServingRecord ==
    ASSUME SessionInv, NEW s \in Sessions
    PROVE  /\ Serving(s) \in Record /\ Serving(s).pc = "serving"
           /\ Serving(s).pre = session[s].quota /\ Serving(s).quota = session[s].quota
           /\ Serving(s).source = session[s].source /\ Serving(s).actual = session[s].actual
           /\ Serving(s).tokenConsumed = session[s].tokenConsumed
  <1>1. session[s] \in Record /\ session[s].quota \in Nat /\ "serving" \in PC
    BY Facts DEF PC
  <1> QED
    BY <1>1 DEF Serving, Record

(* Where the session stands before its source is asked.                    *)
LEMMA AtFunding ==
    ASSUME SessionInv, NEW s \in Sessions, session[s].pc = "funding"
    PROVE  /\ session[s].pre = 0 /\ session[s].actual = 0
           /\ session[s].tokenConsumed = session[s].quota
           /\ Due(session[s], "wallet") = 0 /\ Due(session[s], "subscription") = 0
           /\ TokenDue(session[s]) = session[s].quota
           /\ Slack(session[s]) = 0
           /\ LastSlack(session[s]) = IF session[s].source = "wallet" THEN -session[s].quota ELSE 0
  <1>1. /\ session[s].pre = 0 /\ session[s].actual = 0 /\ session[s].tokenConsumed = session[s].quota
        /\ session[s].quota \in Nat
    BY Facts DEF RecordSound, Before
  <1>2. /\ Due(session[s], "wallet") = 0 /\ Due(session[s], "subscription") = 0
        /\ TokenDue(session[s]) = session[s].quota
    BY <1>1 DEF Due, Held, TokenDue, Taken, TokenTaken
  <1>3. /\ Beyond(session[s]) = 0
        /\ Asked(session[s]) = IF session[s].source = "wallet" THEN session[s].quota ELSE 0
        /\ Pending(session[s]) = IF session[s].source = "wallet" THEN session[s].quota ELSE 0
    BY <1>1 DEF Asked, Beyond, Pending
  <1> QED
    BY <1>1, <1>2, <1>3 DEF Slack, LastSlack

(* What a session claims that has been served.                             *)
LEMMA AtServing ==
    ASSUME SessionInv, NEW s \in Sessions, session[s].pc = "funding", NEW q, q = Serving(s)
    PROVE  /\ q \in Record /\ RecordSound(q) /\ q.pc = "serving"
           /\ Due(q, session[s].source) = session[s].quota
           /\ \A source : source # session[s].source => Due(q, source) = 0
           /\ TokenDue(q) = session[s].quota
           /\ Slack(q) = IF session[s].source = "wallet" THEN session[s].quota ELSE 0
           /\ LastSlack(q) = 0
  <1>1. /\ q \in Record /\ q.pc = "serving" /\ q.pre = session[s].quota /\ q.quota = session[s].quota
        /\ q.source = session[s].source /\ q.actual = 0 /\ q.tokenConsumed = session[s].quota
        /\ session[s].quota \in Nat
    BY ServingRecord, AtFunding, Facts
  <1>2. RecordSound(q)
    BY <1>1 DEF RecordSound, Before
  <1>3. /\ Due(q, session[s].source) = session[s].quota
        /\ \A source : source # session[s].source => Due(q, source) = 0
        /\ TokenDue(q) = session[s].quota
    BY <1>1 DEF Due, Held, TokenDue, Taken, TokenTaken
  <1>4. /\ Beyond(q) = 0 /\ Pending(q) = 0
        /\ Asked(q) = IF session[s].source = "wallet" THEN session[s].quota ELSE 0
    BY <1>1 DEF Asked, Beyond, Pending
  <1> QED
    BY <1>1, <1>2, <1>3, <1>4 DEF Slack, LastSlack

(* A source that refuses or fails leaves the token's quota to be undone.   *)
LEMMA AtUndo ==
    ASSUME SessionInv, NEW s \in Sessions, session[s].pc = "funding", NEW q \in Record,
           q.pc = "undo", q.source = session[s].source, q.quota = session[s].quota,
           q.pre = session[s].pre, q.actual = session[s].actual,
           q.tokenConsumed = session[s].tokenConsumed
    PROVE  RecordSound(q) /\ SameClaims(s, q) /\ MoreSlack(s, q)
  <1>1. /\ q.pre = 0 /\ q.actual = 0 /\ q.tokenConsumed = q.quota /\ q.quota = session[s].quota
        /\ session[s].quota \in Nat
    BY AtFunding, Facts
  <1>2. RecordSound(q)
    BY <1>1 DEF RecordSound, Before
  <1>3. Due(q, "wallet") = 0 /\ Due(q, "subscription") = 0 /\ TokenDue(q) = session[s].quota
    BY <1>1 DEF Due, Held, TokenDue, Taken, TokenTaken
  <1>4. SameClaims(s, q)
    BY <1>3, AtFunding DEF SameClaims
  <1>5. Beyond(q) = 0 /\ Pending(q) = 0 /\ Asked(q) = 0
    BY <1>1 DEF Asked, Beyond, Pending
  <1>6. Slack(q) = 0 /\ LastSlack(q) = 0
    BY <1>5 DEF Slack, LastSlack
  <1>7. MoreSlack(s, q)
    BY <1>1, <1>6, AtFunding DEF MoreSlack
  <1> QED
    BY <1>2, <1>4, <1>7

\* The wallet is charged.
LEMMA PreConsumeWalletMoves ==
    ASSUME SessionInv, NEW s \in Sessions, PreConsumeWallet(s)
    PROVE  \E q : Moves(s, q) /\ Fits(s, q)
  <1>1. /\ session[s].pc = "funding" /\ session[s].source = "wallet"
        /\ token' = token /\ sub' = sub /\ seen' = seen /\ refunded' = refunded /\ crashes' = crashes /\ resets' = resets
    BY DEF PreConsumeWallet, At
  <1>2. CASE /\ wallet' = wallet - session[s].quota
             /\ session' = [session EXCEPT ![s] = Serving(s)]
             /\ UNCHANGED faults
    <2>1. PICK q : q = Serving(s)
      OBVIOUS
    <2>2. /\ q \in Record /\ RecordSound(q) /\ session' = [session EXCEPT ![s] = q]
          /\ Due(q, "wallet") = session[s].quota /\ Due(q, "subscription") = 0
          /\ TokenDue(q) = session[s].quota /\ Slack(q) = session[s].quota /\ LastSlack(q) = 0
      BY <1>1, <1>2, <2>1, AtServing
    <2>3. /\ Due(session[s], "wallet") = 0 /\ Due(session[s], "subscription") = 0
          /\ TokenDue(session[s]) = session[s].quota
          /\ Slack(session[s]) = 0 /\ LastSlack(session[s]) = -session[s].quota
      BY <1>1, AtFunding
    <2>4. /\ wallet \in Int /\ token \in Int /\ session[s].quota \in Nat
          /\ sub \in SubRow /\ sub.used \in Int
      BY Facts
    <2>5. /\ wallet' \in Int /\ wallet' + Due(q, "wallet") = wallet + Due(session[s], "wallet")
          /\ wallet' + Slack(q) >= wallet + Slack(session[s])
          /\ wallet' + LastSlack(q) >= wallet + LastSlack(session[s])
      BY <1>2, <2>2, <2>3, <2>4
    <2>6. UNCHANGED <<seen, refunded, bounds>>
      BY <1>1, <1>2 DEF bounds
    <2>7. /\ token' + TokenDue(q) = token + TokenDue(session[s])
          /\ sub'.used + Due(session[s], "subscription") = sub.used + Due(q, "subscription")
      BY <1>1, <2>2, <2>3
    <2> QED
      BY <1>1, <2>2, <2>4, <2>5, <2>6, <2>7, PayMoves
  <1>3. CASE Fault /\ Goto(s, "undo") /\ UNCHANGED wallet
    <2>0. "undo" \in PC
      BY DEF PC
    <2>1. PICK q : q = [session[s] EXCEPT !.pc = "undo"]
      OBVIOUS
    <2>2. /\ q \in Record /\ session' = [session EXCEPT ![s] = q]
          /\ q.pc = "undo" /\ q.source = session[s].source /\ q.quota = session[s].quota
          /\ q.pre = session[s].pre /\ q.actual = session[s].actual
          /\ q.tokenConsumed = session[s].tokenConsumed
      BY <1>3, <2>0, <2>1, GotoMoves
    <2>3. RecordSound(q) /\ SameClaims(s, q) /\ MoreSlack(s, q)
      BY <1>1, <2>2, AtUndo
    <2>4. UNCHANGED <<balances, crashes, resets>> /\ s \notin refunded
      BY <1>1, <1>3, Facts DEF balances
    <2>5. Due(q, "wallet") <= Due(session[s], "wallet")
      BY <2>3, Facts, ClaimTypes DEF SameClaims
    <2> QED
      BY <1>3, <2>2, <2>3, <2>4, <2>5, FailMoves
  <1> QED
    BY <1>2, <1>3 DEF PreConsumeWallet

\* The subscription is read.
LEMMA ReadSubscriptionMoves ==
    ASSUME SessionInv, NEW s \in Sessions, ReadSubscription(s)
    PROVE  \E q : Moves(s, q) /\ Fits(s, q)
  <1>1. /\ session[s].pc \notin {"refundToken", "refunded", "lost"}
        /\ UNCHANGED <<wallet, token, sub, refunded, bounds>> /\ session' = session
        /\ seen' = [seen EXCEPT ![s] = sub.used]
    BY DEF ReadSubscription
  <1>2. /\ session \in [Sessions -> Record] /\ session[s] \in Record /\ RecordSound(session[s])
        /\ seen \in Reads /\ sub.used \in 0..AmountTotal /\ AmountTotal \in Nat
    BY Facts
  <1>3. session' = [session EXCEPT ![s] = session[s]]
    BY <1>1, <1>2
  <1>4. seen' \in Reads
    BY <1>1, <1>2 DEF Reads, Unread
  <1>5. /\ Slack(session[s]) \in Int /\ LastSlack(session[s]) \in Int
    BY <1>2, ClaimTypes
  <1>6. SameClaims(s, session[s]) /\ MoreSlack(s, session[s])
    BY <1>5 DEF SameClaims, MoreSlack
  <1> QED
    BY <1>1, <1>2, <1>3, <1>4, <1>6, ReadMoves

\* The subscription is charged.
LEMMA PreConsumeSubscriptionMoves ==
    ASSUME SessionInv, NEW s \in Sessions, PreConsumeSubscription(s)
    PROVE  \E q : Moves(s, q) /\ Fits(s, q)
  <1>1. /\ session[s].pc = "funding" /\ session[s].source = "subscription"
        /\ wallet' = wallet /\ token' = token /\ refunded' = refunded /\ crashes' = crashes /\ resets' = resets
        /\ EndTransaction(s)
    BY DEF PreConsumeSubscription, At
  <1>r. seen' \in Reads
    BY <1>1, NothingRead
  <1>2. CASE /\ seen[s] # Unread /\ AmountTotal - seen[s] >= session[s].quota
             /\ SaveUsed(s, seen[s] + session[s].quota)
             /\ session' = [session EXCEPT ![s] = Serving(s)]
             /\ UNCHANGED faults
    <2>1. PICK q : q = Serving(s)
      OBVIOUS
    <2>2. /\ q \in Record /\ RecordSound(q) /\ session' = [session EXCEPT ![s] = q]
          /\ Due(q, "subscription") = session[s].quota /\ Due(q, "wallet") = 0
          /\ TokenDue(q) = session[s].quota /\ Slack(q) = 0 /\ LastSlack(q) = 0
      BY <1>1, <1>2, <2>1, AtServing
    <2>3. /\ Due(session[s], "wallet") = 0 /\ Due(session[s], "subscription") = 0
          /\ TokenDue(session[s]) = session[s].quota
          /\ Slack(session[s]) = 0 /\ LastSlack(session[s]) = 0
      BY <1>1, AtFunding
    <2>4. /\ wallet \in Int /\ token \in Int /\ session[s].quota \in Nat /\ AmountTotal \in Nat
          /\ sub \in SubRow /\ sub.used \in Nat /\ seen[s] \in Unread..AmountTotal
      BY Facts
    <2>a. seen[s] \in 0..AmountTotal /\ seen[s] + session[s].quota \in 0..AmountTotal
      BY <1>2, <2>4 DEF Unread
    <2>5. /\ sub' \in SubRow /\ sub'.used = seen[s] + session[s].quota
          /\ sub.lost => sub'.lost
          /\ ~sub'.lost => sub.used = seen[s]
      BY <1>2, <2>4, <2>a DEF SaveUsed, SubRow
    <2>b. sub'.lost \/ sub'.used + Due(session[s], "subscription") = sub.used + Due(q, "subscription")
      BY <2>2, <2>3, <2>4, <2>a, <2>5
    <2>6. UNCHANGED <<refunded, bounds>>
      BY <1>1, <1>2 DEF bounds
    <2>7. /\ token' + TokenDue(q) = token + TokenDue(session[s])
          /\ wallet' + Due(q, "wallet") = wallet + Due(session[s], "wallet")
          /\ wallet' + Slack(q) >= wallet + Slack(session[s])
          /\ wallet' + LastSlack(q) >= wallet + LastSlack(session[s])
      BY <1>1, <2>2, <2>3, <2>4, <2>5
    <2> QED
      BY <1>1, <1>r, <2>2, <2>4, <2>5, <2>b, <2>6, <2>7, SaveMoves
  <1>3. CASE session' = [session EXCEPT ![s].pc = "undo", ![s].short = TRUE] /\ UNCHANGED <<sub, faults>>
    <2> DEFINE q == [session[s] EXCEPT !.pc = "undo", !.short = TRUE]
    <2>1. session[s] \in Record /\ "undo" \in PC
      BY Facts DEF PC
    <2>2. /\ q \in Record /\ q.pc = "undo" /\ q.source = session[s].source /\ q.quota = session[s].quota
          /\ q.pre = session[s].pre /\ q.actual = session[s].actual
          /\ q.tokenConsumed = session[s].tokenConsumed
      BY <2>1 DEF Record
    <2>3. session' = [session EXCEPT ![s] = q]
      BY <1>3, Facts
    <2> HIDE DEF q
    <2>4. RecordSound(q) /\ SameClaims(s, q) /\ MoreSlack(s, q)
      BY <1>1, <2>2, AtUndo
    <2>5. UNCHANGED <<wallet, token, sub, refunded, bounds>>
      BY <1>1, <1>3 DEF bounds
    <2> QED
      BY <1>1, <1>r, <2>2, <2>3, <2>4, <2>5, ReadMoves
  <1>4. CASE /\ Fault /\ UNCHANGED sub
             /\ \E short \in BOOLEAN :
                   session' = [session EXCEPT ![s].pc = "undo", ![s].short = short]
    <2>0. PICK short \in BOOLEAN : session' = [session EXCEPT ![s].pc = "undo", ![s].short = short]
      BY <1>4
    <2> DEFINE q == [session[s] EXCEPT !.pc = "undo", !.short = short]
    <2>1. session[s] \in Record /\ "undo" \in PC
      BY Facts DEF PC
    <2>2. /\ q \in Record /\ q.pc = "undo" /\ q.source = session[s].source /\ q.quota = session[s].quota
          /\ q.pre = session[s].pre /\ q.actual = session[s].actual
          /\ q.tokenConsumed = session[s].tokenConsumed
      BY <2>1 DEF Record
    <2>3. session' = [session EXCEPT ![s] = q]
      BY <2>0, Facts
    <2> HIDE DEF q
    <2>4. RecordSound(q) /\ SameClaims(s, q) /\ MoreSlack(s, q)
      BY <1>1, <2>2, AtUndo
    <2>5. UNCHANGED <<wallet, token, sub, refunded, crashes, resets>> /\ s \notin refunded
      BY <1>1, <1>4, Facts
    <2>6. Due(q, "wallet") <= Due(session[s], "wallet")
      BY <2>2, <2>4, Facts, ClaimTypes DEF SameClaims
    <2> QED
      BY <1>4, <1>r, <2>2, <2>3, <2>4, <2>5, <2>6, AbortMoves
  <1> QED
    BY <1>2, <1>3, <1>4 DEF PreConsumeSubscription

\* The token's charge is taken back.
LEMMA UndoTokenMoves ==
    ASSUME SessionInv, NEW s \in Sessions, UndoToken(s)
    PROVE  \E q : Moves(s, q) /\ Fits(s, q)
  <1>1. /\ session[s].pc = "undo" /\ session' = [session EXCEPT ![s] = AfterUndo(s)]
        /\ wallet' = wallet /\ sub' = sub /\ seen' = seen /\ refunded' = refunded /\ crashes' = crashes /\ resets' = resets
    BY DEF UndoToken, At
  <1>2. PICK q : q = AfterUndo(s)
    OBVIOUS
  <1>3. q \in Record /\ Fresh(q)
    <2>1. CASE q = [Refused(s) EXCEPT !.tokenConsumed = 0]
      BY <1>1, <2>1, RefusedFresh
    <2>2. CASE q = [[session[s] EXCEPT !.pc = "rejected"] EXCEPT !.tokenConsumed = 0]
      <3>1. session[s] \in Record /\ "rejected" \in PC /\ session[s].pre = 0 /\ session[s].actual = 0
        BY <1>1, Facts DEF PC, Ended, RecordSound, Before
      <3> QED
        BY <2>2, <3>1 DEF Record, Fresh
    <2> QED
      BY <1>2, <2>1, <2>2 DEF AfterUndo
  <1>4. /\ RecordSound(q) /\ Due(q, "wallet") = 0 /\ Due(q, "subscription") = 0 /\ TokenDue(q) = 0
        /\ Slack(q) = 0 /\ LastSlack(q) = 0
    BY <1>3, NoClaims
  <1>5. /\ Due(session[s], "wallet") = 0 /\ Due(session[s], "subscription") = 0
        /\ TokenDue(session[s]) = session[s].tokenConsumed
        /\ Slack(session[s]) = 0 /\ LastSlack(session[s]) = 0
    BY <1>1, NoClaimsYet
  <1>6. CASE token' = token + session[s].tokenConsumed /\ UNCHANGED faults
    <2>1. /\ wallet \in Int /\ token \in Int /\ session[s].tokenConsumed \in Nat
          /\ sub \in SubRow /\ sub.used \in Nat
      BY Facts
    <2>2. /\ token' \in Int /\ token' + TokenDue(q) = token + TokenDue(session[s])
          /\ sub'.used + Due(session[s], "subscription") = sub.used + Due(q, "subscription")
          /\ wallet' + Due(q, "wallet") = wallet + Due(session[s], "wallet")
          /\ wallet' + Slack(q) >= wallet + Slack(session[s])
          /\ wallet' + LastSlack(q) >= wallet + LastSlack(session[s])
      BY <1>1, <1>4, <1>5, <1>6, <2>1
    <2>3. UNCHANGED <<seen, refunded, bounds>>
      BY <1>1, <1>6 DEF bounds
    <2> QED
      BY <1>1, <1>2, <1>3, <1>4, <2>1, <2>2, <2>3, PayMoves
  <1>7. CASE Fault /\ UNCHANGED token
    <2>1. UNCHANGED <<balances, crashes, resets>> /\ s \notin refunded
      BY <1>1, <1>7, Facts DEF balances
    <2>2. Due(q, "wallet") <= Due(session[s], "wallet") /\ MoreSlack(s, q)
      BY <1>4, <1>5 DEF MoreSlack
    <2> QED
      BY <1>1, <1>2, <1>3, <1>4, <1>7, <2>1, <2>2, FailMoves
  <1> QED
    BY <1>6, <1>7 DEF UndoToken

----------------------------------------------------------------------------
Served(p) == p.pc \notin Before \cup {"lost"}

(* The claims of a session that was served, by its position.               *)
LEMMA ServedClaims ==
    ASSUME NEW p \in Record, RecordSound(p), Served(p)
    PROVE  /\ p.pre = p.tokenConsumed /\ p.pre \in Nat /\ p.actual \in Nat
           /\ p.pc \in Taken => Held(p) = p.pre /\ TokenDue(p) = p.pre
           /\ p.pc = "settleToken" => Held(p) = p.actual /\ TokenDue(p) = p.pre
           /\ p.pc = "settled" => Held(p) = p.actual /\ TokenDue(p) = p.actual
           /\ p.pc \in {"recording", "refundToken"} => Held(p) = 0 /\ TokenDue(p) = p.pre
           /\ p.pc = "refunded" => Held(p) = 0 /\ TokenDue(p) = 0
           /\ LastSlack(p) = IF p.pc = "settling" THEN 0 ELSE Beyond(p)
           /\ Slack(p) = (IF p.source = "wallet" THEN p.quota ELSE 0) + LastSlack(p)
  <1>1. /\ p.pre \in Nat /\ p.actual \in Nat /\ p.quota \in Nat /\ Beyond(p) \in Nat
        /\ p.pre = p.tokenConsumed
    BY ClaimTypes DEF Record, RecordSound, Served
  <1>2. /\ p.pc \in Taken => Held(p) = p.pre /\ TokenDue(p) = p.pre
        /\ p.pc = "settleToken" => Held(p) = p.actual /\ TokenDue(p) = p.pre
        /\ p.pc = "settled" => Held(p) = p.actual /\ TokenDue(p) = p.actual
        /\ p.pc \in {"recording", "refundToken"} => Held(p) = 0 /\ TokenDue(p) = p.pre
        /\ p.pc = "refunded" => Held(p) = 0 /\ TokenDue(p) = 0
    BY <1>1 DEF Held, TokenDue, Taken, TokenTaken
  <1>3. Pending(p) = IF p.pc = "settling" THEN Beyond(p) ELSE 0
    BY <1>1 DEF Pending, Beyond, Served, Before
  <1>4. Asked(p) = IF p.source = "wallet" THEN p.quota ELSE 0
    BY DEF Asked, Served, Before
  <1>5. LastSlack(p) = IF p.pc = "settling" THEN 0 ELSE Beyond(p)
    BY <1>1, <1>3 DEF LastSlack
  <1>6. Slack(p) = (IF p.source = "wallet" THEN p.quota ELSE 0) + LastSlack(p)
    BY <1>1, <1>3, <1>4, <1>5 DEF Slack, LastSlack
  <1> QED
    BY <1>1, <1>2, <1>5, <1>6

(* A session that goes on to another position after it was served.         *)
LEMMA ServedGoto ==
    ASSUME SessionInv, NEW s \in Sessions, NEW q \in Record, Served(session[s]), Served(q),
           q.pc # "serving", q.pc = "recording" => session[s].source = "subscription",
           q.source = session[s].source, q.quota = session[s].quota, q.pre = session[s].pre,
           q.tokenConsumed = session[s].tokenConsumed, q.actual = session[s].actual
    PROVE  /\ RecordSound(q) /\ Beyond(q) = Beyond(session[s])
           /\ Slack(q) - Slack(session[s]) = LastSlack(q) - LastSlack(session[s])
           /\ q.pc # "settling" => MoreSlack(s, q)
  <1>1. RecordSound(q)
    BY Facts DEF RecordSound, Served, Before
  <1>2. Beyond(q) = Beyond(session[s]) /\ Beyond(q) \in Nat
    BY ClaimTypes DEF Beyond
  <1>3. /\ LastSlack(session[s]) = IF session[s].pc = "settling" THEN 0 ELSE Beyond(session[s])
        /\ Slack(session[s]) = (IF session[s].source = "wallet" THEN session[s].quota ELSE 0)
                                + LastSlack(session[s])
    BY Facts, ServedClaims
  <1>4. /\ LastSlack(q) = IF q.pc = "settling" THEN 0 ELSE Beyond(q)
        /\ Slack(q) = (IF q.source = "wallet" THEN q.quota ELSE 0) + LastSlack(q)
    BY <1>1, ServedClaims
  <1>5. LastSlack(q) \in Int /\ LastSlack(session[s]) \in Int /\ session[s].quota \in Nat
    BY Facts, ClaimTypes
  <1>6. Slack(q) - Slack(session[s]) = LastSlack(q) - LastSlack(session[s])
    BY <1>3, <1>4, <1>5
  <1>7. ASSUME q.pc # "settling" PROVE MoreSlack(s, q)
    <2>1. LastSlack(q) >= LastSlack(session[s])
      BY <1>2, <1>3, <1>4, <1>7
    <2> QED
      BY <1>3, <1>4, <1>5, <2>1 DEF MoreSlack
  <1> QED
    BY <1>1, <1>2, <1>6, <1>7

\* The response is in, and its cost known.
LEMMA PostConsumeMoves ==
    ASSUME SessionInv, NEW s \in Sessions, NEW actual \in Actuals, PostConsume(s, actual)
    PROVE  \E q : Moves(s, q) /\ Fits(s, q)
  <1>1. session[s].pc = "serving" /\ UNCHANGED <<balances, bounds>>
    BY DEF PostConsume, At
  <1>2. PICK pc \in {"settled", "settling"} :
           /\ session' = [session EXCEPT ![s].actual = actual, ![s].pc = pc]
           /\ pc = "settled" => actual = session[s].pre
    BY DEF PostConsume
  <1> DEFINE q == [session[s] EXCEPT !.actual = actual, !.pc = pc]
  <1>3. session[s] \in Record /\ actual \in Nat /\ pc \in PC
    BY <1>2, Facts, SessionAssumption DEF PC, Ended
  <1>4. /\ q \in Record /\ q.pc = pc /\ q.actual = actual /\ q.source = session[s].source
        /\ q.quota = session[s].quota /\ q.pre = session[s].pre
        /\ q.tokenConsumed = session[s].tokenConsumed
    BY <1>3 DEF Record
  <1>5. session' = [session EXCEPT ![s] = q]
    BY <1>2, Facts
  <1> HIDE DEF q
  <1>6. Served(q) /\ Served(session[s]) /\ session[s].actual = 0 /\ RecordSound(q)
    BY <1>1, <1>2, <1>4, Facts DEF Served, Before, RecordSound
  <1>7. /\ Held(session[s]) = session[s].pre /\ TokenDue(session[s]) = session[s].pre
        /\ LastSlack(session[s]) = Beyond(session[s])
        /\ Slack(session[s]) = (IF session[s].source = "wallet" THEN session[s].quota ELSE 0)
                                + LastSlack(session[s])
    BY <1>1, <1>6, Facts, ServedClaims DEF Taken
  <1>8. /\ Held(q) = session[s].pre /\ TokenDue(q) = session[s].pre
        /\ LastSlack(q) = (IF q.pc = "settling" THEN 0 ELSE Beyond(q))
        /\ Slack(q) = (IF q.source = "wallet" THEN q.quota ELSE 0) + LastSlack(q)
    BY <1>2, <1>4, <1>6, ServedClaims DEF Taken
  <1>9. SameClaims(s, q)
    BY <1>4, <1>7, <1>8 DEF SameClaims, Due
  <1>10. Beyond(session[s]) = 0 /\ (q.pc = "settling" \/ Beyond(q) = 0)
    BY <1>2, <1>4, <1>6, Facts DEF Beyond
  <1>11. LastSlack(session[s]) = 0 /\ LastSlack(q) = 0
    BY <1>7, <1>8, <1>10
  <1>12. MoreSlack(s, q)
    BY <1>4, <1>7, <1>8, <1>11, Facts DEF MoreSlack
  <1> QED
    BY <1>1, <1>4, <1>5, <1>6, <1>9, <1>12, StillMoves

\* The request has failed.
LEMMA RefundMoves ==
    ASSUME SessionInv, NEW s \in Sessions, Refund(s)
    PROVE  \E q : Moves(s, q) /\ Fits(s, q)
  <1>1. session[s].pc = "serving" /\ UNCHANGED <<balances, bounds>>
    BY DEF Refund, At
  <1>2. PICK pc \in {"refunding", "refunded"} :
           Goto(s, pc) /\ (pc = "refunded" => ~NeedsRefund(s))
    BY DEF Refund
  <1>3. PICK q : q = [session[s] EXCEPT !.pc = pc]
    OBVIOUS
  <1>4. pc \in PC
    BY <1>2 DEF PC, Ended
  <1>5. /\ session' = [session EXCEPT ![s] = q]
        /\ q \in Record /\ q.pc = pc
        /\ q.source = session[s].source /\ q.quota = session[s].quota /\ q.pre = session[s].pre
        /\ q.tokenConsumed = session[s].tokenConsumed /\ q.actual = session[s].actual
    BY <1>2, <1>3, <1>4, GotoMoves
  <1>6. Served(q) /\ Served(session[s])
    BY <1>1, <1>2, <1>5 DEF Served, Before
  <1>7. RecordSound(q) /\ MoreSlack(s, q)
    BY <1>2, <1>5, <1>6, ServedGoto
  <1>8. /\ Held(session[s]) = session[s].pre /\ TokenDue(session[s]) = session[s].pre
        /\ session[s].pre = session[s].tokenConsumed
    BY <1>1, <1>6, Facts, ServedClaims DEF Taken
  <1>9. Held(q) = session[s].pre /\ TokenDue(q) = session[s].pre
    <2>1. CASE pc = "refunding"
      BY <1>5, <1>6, <1>7, <2>1, ServedClaims DEF Taken
    <2>2. CASE pc = "refunded"
      <3>1. session[s].pre = 0
        BY <1>2, <1>8, <2>2, Facts DEF NeedsRefund
      <3> QED
        BY <1>5, <1>6, <1>7, <2>2, <3>1, ServedClaims
    <2> QED
      BY <1>2, <2>1, <2>2
  <1>10. SameClaims(s, q)
    BY <1>5, <1>8, <1>9 DEF SameClaims, Due
  <1> QED
    BY <1>1, <1>5, <1>7, <1>10, StillMoves

(* A Goto after the session was served.                                    *)
LEMMA GotoServed ==
    ASSUME SessionInv, NEW s \in Sessions, Served(session[s]), NEW pc, Goto(s, pc),
           pc \in {"settleToken", "settled", "unsettled", "refunding", "recording", "refundToken", "refunded"},
           pc = "recording" => session[s].source = "subscription",
           NEW q, q = [session[s] EXCEPT !.pc = pc]
    PROVE  /\ session' = [session EXCEPT ![s] = q]
           /\ q \in Record /\ RecordSound(q) /\ Served(q) /\ q.pc = pc
           /\ q.source = session[s].source /\ q.pre = session[s].pre /\ q.actual = session[s].actual
           /\ LastSlack(q) = Beyond(session[s])
           /\ Slack(q) - Slack(session[s]) = LastSlack(q) - LastSlack(session[s])
           /\ MoreSlack(s, q)
  <1>1. pc \in PC
    BY DEF PC, Ended
  <1>2. /\ session' = [session EXCEPT ![s] = q]
        /\ q \in Record /\ q.pc = pc
        /\ q.source = session[s].source /\ q.quota = session[s].quota /\ q.pre = session[s].pre
        /\ q.tokenConsumed = session[s].tokenConsumed /\ q.actual = session[s].actual
    BY <1>1, GotoMoves
  <1>3. Served(q)
    BY <1>2 DEF Served, Before
  <1>4. /\ RecordSound(q) /\ Beyond(q) = Beyond(session[s])
        /\ Slack(q) - Slack(session[s]) = LastSlack(q) - LastSlack(session[s])
        /\ MoreSlack(s, q)
    BY <1>2, <1>3, ServedGoto
  <1>5. LastSlack(q) = Beyond(session[s])
    BY <1>2, <1>3, <1>4, ServedClaims
  <1> QED
    BY <1>2, <1>3, <1>4, <1>5

\* The difference is settled with the source ...
LEMMA SettleFundingMoves ==
    ASSUME SessionInv, NEW s \in Sessions, SettleFunding(s)
    PROVE  \E q : Moves(s, q) /\ Fits(s, q)
  <1>1. /\ session[s].pc = "settling"
        /\ token' = token /\ refunded' = refunded /\ crashes' = crashes /\ resets' = resets
        /\ EndTransaction(s)
    BY DEF SettleFunding, At
  <1>r. seen' \in Reads
    BY <1>1, NothingRead
  <1>2. Served(session[s])
    BY <1>1 DEF Served, Before
  <1>3. /\ Held(session[s]) = session[s].pre /\ TokenDue(session[s]) = session[s].pre
        /\ LastSlack(session[s]) = 0 /\ session[s].pre \in Nat /\ session[s].actual \in Nat
    BY <1>1, <1>2, Facts, ServedClaims DEF Taken
  <1>4. /\ wallet \in Int /\ token \in Int /\ AmountTotal \in Nat
        /\ sub \in SubRow /\ sub.used \in Nat /\ seen[s] \in Unread..AmountTotal
        /\ Slack(session[s]) \in Int /\ Beyond(session[s]) \in Nat
        /\ session[s].source \in Sources
    BY Facts, ClaimTypes
  <1>5. Delta(s) = session[s].actual - session[s].pre /\ Delta(s) \in Int
    BY <1>3 DEF Delta
  <1>6. CASE Goto(s, "settleToken") /\ UNCHANGED faults
    <2>1. PICK q : q = [session[s] EXCEPT !.pc = "settleToken"]
      OBVIOUS
    <2>2. /\ session' = [session EXCEPT ![s] = q]
          /\ q \in Record /\ RecordSound(q) /\ Served(q) /\ q.pc = "settleToken"
          /\ q.source = session[s].source /\ q.pre = session[s].pre /\ q.actual = session[s].actual
          /\ LastSlack(q) = Beyond(session[s])
          /\ Slack(q) - Slack(session[s]) = LastSlack(q) - LastSlack(session[s])
      BY <1>2, <1>6, <2>1, GotoServed
    <2>3. Held(q) = session[s].actual /\ TokenDue(q) = session[s].pre /\ Slack(q) \in Int
      BY <2>2, ServedClaims, ClaimTypes
    <2>4. UNCHANGED <<refunded, bounds>> /\ token' + TokenDue(q) = token + TokenDue(session[s])
      BY <1>1, <1>3, <1>6, <2>3 DEF bounds
    <2>5. CASE session[s].source = "wallet" /\ wallet' = wallet - Delta(s) /\ UNCHANGED sub
      <3>1. /\ Due(q, "wallet") = session[s].actual /\ Due(session[s], "wallet") = session[s].pre
            /\ Due(q, "subscription") = 0 /\ Due(session[s], "subscription") = 0
        BY <1>3, <2>2, <2>3, <2>5 DEF Due
      <3>2. wallet' \in Int /\ wallet' + Due(q, "wallet") = wallet + Due(session[s], "wallet")
        BY <1>3, <1>4, <1>5, <2>5, <3>1
      <3>3. sub'.used + Due(session[s], "subscription") = sub.used + Due(q, "subscription")
        BY <2>5, <3>1
      <3>4. Beyond(session[s]) >= Delta(s)
        BY <1>3, <1>5, <2>5 DEF Beyond
      <3>5. /\ wallet' + Slack(q) >= wallet + Slack(session[s])
            /\ wallet' + LastSlack(q) >= wallet + LastSlack(session[s])
        BY <1>3, <1>4, <1>5, <2>2, <2>3, <2>5, <3>4
      <3> QED
        BY <1>1, <1>4, <1>r, <2>2, <2>4, <2>5, <3>2, <3>3, <3>5, SaveMoves
    <2>6. CASE /\ session[s].source = "subscription" /\ seen[s] # Unread
               /\ Chargeable(seen[s], Delta(s))
               /\ SaveUsed(s, Charged(seen[s], Delta(s))) /\ UNCHANGED wallet
      <3>1. /\ Due(q, "subscription") = session[s].actual /\ Due(session[s], "subscription") = session[s].pre
            /\ Due(q, "wallet") = 0 /\ Due(session[s], "wallet") = 0
        BY <1>3, <2>2, <2>3, <2>6 DEF Due
      <3>2. seen[s] \in 0..AmountTotal /\ Charged(seen[s], Delta(s)) \in 0..AmountTotal
        BY <1>4, <1>5, <2>6 DEF Chargeable, Charged, Unread
      <3>3. /\ sub' \in SubRow /\ sub'.used = Charged(seen[s], Delta(s))
            /\ sub.lost => sub'.lost
            /\ ~sub'.lost => sub.used = seen[s]
        BY <1>4, <2>6, <3>2 DEF SaveUsed, SubRow
      <3>4. \/ seen[s] < session[s].pre
            \/ Charged(seen[s], Delta(s)) = seen[s] + Delta(s)
        BY <1>3, <1>5, <3>2 DEF Charged
      <3>5. \/ sub'.used + Due(session[s], "subscription") = sub.used + Due(q, "subscription")
            \/ sub.used < Due(session[s], "subscription")
            \/ sub'.lost
        BY <1>3, <1>4, <1>5, <3>1, <3>2, <3>3, <3>4
      <3>6. wallet' \in Int /\ wallet' + Due(q, "wallet") = wallet + Due(session[s], "wallet")
        BY <1>4, <2>6, <3>1
      <3>7. /\ wallet' + Slack(q) >= wallet + Slack(session[s])
            /\ wallet' + LastSlack(q) >= wallet + LastSlack(session[s])
        BY <1>3, <1>4, <2>2, <2>3, <2>6
      <3> QED
        BY <1>1, <1>4, <1>r, <2>2, <2>4, <3>3, <3>5, <3>6, <3>7, SaveMoves
    <2>7. session'[s].pc = "settleToken"
      BY <2>2, Facts
    <2>8. ~Goto(s, "unsettled")
      <3>1. Goto(s, "unsettled") => session'[s].pc = "unsettled"
        BY Facts DEF Goto, Record
      <3> QED
        BY <2>7, <3>1
    <2> QED
      BY <2>5, <2>6, <2>8 DEF SettleFunding
  <1>7. CASE Goto(s, "unsettled") /\ UNCHANGED <<wallet, sub>>
    <2>1. PICK q : q = [session[s] EXCEPT !.pc = "unsettled"]
      OBVIOUS
    <2>2. /\ session' = [session EXCEPT ![s] = q]
          /\ q \in Record /\ RecordSound(q) /\ Served(q) /\ q.pc = "unsettled"
          /\ q.source = session[s].source /\ q.pre = session[s].pre /\ MoreSlack(s, q)
      BY <1>2, <1>7, <2>1, GotoServed
    <2>3. Held(q) = session[s].pre /\ TokenDue(q) = session[s].pre
      BY <2>2, ServedClaims DEF Taken
    <2>4. SameClaims(s, q)
      BY <1>3, <2>2, <2>3 DEF SameClaims, Due
    <2>5. CASE UNCHANGED faults
      <3>1. UNCHANGED <<wallet, token, sub, refunded, bounds>>
        BY <1>1, <1>7, <2>5 DEF bounds
      <3> QED
        BY <1>1, <1>r, <2>2, <2>4, <3>1, ReadMoves
    <2>6. CASE Fault
      <3>1. UNCHANGED <<wallet, token, sub, refunded, crashes, resets>> /\ s \notin refunded
        BY <1>1, <1>7, Facts
      <3>2. Due(q, "wallet") <= Due(session[s], "wallet")
        BY <2>4, Facts, ClaimTypes DEF SameClaims
      <3> QED
        BY <1>r, <2>2, <2>6, <3>1, <3>2, AbortMoves
    <2> QED
      BY <2>5, <2>6 DEF SettleFunding
  <1> QED
    BY <1>6, <1>7 DEF SettleFunding

\* ... and with the token.
LEMMA SettleTokenMoves ==
    ASSUME SessionInv, NEW s \in Sessions, SettleToken(s)
    PROVE  \E q : Moves(s, q) /\ Fits(s, q)
  <1>1. /\ session[s].pc = "settleToken" /\ Goto(s, "settled")
        /\ wallet' = wallet /\ sub' = sub /\ seen' = seen /\ refunded' = refunded /\ crashes' = crashes /\ resets' = resets
    BY DEF SettleToken, At
  <1>2. Served(session[s])
    BY <1>1 DEF Served, Before
  <1>3. /\ Held(session[s]) = session[s].actual /\ TokenDue(session[s]) = session[s].pre
        /\ session[s].pre \in Nat /\ session[s].actual \in Nat
    BY <1>1, <1>2, Facts, ServedClaims
  <1>4. PICK q : q = [session[s] EXCEPT !.pc = "settled"]
    OBVIOUS
  <1>5. /\ session' = [session EXCEPT ![s] = q]
        /\ q \in Record /\ RecordSound(q) /\ Served(q) /\ q.pc = "settled"
        /\ q.source = session[s].source /\ q.actual = session[s].actual /\ MoreSlack(s, q)
    BY <1>1, <1>2, <1>4, GotoServed
  <1>6. Held(q) = session[s].actual /\ TokenDue(q) = session[s].actual
    BY <1>5, ServedClaims
  <1>7. /\ Due(q, "wallet") = Due(session[s], "wallet")
        /\ Due(q, "subscription") = Due(session[s], "subscription")
    BY <1>3, <1>5, <1>6 DEF Due
  <1>8. /\ wallet \in Int /\ token \in Int /\ sub \in SubRow
        /\ Slack(session[s]) \in Int /\ LastSlack(session[s]) \in Int
        /\ Slack(q) \in Int /\ LastSlack(q) \in Int
        /\ Due(session[s], "wallet") \in Int
    BY <1>5, Facts, ClaimTypes
  <1>9. CASE token' = token - Delta(s) /\ UNCHANGED faults
    <2>1. token' \in Int /\ token' + TokenDue(q) = token + TokenDue(session[s])
      BY <1>3, <1>6, <1>8, <1>9 DEF Delta
    <2>2. /\ wallet' + Due(q, "wallet") = wallet + Due(session[s], "wallet")
          /\ sub'.used + Due(session[s], "subscription") = sub.used + Due(q, "subscription")
      BY <1>1, <1>7
    <2>3. /\ wallet' + Slack(q) >= wallet + Slack(session[s])
          /\ wallet' + LastSlack(q) >= wallet + LastSlack(session[s])
      BY <1>1, <1>5, <1>8 DEF MoreSlack
    <2>4. UNCHANGED <<seen, refunded, bounds>>
      BY <1>1, <1>9 DEF bounds
    <2> QED
      BY <1>1, <1>5, <1>8, <2>1, <2>2, <2>3, <2>4, PayMoves
  <1>10. CASE Fault /\ UNCHANGED token
    <2>1. UNCHANGED <<balances, crashes, resets>> /\ s \notin refunded
      BY <1>1, <1>10, Facts DEF balances
    <2>2. Due(q, "wallet") <= Due(session[s], "wallet")
      BY <1>7, <1>8
    <2> QED
      BY <1>5, <1>10, <2>1, <2>2, FailMoves
  <1> QED
    BY <1>9, <1>10 DEF SettleToken

\* The wallet's refund.
LEMMA RefundWalletMoves ==
    ASSUME SessionInv, NEW s \in Sessions, RefundWallet(s)
    PROVE  \E q : Moves(s, q) /\ Fits(s, q)
  <1>1. /\ session[s].pc = "refunding" /\ session[s].source = "wallet" /\ Goto(s, "refundToken")
        /\ token' = token /\ sub' = sub /\ seen' = seen /\ refunded' = refunded /\ crashes' = crashes /\ resets' = resets
    BY DEF RefundWallet, At
  <1>2. Served(session[s])
    BY <1>1 DEF Served, Before
  <1>3. Held(session[s]) = session[s].pre /\ TokenDue(session[s]) = session[s].pre /\ session[s].pre \in Nat
    BY <1>1, <1>2, Facts, ServedClaims DEF Taken
  <1>4. PICK q : q = [session[s] EXCEPT !.pc = "refundToken"]
    OBVIOUS
  <1>5. /\ session' = [session EXCEPT ![s] = q]
        /\ q \in Record /\ RecordSound(q) /\ Served(q) /\ q.pc = "refundToken"
        /\ q.source = session[s].source /\ q.pre = session[s].pre /\ MoreSlack(s, q)
    BY <1>1, <1>2, <1>4, GotoServed
  <1>6. Held(q) = 0 /\ TokenDue(q) = session[s].pre
    BY <1>5, ServedClaims
  <1>7. /\ Due(q, "wallet") = 0 /\ Due(session[s], "wallet") = session[s].pre
        /\ Due(q, "subscription") = 0 /\ Due(session[s], "subscription") = 0
    BY <1>1, <1>3, <1>5, <1>6 DEF Due
  <1>8. /\ wallet \in Int /\ token \in Int /\ sub \in SubRow
        /\ Slack(session[s]) \in Int /\ LastSlack(session[s]) \in Int
        /\ Slack(q) \in Int /\ LastSlack(q) \in Int
    BY <1>5, Facts, ClaimTypes
  <1>9. CASE wallet' = wallet + session[s].pre /\ UNCHANGED faults
    <2>1. wallet' \in Int /\ wallet' + Due(q, "wallet") = wallet + Due(session[s], "wallet")
      BY <1>3, <1>7, <1>8, <1>9
    <2>2. /\ token' + TokenDue(q) = token + TokenDue(session[s])
          /\ sub'.used + Due(session[s], "subscription") = sub.used + Due(q, "subscription")
      BY <1>1, <1>3, <1>6, <1>7
    <2>3. /\ wallet' + Slack(q) >= wallet + Slack(session[s])
          /\ wallet' + LastSlack(q) >= wallet + LastSlack(session[s])
      BY <1>3, <1>5, <1>8, <1>9 DEF MoreSlack
    <2>4. UNCHANGED <<seen, refunded, bounds>>
      BY <1>1, <1>9 DEF bounds
    <2> QED
      BY <1>1, <1>5, <1>8, <2>1, <2>2, <2>3, <2>4, PayMoves
  <1>10. CASE Fault /\ UNCHANGED wallet
    <2>1. UNCHANGED <<balances, crashes, resets>> /\ s \notin refunded
      BY <1>1, <1>10, Facts DEF balances
    <2>2. Due(q, "wallet") <= Due(session[s], "wallet")
      BY <1>3, <1>7
    <2> QED
      BY <1>5, <1>10, <2>1, <2>2, FailMoves
  <1> QED
    BY <1>9, <1>10 DEF RefundWallet

(* A failed refund of a subscription is tried again or given up.           *)
LEMMA RetryMoves ==
    ASSUME SessionInv, NEW s \in Sessions, session[s].pc \in {"refunding", "recording"},
           session[s].source = "subscription", Fault, Retry(s),
           UNCHANGED <<wallet, token, sub, refunded, crashes, resets>>, seen' \in Reads
    PROVE  \E q : Moves(s, q) /\ Fits(s, q)
  <1>1. Served(session[s]) /\ s \notin refunded
    BY Facts DEF Served, Before
  <1>2. CASE Goto(s, "refundToken")
    <2>1. PICK q : q = [session[s] EXCEPT !.pc = "refundToken"]
      OBVIOUS
    <2>2. /\ session' = [session EXCEPT ![s] = q] /\ q \in Record /\ RecordSound(q)
          /\ q.source = session[s].source /\ MoreSlack(s, q)
      BY <1>1, <1>2, <2>1, GotoServed
    <2>3. Due(q, "wallet") <= Due(session[s], "wallet")
      BY <2>2 DEF Due
    <2> QED
      BY <1>1, <2>2, <2>3, AbortMoves
  <1>3. CASE /\ session[s].attempt + 1 < MaxAttempts
             /\ session' = [session EXCEPT ![s].attempt = @ + 1, ![s].pc = "refunding"]
    <2> DEFINE q == [session[s] EXCEPT !.attempt = @ + 1, !.pc = "refunding"]
    <2>1. session[s] \in Record /\ session[s].attempt + 1 \in 0..MaxAttempts /\ "refunding" \in PC
      BY <1>3, Facts, SessionAssumption DEF Record, PC
    <2>2. /\ q \in Record /\ q.pc = "refunding"
          /\ q.source = session[s].source /\ q.quota = session[s].quota /\ q.pre = session[s].pre
          /\ q.tokenConsumed = session[s].tokenConsumed /\ q.actual = session[s].actual
      BY <2>1 DEF Record
    <2>3. session' = [session EXCEPT ![s] = q]
      BY <1>3, Facts
    <2> HIDE DEF q
    <2>4. Served(q)
      BY <2>2 DEF Served, Before
    <2>5. RecordSound(q) /\ MoreSlack(s, q)
      BY <1>1, <2>2, <2>4, ServedGoto
    <2>6. Due(q, "wallet") <= Due(session[s], "wallet")
      BY <2>2 DEF Due
    <2> QED
      BY <1>1, <2>2, <2>3, <2>5, <2>6, AbortMoves
  <1> QED
    BY <1>2, <1>3 DEF Retry

\* The subscription's refund ...
LEMMA RefundSubscriptionMoves ==
    ASSUME SessionInv, NEW s \in Sessions, RefundSubscription(s)
    PROVE  \E q : Moves(s, q) /\ Fits(s, q)
  <1>1. /\ session[s].pc = "refunding" /\ session[s].source = "subscription"
        /\ wallet' = wallet /\ token' = token /\ refunded' = refunded
        /\ crashes' = crashes /\ resets' = resets
        /\ EndTransaction(s)
    BY DEF RefundSubscription, At
  <1>r. seen' \in Reads
    BY <1>1, NothingRead
  <1>2. Served(session[s]) /\ s \notin refunded
    BY <1>1, Facts DEF Served, Before
  <1>3. CASE /\ seen[s] # Unread /\ SaveUsed(s, Charged(seen[s], -session[s].pre))
             /\ Goto(s, "recording") /\ UNCHANGED faults
    <2>1. Held(session[s]) = session[s].pre /\ TokenDue(session[s]) = session[s].pre /\ session[s].pre \in Nat
      BY <1>1, <1>2, Facts, ServedClaims DEF Taken
    <2>2. PICK q : q = [session[s] EXCEPT !.pc = "recording"]
      OBVIOUS
    <2>3. /\ session' = [session EXCEPT ![s] = q]
          /\ q \in Record /\ RecordSound(q) /\ Served(q) /\ q.pc = "recording"
          /\ q.source = session[s].source /\ q.pre = session[s].pre /\ MoreSlack(s, q)
      BY <1>1, <1>2, <1>3, <2>2, GotoServed
    <2>4. Held(q) = 0 /\ TokenDue(q) = session[s].pre
      BY <2>3, ServedClaims
    <2>5. /\ Due(q, "wallet") = 0 /\ Due(session[s], "wallet") = 0
          /\ Due(q, "subscription") = 0 /\ Due(session[s], "subscription") = session[s].pre
      BY <1>1, <2>1, <2>3, <2>4 DEF Due
    <2>6. /\ wallet \in Int /\ token \in Int /\ AmountTotal \in Nat
          /\ sub \in SubRow /\ sub.used \in 0..AmountTotal /\ seen[s] \in Unread..AmountTotal
          /\ Slack(session[s]) \in Int /\ LastSlack(session[s]) \in Int
          /\ Slack(q) \in Int /\ LastSlack(q) \in Int
      BY <2>3, Facts, ClaimTypes
    <2>7. /\ seen[s] \in 0..AmountTotal /\ Charged(seen[s], -session[s].pre) \in 0..AmountTotal
          /\ \/ seen[s] < session[s].pre
             \/ Charged(seen[s], -session[s].pre) = seen[s] - session[s].pre
      BY <1>3, <2>1, <2>6 DEF Charged, Unread
    <2>8. /\ sub' \in SubRow /\ sub'.used = Charged(seen[s], -session[s].pre)
          /\ sub.lost => sub'.lost
          /\ ~sub'.lost => sub.used = seen[s]
      BY <1>3, <2>6, <2>7 DEF SaveUsed, SubRow
    <2>9. \/ sub'.used + Due(session[s], "subscription") = sub.used + Due(q, "subscription")
          \/ sub.used < Due(session[s], "subscription")
          \/ sub'.lost
      BY <2>1, <2>5, <2>6, <2>7, <2>8
    <2>10. /\ wallet' + Due(q, "wallet") = wallet + Due(session[s], "wallet")
           /\ token' + TokenDue(q) = token + TokenDue(session[s])
      BY <1>1, <2>1, <2>4, <2>5
    <2>11. /\ wallet' + Slack(q) >= wallet + Slack(session[s])
           /\ wallet' + LastSlack(q) >= wallet + LastSlack(session[s])
      BY <1>1, <2>3, <2>6 DEF MoreSlack
    <2>12. UNCHANGED <<refunded, bounds>>
      BY <1>1, <1>3 DEF bounds
    <2> QED
      BY <1>1, <2>3, <2>6, <2>8, <2>9, <2>10, <2>11, <2>12, <1>r, SaveMoves
  <1>4. CASE Fault /\ Retry(s) /\ UNCHANGED sub
    <2>1. UNCHANGED <<wallet, token, sub, refunded, crashes, resets>>
      BY <1>1, <1>4
    <2> QED
      BY <1>1, <1>4, <1>r, <2>1, RetryMoves
  <1> QED
    BY <1>2, <1>3, <1>4 DEF RefundSubscription

\* ... and the record that it was made.
LEMMA SaveRefundedMoves ==
    ASSUME SessionInv, NEW s \in Sessions, SaveRefunded(s)
    PROVE  \E q : Moves(s, q) /\ Fits(s, q)
  <1>1. /\ session[s].pc = "recording" /\ session[s].source = "subscription"
        /\ wallet' = wallet /\ token' = token /\ sub' = sub /\ seen' = seen
        /\ crashes' = crashes /\ resets' = resets
    BY Facts DEF SaveRefunded, At, RecordSound
  <1>2. Served(session[s])
    BY <1>1 DEF Served, Before
  <1>3. CASE refunded' = refunded \cup {s} /\ Goto(s, "refundToken") /\ UNCHANGED faults
    <2>1. Held(session[s]) = 0 /\ TokenDue(session[s]) = session[s].pre
      BY <1>1, <1>2, Facts, ServedClaims
    <2>2. PICK q : q = [session[s] EXCEPT !.pc = "refundToken"]
      OBVIOUS
    <2>3. /\ session' = [session EXCEPT ![s] = q]
          /\ q \in Record /\ RecordSound(q) /\ Served(q) /\ q.pc = "refundToken"
          /\ q.source = session[s].source /\ q.pre = session[s].pre /\ MoreSlack(s, q)
      BY <1>1, <1>2, <1>3, <2>2, GotoServed
    <2>4. Held(q) = 0 /\ TokenDue(q) = session[s].pre
      BY <2>3, ServedClaims
    <2>5. SameClaims(s, q)
      BY <2>1, <2>3, <2>4 DEF SameClaims, Due
    <2>6. /\ wallet \in Int /\ Due(q, "wallet") \in Int
          /\ Slack(session[s]) \in Int /\ LastSlack(session[s]) \in Int
          /\ Slack(q) \in Int /\ LastSlack(q) \in Int
      BY <2>3, Facts, ClaimTypes
    <2>7. Fits(s, q)
      BY <1>1, <1>3, <2>3, Facts DEF Fits
    <2>8. Clean' => Clean
      BY <1>1, <1>3 DEF Clean
    <2>9. /\ wallet' + Due(q, "wallet") = wallet + Due(session[s], "wallet")
          /\ token' + TokenDue(q) = token + TokenDue(session[s])
          /\ sub'.used + Due(session[s], "subscription") = sub.used + Due(q, "subscription")
      BY <1>1, <2>5 DEF SameClaims
    <2>10. /\ wallet' + Due(q, "wallet") <= wallet + Due(session[s], "wallet")
           /\ wallet' + Slack(q) >= wallet + Slack(session[s])
           /\ wallet' + LastSlack(q) >= wallet + LastSlack(session[s])
      BY <1>1, <2>3, <2>6, <2>9 DEF MoreSlack
    <2> QED
      BY <1>1, <2>3, <2>7, <2>8, <2>9, <2>10 DEF Moves
  <1>4. CASE Fault /\ Retry(s) /\ UNCHANGED refunded
    <2>1. UNCHANGED <<wallet, token, sub, refunded, crashes, resets>> /\ seen' \in Reads
      BY <1>1, <1>4, Facts
    <2> QED
      BY <1>1, <1>4, <2>1, RetryMoves
  <1> QED
    BY <1>3, <1>4 DEF SaveRefunded

\* The token's refund.
LEMMA RefundTokenMoves ==
    ASSUME SessionInv, NEW s \in Sessions, RefundToken(s)
    PROVE  \E q : Moves(s, q) /\ Fits(s, q)
  <1>1. /\ session[s].pc = "refundToken" /\ Goto(s, "refunded")
        /\ wallet' = wallet /\ sub' = sub /\ seen' = seen /\ refunded' = refunded /\ crashes' = crashes /\ resets' = resets
    BY DEF RefundToken, At
  <1>2. Served(session[s])
    BY <1>1 DEF Served, Before
  <1>3. /\ Held(session[s]) = 0 /\ TokenDue(session[s]) = session[s].tokenConsumed
        /\ session[s].tokenConsumed \in Nat
    BY <1>1, <1>2, Facts, ServedClaims
  <1>4. PICK q : q = [session[s] EXCEPT !.pc = "refunded"]
    OBVIOUS
  <1>5. /\ session' = [session EXCEPT ![s] = q]
        /\ q \in Record /\ RecordSound(q) /\ Served(q) /\ q.pc = "refunded"
        /\ q.source = session[s].source /\ MoreSlack(s, q)
    BY <1>1, <1>2, <1>4, GotoServed
  <1>6. Held(q) = 0 /\ TokenDue(q) = 0
    BY <1>5, ServedClaims
  <1>7. /\ Due(q, "wallet") = 0 /\ Due(session[s], "wallet") = 0
        /\ Due(q, "subscription") = 0 /\ Due(session[s], "subscription") = 0
    BY <1>3, <1>6 DEF Due
  <1>8. /\ wallet \in Int /\ token \in Int /\ sub \in SubRow
        /\ Slack(session[s]) \in Int /\ LastSlack(session[s]) \in Int
        /\ Slack(q) \in Int /\ LastSlack(q) \in Int
    BY <1>5, Facts, ClaimTypes
  <1>9. CASE token' = token + session[s].tokenConsumed /\ UNCHANGED faults
    <2>1. token' \in Int /\ token' + TokenDue(q) = token + TokenDue(session[s])
      BY <1>3, <1>6, <1>8, <1>9
    <2>2. /\ wallet' + Due(q, "wallet") = wallet + Due(session[s], "wallet")
          /\ sub'.used + Due(session[s], "subscription") = sub.used + Due(q, "subscription")
      BY <1>1, <1>7
    <2>3. /\ wallet' + Slack(q) >= wallet + Slack(session[s])
          /\ wallet' + LastSlack(q) >= wallet + LastSlack(session[s])
      BY <1>1, <1>5, <1>8 DEF MoreSlack
    <2>4. UNCHANGED <<seen, refunded, bounds>>
      BY <1>1, <1>9 DEF bounds
    <2> QED
      BY <1>1, <1>5, <1>8, <2>1, <2>2, <2>3, <2>4, PayMoves
  <1>10. CASE Fault /\ UNCHANGED token
    <2>1. UNCHANGED <<balances, crashes, resets>>
      BY <1>1, <1>10 DEF balances
    <2>2. Due(q, "wallet") <= Due(session[s], "wallet")
      BY <1>7
    <2> QED
      BY <1>5, <1>10, <2>1, <2>2, FailMoves
  <1> QED
    BY <1>9, <1>10 DEF RefundToken

(* A goroutine that dies leaves its claims behind.                         *)
LEMMA CrashMoves ==
    ASSUME SessionInv, NEW s \in Sessions, Crash(s)
    PROVE  \E q : Moves(s, q) /\ Fits(s, q)
  <1>1. /\ Goto(s, "lost") /\ wallet' = wallet /\ token' = token /\ sub' = sub /\ refunded' = refunded
        /\ crashes < MaxCrashes /\ crashes' = crashes + 1 /\ faults' = faults /\ resets' = resets
        /\ EndTransaction(s)
    BY DEF Crash
  <1>2. PICK q : q = [session[s] EXCEPT !.pc = "lost"]
    OBVIOUS
  <1>3. "lost" \in PC
    BY DEF PC, Ended
  <1>4. /\ session' = [session EXCEPT ![s] = q]
        /\ q \in Record /\ q.pc = "lost"
        /\ q.source = session[s].source /\ q.quota = session[s].quota /\ q.pre = session[s].pre
        /\ q.tokenConsumed = session[s].tokenConsumed /\ q.actual = session[s].actual
    BY <1>1, <1>2, <1>3, GotoMoves
  <1>5. RecordSound(q)
    BY <1>4 DEF RecordSound, Before
  <1>6. Due(q, "wallet") = 0 /\ Pending(q) = 0
    BY <1>4 DEF Due, Held, Taken, Pending
  <1>7. /\ Asked(q) >= Asked(session[s]) /\ Beyond(q) = Beyond(session[s])
    BY <1>4, Facts DEF Asked, Beyond
  <1>8. /\ Beyond(session[s]) \in Nat /\ Asked(session[s]) \in Nat /\ Pending(session[s]) \in Nat
        /\ Asked(q) \in Nat /\ Due(session[s], "wallet") \in Nat /\ wallet \in Int
    BY <1>4, Facts, ClaimTypes
  <1>9. /\ wallet' + Slack(q) >= wallet + Slack(session[s])
        /\ wallet' + LastSlack(q) >= wallet + LastSlack(session[s])
    BY <1>1, <1>6, <1>7, <1>8 DEF Slack, LastSlack
  <1>10. wallet' + Due(q, "wallet") <= wallet + Due(session[s], "wallet")
    BY <1>1, <1>6, <1>8
  <1>11. ~Clean'
    BY <1>1, Facts DEF Clean
  <1>12. Fits(s, q)
    BY <1>1, <1>4, Facts, NothingRead DEF Fits
  <1> QED
    BY <1>1, <1>4, <1>5, <1>9, <1>10, <1>11, <1>12 DEF Moves

----------------------------------------------------------------------------
(* At the start nothing is claimed.                                        *)
LEMMA SessionInit == Init => SessionInv
  <1> SUFFICES ASSUME Init PROVE SessionInv
    OBVIOUS
  <1>1. NewSession \in Record
    BY SessionAssumption DEF NewSession, Record, PC, Sources
  <1>2. \A s \in Sessions : session[s] = NewSession
    BY DEF Init
  <1>3. TypeOK
    <2>1. session \in [Sessions -> Record]
      BY <1>1 DEF Init
    <2>2. AmountTotal \in Nat /\ Wallet \in Int /\ Token \in Int
      BY SessionAssumption
    <2>3. Unread \in Unread..AmountTotal
      BY <2>2 DEF Unread
    <2>4. seen \in [Sessions -> Unread..AmountTotal]
      BY <2>3 DEF Init
    <2>5. sub \in [active : BOOLEAN, used : 0..AmountTotal, lost : BOOLEAN]
      <3>1. sub \in [active : BOOLEAN, used : {0}, lost : {FALSE}]
        BY DEF Init
      <3>2. {0} \subseteq 0..AmountTotal
        BY <2>2
      <3>3. {FALSE} \subseteq BOOLEAN
        OBVIOUS
      <3> QED
        BY <3>1, <3>2, <3>3
    <2> QED
      BY <2>1, <2>2, <2>4, <2>5, SessionAssumption DEF Init, TypeOK, Record
  <1>4. RecordsSound /\ RefundedSound
    BY <1>2 DEF Init, RecordsSound, RefundedSound, RecordSound, NewSession, Before
  <1>5. /\ Due(NewSession, "wallet") = 0 /\ Due(NewSession, "subscription") = 0
        /\ TokenDue(NewSession) = 0
    BY DEF NewSession, Due, Held, TokenDue, Taken, TokenTaken
  <1>6. Asked(NewSession) = 0 /\ Beyond(NewSession) = 0 /\ Pending(NewSession) = 0
    BY DEF NewSession, Asked, Beyond, Pending
  <1>7. Slack(NewSession) = 0 /\ LastSlack(NewSession) = 0
    BY <1>6 DEF Slack, LastSlack
  <1>8. Dues("wallet") = 0 /\ Dues("subscription") = 0 /\ TokenDues = 0
    BY <1>2, <1>5, TotalZero, SessionsAssumed DEF Dues, TokenDues
  <1>9. ASSUME NEW last \in Sessions PROVE SlackBut(last) = 0
    BY <1>2, <1>7, TotalZero, SessionsAssumed DEF SlackBut
  <1>10. WalletSound /\ TokenSound /\ SubSound
    BY <1>8, SessionAssumption DEF Init, WalletSound, TokenSound, SubSound
  <1>11. SlackSound
    <2>1. PICK last \in Sessions : TRUE
      BY SessionsAssumed
    <2>2. wallet + SlackBut(last) >= 0
      BY <1>9, SessionAssumption DEF Init
    <2> QED
      BY <2>2 DEF SlackSound
  <1> QED
    BY <1>3, <1>4, <1>10, <1>11 DEF SessionInv

(* A step of a session keeps the invariant.                                *)
LEMMA MoveKeeps ==
    ASSUME SessionInv, NEW s \in Sessions, NEW q, Moves(s, q), Fits(s, q)
    PROVE  SessionInv'
  <1>1. session \in [Sessions -> Record] /\ refunded \subseteq Sessions
    BY Facts DEF SessionInv, TypeOK
  <1>2. session' = [session EXCEPT ![s] = q] /\ q \in Record /\ RecordSound(q)
    BY DEF Moves
  <1>3. /\ session' \in [Sessions -> Record]
        /\ session'[s] = q /\ \A x \in Sessions \ {s} : session'[x] = session[x]
    BY <1>1, <1>2
  <1>4. TypeOK'
    BY <1>1, <1>3 DEF Fits, TypeOK, Record, SubRow, Reads
  <1>5. RecordsSound'
    BY <1>2, <1>3 DEF SessionInv, RecordsSound
  <1>6. RefundedSound'
    BY <1>1, <1>3 DEF SessionInv, RefundedSound, Fits
  <1> QED
    BY <1>4, <1>5, <1>6, MoveBalances, MoveSlack DEF SessionInv

(* A reset or the end of the subscription touches no session.              *)
LEMMA OtherKeeps ==
    ASSUME SessionInv, ResetSubscription \/ Expire \/ UNCHANGED vars
    PROVE  SessionInv'
  <1>1. /\ wallet' = wallet /\ token' = token /\ seen' = seen
        /\ refunded' = refunded /\ session' = session /\ faults' = faults /\ crashes' = crashes
    BY DEF ResetSubscription, Expire, vars, bounds
  <1>2. /\ sub' \in SubRow /\ resets' \in 0..MaxResets
        /\ resets' = 0 => resets = 0 /\ sub'.used = sub.used /\ sub'.lost = sub.lost
    <2>1. /\ sub \in SubRow /\ resets \in 0..MaxResets
          /\ AmountTotal \in Nat /\ MaxResets \in Nat
      BY SessionAssumption DEF SessionInv, TypeOK, SubRow
    <2>2. CASE ResetSubscription
      BY <2>1, <2>2 DEF ResetSubscription, SubRow
    <2>3. CASE Expire
      BY <2>1, <2>3 DEF Expire, bounds, SubRow
    <2>4. CASE UNCHANGED vars
      BY <2>1, <2>4 DEF vars
    <2> QED
      BY <2>2, <2>3, <2>4
  <1>3. TypeOK' /\ RecordsSound' /\ RefundedSound'
    BY <1>1, <1>2 DEF SessionInv, TypeOK, RecordsSound, RefundedSound, SubRow
  <1>4. /\ Dues("wallet")' = Dues("wallet") /\ Dues("subscription")' = Dues("subscription")
        /\ TokenDues' = TokenDues
    BY <1>1 DEF Dues, TokenDues
  <1>5. \A last \in Sessions : SlackBut(last)' = SlackBut(last)
    BY <1>1 DEF SlackBut
  <1>6. Clean' <=> Clean
    BY <1>1 DEF Clean
  <1>7. WalletSound' /\ TokenSound'
    BY <1>1, <1>4, <1>6 DEF SessionInv, WalletSound, TokenSound
  <1>8. SubSound'
    BY <1>2, <1>4, <1>6 DEF SessionInv, SubSound
  <1>9. SlackSound'
    BY <1>1, <1>5 DEF SessionInv, SlackSound
  <1> QED
    BY <1>3, <1>7, <1>8, <1>9 DEF SessionInv

(* Every step keeps the invariant.                                         *)
LEMMA SessionNext == SessionInv /\ [Next]_vars => SessionInv'
  <1> SUFFICES ASSUME SessionInv, [Next]_vars PROVE SessionInv'
    OBVIOUS
  <1>1. ASSUME NEW s \in Sessions, \E q : Moves(s, q) /\ Fits(s, q) PROVE SessionInv'
    BY <1>1, MoveKeeps
  <1>2. ASSUME NEW s \in Sessions, NEW estimate \in Estimates, NEW preference \in Preferences,
               NEW force \in BOOLEAN, Begin(s, estimate, preference, force)
        PROVE  SessionInv'
    BY <1>1, <1>2, BeginMoves
  <1>3. ASSUME NEW s \in Sessions, ReadWallet(s) PROVE SessionInv'
    BY <1>1, <1>3, ReadWalletMoves
  <1>4. ASSUME NEW s \in Sessions, ReadToken(s) PROVE SessionInv'
    BY <1>1, <1>4, ReadTokenMoves
  <1>5. ASSUME NEW s \in Sessions, DecreaseToken(s) PROVE SessionInv'
    BY <1>1, <1>5, DecreaseTokenMoves
  <1>6. ASSUME NEW s \in Sessions, PreConsumeWallet(s) PROVE SessionInv'
    BY <1>1, <1>6, PreConsumeWalletMoves
  <1>7. ASSUME NEW s \in Sessions, PreConsumeSubscription(s) PROVE SessionInv'
    BY <1>1, <1>7, PreConsumeSubscriptionMoves
  <1>7r. ASSUME NEW s \in Sessions, ReadSubscription(s) PROVE SessionInv'
    BY <1>1, <1>7r, ReadSubscriptionMoves
  <1>8. ASSUME NEW s \in Sessions, UndoToken(s) PROVE SessionInv'
    BY <1>1, <1>8, UndoTokenMoves
  <1>9. ASSUME NEW s \in Sessions, NEW actual \in Actuals, PostConsume(s, actual) PROVE SessionInv'
    BY <1>1, <1>9, PostConsumeMoves
  <1>10. ASSUME NEW s \in Sessions, SettleFunding(s) PROVE SessionInv'
    BY <1>1, <1>10, SettleFundingMoves
  <1>11. ASSUME NEW s \in Sessions, SettleToken(s) PROVE SessionInv'
    BY <1>1, <1>11, SettleTokenMoves
  <1>12. ASSUME NEW s \in Sessions, Refund(s) PROVE SessionInv'
    BY <1>1, <1>12, RefundMoves
  <1>13. ASSUME NEW s \in Sessions, RefundWallet(s) PROVE SessionInv'
    BY <1>1, <1>13, RefundWalletMoves
  <1>14. ASSUME NEW s \in Sessions, RefundSubscription(s) PROVE SessionInv'
    BY <1>1, <1>14, RefundSubscriptionMoves
  <1>15. ASSUME NEW s \in Sessions, SaveRefunded(s) PROVE SessionInv'
    BY <1>1, <1>15, SaveRefundedMoves
  <1>16. ASSUME NEW s \in Sessions, RefundToken(s) PROVE SessionInv'
    BY <1>1, <1>16, RefundTokenMoves
  <1>17. ASSUME NEW s \in Sessions, Crash(s) PROVE SessionInv'
    BY <1>1, <1>17, CrashMoves
  <1>18. CASE ResetSubscription \/ Expire \/ UNCHANGED vars
    BY <1>18, OtherKeeps
  <1> QED
    BY <1>2, <1>3, <1>4, <1>5, <1>6, <1>7, <1>7r, <1>8, <1>9, <1>10, <1>11, <1>12, <1>13, <1>14,
       <1>15, <1>16, <1>17, <1>18 DEF Next

(* The inductive invariant holds in every reachable state.                 *)
THEOREM SessionInvariant == Spec => []SessionInv
  <1> QED
    BY SessionInit, SessionNext, PTL DEF Spec

(* The balances, the rows and the sessions of the pre-consume, settle and  *)
(* refund paths keep their types; the subscription's used amount stays     *)
(* between 0 and its total whatever is charged and given back.             *)
THEOREM SessionTypeCorrect == Spec => []TypeOK
  <1>1. SessionInv => TypeOK
    BY DEF SessionInv
  <1> QED
    BY <1>1, SessionInvariant, PTL

(* When all sessions are at rest, their claims are what they cost.         *)
LEMMA ClaimsAtRest ==
    ASSUME SessionInv, AtRest
    PROVE  /\ \A source : Dues(source) = CostBy(source)
           /\ CostBy("wallet") \in Nat /\ CostBy("subscription") \in Nat
           /\ TokenDues = CostBy("wallet") + CostBy("subscription")
  <1>1. ASSUME NEW s \in Sessions
        PROVE  Cost(s) = Held(session[s]) /\ Cost(s) = TokenDue(session[s]) /\ Cost(s) \in Nat
    <2>1. session[s].pc \in Ended \cup {"idle"}
      BY DEF AtRest
    <2>2. session[s].pc = "unsettled" => session[s].pre = session[s].tokenConsumed
      BY Facts DEF RecordSound, Before
    <2>3. Cost(s) = Held(session[s]) /\ Cost(s) = TokenDue(session[s])
      BY <2>1, <2>2 DEF Cost, Held, TokenDue, Taken, TokenTaken, Ended
    <2> QED
      BY <2>3, Facts, ClaimTypes
  <1>2. ASSUME NEW source PROVE Dues(source) = CostBy(source)
    <2>1. \A s \in Sessions : Due(session[s], source) = IF session[s].source = source THEN Cost(s) ELSE 0
      BY <1>1 DEF Due
    <2> QED
      BY <2>1 DEF Dues, CostBy
  <1> DEFINE f == [s \in Sessions |-> IF session[s].source = "wallet" THEN Cost(s) ELSE 0]
             g == [s \in Sessions |-> IF session[s].source = "subscription" THEN Cost(s) ELSE 0]
             h == [s \in Sessions |-> TokenDue(session[s])]
  <1>3. \A s \in Sessions : f[s] \in Nat /\ g[s] \in Nat
    BY <1>1
  <1>4. \A s \in Sessions : f[s] \in Int /\ g[s] \in Int /\ h[s] = f[s] + g[s]
    <2> TAKE s \in Sessions
    <2>1. session[s].source \in Sources
      BY Facts
    <2> QED
      BY <1>1, <2>1 DEF Sources
  <1>5. CostBy("wallet") = Total(f, Sessions) /\ CostBy("subscription") = Total(g, Sessions)
        /\ TokenDues = Total(h, Sessions)
    BY DEF CostBy, TokenDues
  <1> HIDE DEF f, g, h
  <1>6. Total(h, Sessions) = Total(f, Sessions) + Total(g, Sessions)
    BY <1>4, TotalPlus, SessionsAssumed
  <1>7. Total(f, Sessions) \in Nat /\ Total(g, Sessions) \in Nat
    BY <1>3, TotalNat, SessionsAssumed
  <1> QED
    BY <1>2, <1>5, <1>6, <1>7

(* Pre-consume, fallback, rollback, settle and refund conserve quota: once *)
(* all requests have ended and nothing failed, died or was reset, wallet   *)
(* and token lost exactly what the requests cost, and so did the           *)
(* subscription unless a save of its row undid another.                    *)
THEOREM QuotaAlwaysConserved == Spec => []QuotaConserved
  <1>1. SessionInv => QuotaConserved
    <2> SUFFICES ASSUME SessionInv, AtRest, faults = 0, crashes = 0, resets = 0
                 PROVE  /\ wallet = Wallet - CostBy("wallet")
                        /\ sub.lost \/ sub.used = CostBy("subscription")
                        /\ token = Token - CostBy("wallet") - CostBy("subscription")
      BY DEF QuotaConserved
    <2>1. Clean
      BY DEF Clean
    <2>2. /\ wallet = Wallet - Dues("wallet") /\ token = Token - TokenDues
          /\ sub.lost \/ sub.used = Dues("subscription")
      BY <2>1 DEF SessionInv, WalletSound, TokenSound, SubSound
    <2>3. /\ Dues("wallet") = CostBy("wallet") /\ Dues("subscription") = CostBy("subscription")
          /\ CostBy("wallet") \in Nat /\ CostBy("subscription") \in Nat
          /\ TokenDues = CostBy("wallet") + CostBy("subscription")
      BY ClaimsAtRest
    <2>4. Wallet \in Nat /\ Token \in Nat
      BY SessionAssumption
    <2> QED
      BY <2>2, <2>3, <2>4
  <1> QED
    BY <1>1, SessionInvariant, PTL

(* However many statements of the refund and settle paths fail and however *)
(* many goroutines die, the wallet never gains.                            *)
THEOREM WalletNeverGains == Spec => []WalletNeverCreditedTwice
  <1>1. SessionInv => WalletNeverCreditedTwice
    BY ClaimsAtRest DEF WalletNeverCreditedTwice, SessionInv, WalletSound
  <1> QED
    BY <1>1, SessionInvariant, PTL

(* The wallet read of tryWallet and the decrease of WalletFunding are two  *)
(* statements; the overdraft this permits is bounded by the quotas of all  *)
(* sessions but one and the overruns of the responses.                     *)
THEOREM OverdraftAlwaysBounded == Spec => []OverdraftBounded
  <1>1. SessionInv => OverdraftBounded
    <2> SUFFICES ASSUME SessionInv PROVE OverdraftBounded
      OBVIOUS
    <2>1. PICK last \in Sessions : wallet + SlackBut(last) >= 0
      BY DEF SessionInv, SlackSound
    <2> DEFINE f == [s \in Sessions |-> IF s = last THEN LastSlack(session[s]) ELSE Slack(session[s])]
               g == [s \in Sessions |-> IF s = last THEN 0 ELSE WalletQuota(s)]
               o == [s \in Sessions |-> Overrun(s)]
               h == [s \in Sessions |-> g[s] + o[s]]
    <2>2. ASSUME NEW s \in Sessions
          PROVE  /\ Overrun(s) = Beyond(session[s]) /\ Overrun(s) \in Nat
                 /\ WalletQuota(s) \in Nat
                 /\ LastSlack(session[s]) \in Int /\ LastSlack(session[s]) <= Overrun(s)
                 /\ Slack(session[s]) \in Int /\ Slack(session[s]) <= WalletQuota(s) + Overrun(s)
      <3>1. /\ session[s].pre \in Nat /\ session[s].actual \in Nat /\ session[s].quota \in Nat
            /\ Beyond(session[s]) \in Nat /\ Asked(session[s]) \in Nat /\ Pending(session[s]) \in Nat
        BY Facts, ClaimTypes
      <3>2. Overrun(s) = Beyond(session[s])
        BY <3>1 DEF Overrun, Beyond, Delta
      <3>3. WalletQuota(s) \in Nat /\ Asked(session[s]) <= WalletQuota(s)
        BY <3>1 DEF WalletQuota, Asked
      <3> QED
        BY <3>1, <3>2, <3>3 DEF Slack, LastSlack
    <2>3. \A s \in Sessions : /\ f[s] \in Int /\ g[s] \in Int /\ o[s] \in Int
                              /\ h[s] = g[s] + o[s] /\ h[s] \in Int /\ f[s] <= h[s]
      BY <2>2
    <2>4. /\ SlackBut(last) = Total(f, Sessions) /\ WalletQuotasBut(last) = Total(g, Sessions)
          /\ Overruns = Total(o, Sessions)
      BY DEF SlackBut, WalletQuotasBut, Overruns
    <2> HIDE DEF f, g, o, h
    <2>5. Total(h, Sessions) = Total(g, Sessions) + Total(o, Sessions)
      BY <2>3, TotalPlus, SessionsAssumed
    <2>6. Total(f, Sessions) <= Total(h, Sessions)
      BY <2>3, TotalLeq, SessionsAssumed
    <2>7. /\ Total(f, Sessions) \in Int /\ Total(g, Sessions) \in Int /\ Total(o, Sessions) \in Int
          /\ wallet \in Int
      BY <2>3, TotalType, SessionsAssumed DEF SessionInv, TypeOK
    <2>8. wallet + WalletQuotasBut(last) + Overruns >= 0
      BY <2>1, <2>4, <2>5, <2>6, <2>7
    <2> QED
      BY <2>8 DEF OverdraftBounded
  <1> QED
    BY <1>1, SessionInvariant, PTL

----------------------------------------------------------------------------
(* QuotaUpdater, for any finite set of processes, any amounts and any      *)
(* number of changes, reads and mishaps.                                   *)
(*                                                                         *)
(* Each step of a process moves amounts between the row, the process's     *)
(* deltas and what is lost, and their sum is what was accepted.  To bound  *)
(* them the amounts are weighed without their signs: all weights together  *)
(* are at most the largest amount times the changes accepted, and a        *)
(* request count that is still to be recorded weighs one already.  The     *)
(* cache is bounded by what was read and the increments under way, and     *)
(* follows the balance as long as refills and increments do not meet.      *)
(***************************************************************************)
Abs(x) == IF x >= 0 THEN x ELSE -x
Largest == Max(Amounts)

\* All that the accepted changes may have moved.
Cap == ops * Largest

\* What node n holds of type t, however it is signed; a request count still
\* to be recorded weighs what it will.
Weight(n, t) == Abs(stores[n][t]) + Abs(taken[n][t]) + (IF t = "count" THEN half[n] ELSE 0)
Weights(t) == Total([n \in Nodes |-> Weight(n, t)], Nodes)
Underway == Total([k \in Increments |-> Abs(k.value)], Increments)

AnyTask == [id : 1..(MaxOps + MaxReads), node : Nodes, op : {"incr", "fill", "setField"},
            value : Int, seen : BOOLEAN]

\* Types without bounds.
QuotaTyped ==
    /\ batch \in BOOLEAN /\ overlap \in BOOLEAN /\ hidden \in Int
    /\ row \in [Types -> Int] /\ expected \in [Types -> Int] /\ lost \in [Types -> Int]
    /\ entry \in [present : BOOLEAN, whole : BOOLEAN, quota : Int]
    /\ stores \in [Nodes -> [Types -> Int]] /\ taken \in [Nodes -> [Types -> Int]]
    /\ phase \in [Nodes -> 0..4]
    /\ half \in [Nodes -> 0..1]
    /\ tasks \subseteq AnyTask
    /\ ops \in 0..MaxOps /\ reads \in 0..MaxReads
    /\ mishaps \in 0..MaxMishaps

\* Nothing is lost or applied twice, and all of it together is not more than
\* was accepted; a store is taken only after the last one was written.
BalanceInv ==
    /\ \A t \in Types : row[t] + Collected(t) + lost[t] = expected[t]
    /\ \A t \in Types : Abs(row[t]) + Abs(lost[t]) + Weights(t) <= Cap
    /\ \A n \in Nodes, t \in Types : phase[n] <= Order[t] => taken[n][t] = 0

\* Every task is one of its own.
TasksInv ==
    /\ IsFiniteSet(tasks)
    /\ \A k \in tasks : k.id <= ops + reads
    /\ \A j, k \in tasks : j.id = k.id => j = k

\* The cache holds at most what was read and what is added to it.
CacheBounded ==
    /\ \A k \in Refills : Abs(k.value) <= Cap
    /\ Underway <= Cap
    /\ Abs(entry.quota) + Underway <= 2 * Cap
    /\ Abs(hidden) <= Cap

\* Without an overlap a refill finds nothing in flight, and a command that has
\* seen the key finds it.
CacheInv ==
    ~overlap =>
        /\ Refills # {} => Increments = {} /\ \A k \in Refills : k.value = expected["quota"]
        /\ (\E k \in tasks : k.seen) => entry.present
        /\ entry.present => entry.whole /\ entry.quota + Outstanding + hidden = expected["quota"]

QuotaInv == QuotaTyped /\ BalanceInv /\ TasksInv /\ CacheBounded /\ CacheInv

----------------------------------------------------------------------------
(* Constants and sums.                                                     *)
(***************************************************************************)
LEMMA QuotaConstants ==
    /\ IsFiniteSet(Nodes) /\ IsFiniteSet(Amounts)
    /\ Amounts # {} /\ Amounts \subseteq Nat \ {0}
    /\ MaxOps \in Nat /\ MaxReads \in Nat /\ MaxMishaps \in Nat
  BY QuotaUpdaterAssumption

\* The amounts have a largest one.
LEMMA LargestAmount ==
    Largest \in Nat \ {0} /\ \A a \in Amounts : a \in Nat /\ a <= Largest
  <1>1. \E m \in Amounts : \A k \in Amounts : k <= m
    BY QuotaConstants, GreatestNatural
  <1>2. PICK m \in Amounts : \A k \in Amounts : m >= k
    BY <1>1, QuotaConstants
  <1>3. Largest \in Amounts /\ \A k \in Amounts : Largest >= k
    BY <1>2 DEF Largest, Max
  <1> QED
    BY <1>3, QuotaConstants

\* What has been accepted so far bounds every balance by Cap.
LEMMA CapGrows ==
    ASSUME QuotaTyped
    PROVE  /\ Cap \in Nat /\ Cap <= MaxOps * Largest /\ MaxOps * Largest \in Nat
           /\ ops' = ops => Cap' = Cap
           /\ ops' = ops + 1 => Cap' = Cap + Largest
  <1>1. ops \in Nat /\ MaxOps \in Nat /\ ops <= MaxOps /\ Largest \in Nat
    BY QuotaConstants, LargestAmount DEF QuotaTyped
  <1>2. Largest' = Largest
    BY DEF Largest
  <1>3. \A a, b, c \in Nat : a <= b => a * c \in Nat /\ b * c \in Nat /\ a * c <= b * c
    OBVIOUS
  <1>4. \A a, c \in Nat : (a + 1) * c = a * c + c
    OBVIOUS
  <1> QED
    BY <1>1, <1>2, <1>3, <1>4 DEF Cap

\* What the sums over nodes are sums of.
LEMMA WeightTyped ==
    ASSUME QuotaTyped, NEW t \in Types
    PROVE  /\ IsFiniteSet(Nodes)
           /\ \A n \in Nodes : /\ stores[n][t] \in Int /\ taken[n][t] \in Int /\ half[n] \in Nat
                               /\ Weight(n, t) \in Nat
           /\ Weights(t) \in Nat /\ Collected(t) \in Int
           /\ row[t] \in Int /\ lost[t] \in Int /\ expected[t] \in Int
           /\ Abs(row[t]) \in Nat /\ Abs(lost[t]) \in Nat
  <1>1. IsFiniteSet(Nodes)
    BY QuotaConstants DEF QuotaTyped
  <1>2. ASSUME NEW n \in Nodes
        PROVE  /\ stores[n][t] \in Int /\ taken[n][t] \in Int /\ half[n] \in Nat
               /\ Weight(n, t) \in Nat
    <2>1. stores[n][t] \in Int /\ taken[n][t] \in Int /\ half[n] \in Nat
      BY DEF QuotaTyped
    <2> QED
      BY <2>1 DEF Weight, Abs
  <1>3. row[t] \in Int /\ lost[t] \in Int /\ expected[t] \in Int
    BY DEF QuotaTyped
  <1>4. Abs(row[t]) \in Nat /\ Abs(lost[t]) \in Nat
    BY <1>3 DEF Abs
  <1>5. Weights(t) \in Nat
    BY <1>1, <1>2, TotalNat DEF Weights
  <1>6. Collected(t) \in Int
    BY <1>1, <1>2, TotalType DEF Collected
  <1> QED
    BY <1>1, <1>2, <1>3, <1>4, <1>5, <1>6

\* The sums over the increments on their way are integers.
LEMMA TasksTyped ==
    ASSUME QuotaTyped, TasksInv
    PROVE  /\ IsFiniteSet(Increments)
           /\ \A k \in tasks : k.value \in Int /\ Abs(k.value) \in Nat /\ k.id \in Nat
           /\ \A k \in Increments : k \in tasks /\ k.value \in Int /\ Abs(k.value) \in Nat
           /\ Underway \in Nat /\ Outstanding \in Int
           /\ entry.quota \in Int /\ Abs(entry.quota) \in Nat
  <1>1. Increments \subseteq tasks
    BY DEF Increments
  <1>2. IsFiniteSet(Increments)
    BY <1>1, FS_Subset DEF TasksInv
  <1>3. \A k \in tasks : k.value \in Int /\ k.id \in Nat
    BY QuotaConstants DEF QuotaTyped, AnyTask
  <1>4. \A x \in Int : Abs(x) \in Nat
    BY DEF Abs
  <1>5. \A k \in Increments : k.value \in Int /\ Abs(k.value) \in Nat
    BY <1>1, <1>3, <1>4
  <1>6. Underway \in Nat /\ Outstanding \in Int
    BY <1>2, <1>5, TotalNat, TotalType DEF Underway, Outstanding
  <1>7. entry.quota \in Int
    BY DEF QuotaTyped
  <1> QED
    BY <1>1, <1>2, <1>3, <1>4, <1>5, <1>6, <1>7

----------------------------------------------------------------------------
(* The balances.                                                           *)
(***************************************************************************)
\* A step of node n moves amounts between the row, n's deltas and what is
\* lost, and weighs no more than the change it accepts.
BalanceStep(n) ==
    /\ \A m \in Nodes \ {n} :
           /\ stores'[m] = stores[m] /\ taken'[m] = taken[m]
           /\ half'[m] = half[m] /\ phase'[m] = phase[m]
    /\ \A t \in Types :
           /\ (row'[t] - row[t]) + (lost'[t] - lost[t]) + (stores'[n][t] - stores[n][t])
                  + (taken'[n][t] - taken[n][t]) = expected'[t] - expected[t]
           /\ Abs(row'[t]) + Abs(lost'[t]) + Weight(n, t)' - Cap'
                  <= Abs(row[t]) + Abs(lost[t]) + Weight(n, t) - Cap
           /\ phase'[n] <= Order[t] => taken'[n][t] = 0

\* A step of node n that moves amounts between its places.
LEMMA BalanceMoves ==
    ASSUME QuotaTyped, QuotaTyped', BalanceInv, NEW n \in Nodes, BalanceStep(n)
    PROVE  BalanceInv'
  <1>0. Types' = Types /\ Order' = Order
    BY DEF Types, Order
  <1>1. ASSUME NEW t \in Types
        PROVE  /\ row'[t] + Collected(t)' + lost'[t] = expected'[t]
               /\ Abs(row'[t]) + Abs(lost'[t]) + Weights(t)' <= Cap'
    <2> DEFINE f == [m \in Nodes |-> stores[m][t] + taken[m][t]]
               g == [m \in Nodes |-> stores'[m][t] + taken'[m][t]]
               v == [m \in Nodes |-> Weight(m, t)]
               w == [m \in Nodes |-> Weight(m, t)']
    <2>1. /\ IsFiniteSet(Nodes) /\ Weights(t) \in Nat /\ Collected(t) \in Int
          /\ row[t] \in Int /\ lost[t] \in Int /\ expected[t] \in Int
          /\ Abs(row[t]) \in Nat /\ Abs(lost[t]) \in Nat /\ Cap \in Nat
          /\ \A m \in Nodes : stores[m][t] \in Int /\ taken[m][t] \in Int /\ Weight(m, t) \in Nat
      BY WeightTyped, CapGrows
    <2>2. /\ \A m \in Nodes : stores'[m][t] \in Int /\ taken'[m][t] \in Int /\ half'[m] \in Nat
          /\ row'[t] \in Int /\ lost'[t] \in Int /\ expected'[t] \in Int
      <3>1. /\ row' \in [Types -> Int] /\ expected' \in [Types -> Int] /\ lost' \in [Types -> Int]
            /\ stores' \in [Nodes -> [Types -> Int]] /\ taken' \in [Nodes -> [Types -> Int]]
            /\ half' \in [Nodes -> 0..1]
        BY <1>0 DEF QuotaTyped
      <3> QED
        BY <3>1
    <2>3. \A x \in Int : Abs(x) \in Nat
      BY DEF Abs
    <2>4. /\ Abs(row'[t]) \in Nat /\ Abs(lost'[t]) \in Nat
          /\ \A m \in Nodes : Weight(m, t)' \in Nat
      BY <2>2, <2>3 DEF Weight
    <2>5. Cap' \in Nat
      <3>1. ops' \in Nat /\ Largest \in Nat
        BY QuotaConstants, LargestAmount DEF QuotaTyped
      <3>2. Cap' = ops' * Largest
        BY DEF Cap, Largest
      <3>3. \A a, b \in Nat : a * b \in Nat
        OBVIOUS
      <3> QED
        BY <3>1, <3>2, <3>3
    <2>6. Collected(t) = Total(f, Nodes) /\ Collected(t)' = Total(g, Nodes)
      BY DEF Collected
    <2>7. Weights(t) = Total(v, Nodes) /\ Weights(t)' = Total(w, Nodes)
      BY DEF Weights
    <2>8. /\ \A m \in Nodes : f[m] \in Int /\ v[m] \in Int
          /\ g[n] \in Int /\ w[n] \in Int
          /\ f[n] = stores[n][t] + taken[n][t] /\ g[n] = stores'[n][t] + taken'[n][t]
          /\ v[n] = Weight(n, t) /\ w[n] = Weight(n, t)'
      BY <2>1, <2>2, <2>4
    <2>9. \A m \in Nodes \ {n} : g[m] = f[m] /\ w[m] = v[m]
      BY DEF BalanceStep, Weight
    <2> HIDE DEF f, g, v, w
    <2>10. Collected(t)' = Collected(t) + g[n] - f[n]
      BY <2>1, <2>6, <2>8, <2>9, TotalChange
    <2>11. Weights(t)' = Weights(t) + w[n] - v[n]
      <3>1. \A m \in Nodes : v[m] \in Int
        BY <2>8
      <3>2. w[n] \in Int /\ \A m \in Nodes \ {n} : w[m] = v[m]
        BY <2>8, <2>9
      <3>3. Total(w, Nodes) = Total(v, Nodes) + w[n] - v[n]
        BY <2>1, <3>1, <3>2, TotalChange
      <3> QED
        BY <2>7, <3>3
    <2>12. row[t] + Collected(t) + lost[t] = expected[t]
      BY DEF BalanceInv
    <2>13. Abs(row[t]) + Abs(lost[t]) + Weights(t) <= Cap
      BY DEF BalanceInv
    <2>14. /\ (row'[t] - row[t]) + (lost'[t] - lost[t]) + (stores'[n][t] - stores[n][t])
                  + (taken'[n][t] - taken[n][t]) = expected'[t] - expected[t]
           /\ Abs(row'[t]) + Abs(lost'[t]) + Weight(n, t)' - Cap'
                  <= Abs(row[t]) + Abs(lost[t]) + Weight(n, t) - Cap
      BY DEF BalanceStep
    <2>15. row'[t] + Collected(t)' + lost'[t] = expected'[t]
      BY <2>1, <2>2, <2>8, <2>10, <2>12, <2>14
    <2>16. Abs(row'[t]) + Abs(lost'[t]) + Weights(t)' <= Cap'
      BY <2>1, <2>4, <2>5, <2>8, <2>11, <2>13, <2>14
    <2> QED
      BY <2>15, <2>16
  <1>2. ASSUME NEW m \in Nodes, NEW t \in Types, phase'[m] <= Order[t] PROVE taken'[m][t] = 0
    BY <1>2 DEF BalanceStep, BalanceInv
  <1> QED
    BY <1>0, <1>1, <1>2 DEF BalanceInv

\* A step that touches neither row nor deltas.
LEMMA BalanceStays ==
    ASSUME BalanceInv, UNCHANGED <<row, lost, stores, taken, phase, half, expected, ops>>
    PROVE  BalanceInv'
  <1>1. \A t \in Types : Collected(t)' = Collected(t) /\ Weights(t)' = Weights(t)
    BY DEF Collected, Weights, Weight
  <1>2. Cap' = Cap /\ Types' = Types /\ Order' = Order
    BY DEF Cap, Largest, Types, Order
  <1> QED
    BY <1>1, <1>2 DEF BalanceInv


\* Adding a bundle, type by type.
LEMMA PlusAt ==
    ASSUME NEW a \in [Types -> Int], NEW b \in [Types -> Int]
    PROVE  Plus(a, b) \in [Types -> Int] /\ \A t \in Types : Plus(a, b)[t] = a[t] + b[t]
  BY DEF Plus

\* An empty store.
LEMMA ZeroAt == Zero \in [Types -> Int] /\ \A t \in Types : Zero[t] = 0
  BY DEF Zero

\* Splitting an amount in two adds no weight.
LEMMA AbsMoves ==
    ASSUME NEW a \in Int, NEW s \in Int, NEW k \in Int, NEW p \in {0, s}
    PROVE  Abs(a + (s - p) + k) + Abs(p) <= Abs(a) + Abs(s) + Abs(k)
  <1>1. CASE p = 0
    BY <1>1 DEF Abs
  <1>2. CASE p = s
    BY <1>2 DEF Abs
  <1> QED
    BY <1>1, <1>2

\* The weight of an amount.
LEMMA AbsFacts ==
    /\ Abs(0) = 0
    /\ \A x \in Int : Abs(x) \in Nat
    /\ \A x, y \in Int : Abs(x + y) \in Nat /\ Abs(x + y) <= Abs(x) + Abs(y)
  BY DEF Abs

\* An accepted change d that node n records, or that one statement writes or
\* fails to write.
LEMMA AcceptedChange ==
    ASSUME QuotaTyped, BalanceInv, NEW n \in Nodes, NEW d \in [Types -> Int],
           addNewRecord(n, d) \/ WriteRow(d) \/ FailRow(d),
           expected' = Plus(expected, d), UNCHANGED <<taken, phase>>,
           half' \in [Nodes -> 0..1], \A m \in Nodes \ {n} : half'[m] = half[m],
           Cap' \in Nat,
           \A t \in Types : Abs(d[t]) + (IF t = "count" THEN half'[n] - half[n] ELSE 0) <= Cap' - Cap
    PROVE  /\ row' \in [Types -> Int] /\ expected' \in [Types -> Int] /\ lost' \in [Types -> Int]
           /\ stores' \in [Nodes -> [Types -> Int]]
           /\ mishaps' \in 0..MaxMishaps
           /\ BalanceStep(n)
  <1>0. /\ row \in [Types -> Int] /\ expected \in [Types -> Int] /\ lost \in [Types -> Int]
        /\ stores \in [Nodes -> [Types -> Int]] /\ taken \in [Nodes -> [Types -> Int]]
        /\ half \in [Nodes -> 0..1] /\ stores[n] \in [Types -> Int]
        /\ mishaps \in 0..MaxMishaps /\ MaxMishaps \in Nat /\ Cap \in Nat
    BY QuotaConstants, CapGrows DEF QuotaTyped
  <1>1. /\ expected' \in [Types -> Int]
        /\ \A t \in Types : expected'[t] = expected[t] + d[t]
    BY <1>0, PlusAt
  <1>2. /\ row' \in [Types -> Int] /\ lost' \in [Types -> Int]
        /\ stores' \in [Nodes -> [Types -> Int]]
        /\ mishaps' \in 0..MaxMishaps
        /\ \A m \in Nodes \ {n} : stores'[m] = stores[m]
        /\ \/ \A t \in Types : /\ stores'[n][t] = stores[n][t] + d[t]
                               /\ row'[t] = row[t] /\ lost'[t] = lost[t]
           \/ \A t \in Types : /\ row'[t] = row[t] + d[t]
                               /\ stores'[n][t] = stores[n][t] /\ lost'[t] = lost[t]
           \/ \A t \in Types : /\ lost'[t] = lost[t] + d[t]
                               /\ row'[t] = row[t] /\ stores'[n][t] = stores[n][t]
    <2>1. CASE addNewRecord(n, d)
      <3>1. Plus(stores[n], d) \in [Types -> Int]
            /\ \A t \in Types : Plus(stores[n], d)[t] = stores[n][t] + d[t]
        BY <1>0, PlusAt
      <3>2. stores' = [stores EXCEPT ![n] = Plus(stores[n], d)] /\ UNCHANGED <<row, lost, mishaps>>
        BY <2>1 DEF addNewRecord
      <3> QED
        BY <1>0, <3>1, <3>2
    <2>2. CASE WriteRow(d)
      <3>1. Plus(row, d) \in [Types -> Int] /\ \A t \in Types : Plus(row, d)[t] = row[t] + d[t]
        BY <1>0, PlusAt
      <3> QED
        BY <1>0, <2>2, <3>1 DEF WriteRow
    <2>3. CASE FailRow(d)
      <3>1. Plus(lost, d) \in [Types -> Int] /\ \A t \in Types : Plus(lost, d)[t] = lost[t] + d[t]
        BY <1>0, PlusAt
      <3> QED
        BY <1>0, <2>3, <3>1 DEF FailRow, Mishap
    <2> QED
      BY <2>1, <2>2, <2>3
  <1>3. ASSUME NEW t \in Types
        PROVE  /\ (row'[t] - row[t]) + (lost'[t] - lost[t]) + (stores'[n][t] - stores[n][t])
                      + (taken'[n][t] - taken[n][t]) = expected'[t] - expected[t]
               /\ Abs(row'[t]) + Abs(lost'[t]) + Weight(n, t)' - Cap'
                      <= Abs(row[t]) + Abs(lost[t]) + Weight(n, t) - Cap
    <2>0. \/ stores'[n][t] = stores[n][t] + d[t] /\ row'[t] = row[t] /\ lost'[t] = lost[t]
          \/ row'[t] = row[t] + d[t] /\ stores'[n][t] = stores[n][t] /\ lost'[t] = lost[t]
          \/ lost'[t] = lost[t] + d[t] /\ row'[t] = row[t] /\ stores'[n][t] = stores[n][t]
      BY <1>2
    <2>1. /\ row[t] \in Int /\ lost[t] \in Int /\ expected[t] \in Int /\ d[t] \in Int
          /\ stores[n][t] \in Int /\ taken[n][t] \in Int /\ half[n] \in Int /\ half'[n] \in Int
          /\ taken'[n][t] = taken[n][t]
      BY <1>0
    <2>2. (row'[t] - row[t]) + (lost'[t] - lost[t]) + (stores'[n][t] - stores[n][t])
               + (taken'[n][t] - taken[n][t]) = expected'[t] - expected[t]
      <3>1. CASE stores'[n][t] = stores[n][t] + d[t] /\ row'[t] = row[t] /\ lost'[t] = lost[t]
        BY <1>1, <2>1, <3>1
      <3>2. CASE row'[t] = row[t] + d[t] /\ stores'[n][t] = stores[n][t] /\ lost'[t] = lost[t]
        BY <1>1, <2>1, <3>2
      <3>3. CASE lost'[t] = lost[t] + d[t] /\ row'[t] = row[t] /\ stores'[n][t] = stores[n][t]
        BY <1>1, <2>1, <3>3
      <3> QED
        BY <2>0, <3>1, <3>2, <3>3
    <2>3. \A x, y \in Int : Abs(x) \in Nat /\ Abs(x + y) \in Nat /\ Abs(x + y) <= Abs(x) + Abs(y)
      BY AbsFacts
    <2>31. /\ Abs(row[t]) \in Nat /\ Abs(lost[t]) \in Nat /\ Abs(stores[n][t]) \in Nat
           /\ Abs(d[t]) \in Nat
           /\ Abs(stores[n][t] + d[t]) \in Nat /\ Abs(row[t] + d[t]) \in Nat /\ Abs(lost[t] + d[t]) \in Nat
      BY <2>1, <2>3
    <2>32. /\ Abs(stores[n][t] + d[t]) <= Abs(stores[n][t]) + Abs(d[t])
           /\ Abs(row[t] + d[t]) <= Abs(row[t]) + Abs(d[t])
           /\ Abs(lost[t] + d[t]) <= Abs(lost[t]) + Abs(d[t])
      BY <2>1, <2>3
    <2>4. Abs(row'[t]) + Abs(lost'[t]) + Abs(stores'[n][t])
              <= Abs(row[t]) + Abs(lost[t]) + Abs(stores[n][t]) + Abs(d[t])
      <3>1. CASE stores'[n][t] = stores[n][t] + d[t] /\ row'[t] = row[t] /\ lost'[t] = lost[t]
        BY <2>31, <2>32, <3>1
      <3>2. CASE row'[t] = row[t] + d[t] /\ stores'[n][t] = stores[n][t] /\ lost'[t] = lost[t]
        BY <2>31, <2>32, <3>2
      <3>3. CASE lost'[t] = lost[t] + d[t] /\ row'[t] = row[t] /\ stores'[n][t] = stores[n][t]
        BY <2>31, <2>32, <3>3
      <3> QED
        BY <2>0, <3>1, <3>2, <3>3
    <2>5. /\ row'[t] \in Int /\ lost'[t] \in Int /\ stores'[n][t] \in Int
          /\ Abs(row'[t]) \in Nat /\ Abs(lost'[t]) \in Nat /\ Abs(stores'[n][t]) \in Nat
          /\ Abs(row[t]) \in Nat /\ Abs(lost[t]) \in Nat /\ Abs(stores[n][t]) \in Nat
          /\ Abs(taken[n][t]) \in Nat /\ Abs(d[t]) \in Nat
      BY <1>2, <2>1, <2>3
    <2>6. /\ Weight(n, t) = Abs(stores[n][t]) + Abs(taken[n][t]) + (IF t = "count" THEN half[n] ELSE 0)
          /\ Weight(n, t)' = Abs(stores'[n][t]) + Abs(taken[n][t]) + (IF t = "count" THEN half'[n] ELSE 0)
      BY <2>1 DEF Weight
    <2>7. Abs(d[t]) + (IF t = "count" THEN half'[n] - half[n] ELSE 0) <= Cap' - Cap
      OBVIOUS
    <2>8. CASE t = "count"
      BY <1>0, <2>1, <2>2, <2>4, <2>5, <2>6, <2>7, <2>8
    <2>9. CASE t # "count"
      BY <1>0, <2>1, <2>2, <2>4, <2>5, <2>6, <2>7, <2>9
    <2> QED
      BY <2>8, <2>9
  <1>4. \A m \in Nodes \ {n} : taken'[m] = taken[m] /\ phase'[m] = phase[m]
    OBVIOUS
  <1>5. \A t \in Types : phase'[n] <= Order[t] => taken'[n][t] = 0
    BY DEF BalanceInv
  <1> QED
    BY <1>1, <1>2, <1>3, <1>4, <1>5 DEF BalanceStep

----------------------------------------------------------------------------
(* The tasks and what they carry.                                          *)
(***************************************************************************)
\* An increment that is started is outstanding.
LEMMA TasksAdded ==
    ASSUME QuotaTyped, TasksInv, NEW k, k \notin Increments, k.value \in Int,
           Increments' = Increments \cup {k}
    PROVE  Underway' = Underway + Abs(k.value) /\ Outstanding' = Outstanding + k.value
  <1> DEFINE f == [j \in Increments |-> Abs(j.value)]
             g == [j \in Increments' |-> Abs(j.value)]
             v == [j \in Increments |-> j.value]
             w == [j \in Increments' |-> j.value]
             S == Increments
  <1>1. IsFiniteSet(S) /\ k \notin S
    BY TasksTyped
  <1>2. /\ \A j \in S : f[j] \in Int /\ v[j] \in Int /\ g[j] = f[j] /\ w[j] = v[j]
        /\ g[k] = Abs(k.value) /\ w[k] = k.value
    BY TasksTyped
  <1>3. g[k] \in Int /\ w[k] \in Int
    <2>1. Abs(k.value) \in Int
      BY DEF Abs
    <2> QED
      BY <1>2, <2>1
  <1>4. /\ Underway = Total(f, S) /\ Underway' = Total(g, S \cup {k})
        /\ Outstanding = Total(v, S) /\ Outstanding' = Total(w, S \cup {k})
    BY DEF Underway, Outstanding
  <1> HIDE DEF f, g, v, w, S
  <1>5. Total(g, S \cup {k}) = Total(f, S) + g[k]
    <2>1. \A j \in S : f[j] \in Int /\ g[j] = f[j]
      BY <1>2
    <2> QED
      BY <1>1, <1>3, <2>1, TotalAdd
  <1>6. Total(w, S \cup {k}) = Total(v, S) + w[k]
    <2>1. \A j \in S : v[j] \in Int /\ w[j] = v[j]
      BY <1>2
    <2> QED
      BY <1>1, <1>3, <2>1, TotalAdd
  <1> QED
    BY <1>2, <1>4, <1>5, <1>6

\* An increment that has ended is no longer outstanding.
LEMMA TasksRemoved ==
    ASSUME QuotaTyped, TasksInv, NEW k \in Increments, Increments' = Increments \ {k}
    PROVE  Underway' = Underway - Abs(k.value) /\ Outstanding' = Outstanding - k.value
  <1> DEFINE f == [j \in Increments |-> Abs(j.value)]
             g == [j \in Increments' |-> Abs(j.value)]
             v == [j \in Increments |-> j.value]
             w == [j \in Increments' |-> j.value]
             S == Increments
  <1>1. IsFiniteSet(S) /\ k \in S
    BY TasksTyped
  <1>2. /\ \A j \in S : f[j] \in Int /\ v[j] \in Int
        /\ \A j \in S \ {k} : g[j] = f[j] /\ w[j] = v[j]
        /\ f[k] = Abs(k.value) /\ v[k] = k.value
    BY TasksTyped
  <1>4. /\ Underway = Total(f, S) /\ Underway' = Total(g, S \ {k})
        /\ Outstanding = Total(v, S) /\ Outstanding' = Total(w, S \ {k})
    BY DEF Underway, Outstanding
  <1> HIDE DEF f, g, v, w, S
  <1>5. Total(g, S \ {k}) = Total(f, S) - f[k]
    BY <1>1, <1>2, TotalRemove
  <1>6. Total(w, S \ {k}) = Total(v, S) - v[k]
    BY <1>1, <1>2, TotalRemove
  <1> QED
    BY <1>2, <1>4, <1>5, <1>6

\* One that goes from its check to its write still is.
LEMMA TasksReplaced ==
    ASSUME QuotaTyped, TasksInv, NEW k \in Increments, NEW j, j \notin Increments,
           j.value = k.value, Increments' = (Increments \ {k}) \cup {j}
    PROVE  Underway' = Underway /\ Outstanding' = Outstanding
  <1> DEFINE S == Increments
             R == Increments \ {k}
             f == [i \in Increments |-> Abs(i.value)]
             g == [i \in Increments' |-> Abs(i.value)]
             v == [i \in Increments |-> i.value]
             w == [i \in Increments' |-> i.value]
  <1>1. IsFiniteSet(S) /\ k \in S /\ IsFiniteSet(R) /\ R = S \ {k} /\ j \notin R
    BY TasksTyped, FS_RemoveElement
  <1>2. /\ \A i \in S : f[i] \in Int /\ v[i] \in Int
        /\ \A i \in R : f[i] \in Int /\ v[i] \in Int /\ g[i] = f[i] /\ w[i] = v[i]
        /\ g[j] = f[k] /\ w[j] = v[k]
    BY TasksTyped
  <1>3. g[j] \in Int /\ w[j] \in Int
    BY <1>1, <1>2
  <1>4. /\ Underway = Total(f, S) /\ Underway' = Total(g, R \cup {j})
        /\ Outstanding = Total(v, S) /\ Outstanding' = Total(w, R \cup {j})
    BY DEF Underway, Outstanding
  <1> HIDE DEF f, g, v, w, S, R
  <1>5. Total(g, R \cup {j}) = Total(f, R) + g[j] /\ Total(w, R \cup {j}) = Total(v, R) + w[j]
    <2>1. \A i \in R : f[i] \in Int /\ g[i] = f[i]
      BY <1>2
    <2>2. \A i \in R : v[i] \in Int /\ w[i] = v[i]
      BY <1>2
    <2>3. Total(g, R \cup {j}) = Total(f, R) + g[j]
      BY <1>1, <1>3, <2>1, TotalAdd
    <2>4. Total(w, R \cup {j}) = Total(v, R) + w[j]
      BY <1>1, <1>3, <2>2, TotalAdd
    <2> QED
      BY <2>3, <2>4
  <1>6. Total(f, R) = Total(f, S) - f[k] /\ Total(v, R) = Total(v, S) - v[k]
    BY <1>1, <1>2, TotalRemove
  <1>7. Total(f, S) \in Int /\ Total(v, S) \in Int /\ f[k] \in Int /\ v[k] \in Int
    BY <1>1, <1>2, TotalType
  <1> QED
    BY <1>2, <1>4, <1>5, <1>6, <1>7

\* Tasks that die take their weight with them.
LEMMA TasksFewer ==
    ASSUME QuotaTyped, TasksInv, Increments' \subseteq Increments
    PROVE  Underway' \in Nat /\ Underway' <= Underway
  <1> DEFINE f == [j \in Increments |-> Abs(j.value)]
             g == [j \in Increments' |-> Abs(j.value)]
             S == Increments
             T == Increments'
  <1>1. IsFiniteSet(S) /\ T \in SUBSET S
    BY TasksTyped
  <1>2. (\A j \in S : f[j] \in Nat) /\ \A j \in T : g[j] = f[j]
    BY TasksTyped
  <1>3. Underway = Total(f, S) /\ Underway' = Total(g, T)
    BY DEF Underway
  <1> HIDE DEF f, g, S, T
  <1>4. Total(g, T) <= Total(f, S)
    BY <1>1, <1>2, TotalSub
  <1>5. IsFiniteSet(T) /\ \A j \in T : g[j] \in Nat
    BY <1>1, <1>2, FS_Subset
  <1>6. Total(g, T) \in Nat
    BY <1>5, TotalNat
  <1> QED
    BY <1>3, <1>4, <1>6

\* Other tasks do not matter.
LEMMA TasksSame ==
    ASSUME Increments' = Increments
    PROVE  Underway' = Underway /\ Outstanding' = Outstanding
  BY DEF Underway, Outstanding

\* A goroutine that is started is a new task.
NewTask(n, what, v) ==
    [id |-> ops + reads + 1, node |-> n, op |-> what, value |-> v, seen |-> FALSE]

\* A goroutine is started.
LEMMA TaskSpawned ==
    ASSUME QuotaTyped, TasksInv, NEW n \in Nodes, NEW what \in {"incr", "fill", "setField"},
           NEW v \in Int, Spawn(n, what, v),
           ops' \in 0..MaxOps, reads' \in 0..MaxReads,
           (ops' = ops + 1 /\ reads' = reads) \/ (ops' = ops /\ reads' = reads + 1)
    PROVE  /\ tasks' \subseteq AnyTask /\ TasksInv'
           /\ NewTask(n, what, v) \notin tasks
           /\ tasks' = tasks \cup {NewTask(n, what, v)}
  <1> DEFINE k == NewTask(n, what, v)
  <1>1. /\ tasks \subseteq AnyTask /\ ops \in Nat /\ reads \in Nat
        /\ MaxOps \in Nat /\ MaxReads \in Nat
    BY QuotaConstants DEF QuotaTyped
  <1>2. ops' \in Nat /\ reads' \in Nat /\ ops + reads + 1 \in 1..(MaxOps + MaxReads)
    <2>1. ops' \in Nat /\ ops' <= MaxOps
      BY <1>1
    <2>2. reads' \in Nat /\ reads' <= MaxReads
      BY <1>1
    <2>3. ops' + reads' = ops + reads + 1
      <3>1. CASE ops' = ops + 1 /\ reads' = reads
        BY <1>1, <3>1
      <3>2. CASE ops' = ops /\ reads' = reads + 1
        BY <1>1, <3>2
      <3> QED
        BY <3>1, <3>2
    <2>4. \A a, b, x, y \in Nat : a <= x /\ b <= y => a + b \in 0..(x + y)
      OBVIOUS
    <2>5. ops' + reads' \in 0..(MaxOps + MaxReads)
      BY <1>1, <2>1, <2>2, <2>4
    <2> QED
      BY <1>1, <2>1, <2>2, <2>3, <2>5
  <1>3. k \in AnyTask /\ k.op = what /\ k.value = v /\ k.seen = FALSE /\ k.id = ops + reads + 1
    BY <1>2 DEF AnyTask, NewTask
  <1>4. tasks' = tasks \cup {k}
    BY DEF Spawn, NewTask
  <1> HIDE DEF k
  <1>5. \A j \in tasks : j.id \in Nat /\ j.id <= ops + reads
    BY TasksTyped DEF TasksInv
  <1>6. k \notin tasks
    BY <1>1, <1>3, <1>5
  <1>7. IsFiniteSet(tasks')
    BY <1>4, FS_AddElement DEF TasksInv
  <1>8. \A j \in tasks' : j.id <= ops' + reads'
    <2>1. \A j \in tasks : j.id <= ops + reads + 1
      BY <1>1, <1>5
    <2>2. k.id <= ops + reads + 1
      BY <1>1, <1>3
    <2> QED
      BY <1>1, <1>4, <2>1, <2>2
  <1>9. ASSUME NEW i \in tasks', NEW j \in tasks', i.id = j.id PROVE i = j
    <2>1. CASE i \in tasks /\ j \in tasks
      BY <1>9, <2>1 DEF TasksInv
    <2>2. CASE i = k \/ j = k
      BY <1>1, <1>3, <1>4, <1>5, <1>9, <2>2
    <2> QED
      BY <1>4, <2>1, <2>2
  <1>10. TasksInv'
    BY <1>7, <1>8, <1>9 DEF TasksInv
  <1> QED
    BY <1>1, <1>3, <1>4, <1>6, <1>10 DEF k

\* Fewer tasks are still tasks of their own.
LEMMA TasksKept ==
    ASSUME QuotaTyped, TasksInv, tasks' \subseteq tasks, UNCHANGED <<ops, reads>>
    PROVE  tasks' \subseteq AnyTask /\ TasksInv' /\ Increments' \subseteq Increments
           /\ Refills' \subseteq Refills
  <1>1. IsFiniteSet(tasks')
    BY FS_Subset DEF TasksInv
  <1> QED
    BY <1>1 DEF QuotaTyped, TasksInv, Increments, Refills

----------------------------------------------------------------------------
(* Changes.                                                                *)
(***************************************************************************)
\* What the accounts of a user look like when only one type changes.
LEMMA Deltas ==
    ASSUME NEW x \in Int, NEW y \in Int
    PROVE  /\ LET d == [Zero EXCEPT !["quota"] = x]
              IN  d \in [Types -> Int] /\ d["quota"] = x /\ d["used"] = 0 /\ d["count"] = 0
           /\ LET d == [Zero EXCEPT !["used"] = x, !["count"] = y]
              IN  d \in [Types -> Int] /\ d["quota"] = 0 /\ d["used"] = x /\ d["count"] = y
  BY DEF Zero, Types

\* IncreaseUserQuota and DecreaseUserQuota.
LEMMA ChangeQuotaKeeps ==
    ASSUME QuotaInv, NEW n \in Nodes, NEW a \in Int, Abs(a) <= Largest, NEW db,
           ChangeQuota(n, a, db)
    PROVE  QuotaInv'
  <1> DEFINE d == [Zero EXCEPT !["quota"] = a]
             k == NewTask(n, "incr", a)
  <1>0. /\ QuotaTyped /\ BalanceInv /\ TasksInv /\ CacheBounded /\ CacheInv
        /\ Largest \in Nat /\ Cap \in Nat /\ Abs(a) \in Nat
    BY LargestAmount, CapGrows DEF QuotaInv, QuotaTyped, Abs
  <1>1. /\ d \in [Types -> Int] /\ d["quota"] = a
        /\ \A t \in Types : d[t] = a \/ d[t] = 0
    BY Deltas DEF Types
  <1>2. /\ ops < MaxOps /\ ops' = ops + 1 /\ Spawn(n, "incr", a)
        /\ expected' = Plus(expected, d)
        /\ addNewRecord(n, d) \/ WriteRow(d) \/ FailRow(d)
        /\ overlap' = (overlap \/ Refills # {} \/ mishaps' # mishaps)
        /\ UNCHANGED <<batch, entry, taken, phase, half, hidden, reads>>
    BY DEF ChangeQuota
  <1> HIDE DEF d
  <1>3. ops' \in 0..MaxOps /\ reads' \in 0..MaxReads
    BY <1>0, <1>2, QuotaConstants DEF QuotaTyped
  <1>4. Cap' = Cap + Largest
    BY <1>0, <1>2, CapGrows
  <1>5. /\ row' \in [Types -> Int] /\ expected' \in [Types -> Int] /\ lost' \in [Types -> Int]
        /\ stores' \in [Nodes -> [Types -> Int]] /\ mishaps' \in 0..MaxMishaps
        /\ BalanceStep(n)
    <2>1. half \in [Nodes -> 0..1]
      BY <1>0 DEF QuotaTyped
    <2>2. ASSUME NEW t \in Types
          PROVE  Abs(d[t]) + (IF t = "count" THEN half'[n] - half[n] ELSE 0) <= Cap' - Cap
      <3>1. Abs(d[t]) \in Nat /\ Abs(d[t]) <= Largest
        <4>1. CASE d[t] = a
          BY <1>0, <4>1
        <4>2. CASE d[t] = 0
          BY <1>0, <4>2, AbsFacts
        <4> QED
          BY <1>1, <4>1, <4>2
      <3>2. (IF t = "count" THEN half'[n] - half[n] ELSE 0) = 0
        BY <1>2, <2>1
      <3> QED
        BY <1>0, <1>4, <3>1, <3>2
    <2>3. Cap' \in Nat
      BY <1>0, <1>4
    <2>4. half' \in [Nodes -> 0..1] /\ \A m \in Nodes \ {n} : half'[m] = half[m]
      BY <1>2, <2>1
    <2> QED
      BY <1>0, <1>1, <1>2, <2>2, <2>3, <2>4, AcceptedChange
  <1>6. /\ k \notin tasks /\ tasks' = tasks \cup {k}
        /\ k.op = "incr" /\ k.value = a /\ k.seen = FALSE
    <2>1. k \notin tasks /\ tasks' = tasks \cup {k}
      BY <1>0, <1>2, <1>3, TaskSpawned
    <2> QED
      BY <2>1 DEF NewTask
  <1>7. tasks' \subseteq AnyTask /\ TasksInv'
    BY <1>0, <1>2, <1>3, TaskSpawned
  <1> HIDE DEF k
  <1>8. QuotaTyped'
    <2>1. AnyTask' = AnyTask /\ Types' = Types
      BY DEF AnyTask, Types
    <2>2. overlap' \in BOOLEAN
      BY <1>2
    <2> QED
      BY <1>0, <1>2, <1>3, <1>5, <1>7, <2>1, <2>2 DEF QuotaTyped
  <1>9. BalanceInv'
    BY <1>0, <1>5, <1>8, BalanceMoves
  <1>10. /\ Increments' = Increments \cup {k} /\ k \notin Increments /\ Refills' = Refills
         /\ k.value \in Int
    BY <1>6 DEF Increments, Refills
  <1>11. Underway' = Underway + Abs(a) /\ Outstanding' = Outstanding + a
    BY <1>0, <1>6, <1>10, TasksAdded
  <1>12. /\ Underway \in Nat /\ Outstanding \in Int /\ entry.quota \in Int /\ Abs(entry.quota) \in Nat
         /\ entry' = entry
         /\ \A j \in tasks : Abs(j.value) \in Nat
    BY <1>0, <1>2, TasksTyped
  <1>13. CacheBounded'
    <2>1. ASSUME NEW j \in Refills' PROVE Abs(j.value) <= Cap'
      <3>1. j \in Refills /\ j \in tasks /\ Abs(j.value) <= Cap
        BY <1>0, <1>10 DEF Refills, CacheBounded
      <3> QED
        BY <1>0, <1>4, <1>12, <3>1
    <2>2. Underway' <= Cap'
      BY <1>0, <1>4, <1>11, <1>12 DEF CacheBounded
    <2>3. Abs(entry.quota) + Underway' <= 2 * Cap'
      BY <1>0, <1>4, <1>11, <1>12 DEF CacheBounded
    <2>4. hidden' = hidden /\ Abs(hidden) <= Cap'
      <3>1. Abs(hidden) \in Nat /\ Abs(hidden) <= Cap
        BY <1>0, AbsFacts DEF CacheBounded, QuotaTyped
      <3> QED
        BY <1>0, <1>2, <1>4, <3>1
    <2> QED
      BY <1>12, <2>1, <2>2, <2>3, <2>4 DEF CacheBounded
  <1>14. CacheInv'
    <2>1. SUFFICES ASSUME ~overlap' PROVE CacheInv'
      BY DEF CacheInv
    <2>2. ~overlap /\ Refills = {}
      BY <1>2, <2>1
    <2>3. expected'["quota"] = expected["quota"] + a /\ expected["quota"] \in Int
      BY <1>0, <1>1, <1>2, PlusAt DEF QuotaTyped, Types
    <2>4. (\E j \in tasks' : j.seen) => entry'.present
      BY <1>0, <1>6, <1>12, <2>2 DEF CacheInv
    <2>5. entry'.present => entry'.whole /\ entry'.quota + Outstanding' + hidden' = expected'["quota"]
      <3>1. hidden' = hidden /\ hidden \in Int
        BY <1>0, <1>2 DEF QuotaTyped
      <3> QED
        BY <1>0, <1>11, <1>12, <2>2, <2>3, <3>1 DEF CacheInv
    <2> QED
      BY <1>10, <2>2, <2>4, <2>5 DEF CacheInv
  <1> QED
    BY <1>7, <1>8, <1>9, <1>13, <1>14 DEF QuotaInv

\* A change of the row that no cache task follows.
LEMMA ChangeRowOnlyKeeps ==
    ASSUME QuotaInv, NEW a \in Int, Abs(a) <= Largest, ChangeRowOnly(a)
    PROVE  QuotaInv'
  <1> DEFINE d == [Zero EXCEPT !["quota"] = a]
  <1>0. /\ QuotaTyped /\ BalanceInv /\ TasksInv /\ CacheBounded /\ CacheInv
        /\ Largest \in Nat /\ Cap \in Nat /\ Abs(a) \in Nat
        /\ ops \in Nat /\ reads \in Nat /\ hidden \in Int
    BY LargestAmount, CapGrows, QuotaConstants DEF QuotaInv, QuotaTyped, Abs
  <1>1. /\ d \in [Types -> Int] /\ d["quota"] = a
        /\ \A t \in Types \ {"quota"} : d[t] = 0
    BY Deltas DEF Types
  <1>2. /\ ops < MaxOps /\ ops' = ops + 1
        /\ expected' = Plus(expected, d) /\ WriteRow(d)
        /\ hidden' = hidden + a
        /\ overlap' = (overlap \/ Refills # {})
        /\ UNCHANGED <<batch, entry, taken, phase, half, tasks, reads>>
    BY DEF ChangeRowOnly
  <1> HIDE DEF d
  <1>3. ops' \in 0..MaxOps /\ hidden' \in Int /\ overlap' \in BOOLEAN
    BY <1>0, <1>2, QuotaConstants DEF QuotaTyped
  <1>4. Cap' = Cap + Largest /\ Cap' \in Nat
    BY <1>0, <1>2, CapGrows
  <1>5. row' = Plus(row, d) /\ UNCHANGED <<stores, lost, mishaps>>
    BY <1>2 DEF WriteRow
  <1>6. /\ row \in [Types -> Int] /\ expected \in [Types -> Int] /\ lost \in [Types -> Int]
        /\ row' \in [Types -> Int] /\ expected' \in [Types -> Int]
        /\ \A t \in Types : row'[t] = row[t] + d[t] /\ expected'[t] = expected[t] + d[t]
    BY <1>0, <1>1, <1>2, <1>5, PlusAt DEF QuotaTyped
  <1>7. QuotaTyped'
    <2>1. AnyTask' = AnyTask /\ Types' = Types
      BY DEF AnyTask, Types
    <2> QED
      BY <1>0, <1>2, <1>3, <1>5, <1>6, <2>1 DEF QuotaTyped
  <1>8. BalanceInv'
    <2>1. Types' = Types /\ Order' = Order
      BY DEF Types, Order
    <2>2. ASSUME NEW t \in Types
          PROVE  /\ row'[t] + Collected(t)' + lost'[t] = expected'[t]
                 /\ Abs(row'[t]) + Abs(lost'[t]) + Weights(t)' <= Cap'
      <3>1. Collected(t)' = Collected(t) /\ Weights(t)' = Weights(t) /\ lost'[t] = lost[t]
        BY <1>2, <1>5 DEF Collected, Weights, Weight
      <3>2. /\ Collected(t) \in Int /\ Weights(t) \in Nat /\ row[t] \in Int /\ lost[t] \in Int
            /\ expected[t] \in Int /\ d[t] \in Int
            /\ Abs(row[t]) \in Nat /\ Abs(lost[t]) \in Nat
        BY <1>0, <1>1, WeightTyped
      <3>3. Abs(d[t]) \in Nat /\ Abs(d[t]) <= Largest
        <4>1. CASE t = "quota"
          BY <1>0, <1>1, <4>1
        <4>2. CASE t # "quota"
          <5>1. d[t] = 0
            BY <1>1, <4>2
          <5> QED
            BY <1>0, <5>1, AbsFacts
        <4> QED
          BY <4>1, <4>2
      <3>4. Abs(row'[t]) \in Nat /\ Abs(row'[t]) <= Abs(row[t]) + Abs(d[t])
        BY <1>6, <3>2, AbsFacts
      <3>5. /\ row[t] + Collected(t) + lost[t] = expected[t]
            /\ Abs(row[t]) + Abs(lost[t]) + Weights(t) <= Cap
        BY <1>0 DEF BalanceInv
      <3>6. row'[t] + Collected(t)' + lost'[t] = expected'[t]
        BY <1>6, <3>1, <3>2, <3>5
      <3>7. Abs(row'[t]) + Abs(lost'[t]) + Weights(t)' <= Cap'
        BY <1>0, <1>4, <3>1, <3>2, <3>3, <3>4, <3>5
      <3> QED
        BY <3>6, <3>7
    <2> QED
      BY <1>0, <1>2, <2>1, <2>2 DEF BalanceInv
  <1>9. TasksInv'
    <2>1. \A k \in tasks : k.id \in Nat /\ k.id <= ops + reads
      BY <1>0, TasksTyped DEF TasksInv
    <2>2. \A k \in tasks' : k.id <= ops' + reads'
      BY <1>0, <1>2, <2>1
    <2> QED
      BY <1>0, <1>2, <2>2 DEF TasksInv
  <1>10. Increments' = Increments /\ Refills' = Refills
    BY <1>2 DEF Increments, Refills
  <1>11. Underway' = Underway /\ Outstanding' = Outstanding
    BY <1>10, TasksSame
  <1>12. /\ Underway \in Nat /\ Outstanding \in Int /\ entry.quota \in Int
         /\ Abs(entry.quota) \in Nat /\ \A k \in tasks : Abs(k.value) \in Nat
    BY <1>0, TasksTyped
  <1>13. CacheBounded'
    <2>1. ASSUME NEW k \in Refills' PROVE Abs(k.value) <= Cap'
      <3>1. k \in tasks /\ Abs(k.value) <= Cap
        BY <1>0, <1>10 DEF Refills, CacheBounded
      <3> QED
        BY <1>0, <1>4, <1>12, <3>1
    <2>2. Underway' <= Cap' /\ Abs(entry.quota) + Underway' <= 2 * Cap'
      BY <1>0, <1>4, <1>11, <1>12 DEF CacheBounded
    <2>3. Abs(hidden') <= Cap'
      <3>1. /\ Abs(hidden) \in Nat /\ Abs(hidden + a) \in Nat
            /\ Abs(hidden + a) <= Abs(hidden) + Abs(a)
        BY <1>0, AbsFacts
      <3> QED
        BY <1>0, <1>2, <1>4, <3>1 DEF CacheBounded
    <2> QED
      BY <1>2, <2>1, <2>2, <2>3 DEF CacheBounded
  <1>14. CacheInv'
    <2>1. SUFFICES ASSUME ~overlap' PROVE CacheInv'
      BY DEF CacheInv
    <2>2. ~overlap /\ Refills = {}
      BY <1>2, <2>1
    <2>3. expected'["quota"] = expected["quota"] + a /\ expected["quota"] \in Int
      BY <1>1, <1>6 DEF Types
    <2>4. entry.present => entry.whole /\ entry.quota + Outstanding + hidden' = expected'["quota"]
      BY <1>0, <1>2, <1>12, <2>2, <2>3 DEF CacheInv
    <2> QED
      BY <1>0, <1>2, <1>10, <1>11, <2>2, <2>4 DEF CacheInv
  <1> QED
    BY <1>7, <1>8, <1>9, <1>13, <1>14 DEF QuotaInv

\* Steps that leave the cache and its tasks alone.
LEMMA CacheStays ==
    ASSUME QuotaTyped, QuotaTyped', TasksInv, CacheBounded, CacheInv,
           UNCHANGED <<tasks, entry, hidden, reads>>, ops <= ops',
           expected'["quota"] = expected["quota"], overlap => overlap',
           Cap' \in Nat, Cap <= Cap'
    PROVE  TasksInv' /\ CacheBounded' /\ CacheInv'
  <1>0. Cap \in Nat /\ ops \in Nat /\ ops' \in Nat /\ reads \in Nat
    BY CapGrows, QuotaConstants DEF QuotaTyped
  <1>1. Increments' = Increments /\ Refills' = Refills
    BY DEF Increments, Refills
  <1>2. Underway' = Underway /\ Outstanding' = Outstanding
    BY <1>1, TasksSame
  <1>3. /\ Underway \in Nat /\ Abs(entry.quota) \in Nat
        /\ \A k \in tasks : Abs(k.value) \in Nat /\ k.id \in Nat
    BY TasksTyped
  <1>4. TasksInv'
    <2>1. \A k \in tasks : k.id <= ops' + reads'
      BY <1>0, <1>3 DEF TasksInv
    <2> QED
      BY <2>1 DEF TasksInv
  <1>5. CacheBounded'
    <2>1. \A k \in Refills : k \in tasks /\ Abs(k.value) \in Nat /\ Abs(k.value) <= Cap
      BY <1>3 DEF Refills, CacheBounded
    <2>2. \A k \in Refills : Abs(k.value) <= Cap'
      BY <1>0, <2>1
    <2>3. Underway <= Cap' /\ Abs(entry.quota) + Underway <= 2 * Cap'
      BY <1>0, <1>3 DEF CacheBounded
    <2>4. Abs(hidden) <= Cap'
      <3>1. Abs(hidden) \in Nat /\ Abs(hidden) <= Cap
        BY AbsFacts DEF CacheBounded, QuotaTyped
      <3> QED
        BY <1>0, <3>1
    <2> QED
      BY <1>1, <1>2, <2>2, <2>3, <2>4 DEF CacheBounded
  <1>6. CacheInv'
    BY <1>1, <1>2 DEF CacheInv
  <1> QED
    BY <1>4, <1>5, <1>6

\* The used quota.
LEMMA UpdateUsedKeeps ==
    ASSUME QuotaInv, NEW n \in Nodes, NEW a \in Int, Abs(a) <= Largest, UpdateUsed(n, a)
    PROVE  QuotaInv'
  <1> DEFINE c == IF batch THEN 0 ELSE 1
             d == [Zero EXCEPT !["used"] = a, !["count"] = c]
             h == IF batch THEN 1 ELSE 0
  <1>0. /\ QuotaTyped /\ BalanceInv /\ TasksInv /\ CacheBounded /\ CacheInv
        /\ Largest \in Nat \ {0} /\ Cap \in Nat /\ Abs(a) \in Nat
        /\ half \in [Nodes -> 0..1]
    BY LargestAmount, CapGrows DEF QuotaInv, QuotaTyped, Abs
  <1>1. c \in 0..1 /\ h \in 0..1 /\ c + h = 1
    OBVIOUS
  <1>2. /\ ops < MaxOps /\ half[n] = 0 /\ ops' = ops + 1
        /\ expected' = Plus(expected, d)
        /\ half' = [half EXCEPT ![n] = h]
        /\ addNewRecord(n, d) \/ WriteRow(d) \/ FailRow(d)
        /\ UNCHANGED <<batch, entry, taken, phase, tasks, hidden, overlap, reads>>
    BY DEF UpdateUsed
  <1> HIDE DEF c, h
  <1>3. d \in [Types -> Int] /\ d["quota"] = 0 /\ d["used"] = a /\ d["count"] = c
    BY <1>1, Deltas
  <1> HIDE DEF d
  <1>4. ops' \in 0..MaxOps /\ reads' \in 0..MaxReads
    BY <1>0, <1>2, QuotaConstants DEF QuotaTyped
  <1>5. Cap' = Cap + Largest
    BY <1>0, <1>2, CapGrows
  <1>6. Cap' \in Nat /\ Cap <= Cap'
    BY <1>0, <1>5
  <1>7. half' \in [Nodes -> 0..1] /\ half'[n] = h /\ \A m \in Nodes \ {n} : half'[m] = half[m]
    BY <1>0, <1>1, <1>2
  <1>8. ASSUME NEW t \in Types
        PROVE  Abs(d[t]) + (IF t = "count" THEN half'[n] - half[n] ELSE 0) <= Cap' - Cap
    <2>1. CASE t = "count"
      <3>1. d[t] = c /\ Abs(c) = c
        BY <1>1, <1>3, <2>1 DEF Abs
      <3>2. Abs(d[t]) + (IF t = "count" THEN half'[n] - half[n] ELSE 0) = c + (h - 0)
        BY <1>2, <1>7, <2>1, <3>1
      <3> QED
        BY <1>0, <1>1, <1>5, <3>2
    <2>2. CASE t # "count"
      <3>1. d[t] = a \/ d[t] = 0
        BY <1>3, <2>2 DEF Types
      <3>2. Abs(d[t]) \in Nat /\ Abs(d[t]) <= Largest
        <4>1. CASE d[t] = a
          BY <1>0, <4>1
        <4>2. CASE d[t] = 0
          BY <1>0, <4>2, AbsFacts
        <4> QED
          BY <3>1, <4>1, <4>2
      <3> QED
        BY <1>0, <1>5, <2>2, <3>2
    <2> QED
      BY <2>1, <2>2
  <1>9. /\ row' \in [Types -> Int] /\ expected' \in [Types -> Int] /\ lost' \in [Types -> Int]
        /\ stores' \in [Nodes -> [Types -> Int]] /\ mishaps' \in 0..MaxMishaps
        /\ BalanceStep(n)
    BY <1>0, <1>2, <1>3, <1>6, <1>7, <1>8, AcceptedChange
  <1>10. QuotaTyped'
    <2>1. AnyTask' = AnyTask /\ Types' = Types
      BY DEF AnyTask, Types
    <2> QED
      BY <1>0, <1>2, <1>4, <1>7, <1>9, <2>1 DEF QuotaTyped
  <1>11. BalanceInv'
    BY <1>0, <1>9, <1>10, BalanceMoves
  <1>12. expected'["quota"] = expected["quota"]
    <2>1. expected \in [Types -> Int] /\ "quota" \in Types
      BY <1>0 DEF QuotaTyped, Types
    <2>2. expected'["quota"] = expected["quota"] + 0 /\ expected["quota"] \in Int
      BY <1>2, <1>3, <2>1, PlusAt
    <2> QED
      BY <2>2
  <1>13. ops <= ops'
    BY <1>0, <1>2, QuotaConstants DEF QuotaTyped
  <1>14. TasksInv' /\ CacheBounded' /\ CacheInv'
    BY <1>0, <1>2, <1>6, <1>10, <1>12, <1>13, CacheStays
  <1> QED
    BY <1>10, <1>11, <1>14 DEF QuotaInv

\* The request count.
LEMMA RecordCountKeeps ==
    ASSUME QuotaInv, NEW n \in Nodes, RecordCount(n)
    PROVE  QuotaInv'
  <1> DEFINE d == [Zero EXCEPT !["count"] = 1]
  <1>0. /\ QuotaTyped /\ BalanceInv /\ TasksInv /\ CacheBounded /\ CacheInv
        /\ Cap \in Nat /\ half \in [Nodes -> 0..1] /\ ops \in Nat
    BY CapGrows, QuotaConstants DEF QuotaInv, QuotaTyped
  <1>1. d \in [Types -> Int] /\ d["quota"] = 0 /\ d["used"] = 0 /\ d["count"] = 1
    BY DEF Zero, Types
  <1>2. /\ half[n] = 1 /\ half' = [half EXCEPT ![n] = 0]
        /\ expected' = Plus(expected, d) /\ addNewRecord(n, d)
        /\ UNCHANGED <<batch, entry, taken, phase, tasks, hidden, overlap, ops, reads>>
    BY DEF RecordCount
  <1> HIDE DEF d
  <1>3. Cap' = Cap /\ Cap' \in Nat /\ Cap <= Cap' /\ ops <= ops'
    BY <1>0, <1>2, CapGrows
  <1>4. half' \in [Nodes -> 0..1] /\ half'[n] = 0 /\ \A m \in Nodes \ {n} : half'[m] = half[m]
    BY <1>0, <1>2
  <1>5. ASSUME NEW t \in Types
        PROVE  Abs(d[t]) + (IF t = "count" THEN half'[n] - half[n] ELSE 0) <= Cap' - Cap
    <2>1. CASE t = "count"
      BY <1>0, <1>1, <1>2, <1>3, <1>4, <2>1 DEF Abs
    <2>2. CASE t # "count"
      <3>1. d[t] = 0
        BY <1>1, <2>2 DEF Types
      <3> QED
        BY <1>0, <1>3, <2>2, <3>1, AbsFacts
    <2> QED
      BY <2>1, <2>2
  <1>6. /\ row' \in [Types -> Int] /\ expected' \in [Types -> Int] /\ lost' \in [Types -> Int]
        /\ stores' \in [Nodes -> [Types -> Int]] /\ mishaps' \in 0..MaxMishaps
        /\ BalanceStep(n)
    BY <1>0, <1>1, <1>2, <1>3, <1>4, <1>5, AcceptedChange
  <1>7. QuotaTyped'
    <2>1. AnyTask' = AnyTask /\ Types' = Types
      BY DEF AnyTask, Types
    <2> QED
      BY <1>0, <1>2, <1>4, <1>6, <2>1 DEF QuotaTyped
  <1>8. BalanceInv'
    BY <1>0, <1>6, <1>7, BalanceMoves
  <1>9. expected'["quota"] = expected["quota"]
    <2>1. expected \in [Types -> Int] /\ "quota" \in Types
      BY <1>0 DEF QuotaTyped, Types
    <2>2. expected'["quota"] = expected["quota"] + 0 /\ expected["quota"] \in Int
      BY <1>1, <1>2, <2>1, PlusAt
    <2> QED
      BY <2>2
  <1>10. TasksInv' /\ CacheBounded' /\ CacheInv'
    BY <1>0, <1>2, <1>3, <1>7, <1>9, CacheStays
  <1> QED
    BY <1>7, <1>8, <1>10 DEF QuotaInv

----------------------------------------------------------------------------
(* The updater.                                                            *)
(***************************************************************************)
\* batchUpdate wakes.
LEMMA WakeKeeps ==
    ASSUME QuotaInv, NEW n \in Nodes, Wake(n)
    PROVE  QuotaInv'
  <1>0. /\ QuotaTyped /\ BalanceInv /\ TasksInv /\ CacheBounded /\ CacheInv
        /\ Cap \in Nat /\ ops \in Nat /\ phase \in [Nodes -> 0..4]
    BY CapGrows, QuotaConstants DEF QuotaInv, QuotaTyped
  <1>1. /\ phase[n] = 0 /\ phase' = [phase EXCEPT ![n] = 1]
        /\ UNCHANGED <<batch, row, entry, stores, taken, half, tasks, expected, lost, hidden, overlap,
                       ops, reads, mishaps>>
    BY DEF Wake, counts
  <1>2. QuotaTyped'
    <2>1. AnyTask' = AnyTask /\ Types' = Types /\ phase' \in [Nodes -> 0..4]
      BY <1>0, <1>1 DEF AnyTask, Types
    <2> QED
      BY <1>0, <1>1, <2>1 DEF QuotaTyped
  <1>3. Cap' = Cap
    BY <1>0, <1>1, CapGrows
  <1>4. BalanceStep(n)
    <2>1. \A t \in Types : taken[n][t] = 0
      BY <1>0, <1>1 DEF BalanceInv, Order, Types
    <2>2. ASSUME NEW t \in Types
          PROVE  /\ (row'[t] - row[t]) + (lost'[t] - lost[t]) + (stores'[n][t] - stores[n][t])
                        + (taken'[n][t] - taken[n][t]) = expected'[t] - expected[t]
                 /\ Abs(row'[t]) + Abs(lost'[t]) + Weight(n, t)' - Cap'
                        <= Abs(row[t]) + Abs(lost[t]) + Weight(n, t) - Cap
      <3>1. Weight(n, t)' = Weight(n, t)
        BY <1>1 DEF Weight
      <3> QED
        BY <1>0, <1>1, <1>3, <3>1, WeightTyped
    <2> QED
      BY <1>0, <1>1, <2>1, <2>2 DEF BalanceStep
  <1>5. BalanceInv'
    BY <1>0, <1>2, <1>4, BalanceMoves
  <1>6. TasksInv' /\ CacheBounded' /\ CacheInv'
    BY <1>0, <1>1, <1>2, <1>3, CacheStays
  <1> QED
    BY <1>2, <1>5, <1>6 DEF QuotaInv

\* batchUpdate takes a store.
LEMMA TakingKeeps ==
    ASSUME QuotaInv, NEW n \in Nodes, TakeStore(n)
    PROVE  QuotaInv'
  <1>0. /\ QuotaTyped /\ BalanceInv /\ TasksInv /\ CacheBounded /\ CacheInv
        /\ Cap \in Nat /\ ops \in Nat /\ phase \in [Nodes -> 0..4]
        /\ stores \in [Nodes -> [Types -> Int]] /\ taken \in [Nodes -> [Types -> Int]]
        /\ half \in [Nodes -> 0..1]
    BY CapGrows, QuotaConstants DEF QuotaInv, QuotaTyped
  <1>1. PICK s \in Types :
            /\ phase[n] = Order[s]
            /\ taken' = [taken EXCEPT ![n][s] = stores[n][s]]
            /\ stores' = [stores EXCEPT ![n][s] = 0]
            /\ phase' = [phase EXCEPT ![n] = @ + 1]
            /\ UNCHANGED <<batch, row, entry, half, tasks, expected, lost, hidden, overlap,
                           ops, reads, mishaps>>
    BY DEF TakeStore, counts
  <1>2. /\ stores' \in [Nodes -> [Types -> Int]] /\ taken' \in [Nodes -> [Types -> Int]]
        /\ \A m \in Nodes \ {n} : /\ stores'[m] = stores[m] /\ taken'[m] = taken[m]
                                  /\ phase'[m] = phase[m]
        /\ stores'[n][s] = 0 /\ taken'[n][s] = stores[n][s]
        /\ \A t \in Types \ {s} : stores'[n][t] = stores[n][t] /\ taken'[n][t] = taken[n][t]
    BY <1>0, <1>1
  <1>3. Order[s] \in 1..3 /\ \A t \in Types : Order[t] \in 1..3 /\ (Order[t] = Order[s] => t = s)
    BY DEF Order, Types
  <1>4. phase'[n] = Order[s] + 1 /\ phase' \in [Nodes -> 0..4]
    BY <1>0, <1>1, <1>3
  <1>5. QuotaTyped'
    <2>1. AnyTask' = AnyTask /\ Types' = Types
      BY DEF AnyTask, Types
    <2> QED
      BY <1>0, <1>1, <1>2, <1>4, <2>1 DEF QuotaTyped
  <1>6. Cap' = Cap
    BY <1>0, <1>1, CapGrows
  <1>7. taken[n][s] = 0
    BY <1>0, <1>1, <1>3 DEF BalanceInv
  <1>8. ASSUME NEW t \in Types
        PROVE  /\ (row'[t] - row[t]) + (lost'[t] - lost[t]) + (stores'[n][t] - stores[n][t])
                      + (taken'[n][t] - taken[n][t]) = expected'[t] - expected[t]
               /\ Abs(row'[t]) + Abs(lost'[t]) + Weight(n, t)' - Cap'
                      <= Abs(row[t]) + Abs(lost[t]) + Weight(n, t) - Cap
               /\ phase'[n] <= Order[t] => taken'[n][t] = 0
    <2>1. /\ stores[n][t] \in Int /\ taken[n][t] \in Int /\ half[n] \in Int
          /\ row[t] \in Int /\ lost[t] \in Int /\ expected[t] \in Int
          /\ row'[t] = row[t] /\ lost'[t] = lost[t] /\ expected'[t] = expected[t]
          /\ Abs(row[t]) \in Nat /\ Abs(lost[t]) \in Nat /\ Weight(n, t) \in Nat
      BY <1>0, <1>1, WeightTyped
    <2>2. Weight(n, t)' = Weight(n, t)
      <3>0. Abs(stores[n][t]) \in Nat /\ Abs(taken[n][t]) \in Nat
        BY <2>1, AbsFacts
      <3>1. CASE t = s
        BY <3>0, <1>1, <1>2, <1>7, <2>1, <3>1, AbsFacts DEF Weight
      <3>2. CASE t # s
        BY <1>1, <1>2, <3>2 DEF Weight
      <3> QED
        BY <3>1, <3>2
    <2>3. (stores'[n][t] - stores[n][t]) + (taken'[n][t] - taken[n][t]) = 0
      <3>1. CASE t = s
        BY <1>2, <1>7, <2>1, <3>1
      <3>2. CASE t # s
        BY <1>2, <2>1, <3>2
      <3> QED
        BY <3>1, <3>2
    <2>4. phase'[n] <= Order[t] => taken'[n][t] = 0
      <3>1. CASE t = s
        BY <1>3, <1>4, <3>1
      <3>2. CASE t # s
        <4>1. phase'[n] <= Order[t] => phase[n] <= Order[t]
          BY <1>1, <1>3, <1>4
        <4> QED
          BY <1>0, <1>2, <3>2, <4>1 DEF BalanceInv
      <3> QED
        BY <3>1, <3>2
    <2>5. stores'[n][t] \in Int /\ taken'[n][t] \in Int
      BY <1>2
    <2> QED
      BY <1>0, <1>6, <2>1, <2>2, <2>3, <2>4, <2>5
  <1>9. BalanceStep(n)
    BY <1>1, <1>2, <1>8 DEF BalanceStep
  <1>10. BalanceInv'
    BY <1>0, <1>5, <1>9, BalanceMoves
  <1>11. TasksInv' /\ CacheBounded' /\ CacheInv'
    BY <1>0, <1>1, <1>5, <1>6, CacheStays
  <1> QED
    BY <1>5, <1>10, <1>11 DEF QuotaInv

\* Moving what a node holds, all of it or what was taken, to the row or to
\* what is lost.
LEMMA Emptied ==
    ASSUME QuotaTyped, NEW n \in Nodes, NEW t \in Types, NEW x \in Int, NEW y \in Int,
           NEW p \in {0, stores[n][t]}, NEW q \in Nat, q <= half[n], Cap' = Cap,
           \/ x = row[t] + (stores[n][t] - p) + taken[n][t] /\ y = lost[t]
           \/ y = lost[t] + (stores[n][t] - p) + taken[n][t] /\ x = row[t]
    PROVE  /\ (x - row[t]) + (y - lost[t]) + (p - stores[n][t]) + (0 - taken[n][t]) = 0
           /\ Abs(x) + Abs(y) + (Abs(p) + Abs(0) + (IF t = "count" THEN q ELSE 0)) - Cap'
                  <= Abs(row[t]) + Abs(lost[t]) + Weight(n, t) - Cap
  <1>1. /\ stores[n][t] \in Int /\ taken[n][t] \in Int /\ half[n] \in Nat
        /\ row[t] \in Int /\ lost[t] \in Int /\ Cap \in Nat /\ p \in Int
    BY WeightTyped, CapGrows
  <1>2. (x - row[t]) + (y - lost[t]) + (p - stores[n][t]) + (0 - taken[n][t]) = 0
    BY <1>1
  <1>3. /\ Abs(x) \in Nat /\ Abs(y) \in Nat /\ Abs(p) \in Nat /\ Abs(row[t]) \in Nat
        /\ Abs(lost[t]) \in Nat
        /\ Abs(stores[n][t]) \in Nat /\ Abs(taken[n][t]) \in Nat
    BY <1>1, AbsFacts
  <1>4. Abs(x) + Abs(y) + Abs(p)
            <= Abs(row[t]) + Abs(lost[t]) + Abs(stores[n][t]) + Abs(taken[n][t])
    <2>1. CASE x = row[t] + (stores[n][t] - p) + taken[n][t] /\ y = lost[t]
      <3>1. Abs(x) + Abs(p) <= Abs(row[t]) + Abs(stores[n][t]) + Abs(taken[n][t])
        BY <1>1, <2>1, AbsMoves
      <3> QED
        BY <1>3, <2>1, <3>1
    <2>2. CASE y = lost[t] + (stores[n][t] - p) + taken[n][t] /\ x = row[t]
      <3>1. Abs(y) + Abs(p) <= Abs(lost[t]) + Abs(stores[n][t]) + Abs(taken[n][t])
        BY <1>1, <2>2, AbsMoves
      <3> QED
        BY <1>3, <2>2, <3>1
    <2> QED
      BY <2>1, <2>2
  <1>5. Abs(0) = 0
    BY AbsFacts
  <1>6. Weight(n, t) = Abs(stores[n][t]) + Abs(taken[n][t]) + (IF t = "count" THEN half[n] ELSE 0)
    BY DEF Weight
  <1>7. CASE t = "count"
    BY <1>1, <1>2, <1>3, <1>4, <1>5, <1>6, <1>7
  <1>8. CASE t # "count"
    BY <1>1, <1>2, <1>3, <1>4, <1>5, <1>6, <1>8
  <1> QED
    BY <1>7, <1>8

\* batchUpdate writes one of the changes it has taken.
LEMMA WriteBatchKeeps ==
    ASSUME QuotaInv, NEW n \in Nodes, WriteBatch(n)
    PROVE  QuotaInv'
  <1>0. /\ QuotaTyped /\ BalanceInv /\ TasksInv /\ CacheBounded /\ CacheInv
        /\ Cap \in Nat /\ ops \in Nat /\ phase \in [Nodes -> 0..4]
        /\ row \in [Types -> Int] /\ lost \in [Types -> Int] /\ expected \in [Types -> Int]
        /\ stores \in [Nodes -> [Types -> Int]] /\ taken \in [Nodes -> [Types -> Int]]
        /\ taken[n] \in [Types -> Int]
        /\ half \in [Nodes -> 0..1] /\ mishaps \in 0..MaxMishaps /\ MaxMishaps \in Nat
        /\ overlap \in BOOLEAN
    BY CapGrows, QuotaConstants DEF QuotaInv, QuotaTyped
  <1>1. /\ taken' = [taken EXCEPT ![n] = Zero]
        /\ phase' = [phase EXCEPT ![n] = 0]
        /\ UNCHANGED <<batch, entry, stores, half, tasks, expected, hidden, ops, reads>>
    BY DEF WriteBatch
  <1>2. /\ row' \in [Types -> Int] /\ lost' \in [Types -> Int]
        /\ mishaps' \in 0..MaxMishaps /\ overlap' \in BOOLEAN /\ (overlap => overlap')
        /\ \/ \A t \in Types : row'[t] = row[t] + taken[n][t] /\ lost'[t] = lost[t]
           \/ \A t \in Types : lost'[t] = lost[t] + taken[n][t] /\ row'[t] = row[t]
    <2>1. CASE row' = Plus(row, taken[n]) /\ UNCHANGED <<lost, mishaps, overlap>>
      BY <1>0, <2>1, PlusAt
    <2>2. CASE Mishap /\ lost' = Plus(lost, taken[n]) /\ overlap' = TRUE /\ UNCHANGED row
      <3>1. mishaps' \in 0..MaxMishaps
        BY <1>0, <2>2 DEF Mishap
      <3> QED
        BY <1>0, <2>2, <3>1, PlusAt
    <2> QED
      BY <2>1, <2>2 DEF WriteBatch
  <1>3. /\ taken' \in [Nodes -> [Types -> Int]] /\ phase' \in [Nodes -> 0..4]
        /\ \A m \in Nodes \ {n} : taken'[m] = taken[m] /\ phase'[m] = phase[m]
        /\ \A t \in Types : taken'[n][t] = 0
    BY <1>0, <1>1, ZeroAt
  <1>4. QuotaTyped'
    <2>1. AnyTask' = AnyTask /\ Types' = Types
      BY DEF AnyTask, Types
    <2> QED
      BY <1>0, <1>1, <1>2, <1>3, <2>1 DEF QuotaTyped
  <1>5. Cap' = Cap
    BY <1>0, <1>1, CapGrows
  <1>6. ASSUME NEW t \in Types
        PROVE  /\ (row'[t] - row[t]) + (lost'[t] - lost[t]) + (stores'[n][t] - stores[n][t])
                      + (taken'[n][t] - taken[n][t]) = expected'[t] - expected[t]
               /\ Abs(row'[t]) + Abs(lost'[t]) + Weight(n, t)' - Cap'
                      <= Abs(row[t]) + Abs(lost[t]) + Weight(n, t) - Cap
    <2> DEFINE p == stores[n][t]
               q == half[n]
    <2>1. /\ row'[t] \in Int /\ lost'[t] \in Int /\ q \in Nat /\ q <= half[n]
          /\ p \in {0, stores[n][t]}
          /\ row[t] \in Int /\ lost[t] \in Int /\ p \in Int /\ taken[n][t] \in Int
          /\ expected[t] \in Int
      BY <1>0, <1>2
    <2>2. \/ row'[t] = row[t] + (stores[n][t] - p) + taken[n][t] /\ lost'[t] = lost[t]
          \/ lost'[t] = lost[t] + (stores[n][t] - p) + taken[n][t] /\ row'[t] = row[t]
      <3>1. \/ row'[t] = row[t] + taken[n][t] /\ lost'[t] = lost[t]
            \/ lost'[t] = lost[t] + taken[n][t] /\ row'[t] = row[t]
        BY <1>2
      <3> QED
        BY <2>1, <3>1
    <2>3. Weight(n, t)' = Abs(p) + Abs(0) + (IF t = "count" THEN q ELSE 0)
      BY <1>1, <1>3 DEF Weight
    <2>4. stores'[n][t] = p /\ taken'[n][t] = 0 /\ expected'[t] - expected[t] = 0
      BY <1>1, <1>3, <2>1
    <2> HIDE DEF p, q
    <2>5. /\ (row'[t] - row[t]) + (lost'[t] - lost[t]) + (p - stores[n][t]) + (0 - taken[n][t]) = 0
          /\ Abs(row'[t]) + Abs(lost'[t]) + (Abs(p) + Abs(0) + (IF t = "count" THEN q ELSE 0)) - Cap'
                 <= Abs(row[t]) + Abs(lost[t]) + Weight(n, t) - Cap
      BY <1>0, <1>5, <2>1, <2>2, Emptied
    <2> QED
      BY <2>3, <2>4, <2>5
  <1>7. BalanceStep(n)
    BY <1>1, <1>3, <1>6 DEF BalanceStep
  <1>8. BalanceInv'
    BY <1>0, <1>4, <1>7, BalanceMoves
  <1>9. TasksInv' /\ CacheBounded' /\ CacheInv'
    BY <1>0, <1>1, <1>2, <1>4, <1>5, CacheStays
  <1> QED
    BY <1>4, <1>8, <1>9 DEF QuotaInv

\* A process dies: what it held is lost, and its goroutines with it.
LEMMA CrashKeeps ==
    ASSUME QuotaInv, NEW n \in Nodes, ProcessDies(n)
    PROVE  QuotaInv'
  <1>0. /\ QuotaTyped /\ BalanceInv /\ TasksInv /\ CacheBounded /\ CacheInv
        /\ Cap \in Nat /\ ops \in Nat /\ phase \in [Nodes -> 0..4]
        /\ row \in [Types -> Int] /\ lost \in [Types -> Int] /\ expected \in [Types -> Int]
        /\ stores \in [Nodes -> [Types -> Int]] /\ taken \in [Nodes -> [Types -> Int]]
        /\ stores[n] \in [Types -> Int] /\ taken[n] \in [Types -> Int]
        /\ half \in [Nodes -> 0..1] /\ mishaps \in 0..MaxMishaps /\ MaxMishaps \in Nat
    BY CapGrows, QuotaConstants DEF QuotaInv, QuotaTyped
  <1>1. /\ mishaps < MaxMishaps /\ mishaps' = mishaps + 1
        /\ lost' = Plus(lost, Plus(stores[n], taken[n]))
        /\ stores' = [stores EXCEPT ![n] = Zero]
        /\ taken' = [taken EXCEPT ![n] = Zero]
        /\ phase' = [phase EXCEPT ![n] = 0]
        /\ half' = [half EXCEPT ![n] = 0]
        /\ tasks' = {k \in tasks : k.node # n}
        /\ overlap' = TRUE
        /\ UNCHANGED <<batch, row, entry, expected, hidden, ops, reads>>
    BY DEF ProcessDies
  <1>2. /\ lost' \in [Types -> Int] /\ mishaps' \in 0..MaxMishaps
        /\ \A t \in Types : lost'[t] = lost[t] + (stores[n][t] + taken[n][t])
    <2>1. /\ Plus(stores[n], taken[n]) \in [Types -> Int]
          /\ \A t \in Types : Plus(stores[n], taken[n])[t] = stores[n][t] + taken[n][t]
      BY <1>0, PlusAt
    <2>2. /\ lost' \in [Types -> Int]
          /\ \A t \in Types : lost'[t] = lost[t] + Plus(stores[n], taken[n])[t]
      BY <1>0, <1>1, <2>1, PlusAt
    <2>3. mishaps' \in 0..MaxMishaps
      BY <1>0, <1>1
    <2> QED
      BY <2>1, <2>2, <2>3
  <1>3. /\ stores' \in [Nodes -> [Types -> Int]] /\ taken' \in [Nodes -> [Types -> Int]]
        /\ phase' \in [Nodes -> 0..4] /\ half' \in [Nodes -> 0..1] /\ half'[n] = 0
        /\ \A m \in Nodes \ {n} : /\ stores'[m] = stores[m] /\ taken'[m] = taken[m]
                                  /\ half'[m] = half[m] /\ phase'[m] = phase[m]
        /\ \A t \in Types : stores'[n][t] = 0 /\ taken'[n][t] = 0
    BY <1>0, <1>1, ZeroAt
  <1>4. tasks' \subseteq tasks
    BY <1>1
  <1>5. /\ tasks' \subseteq AnyTask /\ TasksInv' /\ Increments' \subseteq Increments
        /\ Refills' \subseteq Refills
    BY <1>0, <1>1, <1>4, TasksKept
  <1>6. QuotaTyped'
    <2>1. AnyTask' = AnyTask /\ Types' = Types
      BY DEF AnyTask, Types
    <2> QED
      BY <1>0, <1>1, <1>2, <1>3, <1>5, <2>1 DEF QuotaTyped
  <1>7. Cap' = Cap
    BY <1>0, <1>1, CapGrows
  <1>8. ASSUME NEW t \in Types
        PROVE  /\ (row'[t] - row[t]) + (lost'[t] - lost[t]) + (stores'[n][t] - stores[n][t])
                      + (taken'[n][t] - taken[n][t]) = expected'[t] - expected[t]
               /\ Abs(row'[t]) + Abs(lost'[t]) + Weight(n, t)' - Cap'
                      <= Abs(row[t]) + Abs(lost[t]) + Weight(n, t) - Cap
    <2> DEFINE p == 0
               q == 0
    <2>1. /\ row'[t] \in Int /\ lost'[t] \in Int /\ q \in Nat /\ q <= half[n]
          /\ p \in {0, stores[n][t]}
          /\ row[t] \in Int /\ lost[t] \in Int /\ stores[n][t] \in Int /\ taken[n][t] \in Int
          /\ expected[t] \in Int
      BY <1>0, <1>1, <1>2
    <2>2. lost'[t] = lost[t] + (stores[n][t] - p) + taken[n][t] /\ row'[t] = row[t]
      BY <1>1, <1>2, <2>1
    <2>3. Weight(n, t)' = Abs(p) + Abs(0) + (IF t = "count" THEN q ELSE 0)
      BY <1>3 DEF Weight
    <2>4. stores'[n][t] = p /\ taken'[n][t] = 0 /\ expected'[t] - expected[t] = 0
      BY <1>1, <1>3, <2>1
    <2> HIDE DEF p, q
    <2>5. /\ (row'[t] - row[t]) + (lost'[t] - lost[t]) + (p - stores[n][t]) + (0 - taken[n][t]) = 0
          /\ Abs(row'[t]) + Abs(lost'[t]) + (Abs(p) + Abs(0) + (IF t = "count" THEN q ELSE 0)) - Cap'
                 <= Abs(row[t]) + Abs(lost[t]) + Weight(n, t) - Cap
      BY <1>0, <1>7, <2>1, <2>2, Emptied
    <2> QED
      BY <2>3, <2>4, <2>5
  <1>9. BalanceStep(n)
    BY <1>1, <1>3, <1>8 DEF BalanceStep
  <1>10. BalanceInv'
    BY <1>0, <1>6, <1>9, BalanceMoves
  <1>11. CacheBounded'
    <2>1. Underway' \in Nat /\ Underway' <= Underway /\ Underway \in Nat /\ Abs(entry.quota) \in Nat
      BY <1>0, <1>5, TasksFewer, TasksTyped
    <2>2. Underway' <= Cap' /\ Abs(entry'.quota) + Underway' <= 2 * Cap'
      BY <1>0, <1>1, <1>7, <2>1 DEF CacheBounded
    <2> QED
      BY <1>0, <1>1, <1>5, <1>7, <2>2 DEF CacheBounded
  <1>12. CacheInv'
    BY <1>1 DEF CacheInv
  <1> QED
    BY <1>5, <1>6, <1>10, <1>11, <1>12 DEF QuotaInv

----------------------------------------------------------------------------
(* Reads and the cache.                                                    *)
(***************************************************************************)
\* A read that falls through to the row and starts a refill.
LEMMA GetUserQuotaKeeps ==
    ASSUME QuotaInv, NEW n \in Nodes, NEW fromDB, GetUserQuota(n, fromDB)
    PROVE  QuotaInv'
  <1> DEFINE what == IF fromDB THEN "setField" ELSE "fill"
             v == row["quota"]
             k == NewTask(n, what, v)
  <1>0. /\ QuotaTyped /\ BalanceInv /\ TasksInv /\ CacheBounded /\ CacheInv
        /\ Cap \in Nat /\ v \in Int /\ reads \in 0..MaxReads /\ MaxReads \in Nat
        /\ ops \in 0..MaxOps
    BY CapGrows, QuotaConstants DEF QuotaInv, QuotaTyped, Types
  <1>1. /\ reads < MaxReads /\ reads' = reads + 1 /\ Spawn(n, what, v)
        /\ overlap' = (overlap \/ ~Settled)
        /\ UNCHANGED <<batch, row, entry, stores, taken, phase, half, expected, lost, hidden, ops>>
        /\ mishaps' = mishaps \/ Mishap
    BY DEF GetUserQuota
  <1>2. what \in {"incr", "fill", "setField"} /\ what # "incr"
    OBVIOUS
  <1> HIDE DEF what, v
  <1>3. ops' \in 0..MaxOps /\ reads' \in 0..MaxReads
    BY <1>0, <1>1
  <1>4. tasks' \subseteq AnyTask /\ TasksInv' /\ k \notin tasks /\ tasks' = tasks \cup {k}
    BY <1>0, <1>1, <1>2, <1>3, TaskSpawned
  <1>5. k.op = what /\ k.value = v /\ k.seen = FALSE
    BY DEF NewTask
  <1> HIDE DEF k
  <1>6. QuotaTyped'
    <2>1. AnyTask' = AnyTask /\ Types' = Types /\ overlap' \in BOOLEAN
      BY <1>1 DEF AnyTask, Types
    <2>2. mishaps' \in 0..MaxMishaps
      BY <1>0, <1>1, QuotaConstants DEF QuotaTyped, Mishap
    <2> QED
      BY <1>0, <1>1, <1>3, <1>4, <2>1, <2>2 DEF QuotaTyped
  <1>7. BalanceInv'
    BY <1>0, <1>1, BalanceStays
  <1>8. Increments' = Increments /\ Refills' = Refills \cup {k}
    BY <1>2, <1>4, <1>5 DEF Increments, Refills
  <1>9. Underway' = Underway /\ Outstanding' = Outstanding /\ Cap' = Cap
    BY <1>0, <1>1, <1>8, TasksSame, CapGrows
  <1>10. CacheBounded'
    <2>1. Abs(v) <= Cap
      <3>1. /\ "quota" \in Types /\ Abs(v) + Abs(lost["quota"]) + Weights("quota") <= Cap
            /\ Abs(v) \in Nat /\ Abs(lost["quota"]) \in Nat /\ Weights("quota") \in Nat
        BY <1>0, WeightTyped DEF BalanceInv, Types, v
      <3> QED
        BY <1>0, <3>1
    <2> QED
      BY <1>0, <1>1, <1>5, <1>8, <1>9, <2>1 DEF CacheBounded
  <1>11. CacheInv'
    <2>1. SUFFICES ASSUME ~overlap' PROVE CacheInv'
      BY DEF CacheInv
    <2>2. ~overlap /\ Increments = {} /\ v = expected["quota"]
      BY <1>1, <2>1 DEF Settled, v
    <2> QED
      BY <1>0, <1>1, <1>4, <1>5, <1>8, <1>9, <2>2 DEF CacheInv
  <1> QED
    BY <1>4, <1>6, <1>7, <1>10, <1>11 DEF QuotaInv

\* Steps on the cache leave the balances alone.
LEMMA CacheOnly ==
    ASSUME QuotaInv, UNCHANGED <<batch, row, stores, taken, phase, half, expected, lost, ops, reads>>,
           tasks' \subseteq AnyTask, overlap' \in BOOLEAN, hidden' \in Int, mishaps' \in 0..MaxMishaps,
           entry' \in [present : BOOLEAN, whole : BOOLEAN, quota : Int]
    PROVE  QuotaTyped' /\ BalanceInv' /\ Cap' = Cap /\ Cap \in Nat
  <1>1. QuotaTyped /\ BalanceInv
    BY DEF QuotaInv
  <1>2. AnyTask' = AnyTask /\ Types' = Types
    BY DEF AnyTask, Types
  <1>3. QuotaTyped'
    BY <1>1, <1>2 DEF QuotaTyped
  <1>4. BalanceInv'
    BY <1>1, BalanceStays
  <1> QED
    BY <1>1, <1>3, <1>4, CapGrows

\* A cache task checks that the key is there ...
LEMMA CheckTTLKeeps ==
    ASSUME QuotaInv, NEW k \in tasks, CheckTTL(k)
    PROVE  QuotaInv'
  <1> DEFINE j == [k EXCEPT !.seen = TRUE]
  <1>0. /\ QuotaTyped /\ BalanceInv /\ TasksInv /\ CacheBounded /\ CacheInv
        /\ tasks \subseteq AnyTask /\ k \in AnyTask /\ overlap \in BOOLEAN
        /\ entry \in [present : BOOLEAN, whole : BOOLEAN, quota : Int]
        /\ mishaps \in 0..MaxMishaps /\ ops \in Nat /\ reads \in Nat /\ hidden \in Int
    BY QuotaConstants DEF QuotaInv, QuotaTyped
  <1>1. /\ k.op # "fill" /\ k.seen = FALSE
        /\ tasks' = (tasks \ {k}) \cup (IF entry.present THEN {j} ELSE {})
        /\ UNCHANGED <<batch, row, entry, stores, taken, phase, half, expected, lost, hidden, overlap,
                       ops, reads, mishaps>>
    BY <1>0 DEF CheckTTL, counts, AnyTask
  <1>2. /\ j \in AnyTask /\ j.id = k.id /\ j.op = k.op /\ j.value = k.value /\ j.seen = TRUE
        /\ j # k
    BY <1>0, <1>1 DEF AnyTask
  <1> HIDE DEF j
  <1>3. j \notin tasks
    BY <1>0, <1>2 DEF TasksInv
  <1>4. tasks' \subseteq AnyTask
    BY <1>0, <1>1, <1>2
  <1>5. QuotaTyped' /\ BalanceInv' /\ Cap' = Cap /\ Cap \in Nat
    BY <1>0, <1>1, <1>4, CacheOnly
  <1>6. TasksInv'
    <2>1. IsFiniteSet(tasks \ {k}) /\ IsFiniteSet((tasks \ {k}) \cup {j})
      BY <1>0, FS_RemoveElement, FS_AddElement DEF TasksInv
    <2>2. IsFiniteSet(tasks')
      BY <1>1, <2>1
    <2>3. \A i \in tasks' : i.id <= ops' + reads'
      BY <1>0, <1>1, <1>2 DEF TasksInv
    <2>4. ASSUME NEW a \in tasks', NEW b \in tasks', a.id = b.id PROVE a = b
      BY <1>0, <1>1, <1>2, <2>4 DEF TasksInv
    <2> QED
      BY <2>2, <2>3, <2>4 DEF TasksInv
  <1>7. Refills' \subseteq Refills \cup {j} /\ (j \in Refills' => k \in Refills)
    BY <1>1, <1>2 DEF Refills, Increments
  <1>8. Underway \in Nat /\ Outstanding \in Int /\ entry.quota \in Int /\ Abs(entry.quota) \in Nat
    BY <1>0, TasksTyped
  <1>9. /\ Underway' \in Nat /\ Underway' <= Underway
        /\ entry.present => Outstanding' = Outstanding
        /\ Increments = {} => Increments' = {}
    <2>1. CASE k.op = "incr" /\ entry.present
      <3>1. k \in Increments /\ j \notin Increments /\ Increments' = (Increments \ {k}) \cup {j}
        BY <1>1, <1>2, <1>3, <2>1 DEF Increments
      <3>2. Underway' = Underway /\ Outstanding' = Outstanding
        BY <1>0, <1>2, <3>1, TasksReplaced
      <3> QED
        BY <1>8, <3>1, <3>2
    <2>2. CASE k.op # "incr"
      <3>1. Increments' = Increments
        BY <1>1, <1>2, <2>2 DEF Increments
      <3> QED
        BY <1>8, <3>1, TasksSame
    <2>3. CASE ~entry.present
      <3>1. Increments' \subseteq Increments
        BY <1>1, <2>3 DEF Increments
      <3>2. Underway' \in Nat /\ Underway' <= Underway
        BY <1>0, <3>1, TasksFewer
      <3> QED
        BY <2>3, <3>1, <3>2
    <2> QED
      BY <2>1, <2>2, <2>3
  <1>10. CacheBounded'
    <2>1. \A i \in Refills' : Abs(i.value) <= Cap
      BY <1>0, <1>2, <1>7 DEF CacheBounded
    <2>2. Underway' <= Cap /\ Abs(entry.quota) + Underway' <= 2 * Cap
      BY <1>0, <1>5, <1>8, <1>9 DEF CacheBounded
    <2> QED
      BY <1>0, <1>1, <1>5, <2>1, <2>2 DEF CacheBounded
  <1>11. CacheInv'
    <2>1. SUFFICES ASSUME ~overlap PROVE CacheInv'
      BY <1>1 DEF CacheInv
    <2>2. Refills' # {} => Increments' = {} /\ \A i \in Refills' : i.value = expected["quota"]
      BY <1>0, <1>2, <1>7, <1>9, <2>1 DEF CacheInv
    <2>3. (\E i \in tasks' : i.seen) => entry.present
      BY <1>0, <1>1, <2>1 DEF CacheInv
    <2>4. entry.present => entry.whole /\ entry.quota + Outstanding' + hidden = expected["quota"]
      BY <1>0, <1>9, <2>1 DEF CacheInv
    <2> QED
      BY <1>1, <2>2, <2>3, <2>4 DEF CacheInv
  <1> QED
    BY <1>5, <1>6, <1>10, <1>11 DEF QuotaInv

\* ... and writes.
LEMMA CacheWriteKeeps ==
    ASSUME QuotaInv, NEW k \in tasks, CacheWrite(k)
    PROVE  QuotaInv'
  <1>0. /\ QuotaTyped /\ BalanceInv /\ TasksInv /\ CacheBounded /\ CacheInv
        /\ k \in AnyTask /\ overlap \in BOOLEAN
        /\ entry \in [present : BOOLEAN, whole : BOOLEAN, quota : Int]
        /\ mishaps \in 0..MaxMishaps
    BY QuotaConstants DEF QuotaInv, QuotaTyped
  <1>1. /\ k.op = "fill" \/ k.seen
        /\ tasks' = tasks \ {k}
        /\ entry' = [present |-> TRUE, whole |-> entry.whole \/ k.op = "fill",
                     quota |-> IF k.op = "incr" THEN entry.quota + k.value ELSE k.value]
        /\ hidden' = IF k.op = "incr" THEN hidden ELSE 0
        /\ UNCHANGED <<batch, row, stores, taken, phase, half, expected, lost, overlap,
                       ops, reads, mishaps>>
    BY DEF CacheWrite, counts
  <1>2. k.value \in Int /\ entry.quota \in Int /\ hidden \in Int /\ hidden' \in Int
    BY <1>0, <1>1 DEF AnyTask, QuotaTyped
  <1>3. /\ entry' \in [present : BOOLEAN, whole : BOOLEAN, quota : Int]
        /\ entry'.present = TRUE /\ entry'.whole = (entry.whole \/ k.op = "fill")
        /\ k.op = "incr" => entry'.quota = entry.quota + k.value
        /\ k.op # "incr" => entry'.quota = k.value
    BY <1>0, <1>1, <1>2
  <1>4. /\ tasks' \subseteq AnyTask /\ TasksInv' /\ Increments' \subseteq Increments
        /\ Refills' \subseteq Refills
    BY <1>0, <1>1, TasksKept
  <1>5. QuotaTyped' /\ BalanceInv' /\ Cap' = Cap /\ Cap \in Nat
    BY <1>0, <1>1, <1>2, <1>3, <1>4, CacheOnly
  <1>6. /\ Underway \in Nat /\ Outstanding \in Int /\ Abs(entry.quota) \in Nat /\ Abs(k.value) \in Nat
        /\ Abs(entry.quota + k.value) \in Nat
        /\ Abs(entry.quota + k.value) <= Abs(entry.quota) + Abs(k.value)
    BY <1>0, <1>2, TasksTyped, AbsFacts
  <1>7. ~overlap => expected["quota"] \in Int
    BY <1>0 DEF QuotaTyped, Types
  <1>8. CASE k.op = "incr"
    <2>1. k \in Increments /\ Increments' = Increments \ {k}
      BY <1>1, <1>8 DEF Increments
    <2>2. Underway' = Underway - Abs(k.value) /\ Outstanding' = Outstanding - k.value
      BY <1>0, <2>1, TasksRemoved
    <2>3. CacheBounded'
      <3>1. Underway' <= Cap /\ Abs(entry'.quota) + Underway' <= 2 * Cap
        BY <1>0, <1>3, <1>5, <1>6, <1>8, <2>2 DEF CacheBounded
      <3>2. hidden' = hidden
        BY <1>1, <1>8
      <3> QED
        BY <1>0, <1>4, <1>5, <3>1, <3>2 DEF CacheBounded
    <2>4. CacheInv'
      <3>1. SUFFICES ASSUME ~overlap PROVE CacheInv'
        BY <1>1 DEF CacheInv
      <3>2. /\ entry.whole /\ entry.quota + Outstanding + hidden = expected["quota"]
            /\ Refills = {} /\ hidden' = hidden
        BY <1>0, <1>1, <1>8, <2>1, <3>1 DEF CacheInv
      <3>3. entry'.quota + Outstanding' + hidden' = expected["quota"]
        BY <1>2, <1>3, <1>6, <1>8, <2>2, <3>2
      <3> QED
        BY <1>1, <1>3, <1>4, <3>2, <3>3 DEF CacheInv
    <2> QED
      BY <1>4, <1>5, <2>3, <2>4 DEF QuotaInv
  <1>9. CASE k.op # "incr"
    <2>1. k \in Refills /\ Increments' = Increments
      BY <1>1, <1>9 DEF Increments, Refills
    <2>2. Underway' = Underway /\ Outstanding' = Outstanding
      BY <2>1, TasksSame
    <2>3. CacheBounded'
      <3>1. Underway' <= Cap /\ Abs(entry'.quota) + Underway' <= 2 * Cap
        BY <1>0, <1>3, <1>5, <1>6, <1>9, <2>1, <2>2 DEF CacheBounded
      <3>2. Abs(hidden') <= Cap
        BY <1>1, <1>5, <1>9, AbsFacts
      <3> QED
        BY <1>0, <1>4, <1>5, <3>1, <3>2 DEF CacheBounded
    <2>4. CacheInv'
      <3>1. SUFFICES ASSUME ~overlap PROVE CacheInv'
        BY <1>1 DEF CacheInv
      <3>2. Increments = {} /\ k.value = expected["quota"]
        BY <1>0, <2>1, <3>1 DEF CacheInv
      <3>3. Outstanding = 0
        BY <3>2, TotalZero, FS_EmptySet DEF Outstanding
      <3>4. entry'.whole
        BY <1>0, <1>1, <1>3, <3>1 DEF CacheInv
      <3>5. entry'.quota + Outstanding' + hidden' = expected["quota"]
        BY <1>1, <1>2, <1>3, <1>9, <2>2, <3>2, <3>3
      <3> QED
        BY <1>0, <1>1, <1>3, <1>4, <2>1, <3>1, <3>4, <3>5 DEF CacheInv
    <2> QED
      BY <1>4, <1>5, <2>3, <2>4 DEF QuotaInv
  <1> QED
    BY <1>8, <1>9

\* A cache command fails.
LEMMA CacheFaultKeeps ==
    ASSUME QuotaInv, NEW k \in tasks, CacheFault(k)
    PROVE  QuotaInv'
  <1>0. /\ QuotaTyped /\ BalanceInv /\ TasksInv /\ CacheBounded /\ CacheInv
        /\ entry \in [present : BOOLEAN, whole : BOOLEAN, quota : Int]
        /\ mishaps \in 0..MaxMishaps /\ MaxMishaps \in Nat /\ hidden \in Int
    BY QuotaConstants DEF QuotaInv, QuotaTyped
  <1>1. /\ mishaps < MaxMishaps /\ mishaps' = mishaps + 1
        /\ tasks' = tasks \ {k} /\ overlap' = TRUE
        /\ UNCHANGED <<batch, row, entry, stores, taken, phase, half, expected, lost, hidden,
                       ops, reads>>
    BY DEF CacheFault, Mishap
  <1>2. /\ tasks' \subseteq AnyTask /\ TasksInv' /\ Increments' \subseteq Increments
        /\ Refills' \subseteq Refills
    BY <1>0, <1>1, TasksKept
  <1>3. mishaps' \in 0..MaxMishaps
    BY <1>0, <1>1
  <1>4. QuotaTyped' /\ BalanceInv' /\ Cap' = Cap /\ Cap \in Nat
    BY <1>0, <1>1, <1>2, <1>3, CacheOnly
  <1>5. Underway' \in Nat /\ Underway' <= Underway /\ Underway \in Nat /\ Abs(entry.quota) \in Nat
    BY <1>0, <1>2, TasksFewer, TasksTyped
  <1>6. Underway' <= Cap /\ Abs(entry.quota) + Underway' <= 2 * Cap
    BY <1>0, <1>4, <1>5 DEF CacheBounded
  <1>7. CacheBounded'
    BY <1>0, <1>1, <1>2, <1>4, <1>6 DEF CacheBounded
  <1>8. CacheInv'
    BY <1>1 DEF CacheInv
  <1> QED
    BY <1>2, <1>4, <1>7, <1>8 DEF QuotaInv

\* The key expires.
LEMMA ExpireKeeps ==
    ASSUME QuotaInv, EntryExpires
    PROVE  QuotaInv'
  <1>0. /\ QuotaTyped /\ BalanceInv /\ TasksInv /\ CacheBounded /\ CacheInv
        /\ overlap \in BOOLEAN /\ hidden \in Int
        /\ mishaps \in 0..MaxMishaps /\ tasks \subseteq AnyTask
    BY DEF QuotaInv, QuotaTyped
  <1>1. /\ entry' = NoEntry
        /\ overlap' = (overlap \/ \E k \in tasks : k.seen)
        /\ UNCHANGED <<batch, row, stores, taken, phase, half, tasks, expected, lost, hidden,
                       ops, reads, mishaps>>
    BY DEF EntryExpires, counts
  <1>2. /\ entry' \in [present : BOOLEAN, whole : BOOLEAN, quota : Int]
        /\ entry'.present = FALSE /\ entry'.quota = 0
    BY <1>1 DEF NoEntry
  <1>3. overlap' \in BOOLEAN
    BY <1>1
  <1>4. QuotaTyped' /\ BalanceInv' /\ Cap' = Cap /\ Cap \in Nat
    BY <1>0, <1>1, <1>2, <1>3, CacheOnly
  <1>5. Increments' = Increments /\ Refills' = Refills
    BY <1>1 DEF Increments, Refills
  <1>6. Underway' = Underway /\ Outstanding' = Outstanding /\ Underway \in Nat
    BY <1>0, <1>5, TasksSame, TasksTyped
  <1>7. TasksInv'
    BY <1>0, <1>1 DEF TasksInv
  <1>8. CacheBounded'
    <2>1. Abs(entry'.quota) + Underway' <= 2 * Cap
      BY <1>0, <1>2, <1>4, <1>6, AbsFacts DEF CacheBounded
    <2> QED
      BY <1>0, <1>1, <1>4, <1>5, <1>6, <2>1 DEF CacheBounded
  <1>9. CacheInv'
    <2>1. SUFFICES ASSUME ~overlap' PROVE CacheInv'
      BY DEF CacheInv
    <2>2. ~overlap /\ ~\E k \in tasks : k.seen
      BY <1>1, <2>1
    <2> QED
      BY <1>0, <1>1, <1>2, <1>5, <2>2 DEF CacheInv
  <1> QED
    BY <1>4, <1>7, <1>8, <1>9 DEF QuotaInv

----------------------------------------------------------------------------
(* The invariant holds.                                                    *)
(***************************************************************************)
\* Nothing is collected, cached or under way.
LEMMA QuotaStarts ==
    ASSUME QuotaInit
    PROVE  QuotaInv
  <1>0. /\ IsFiniteSet(Nodes) /\ MaxOps \in Nat /\ MaxReads \in Nat /\ MaxMishaps \in Nat
        /\ Zero \in [Types -> Int] /\ (\A t \in Types : Zero[t] = 0) /\ Abs(0) = 0
    BY QuotaConstants, ZeroAt, AbsFacts
  <1>1. /\ batch \in BOOLEAN
        /\ row = Zero /\ expected = Zero /\ lost = Zero
        /\ entry = [present |-> TRUE, whole |-> TRUE, quota |-> 0]
        /\ stores = [n \in Nodes |-> Zero] /\ taken = [n \in Nodes |-> Zero]
        /\ phase = [n \in Nodes |-> 0] /\ half = [n \in Nodes |-> 0]
        /\ tasks = {} /\ overlap = FALSE /\ hidden = 0
        /\ ops = 0 /\ reads = 0 /\ mishaps = 0
    BY DEF QuotaInit
  <1>2. QuotaTyped
    <2>1. /\ stores \in [Nodes -> [Types -> Int]] /\ taken \in [Nodes -> [Types -> Int]]
          /\ phase \in [Nodes -> 0..4] /\ half \in [Nodes -> 0..1]
      BY <1>0, <1>1
    <2>2. entry \in [present : BOOLEAN, whole : BOOLEAN, quota : Int]
      BY <1>1
    <2>3. tasks \subseteq AnyTask /\ overlap \in BOOLEAN
      BY <1>1
    <2>4. ops \in 0..MaxOps /\ reads \in 0..MaxReads /\ mishaps \in 0..MaxMishaps
      BY <1>0, <1>1
    <2>5. hidden \in Int
      BY <1>1
    <2> QED
      BY <1>0, <1>1, <2>1, <2>2, <2>3, <2>4, <2>5 DEF QuotaTyped
  <1>3. Increments = {} /\ Refills = {}
    BY <1>1 DEF Increments, Refills
  <1>4. Underway = 0 /\ Outstanding = 0
    BY <1>3, TotalZero, FS_EmptySet DEF Underway, Outstanding
  <1>5. Cap = 0
    <2>1. Largest \in Nat
      BY LargestAmount
    <2> QED
      BY <1>1, <2>1 DEF Cap
  <1>6. ASSUME NEW t \in Types
        PROVE  row[t] = 0 /\ lost[t] = 0 /\ expected[t] = 0 /\ Collected(t) = 0 /\ Weights(t) = 0
    <2>1. \A n \in Nodes : stores[n][t] = 0 /\ taken[n][t] = 0 /\ half[n] = 0
      BY <1>0, <1>1
    <2>2. \A n \in Nodes : Weight(n, t) = 0
      BY <1>0, <2>1 DEF Weight
    <2>3. Collected(t) = 0
      BY <1>0, <2>1, TotalZero DEF Collected
    <2>4. Weights(t) = 0
      BY <1>0, <2>2, TotalZero DEF Weights
    <2> QED
      BY <1>0, <1>1, <2>3, <2>4
  <1>7. \A n \in Nodes, t \in Types : taken[n][t] = 0
    BY <1>0, <1>1
  <1>8. BalanceInv
    BY <1>0, <1>5, <1>6, <1>7 DEF BalanceInv
  <1>9. TasksInv
    BY <1>1, FS_EmptySet DEF TasksInv
  <1>10. CacheBounded
    BY <1>0, <1>1, <1>3, <1>4, <1>5 DEF CacheBounded
  <1>11. CacheInv
    BY <1>0, <1>1, <1>3, <1>4 DEF CacheInv, Types
  <1> QED
    BY <1>2, <1>8, <1>9, <1>10, <1>11 DEF QuotaInv

\* Every step keeps the invariant.
LEMMA QuotaSteps ==
    ASSUME QuotaInv, [QuotaNext]_quotaVars
    PROVE  QuotaInv'
  <1>1. ASSUME NEW n \in Nodes, NEW a \in Amounts, NEW db \in BOOLEAN,
               ChangeQuota(n, a, db) \/ ChangeQuota(n, -a, db)
        PROVE  QuotaInv'
    <2>1. a \in Int /\ -a \in Int /\ Abs(a) <= Largest /\ Abs(-a) <= Largest
      BY LargestAmount DEF QuotaInv, QuotaTyped, Abs
    <2> QED
      BY <1>1, <2>1, ChangeQuotaKeeps
  <1>2. ASSUME NEW n \in Nodes, NEW a \in Amounts, UpdateUsed(n, a) PROVE QuotaInv'
    <2>1. a \in Int /\ Abs(a) <= Largest
      BY LargestAmount DEF QuotaInv, QuotaTyped, Abs
    <2> QED
      BY <1>2, <2>1, UpdateUsedKeeps
  <1>3. ASSUME NEW n \in Nodes, RecordCount(n) \/ Flush(n) \/ ProcessDies(n) PROVE QuotaInv'
    BY <1>3, RecordCountKeeps, WakeKeeps, TakingKeeps, WriteBatchKeeps, CrashKeeps DEF Flush
  <1>4. ASSUME NEW n \in Nodes, NEW fromDB \in BOOLEAN, GetUserQuota(n, fromDB) PROVE QuotaInv'
    BY <1>4, GetUserQuotaKeeps
  <1>5. ASSUME NEW k \in tasks, CacheStep(k) PROVE QuotaInv'
    BY <1>5, CheckTTLKeeps, CacheWriteKeeps, CacheFaultKeeps DEF CacheStep
  <1>6. CASE EntryExpires
    BY <1>6, ExpireKeeps
  <1>7. CASE UNCHANGED quotaVars
    <2>1. UNCHANGED <<batch, row, entry, stores, taken, phase, half, tasks, expected, lost, hidden, overlap,
                      ops, reads, mishaps>>
      BY <1>7 DEF quotaVars
    <2>2. QuotaTyped /\ BalanceInv /\ TasksInv /\ CacheBounded /\ CacheInv
      BY DEF QuotaInv
    <2>3. QuotaTyped'
      <3>1. AnyTask' = AnyTask /\ Types' = Types
        BY DEF AnyTask, Types
      <3> QED
        BY <2>1, <2>2, <3>1 DEF QuotaTyped
    <2>4. BalanceInv'
      BY <2>1, <2>2, BalanceStays
    <2>5. Cap \in Nat /\ Cap' = Cap /\ ops \in Nat
      BY <2>1, <2>2, CapGrows, QuotaConstants DEF QuotaTyped
    <2>6. TasksInv' /\ CacheBounded' /\ CacheInv'
      BY <2>1, <2>2, <2>3, <2>5, CacheStays
    <2> QED
      BY <2>3, <2>4, <2>6 DEF QuotaInv
  <1>8. ASSUME NEW a \in Amounts, ChangeRowOnly(a) \/ ChangeRowOnly(-a) PROVE QuotaInv'
    <2>1. a \in Int /\ -a \in Int /\ Abs(a) <= Largest /\ Abs(-a) <= Largest
      BY LargestAmount DEF QuotaInv, QuotaTyped, Abs
    <2> QED
      BY <1>8, <2>1, ChangeRowOnlyKeeps
  <1> QED
    BY <1>1, <1>2, <1>3, <1>4, <1>5, <1>6, <1>7, <1>8 DEF QuotaNext

(* The balances, the tasks and the cache stay related as QuotaInv says.    *)
THEOREM QuotaInvariant ==
    QuotaSpec => []QuotaInv
  <1>1. QuotaInit => QuotaInv
    BY QuotaStarts
  <1>2. QuotaInv /\ [QuotaNext]_quotaVars => QuotaInv'
    BY QuotaSteps
  <1> QED
    BY <1>1, <1>2, PTL DEF QuotaSpec

----------------------------------------------------------------------------
(* What it means for the user's quota.                                     *)
(***************************************************************************)
\* The values the type invariant allows.
LEMMA ValuesAre ==
    ASSUME QuotaTyped, NEW x \in Int, Abs(x) <= 2 * Cap
    PROVE  x \in Values
  <1> DEFINE m == MaxOps * Largest
             limit == 2 * MaxOps * Largest
  <1>1. Cap \in Nat /\ Cap <= m /\ m \in Nat
    BY CapGrows
  <1>2. limit = 2 * m
    <2>1. MaxOps \in Int /\ Largest \in Int
      BY QuotaConstants, LargestAmount DEF QuotaTyped
    <2>2. \A a, b \in Int : 2 * a * b = 2 * (a * b)
      OBVIOUS
    <2> QED
      BY <2>1, <2>2
  <1>3. Values = -limit..limit
    BY DEF Values, Largest
  <1> HIDE DEF m, limit
  <1>4. x <= 2 * m /\ -(2 * m) <= x
    BY <1>1 DEF Abs
  <1> QED
    BY <1>1, <1>2, <1>3, <1>4

\* What is held is never more than it weighs.
LEMMA CollectedBounded ==
    ASSUME QuotaTyped, NEW t \in Types
    PROVE  Abs(Collected(t)) <= Weights(t)
  <1> DEFINE f == [n \in Nodes |-> stores[n][t] + taken[n][t]]
             w == [n \in Nodes |-> Weight(n, t)]
             h == [n \in Nodes |-> f[n] + w[n]]
  <1>1. ASSUME NEW n \in Nodes
        PROVE  f[n] \in Int /\ w[n] \in Int /\ f[n] <= w[n] /\ h[n] = f[n] + w[n] /\ h[n] \in Nat
    <2>1. stores[n][t] \in Int /\ taken[n][t] \in Int /\ half[n] \in Nat
      BY WeightTyped
    <2>2. /\ stores[n][t] + taken[n][t] <= Weight(n, t)
          /\ -(stores[n][t] + taken[n][t]) <= Weight(n, t)
          /\ Weight(n, t) \in Nat
      BY <2>1 DEF Weight, Abs
    <2> QED
      BY <2>1, <2>2
  <1>2. IsFiniteSet(Nodes) /\ Collected(t) = Total(f, Nodes) /\ Weights(t) = Total(w, Nodes)
        /\ Collected(t) \in Int /\ Weights(t) \in Nat
    BY WeightTyped DEF Collected, Weights
  <1> HIDE DEF f, w, h
  <1>3. Total(f, Nodes) <= Total(w, Nodes)
    BY <1>1, <1>2, TotalLeq
  <1>4. Total(h, Nodes) = Total(f, Nodes) + Total(w, Nodes)
    BY <1>1, <1>2, TotalPlus
  <1>5. Total(h, Nodes) \in Nat
    BY <1>1, <1>2, TotalNat
  <1> QED
    BY <1>2, <1>3, <1>4, <1>5 DEF Abs

\* QuotaInv implies the type invariant.
LEMMA QuotaBounded ==
    ASSUME QuotaInv
    PROVE  QuotaTypeOK
  <1>0. /\ QuotaTyped /\ BalanceInv /\ TasksInv /\ CacheBounded /\ Cap \in Nat
    BY CapGrows DEF QuotaInv
  <1>1. ASSUME NEW t \in Types
        PROVE  row[t] \in Values /\ lost[t] \in Values /\ expected[t] \in Values
    <2>1. /\ row[t] \in Int /\ lost[t] \in Int /\ expected[t] \in Int /\ Collected(t) \in Int
          /\ Weights(t) \in Nat /\ Abs(row[t]) \in Nat /\ Abs(lost[t]) \in Nat
      BY <1>0, WeightTyped
    <2>2. /\ Abs(row[t]) + Abs(lost[t]) + Weights(t) <= Cap
          /\ row[t] + Collected(t) + lost[t] = expected[t]
          /\ Abs(Collected(t)) <= Weights(t)
      BY <1>0, CollectedBounded DEF BalanceInv
    <2>3. Abs(row[t]) <= 2 * Cap /\ Abs(lost[t]) <= 2 * Cap
      BY <1>0, <2>1, <2>2
    <2>4. Abs(expected[t]) <= Abs(row[t]) + Abs(lost[t]) + Abs(Collected(t))
      BY <2>1, <2>2 DEF Abs
    <2>5. Abs(expected[t]) \in Nat /\ Abs(Collected(t)) \in Nat
      BY <2>1, AbsFacts
    <2>6. Abs(expected[t]) <= 2 * Cap
      BY <1>0, <2>1, <2>2, <2>4, <2>5
    <2> QED
      BY <1>0, <2>1, <2>3, <2>6, ValuesAre
  <1>2. ASSUME NEW n \in Nodes, NEW t \in Types
        PROVE  stores[n][t] \in Values /\ taken[n][t] \in Values
    <2> DEFINE w == [m \in Nodes |-> Weight(m, t)]
    <2>1. /\ IsFiniteSet(Nodes) /\ Weights(t) = Total(w, Nodes) /\ Weights(t) \in Nat
          /\ \A m \in Nodes : w[m] \in Nat
          /\ w[n] = Weight(n, t)
          /\ stores[n][t] \in Int /\ taken[n][t] \in Int /\ half[n] \in Nat
          /\ Abs(row[t]) \in Nat /\ Abs(lost[t]) \in Nat
      BY <1>0, WeightTyped DEF Weights
    <2> HIDE DEF w
    <2>2. Weight(n, t) <= Weights(t)
      BY <2>1, TotalAtLeast
    <2>3. Abs(stores[n][t]) \in Nat /\ Abs(taken[n][t]) \in Nat
      BY <2>1, AbsFacts
    <2>4. Abs(stores[n][t]) <= Weight(n, t) /\ Abs(taken[n][t]) <= Weight(n, t) /\ Weight(n, t) \in Nat
      BY <2>1, <2>3 DEF Weight
    <2>5. Weights(t) <= Cap
      BY <1>0, <2>1 DEF BalanceInv
    <2>6. Abs(stores[n][t]) <= 2 * Cap /\ Abs(taken[n][t]) <= 2 * Cap
      BY <1>0, <2>1, <2>2, <2>3, <2>4, <2>5
    <2> QED
      BY <1>0, <2>1, <2>6, ValuesAre
  <1>3. ASSUME NEW k \in tasks PROVE k.value \in Values
    <2>1. k.value \in Int /\ Abs(k.value) \in Nat /\ Underway \in Nat
      BY <1>0, TasksTyped
    <2>2. CASE k \in Increments
      <3> DEFINE f == [j \in Increments |-> Abs(j.value)]
      <3>1. /\ IsFiniteSet(Increments) /\ Underway = Total(f, Increments)
            /\ \A j \in Increments : f[j] \in Nat
            /\ f[k] = Abs(k.value)
        BY <1>0, <2>2, TasksTyped DEF Underway
      <3> HIDE DEF f
      <3>2. Abs(k.value) <= Underway
        BY <2>2, <3>1, TotalAtLeast
      <3>3. Abs(k.value) <= 2 * Cap
        BY <1>0, <2>1, <3>2 DEF CacheBounded
      <3> QED
        BY <1>0, <2>1, <3>3, ValuesAre
    <2>3. CASE k \notin Increments
      <3>1. Abs(k.value) <= 2 * Cap
        BY <1>0, <2>1, <2>3 DEF CacheBounded, Refills
      <3> QED
        BY <1>0, <2>1, <3>1, ValuesAre
    <2> QED
      BY <2>2, <2>3
  <1>4. entry.quota \in Values
    <2>1. entry.quota \in Int /\ Abs(entry.quota) \in Nat /\ Underway \in Nat
      BY <1>0, TasksTyped
    <2>2. Abs(entry.quota) <= 2 * Cap
      BY <1>0, <2>1 DEF CacheBounded
    <2> QED
      BY <1>0, <2>1, <2>2, ValuesAre
  <1>5. row \in Bundle /\ expected \in Bundle /\ lost \in Bundle
    BY <1>0, <1>1 DEF QuotaTyped, Bundle
  <1>6. stores \in [Nodes -> Bundle] /\ taken \in [Nodes -> Bundle]
    BY <1>0, <1>2 DEF QuotaTyped, Bundle
  <1>7. tasks \subseteq Tasks
    BY <1>0, <1>3 DEF QuotaTyped, AnyTask, Tasks
  <1>8. entry \in [present : BOOLEAN, whole : BOOLEAN, quota : Values]
    BY <1>0, <1>4 DEF QuotaTyped
  <1>9. hidden \in Values
    <2>1. hidden \in Int /\ Abs(hidden) \in Nat
      BY <1>0, AbsFacts DEF QuotaTyped
    <2>2. Abs(hidden) <= 2 * Cap
      BY <1>0, <2>1 DEF CacheBounded
    <2> QED
      BY <1>0, <2>1, <2>2, ValuesAre
  <1> QED
    BY <1>0, <1>5, <1>6, <1>7, <1>8, <1>9 DEF QuotaTyped, QuotaTypeOK

(* BalancesSound: every accepted change of a user's quota is in exactly    *)
(* one place, and no balance exceeds what was accepted, whatever flushes,  *)
(* failures and crashes do in between, for any number of processes.        *)
THEOREM QuotaBalances ==
    QuotaSpec => []BalancesSound
  <1>1. QuotaInv => BalancesSound
    <2>1. SUFFICES ASSUME QuotaInv PROVE BalancesSound
      OBVIOUS
    <2>2. ChangesConserved
      BY <2>1 DEF QuotaInv, BalanceInv, ChangesConserved
    <2> QED
      BY <2>1, <2>2, QuotaBounded DEF BalancesSound
  <1> QED
    BY <1>1, QuotaInvariant, PTL

(* CacheFollowsBalance: without an overlap, an expiry under a command or a *)
(* failure, the cached quota and the increments on their way to it are the *)
(* balance, but for what top-ups, codes and payments have changed in the   *)
(* row alone since the last refill.                                        *)
THEOREM QuotaCache ==
    QuotaSpec => []CacheFollowsBalance
  <1>1. QuotaInv => CacheFollowsBalance
    BY DEF QuotaInv, CacheInv, CacheFollowsBalance
  <1> QED
    BY <1>1, QuotaInvariant, PTL
=============================================================================
