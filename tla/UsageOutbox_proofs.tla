------------------------- MODULE UsageOutbox_proofs -------------------------
(***************************************************************************)
(* Proofs about UsageOutbox for any number of requests, calls, faults and  *)
(* crashes: OutboxInv is inductive, and the outbox implements              *)
(* UsageMetering.                                                          *)
(***************************************************************************)
EXTENDS UsageOutbox, TLAPS

USE OutboxAssumption

(* RetryDelay stays within the cap whatever the loop computed.             *)
LEMMA RetryDelayType ==
    ASSUME NEW n
    PROVE  RetryDelay(n) \in 0..MaxDelay
  BY DEF RetryDelay

(* retry_count saturates inside its range.                                 *)
LEMMA BumpedType ==
    ASSUME NEW n \in 0..RetryCap
    PROVE  Bumped(n) \in 0..RetryCap
  BY DEF Bumped

(* The values a process record takes outside an item are well typed.       *)
LEMMA AtType ==
    ASSUME NEW p \in Procs, NEW pc \in PC
    PROVE  /\ At(p, pc) \in [pc : PC, req : Requests, retry : 0..RetryCap]
           /\ At(p, pc).pc = pc
           /\ p \in Calls => At(p, pc).req = RequestOf[p]
  <1>1. Home(p) \in Requests
    BY DEF Home, Procs
  <1>2. 0 \in 0..RetryCap
    OBVIOUS
  <1> QED
    BY <1>1, <1>2 DEF At, Home

(* A tick keeps a row well typed and touches only its two clocks.          *)
LEMMA OlderType ==
    ASSUME NEW row \in Row
    PROVE  /\ Older(row) \in Row
           /\ Older(row).status = row.status
           /\ Older(row).payload = row.payload
           /\ row.lockAge # Unlocked => Older(row).lockAge # Unlocked
  <1> DEFINE ri == IF row.retryIn > 0 THEN row.retryIn - 1 ELSE 0
             la == IF row.lockAge \in 0..StaleAfter THEN row.lockAge + 1 ELSE row.lockAge
  <1>1. Older(row) = [row EXCEPT !.retryIn = ri, !.lockAge = la]
    BY DEF Older, Row
  <1>2. ri \in 0..MaxDelay
    BY DEF Row
  <1>3. la \in {Unlocked} \cup 0..(StaleAfter + 1) /\ (row.lockAge # Unlocked => la # Unlocked)
    BY DEF Row, Unlocked
  <1> HIDE DEF ri, la
  <1> QED
    BY <1>1, <1>2, <1>3 DEF Row

(* What the row updates of the statements keep and set.                    *)
LEMMA NewRowType ==
    ASSUME NEW c \in Calls
    PROVE  /\ NewRow(c) \in Row
           /\ NewRow(c).status = "pending"
           /\ NewRow(c).payload = c
  <1>1. /\ 0 \in 0..RetryCap
        /\ 0 \in 0..MaxDelay
        /\ 0 \in 0..(StaleAfter + 1)
        /\ Unlocked # 0
    BY DEF Unlocked
  <1> QED
    BY <1>1 DEF NewRow, NoRow, Row

LEMMA ClaimedType ==
    ASSUME NEW row \in Row
    PROVE  /\ Claimed(row) \in Row
           /\ Claimed(row).status = "processing"
           /\ Claimed(row).payload = row.payload
           /\ Claimed(row).lockAge # Unlocked
  <1>1. /\ 0 \in 0..RetryCap
        /\ 0 \in 0..MaxDelay
        /\ 0 \in 0..(StaleAfter + 1)
        /\ Unlocked # 0
    BY DEF Unlocked
  <1> QED
    BY <1>1 DEF Claimed, Row

LEMMA SucceededType ==
    ASSUME NEW row \in Row
    PROVE  /\ Succeeded(row) \in Row
           /\ Succeeded(row).status = "succeeded"
           /\ Succeeded(row).payload = row.payload
  <1>1. /\ 0 \in 0..RetryCap
        /\ 0 \in 0..MaxDelay
        /\ 0 \in 0..(StaleAfter + 1)
        /\ Unlocked # 0
    BY DEF Unlocked
  <1> QED
    BY <1>1 DEF Succeeded, Row

LEMMA FailedType ==
    ASSUME NEW row \in Row, NEW n
    PROVE  /\ Failed(row, n) \in Row
           /\ Failed(row, n).status = "failed"
           /\ Failed(row, n).payload = row.payload
  <1>1. RetryDelay(n + 1) \in 0..MaxDelay
    BY RetryDelayType
  <1>2. Bumped(row.retryCount) \in 0..RetryCap
    BY BumpedType DEF Row
  <1> QED
    BY <1>1, <1>2 DEF Failed, Row, Unlocked

(* The items the worker lists are well typed and come from due rows.       *)
LEMMA ListDueType ==
    ASSUME TypeOK
    PROVE  /\ ListDue \subseteq [req : Requests, retry : 0..RetryCap]
           /\ \A item \in ListDue : outbox[item.req].status # "none"
  <1> SUFFICES ASSUME NEW item \in ListDue
               PROVE  /\ item \in [req : Requests, retry : 0..RetryCap]
                      /\ outbox[item.req].status # "none"
    OBVIOUS
  <1>1. PICK r \in DueRows : item = [req |-> r, retry |-> outbox[r].retryCount]
    BY DEF ListDue
  <1>2. r \in Requests /\ outbox[r].status # "none"
    BY <1>1 DEF DueRows, Stale
  <1>3. outbox[r].retryCount \in 0..RetryCap
    BY <1>2 DEF TypeOK, Row
  <1> QED
    BY <1>1, <1>2, <1>3

(* Every step of the outbox keeps its variables well typed.                *)
LEMMA TypeStep ==
    ASSUME TypeOK, [Next]_vars
    PROVE  TypeOK'
  <1> USE DEF TypeOK
  <1>1. ASSUME NEW c \in Calls, Enqueue(c) PROVE TypeOK'
    <2>1. outbox' \in [Requests -> Row]
      BY <1>1, NewRowType DEF Enqueue
    <2> QED
      BY <1>1, <2>1 DEF Enqueue, Goto, metering, PC, Procs
  <1>2. ASSUME NEW c \in Calls, EnqueueFails(c) PROVE TypeOK'
    BY <1>2 DEF EnqueueFails, Fault, Goto, metering, PC, Procs
  <1>3. ASSUME NEW c \in Calls, LoadByRequestID(c) PROVE TypeOK'
    <2>1. CASE Leave(c)
      BY <1>3, <2>1, AtType DEF LoadByRequestID, Leave, Fault, metering, PC, Procs, Goto
    <2>2. CASE Load(c, [req |-> RequestOf[c], retry |-> outbox[RequestOf[c]].retryCount])
      <3>1. outbox[RequestOf[c]].retryCount \in 0..RetryCap
        BY DEF Row
      <3> QED
        BY <1>3, <2>2, <3>1 DEF LoadByRequestID, Load, Fault, metering, PC, Procs
    <2> QED
      BY <1>3, <2>1, <2>2 DEF LoadByRequestID
  <1>4. ASSUME NEW c \in Calls, RecordDirect(c) PROVE TypeOK'
    <2>1. proc' \in [Procs -> [pc : PC, req : Requests, retry : 0..RetryCap]]
          /\ \A d \in Calls : proc'[d].req = RequestOf[d]
      BY <1>4, AtType DEF RecordDirect, Leave, PC, Procs
    <2>2. /\ ledger' \in [Requests -> Calls \cup {NoCall}]
          /\ credit' \in [Requests -> Nat]
          /\ aggregate' \in [Requests -> Nat]
      BY <1>4 DEF RecordDirect, InsertLedgerWithTenantCredit, metering
    <2> QED
      BY <1>4, <2>1, <2>2 DEF RecordDirect, Fault
  <1>5. ASSUME NEW p \in Procs, MarkProcessing(p) PROVE TypeOK'
    <2>1. outbox' \in [Requests -> Row]
      BY <1>5, ClaimedType DEF MarkProcessing
    <2>2. CASE Leave(p)
      BY <1>5, <2>1, <2>2, AtType DEF MarkProcessing, Leave, Fault, metering, PC, Procs
    <2>3. CASE Goto(p, "claimed")
      BY <1>5, <2>1, <2>3 DEF MarkProcessing, Goto, Fault, metering, PC, Procs
    <2> QED
      BY <1>5, <2>2, <2>3 DEF MarkProcessing
  <1>6. ASSUME NEW p \in Procs, Record(p) PROVE TypeOK'
    <2>1. /\ ledger' \in [Requests -> Calls \cup {NoCall}]
          /\ credit' \in [Requests -> Nat]
          /\ aggregate' \in [Requests -> Nat]
      BY <1>6 DEF Record, InsertLedgerWithTenantCredit, metering, Row
    <2>2. proc' \in [Procs -> [pc : PC, req : Requests, retry : 0..RetryCap]]
          /\ \A d \in Calls : proc'[d].req = RequestOf[d]
      BY <1>6 DEF Record, Goto, PC, Procs
    <2> QED
      BY <1>6, <2>1, <2>2 DEF Record, Fault
  <1>7. ASSUME NEW p \in Procs, MarkSucceeded(p) PROVE TypeOK'
    <2>1. outbox' \in [Requests -> Row]
      BY <1>7, SucceededType DEF MarkSucceeded
    <2> QED
      BY <1>7, <2>1, AtType DEF MarkSucceeded, Leave, Fault, metering, PC, Procs
  <1>8. ASSUME NEW p \in Procs, MarkFailed(p) PROVE TypeOK'
    <2>1. outbox' \in [Requests -> Row]
      BY <1>8, FailedType DEF MarkFailed
    <2> QED
      BY <1>8, <2>1, AtType DEF MarkFailed, Leave, Fault, metering, PC, Procs
  <1>9. ASSUME NEW p \in Procs, Crash(p) PROVE TypeOK'
    BY <1>9, AtType DEF Crash, metering, PC, Procs
  <1>10. CASE ListBatch
    BY <1>10, ListDueType DEF ListBatch, metering
  <1>11. CASE NextItem
    BY <1>11 DEF NextItem, Load, metering, PC, Procs
  <1>12. CASE Tick
    <2>1. outbox' \in [Requests -> Row]
      BY <1>12, OlderType DEF Tick
    <2> QED
      BY <1>12, <2>1 DEF Tick, metering
  <1>13. ASSUME NEW r \in Requests, AgreementChanges(r) PROVE TypeOK'
    BY <1>13 DEF AgreementChanges, metering
  <1>14. CASE UNCHANGED vars
    BY <1>14 DEF vars, metering
  <1> QED
    BY <1>1, <1>2, <1>3, <1>4, <1>5, <1>6, <1>7, <1>8, <1>9, <1>10, <1>11, <1>12, <1>13, <1>14
       DEF Next, ProcessItem

----------------------------------------------------------------------------
(* The transaction of insertUsageLedgerWithTenantCredit keeps the charges  *)
(* in step with the row, leaves a row behind and touches no existing row.  *)
LEMMA InsertCharges ==
    ASSUME TypeOK, ChargedExactlyOnce,
           NEW r \in Requests, NEW c \in Calls,
           InsertLedgerWithTenantCredit(r, c)
    PROVE  /\ ChargedExactlyOnce'
           /\ ledger'[r] # NoCall
           /\ \A s \in Requests : ledger[s] # NoCall => ledger'[s] = ledger[s]
  <1>1. CASE ledger[r] = NoCall
    <2>1. /\ ledger' = [ledger EXCEPT ![r] = c]
          /\ credit' = [credit EXCEPT ![r] = credit[r] + 1]
          /\ aggregate' = [aggregate EXCEPT ![r] = aggregate[r] + 1]
      BY <1>1 DEF InsertLedgerWithTenantCredit
    <2>2. credit[r] = 0 /\ aggregate[r] = 0
      BY <1>1 DEF ChargedExactlyOnce
    <2> QED
      BY <1>1, <2>1, <2>2 DEF ChargedExactlyOnce, TypeOK
  <1>2. CASE ledger[r] # NoCall
    BY <1>2 DEF InsertLedgerWithTenantCredit, metering, ChargedExactlyOnce
  <1> QED
    BY <1>1, <1>2

(* A step either leaves ledger, credit and aggregate alone or is that      *)
(* transaction, on the payload of a call for the request id it records.    *)
LEMMA MeteringStep ==
    ASSUME TypeOK, ItemHasRow, RowHasPayload, [Next]_vars
    PROVE  \/ UNCHANGED metering
           \/ \E r \in Requests, c \in Calls :
                 RequestOf[c] = r /\ InsertLedgerWithTenantCredit(r, c)
  <1>1. ASSUME NEW c \in Calls, RecordDirect(c) PROVE
           \/ UNCHANGED metering
           \/ RequestOf[c] \in Requests /\ InsertLedgerWithTenantCredit(RequestOf[c], c)
    BY <1>1 DEF RecordDirect
  <1>2. ASSUME NEW p \in Procs, Record(p) PROVE
           \/ UNCHANGED metering
           \/ \E r \in Requests, c \in Calls :
                 RequestOf[c] = r /\ InsertLedgerWithTenantCredit(r, c)
    <2>1. proc[p].req \in Requests /\ outbox[proc[p].req].status # "none"
      BY <1>2 DEF Record, ItemHasRow, TypeOK
    <2>2. /\ outbox[proc[p].req].payload \in Calls
          /\ RequestOf[outbox[proc[p].req].payload] = proc[p].req
      BY <2>1 DEF RowHasPayload
    <2> QED
      BY <1>2, <2>1, <2>2 DEF Record
  <1>3. ASSUME NEW p \in Procs, ~Record(p), ProcessItem(p) \/ Crash(p) PROVE UNCHANGED metering
    BY <1>3 DEF ProcessItem, MarkProcessing, MarkSucceeded, MarkFailed, Crash, metering
  <1>4. ASSUME NEW c \in Calls, Enqueue(c) \/ EnqueueFails(c) \/ LoadByRequestID(c)
        PROVE  UNCHANGED metering
    BY <1>4 DEF Enqueue, EnqueueFails, LoadByRequestID, metering
  <1>5. ASSUME ListBatch \/ NextItem \/ Tick \/ UNCHANGED vars \/ \E r \in Requests : AgreementChanges(r)
        PROVE  UNCHANGED metering
    BY <1>5 DEF ListBatch, NextItem, Tick, AgreementChanges, vars, metering
  <1> QED
    BY <1>1, <1>2, <1>3, <1>4, <1>5 DEF Next

(* Ledger rows stay: the charge invariant and every seen row survive.      *)
LEMMA LedgerStep ==
    ASSUME TypeOK, ChargedExactlyOnce, ItemHasRow, RowHasPayload, [Next]_vars
    PROVE  /\ ChargedExactlyOnce'
           /\ \A s \in Requests : ledger[s] # NoCall => ledger'[s] # NoCall
  <1>1. CASE UNCHANGED metering
    BY <1>1 DEF metering, ChargedExactlyOnce
  <1>2. ASSUME NEW r \in Requests, NEW c \in Calls, InsertLedgerWithTenantCredit(r, c)
        PROVE  /\ ChargedExactlyOnce'
               /\ \A s \in Requests : ledger[s] # NoCall => ledger'[s] # NoCall
    BY <1>2, InsertCharges
  <1> QED
    BY <1>1, <1>2, MeteringStep

----------------------------------------------------------------------------
(* Everything a step can do to one row of the outbox.                      *)
RowStep(r) ==
    \/ outbox'[r] = outbox[r]
    \/ outbox[r].status = "none" /\ \E c \in Calls : RequestOf[c] = r /\ outbox'[r] = NewRow(c)
    \/ outbox[r].status # "none" /\ outbox'[r] = Claimed(outbox[r])
    \/ /\ \E p \in Procs : proc[p].pc = "recorded" /\ proc[p].req = r
       /\ outbox'[r] = Succeeded(outbox[r])
    \/ /\ \E p \in Procs : proc[p].pc = "failing" /\ proc[p].req = r
       /\ \E n \in Nat : outbox'[r] = Failed(outbox[r], n)
    \/ outbox'[r] = Older(outbox[r])

LEMMA RowSteps ==
    ASSUME TypeOK, [Next]_vars, NEW r \in Requests
    PROVE  RowStep(r)
  <1>1. ASSUME NEW c \in Calls, Enqueue(c) PROVE RowStep(r)
    BY <1>1 DEF Enqueue, RowStep, TypeOK
  <1>2. ASSUME NEW p \in Procs, MarkProcessing(p) PROVE RowStep(r)
    BY <1>2 DEF MarkProcessing, Claimable, Stale, RowStep, TypeOK
  <1>3. ASSUME NEW p \in Procs, MarkSucceeded(p) PROVE RowStep(r)
    BY <1>3 DEF MarkSucceeded, RowStep, TypeOK
  <1>4. ASSUME NEW p \in Procs, MarkFailed(p) PROVE RowStep(r)
    <2>1. proc[p].retry \in Nat
      BY DEF TypeOK
    <2>2. CASE UNCHANGED outbox
      BY <2>2 DEF RowStep
    <2>3. CASE outbox' = [outbox EXCEPT ![proc[p].req] = Failed(outbox[proc[p].req], proc[p].retry)]
      <3>1. CASE r = proc[p].req
        <4>1. outbox'[r] = Failed(outbox[r], proc[p].retry)
          BY <2>3, <3>1 DEF TypeOK
        <4>2. proc[p].pc = "failing"
          BY <1>4 DEF MarkFailed
        <4> QED
          BY <2>1, <3>1, <4>1, <4>2 DEF RowStep
      <3>2. CASE r # proc[p].req
        BY <2>3, <3>2 DEF RowStep, TypeOK
      <3> QED
        BY <3>1, <3>2
    <2> QED
      BY <1>4, <2>2, <2>3 DEF MarkFailed
  <1>5. CASE Tick
    BY <1>5 DEF Tick, RowStep
  <1>6. ASSUME UNCHANGED outbox PROVE RowStep(r)
    BY <1>6 DEF RowStep
  <1>7. ASSUME NEW p \in Procs, Record(p) \/ Crash(p) PROVE UNCHANGED outbox
    BY <1>7 DEF Record, Crash
  <1>8. ASSUME NEW c \in Calls, EnqueueFails(c) \/ LoadByRequestID(c) \/ RecordDirect(c)
        PROVE  UNCHANGED outbox
    BY <1>8 DEF EnqueueFails, LoadByRequestID, RecordDirect
  <1>9. ASSUME ListBatch \/ NextItem \/ UNCHANGED vars \/ \E s \in Requests : AgreementChanges(s)
        PROVE  UNCHANGED outbox
    BY <1>9 DEF ListBatch, NextItem, AgreementChanges, vars
  <1> QED
    BY <1>1, <1>2, <1>3, <1>4, <1>5, <1>6, <1>7, <1>8, <1>9 DEF Next, ProcessItem

(* A row once enqueued stays, with its payload; it becomes succeeded only  *)
(* by a process that recorded it, and keeps a lock time while processing.  *)
LEMMA RowKeeps ==
    ASSUME TypeOK, ItemHasRow, RowHasPayload, ProcessingIsReclaimable, [Next]_vars,
           NEW r \in Requests
    PROVE  /\ outbox[r].status # "none" => outbox'[r].status # "none"
           /\ outbox'[r].status # "none" =>
                outbox'[r].payload \in Calls /\ RequestOf[outbox'[r].payload] = r
           /\ outbox'[r].status = "processing" => outbox'[r].lockAge # Unlocked
           /\ outbox'[r].status = "succeeded" =>
                \/ outbox[r].status = "succeeded"
                \/ \E p \in Procs : proc[p].pc = "recorded" /\ proc[p].req = r
  <1> DEFINE Kept ==
           /\ outbox[r].status # "none" => outbox'[r].status # "none"
           /\ outbox'[r].status # "none" =>
                outbox'[r].payload \in Calls /\ RequestOf[outbox'[r].payload] = r
           /\ outbox'[r].status = "processing" => outbox'[r].lockAge # Unlocked
           /\ outbox'[r].status = "succeeded" =>
                \/ outbox[r].status = "succeeded"
                \/ \E p \in Procs : proc[p].pc = "recorded" /\ proc[p].req = r
  <1>0. outbox[r] \in Row
    BY DEF TypeOK
  <1>1. CASE outbox'[r] = outbox[r]
    BY <1>1 DEF RowHasPayload, ProcessingIsReclaimable
  <1>2. ASSUME NEW c \in Calls, outbox[r].status = "none", RequestOf[c] = r, outbox'[r] = NewRow(c)
        PROVE  Kept
    BY <1>2, NewRowType
  <1>3. CASE outbox[r].status # "none" /\ outbox'[r] = Claimed(outbox[r])
    BY <1>0, <1>3, ClaimedType DEF RowHasPayload
  <1>4. ASSUME NEW p \in Procs, proc[p].pc = "recorded", proc[p].req = r,
               outbox'[r] = Succeeded(outbox[r])
        PROVE  Kept
    BY <1>0, <1>4, SucceededType DEF RowHasPayload, ItemHasRow
  <1>5. ASSUME NEW p \in Procs, proc[p].pc = "failing", proc[p].req = r,
               NEW n \in Nat, outbox'[r] = Failed(outbox[r], n)
        PROVE  Kept
    BY <1>0, <1>5, FailedType DEF RowHasPayload, ItemHasRow
  <1>6. CASE outbox'[r] = Older(outbox[r])
    BY <1>0, <1>6, OlderType DEF RowHasPayload, ProcessingIsReclaimable
  <1> QED
    BY <1>1, <1>2, <1>3, <1>4, <1>5, <1>6, RowSteps DEF RowStep

----------------------------------------------------------------------------
(* Everything a step can do to one process.                                *)
ProcStep(p) ==
    \/ proc'[p] = proc[p]
    \/ proc'[p].pc \in {"idle", "direct", "done", "lost"}
    \/ proc'[p].pc = "spawned" /\ outbox'[proc'[p].req].status # "none"
    \/ proc'[p].pc = "loaded" /\ outbox[proc'[p].req].status # "none"
    \/ /\ proc'[p].pc \in {"claimed", "failing"}
       /\ proc'[p].req = proc[p].req /\ proc[p].pc \in {"loaded", "claimed"}
    \/ /\ proc'[p].pc = "recorded" /\ ledger'[proc'[p].req] # NoCall
       /\ proc'[p].req = proc[p].req /\ proc[p].pc = "claimed"

LEMMA ProcSteps ==
    ASSUME TypeOK, ChargedExactlyOnce, ItemHasRow, RowHasPayload, [Next]_vars, NEW p \in Procs
    PROVE  ProcStep(p)
  <1>0. ASSUME NEW q \in Procs, Leave(q) PROVE ProcStep(p)
    <2>1. CASE p = q
      <3>1. proc'[p].pc \in {"idle", "done"}
        BY <1>0, <2>1, AtType DEF Leave, TypeOK, PC
      <3> QED
        BY <3>1 DEF ProcStep
    <2>2. CASE p # q
      BY <1>0, <2>2 DEF Leave, TypeOK, ProcStep
    <2> QED
      BY <2>1, <2>2
  <1>1. ASSUME NEW c \in Calls, Enqueue(c) PROVE ProcStep(p)
    <2>1. outbox'[RequestOf[c]].status # "none"
      BY <1>1, NewRowType DEF Enqueue, TypeOK
    <2>2. CASE p = c
      <3>1. proc'[p].pc = "spawned" /\ proc'[p].req = RequestOf[c]
        BY <1>1, <2>2 DEF Enqueue, Goto, TypeOK
      <3> QED
        BY <2>1, <3>1 DEF ProcStep
    <2>3. CASE p # c
      BY <1>1, <2>3 DEF Enqueue, Goto, TypeOK, ProcStep
    <2> QED
      BY <2>2, <2>3
  <1>2. ASSUME NEW c \in Calls, EnqueueFails(c) PROVE ProcStep(p)
    BY <1>2 DEF EnqueueFails, Goto, TypeOK, ProcStep
  <1>3. ASSUME NEW q \in Procs, NEW item, Load(q, item), outbox[item.req].status # "none"
        PROVE  ProcStep(p)
    BY <1>3 DEF Load, TypeOK, ProcStep
  <1>4. ASSUME NEW c \in Calls, LoadByRequestID(c) PROVE ProcStep(p)
    <2> DEFINE item == [req |-> RequestOf[c], retry |-> outbox[RequestOf[c]].retryCount]
    <2>1. outbox[item.req].status # "none"
      <3>1. proc[c].pc = "spawned" /\ proc[c].req = RequestOf[c] /\ c \in Procs
        BY <1>4 DEF LoadByRequestID, TypeOK, Procs
      <3> QED
        BY <3>1 DEF ItemHasRow
    <2>2. Leave(c) \/ Load(c, item)
      BY <1>4 DEF LoadByRequestID
    <2>3. c \in Procs
      BY DEF Procs
    <2> HIDE DEF item
    <2> QED
      BY <1>0, <1>3, <2>1, <2>2, <2>3
  <1>5. ASSUME NEW c \in Calls, RecordDirect(c) PROVE ProcStep(p)
    BY <1>0, <1>5 DEF RecordDirect, Procs
  <1>6. CASE NextItem
    <2>1. PICK item \in batch : Load(Worker, item)
      BY <1>6 DEF NextItem
    <2>2. outbox[item.req].status # "none"
      BY DEF ItemHasRow
    <2> QED
      BY <1>3, <2>1, <2>2 DEF Procs
  <1>7. ASSUME NEW q \in Procs, MarkProcessing(q) PROVE ProcStep(p)
    <2>1. CASE Goto(q, "claimed")
      BY <1>7, <2>1 DEF MarkProcessing, Goto, TypeOK, ProcStep
    <2> QED
      BY <1>0, <1>7, <2>1 DEF MarkProcessing
  <1>8. ASSUME NEW q \in Procs, Record(q) PROVE ProcStep(p)
    <2>0. proc[q].pc = "claimed"
      BY <1>8 DEF Record
    <2>1. CASE Goto(q, "failing")
      BY <2>0, <2>1 DEF Goto, TypeOK, ProcStep
    <2>2. CASE Goto(q, "recorded") /\ InsertLedgerWithTenantCredit(proc[q].req, outbox[proc[q].req].payload)
      <3>1. proc[q].req \in Requests /\ outbox[proc[q].req].payload \in Calls
        BY <2>0 DEF TypeOK, ItemHasRow, RowHasPayload
      <3>2. ledger'[proc[q].req] # NoCall
        BY <2>2, <3>1, InsertCharges
      <3> QED
        BY <2>0, <2>2, <3>2 DEF Goto, TypeOK, ProcStep
    <2> QED
      BY <1>8, <2>1, <2>2 DEF Record
  <1>9. ASSUME NEW q \in Procs, MarkSucceeded(q) \/ MarkFailed(q) PROVE ProcStep(p)
    BY <1>0, <1>9 DEF MarkSucceeded, MarkFailed
  <1>10. ASSUME NEW q \in Procs, Crash(q) PROVE ProcStep(p)
    <2>1. CASE p = q
      <3>1. proc'[p].pc \in {"idle", "lost"}
        BY <1>10, <2>1, AtType DEF Crash, TypeOK, PC
      <3> QED
        BY <3>1 DEF ProcStep
    <2>2. CASE p # q
      BY <1>10, <2>2 DEF Crash, TypeOK, ProcStep
    <2> QED
      BY <2>1, <2>2
  <1>11. ASSUME ListBatch \/ Tick \/ UNCHANGED vars \/ \E s \in Requests : AgreementChanges(s)
        PROVE  ProcStep(p)
    BY <1>11 DEF ListBatch, Tick, AgreementChanges, vars, ProcStep
  <1> QED
    BY <1>1, <1>2, <1>4, <1>5, <1>6, <1>7, <1>8, <1>9, <1>10, <1>11 DEF Next, ProcessItem

(* The batch only ever holds rows that exist.                              *)
LEMMA BatchStep ==
    ASSUME TypeOK, ItemHasRow, [Next]_vars
    PROVE  \A item \in batch' : item.req \in Requests /\ outbox[item.req].status # "none"
  <1>1. CASE batch' \subseteq batch
    BY <1>1 DEF ItemHasRow, TypeOK
  <1>2. CASE ListBatch
    BY <1>2, ListDueType DEF ListBatch
  <1>3. ASSUME ~ListBatch PROVE batch' \subseteq batch
    BY <1>3 DEF Next, Enqueue, EnqueueFails, LoadByRequestID, RecordDirect, ProcessItem, MarkProcessing,
                Record, MarkSucceeded, MarkFailed, Crash, NextItem, Tick, AgreementChanges, vars
  <1> QED
    BY <1>1, <1>2, <1>3

----------------------------------------------------------------------------
(* An empty outbox and ledger satisfy the invariant.                       *)
LEMMA InvInit ==
    ASSUME Init
    PROVE  OutboxInv
  <1>1. NoRow \in Row
    <2>1. 0 \in 0..RetryCap /\ 0 \in 0..MaxDelay
      OBVIOUS
    <2> QED
      BY <2>1 DEF NoRow, Row
  <1>2. \A p \in Procs : /\ At(p, "idle") \in [pc : PC, req : Requests, retry : 0..RetryCap]
                         /\ At(p, "idle").pc = "idle"
                         /\ p \in Calls => At(p, "idle").req = RequestOf[p]
    BY AtType DEF PC
  <1>3. TypeOK
    BY <1>1, <1>2 DEF Init, TypeOK, Procs
  <1>4. \A r \in Requests : outbox[r].status = "none"
    BY DEF Init, NoRow
  <1>5. \A p \in Procs : proc[p].pc = "idle"
    BY <1>2 DEF Init
  <1> QED
    BY <1>3, <1>4, <1>5 DEF Init, OutboxInv, ChargedExactlyOnce, SucceededHasLedger,
       ProcessingIsReclaimable, RecordedHasLedger, ItemHasRow, RowHasPayload

(* Every step keeps it.                                                    *)
LEMMA InvStep ==
    ASSUME OutboxInv, [Next]_vars
    PROVE  OutboxInv'
  <1> USE DEF OutboxInv
  <1>1. TypeOK'
    BY TypeStep
  <1>2. ChargedExactlyOnce' /\ \A s \in Requests : ledger[s] # NoCall => ledger'[s] # NoCall
    BY LedgerStep
  <1>3. SucceededHasLedger'
    <2> SUFFICES ASSUME NEW r \in Requests, outbox'[r].status = "succeeded"
                 PROVE  ledger'[r] # NoCall
      BY DEF SucceededHasLedger
    <2>1. ledger[r] # NoCall
      <3>1. CASE outbox[r].status = "succeeded"
        BY <3>1 DEF SucceededHasLedger
      <3>2. CASE \E p \in Procs : proc[p].pc = "recorded" /\ proc[p].req = r
        BY <3>2 DEF RecordedHasLedger
      <3> QED
        BY <3>1, <3>2, RowKeeps
    <2> QED
      BY <1>2, <2>1
  <1>4. ProcessingIsReclaimable'
    BY RowKeeps DEF ProcessingIsReclaimable
  <1>5. RecordedHasLedger'
    <2> SUFFICES ASSUME NEW p \in Procs, proc'[p].pc = "recorded"
                 PROVE  ledger'[proc'[p].req] # NoCall
      BY DEF RecordedHasLedger
    <2>1. CASE proc'[p] = proc[p]
      <3>1. proc[p].req \in Requests /\ ledger[proc[p].req] # NoCall
        BY <2>1 DEF TypeOK, RecordedHasLedger
      <3> QED
        BY <1>2, <2>1, <3>1
    <2> QED
      BY <2>1, ProcSteps DEF ProcStep
  <1>6. ItemHasRow'
    <2>1. ASSUME NEW p \in Procs,
                 proc'[p].pc \in {"spawned", "loaded", "claimed", "recorded", "failing"}
          PROVE  outbox'[proc'[p].req].status # "none"
      <3>1. proc'[p].req \in Requests
        BY <1>1 DEF TypeOK
      <3>2. CASE proc'[p].pc = "spawned" /\ outbox'[proc'[p].req].status # "none"
        BY <3>2
      <3>3. CASE outbox[proc'[p].req].status # "none"
        BY <3>1, <3>3, RowKeeps
      <3>4. CASE proc'[p].req = proc[p].req /\ proc[p].pc \in {"loaded", "claimed"}
        BY <3>3, <3>4 DEF ItemHasRow
      <3>5. CASE proc'[p] = proc[p]
        BY <2>1, <3>3, <3>5 DEF ItemHasRow
      <3> QED
        BY <2>1, <3>2, <3>3, <3>4, <3>5, ProcSteps DEF ProcStep
    <2>2. ASSUME NEW item \in batch' PROVE outbox'[item.req].status # "none"
      BY <2>2, BatchStep, RowKeeps
    <2> QED
      BY <2>1, <2>2 DEF ItemHasRow
  <1>7. RowHasPayload'
    BY RowKeeps DEF RowHasPayload
  <1> QED
    BY <1>1, <1>2, <1>3, <1>4, <1>5, <1>6, <1>7

(* OutboxInv holds in every reachable state, whatever the numbers of       *)
(* requests, repeated calls, database faults and crashes.                  *)
THEOREM OutboxInvariant == Spec => []OutboxInv
  <1>1. Init => OutboxInv
    BY InvInit
  <1>2. OutboxInv /\ [Next]_vars => OutboxInv'
    BY InvStep
  <1> QED
    BY <1>1, <1>2, PTL DEF Spec

(* No row is marked succeeded, and so dropped by the worker, without its   *)
(* ledger row.                                                             *)
THEOREM SucceededNeverLosesUsage == Spec => []SucceededHasLedger
  <1>1. OutboxInv => SucceededHasLedger
    BY DEF OutboxInv
  <1> QED
    BY <1>1, OutboxInvariant, PTL

(* A row an instance marked processing and died with carries the lock time *)
(* that lets ListDueUsageRecordOutbox hand it out again.                   *)
THEOREM ProcessingAlwaysReclaimable == Spec => []ProcessingIsReclaimable
  <1>1. OutboxInv => ProcessingIsReclaimable
    BY DEF OutboxInv
  <1> QED
    BY <1>1, OutboxInvariant, PTL

----------------------------------------------------------------------------
(* The ledger insert is the abstract Meter step, and every other step is a *)
(* stutter of the metering variables.                                      *)
LEMMA MeteringSimulated ==
    ASSUME OutboxInv, [Next]_vars
    PROVE  [Metering!Next]_(Metering!vars)
  <1>1. CASE UNCHANGED metering
    BY <1>1 DEF metering, Metering!vars
  <1>2. ASSUME NEW r \in Requests, NEW c \in Calls, RequestOf[c] = r,
               InsertLedgerWithTenantCredit(r, c), ledger[r] = NoCall
        PROVE  Metering!Meter(r)
    <2>1. credit[r] = 0 /\ aggregate[r] = 0
      BY <1>2 DEF OutboxInv, ChargedExactlyOnce
    <2>2. /\ ledger' = [ledger EXCEPT ![r] = c]
          /\ credit' = [credit EXCEPT ![r] = 1]
          /\ aggregate' = [aggregate EXCEPT ![r] = 1]
      BY <1>2, <2>1 DEF InsertLedgerWithTenantCredit
    <2> QED
      BY <1>2, <2>2 DEF Metering!Meter
  <1>3. ASSUME NEW r \in Requests, NEW c \in Calls,
               InsertLedgerWithTenantCredit(r, c), ledger[r] # NoCall
        PROVE  UNCHANGED metering
    BY <1>3 DEF InsertLedgerWithTenantCredit
  <1> QED
    BY <1>1, <1>2, <1>3, MeteringStep DEF OutboxInv, Metering!Next

(* The outbox, with its goroutines, worker, retries, faults and crashes,   *)
(* implements UsageMetering: a request id is metered at most once, with    *)
(* the payload of a call made for it, and never changes afterwards.        *)
THEOREM OutboxImplementsMetering == Spec => MeteringSpec
  <1>1. Init => Metering!Init
    BY DEF Init, Metering!Init
  <1>2. OutboxInv /\ [Next]_vars => [Metering!Next]_(Metering!vars)
    BY MeteringSimulated
  <1> QED
    BY <1>1, <1>2, OutboxInvariant, PTL DEF Spec, MeteringSpec, Metering!Spec
=============================================================================
