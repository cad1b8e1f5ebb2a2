---------------------------- MODULE QuotaUpdater ----------------------------
(***************************************************************************)
(* One user's quota in its three places: the database row, the hash in     *)
(* Redis and, with batch updates enabled, the deltas a process collects    *)
(* and writes later.  From model/utils.go (addNewRecord, batchUpdate),     *)
(* model/user.go (Increase/DecreaseUserQuota, GetUserQuota,                *)
(* UpdateUserUsedQuotaAndRequestCount), model/user_cache.go and            *)
(* common/redis.go.                                                        *)
(*                                                                         *)
(* Every cache access that follows a database access runs in a goroutine   *)
(* of its own: a task.  A task that changes one field of the hash first    *)
(* asks whether the key has a TTL, and does nothing if it has none; the    *)
(* key may expire between the two.  The token's quota goes the same way    *)
(* under another type of record.  Top-ups, redeemed codes and the balance  *)
(* payment of a subscription change the row inside their own transactions  *)
(* and never touch the hash.                                               *)
(***************************************************************************)
EXTENDS Integers, FiniteSets, Totals

CONSTANTS
    Nodes,        \* processes, each with its own collected deltas
    Amounts,      \* amounts requests charge, refund or top up
    MaxOps,       \* bound: changes of the quota
    MaxReads,     \* bound: reads that fall through to the database
    MaxMishaps    \* bound: failing statements and processes that die

ASSUME QuotaUpdaterAssumption ==
    /\ IsFiniteSet(Nodes)
    /\ IsFiniteSet(Amounts) /\ Amounts # {} /\ Amounts \subseteq Nat \ {0}
    /\ MaxOps \in Nat /\ MaxReads \in Nat /\ MaxMishaps \in Nat

\* The record types of one user, in the order their stores are taken.
Types == {"quota", "used", "count"}
Order == [quota |-> 1, used |-> 2, count |-> 3]
Zero == [t \in Types |-> 0]
NoEntry == [present |-> FALSE, whole |-> FALSE, quota |-> 0]

VARIABLES
    batch,        \* is common.BatchUpdateEnabled set?
    row,          \* the user's row: [Types -> Int]
    entry,        \* the hash in Redis; whole: it has every field, not only Quota
    stores,       \* per node: batchUpdateStores
    taken,        \* per node: the stores batchUpdate has taken and not yet written
    phase,        \* per node: 0 asleep, 1..3 the store to take next, 4 writing
    half,         \* per node: a request count still to be recorded
    tasks,        \* goroutines that will touch the cache
    expected,     \* history: what all accepted changes add up to
    lost,         \* history: what mishaps have lost of it
    hidden,       \* history: what row-only statements changed since the last refill
    overlap,      \* history: has a cache write overlapped with a change?
    ops, reads, mishaps

quotaVars == <<batch, row, entry, stores, taken, phase, half, tasks, expected, lost, hidden,
               overlap, ops, reads, mishaps>>
counts == <<ops, reads, mishaps>>

Values == LET limit == 2 * MaxOps * Max(Amounts) IN -limit..limit
Bundle == [Types -> Values]
Tasks == [id : 1..(MaxOps + MaxReads), node : Nodes, op : {"incr", "fill", "setField"},
          value : Values, seen : BOOLEAN]

QuotaTypeOK ==
    /\ batch \in BOOLEAN
    /\ row \in Bundle /\ expected \in Bundle /\ lost \in Bundle
    /\ entry \in [present : BOOLEAN, whole : BOOLEAN, quota : Values]
    /\ stores \in [Nodes -> Bundle] /\ taken \in [Nodes -> Bundle]
    /\ phase \in [Nodes -> 0..4]
    /\ half \in [Nodes -> 0..1]
    /\ tasks \subseteq Tasks
    /\ overlap \in BOOLEAN /\ hidden \in Values
    /\ ops \in 0..MaxOps /\ reads \in 0..MaxReads
    /\ mishaps \in 0..MaxMishaps

QuotaInit ==
    /\ batch \in BOOLEAN
    /\ row = Zero /\ expected = Zero /\ lost = Zero
    /\ entry = [present |-> TRUE, whole |-> TRUE, quota |-> 0]
    /\ stores = [n \in Nodes |-> Zero] /\ taken = [n \in Nodes |-> Zero]
    /\ phase = [n \in Nodes |-> 0]
    /\ half = [n \in Nodes |-> 0]
    /\ tasks = {}
    /\ overlap = FALSE /\ hidden = 0
    /\ ops = 0 /\ reads = 0 /\ mishaps = 0

Plus(a, b) == [t \in Types |-> a[t] + b[t]]
Collected(t) == Total([n \in Nodes |-> stores[n][t] + taken[n][t]], Nodes)
Increments == {k \in tasks : k.op = "incr"}
Refills == tasks \ Increments
Outstanding == Total([k \in Increments |-> k.value], Increments)

Mishap ==
    /\ mishaps < MaxMishaps
    /\ mishaps' = mishaps + 1

Spawn(n, op, value) ==
    tasks' = tasks \cup {[id |-> ops + reads + 1, node |-> n, op |-> op, value |-> value,
                          seen |-> FALSE]}

----------------------------------------------------------------------------
(* Changes.                                                                *)
(***************************************************************************)
addNewRecord(n, delta) ==
    /\ stores' = [stores EXCEPT ![n] = Plus(@, delta)]
    /\ UNCHANGED <<row, lost, mishaps>>

\* One UPDATE with expressions; what a failing one should have added is lost.
WriteRow(delta) ==
    /\ row' = Plus(row, delta)
    /\ UNCHANGED <<stores, lost, mishaps>>

FailRow(delta) ==
    /\ Mishap
    /\ lost' = Plus(lost, delta)
    /\ UNCHANGED <<stores, row>>

\* Mutated ChangeQuota: with batch updates the cache is left to the flush.
ChangeQuotaBatchFirst(n, delta, db) ==
    LET d == [Zero EXCEPT !["quota"] = delta] IN
    /\ ops < MaxOps
    /\ ops' = ops + 1
    /\ IF batch /\ ~db THEN UNCHANGED tasks ELSE Spawn(n, "incr", delta)
    /\ expected' = Plus(expected, d)
    /\ IF batch /\ ~db THEN addNewRecord(n, d) ELSE WriteRow(d) \/ FailRow(d)
    /\ overlap' = (overlap \/ Refills # {} \/ mishaps' # mishaps)
    /\ UNCHANGED <<batch, entry, taken, phase, half, hidden, reads>>

\* IncreaseUserQuota (delta > 0) and DecreaseUserQuota (delta < 0): the cache
\* is adjusted by a goroutine, whatever becomes of the row.
ChangeQuota(n, delta, db) ==
    LET d == [Zero EXCEPT !["quota"] = delta] IN
    /\ ops < MaxOps
    /\ ops' = ops + 1
    /\ Spawn(n, "incr", delta)
    /\ expected' = Plus(expected, d)
    /\ IF batch /\ ~db THEN addNewRecord(n, d) ELSE WriteRow(d) \/ FailRow(d)
    /\ overlap' = (overlap \/ Refills # {} \/ mishaps' # mishaps)
    /\ UNCHANGED <<batch, entry, taken, phase, half, hidden, reads>>

\* A completed order, a redeemed code, a subscription paid from the balance and
\* an administrator's override (by what it changes): the row, and nothing in
\* Redis.  A transaction that fails has changed nothing.
ChangeRowOnly(delta) ==
    LET d == [Zero EXCEPT !["quota"] = delta] IN
    /\ ops < MaxOps
    /\ ops' = ops + 1
    /\ expected' = Plus(expected, d)
    /\ WriteRow(d)
    /\ hidden' = hidden + delta
    /\ overlap' = (overlap \/ Refills # {})
    /\ UNCHANGED <<batch, entry, taken, phase, half, tasks, reads>>

\* UpdateUserUsedQuotaAndRequestCount: one statement, or two records under two
\* locks.
UpdateUsed(n, amount) ==
    LET d == [Zero EXCEPT !["used"] = amount, !["count"] = IF batch THEN 0 ELSE 1] IN
    /\ ops < MaxOps /\ half[n] = 0
    /\ ops' = ops + 1
    /\ expected' = Plus(expected, d)
    /\ half' = [half EXCEPT ![n] = IF batch THEN 1 ELSE 0]
    /\ IF batch THEN addNewRecord(n, d) ELSE WriteRow(d) \/ FailRow(d)
    /\ UNCHANGED <<batch, entry, taken, phase, tasks, hidden, overlap, reads>>

RecordCount(n) ==
    LET d == [Zero EXCEPT !["count"] = 1] IN
    /\ half[n] = 1
    /\ half' = [half EXCEPT ![n] = 0]
    /\ expected' = Plus(expected, d)
    /\ addNewRecord(n, d)
    /\ UNCHANGED <<batch, entry, taken, phase, tasks, hidden, overlap, ops, reads>>

----------------------------------------------------------------------------
(* batchUpdate.                                                            *)
(***************************************************************************)
Wake(n) ==
    /\ phase[n] = 0
    /\ stores[n] # Zero
    /\ phase' = [phase EXCEPT ![n] = 1]
    /\ UNCHANGED <<batch, row, entry, stores, taken, half, tasks, expected, lost, hidden, overlap,
                   counts>>

\* Mutated TakeStore: the store is read and not replaced by an empty one.
TakeStoreKeeps(n) ==
    \E t \in Types :
        /\ phase[n] = Order[t]
        /\ taken' = [taken EXCEPT ![n][t] = stores[n][t]]
        /\ phase' = [phase EXCEPT ![n] = @ + 1]
        /\ UNCHANGED <<batch, row, entry, stores, half, tasks, expected, lost, hidden, overlap,
                       counts>>

\* Each store is taken under its own lock.
TakeStore(n) ==
    \E t \in Types :
        /\ phase[n] = Order[t]
        /\ taken' = [taken EXCEPT ![n][t] = stores[n][t]]
        /\ stores' = [stores EXCEPT ![n][t] = 0]
        /\ phase' = [phase EXCEPT ![n] = @ + 1]
        /\ UNCHANGED <<batch, row, entry, half, tasks, expected, lost, hidden, overlap, counts>>

\* Mutated WriteBatch: the updater ends with the first statement that fails.
WriteBatchStops(n) ==
    /\ phase[n] = 4
    /\ \/ /\ row' = Plus(row, taken[n])
          /\ phase' = [phase EXCEPT ![n] = 0]
          /\ taken' = [taken EXCEPT ![n] = Zero]
          /\ UNCHANGED mishaps
       \/ Mishap /\ UNCHANGED <<row, phase, taken>>
    /\ UNCHANGED <<batch, entry, stores, half, tasks, expected, lost, hidden, overlap,
                   ops, reads>>
    /\ mishaps = 0

\* updateUserQuotaUsedQuotaAndRequestCount: an error is only logged.
WriteBatch(n) ==
    /\ phase[n] = 4
    /\ \/ row' = Plus(row, taken[n]) /\ UNCHANGED <<lost, mishaps, overlap>>
       \/ /\ Mishap
          /\ lost' = Plus(lost, taken[n])
          /\ overlap' = TRUE
          /\ UNCHANGED row
    /\ taken' = [taken EXCEPT ![n] = Zero]
    /\ phase' = [phase EXCEPT ![n] = 0]
    /\ UNCHANGED <<batch, entry, stores, half, tasks, expected, hidden, ops, reads>>

----------------------------------------------------------------------------
(* Reads and the cache.                                                    *)
(***************************************************************************)
Settled ==
    /\ Increments = {}
    /\ row["quota"] = expected["quota"]

\* GetUserQuota and GetUserCache, when they read the row: asked for the
\* database they write the field only; without the entry, or when Redis fails
\* to answer, the whole hash.
GetUserQuota(n, fromDB) ==
    /\ reads < MaxReads
    /\ IF fromDB \/ ~entry.present THEN UNCHANGED mishaps ELSE Mishap
    /\ reads' = reads + 1
    /\ Spawn(n, IF fromDB THEN "setField" ELSE "fill", row["quota"])
    /\ overlap' = (overlap \/ ~Settled)
    /\ UNCHANGED <<batch, row, entry, stores, taken, phase, half, expected, lost, hidden, ops>>

\* RedisHIncrBy and RedisHSetField ask for the TTL first.
CheckTTL(k) ==
    /\ k.op # "fill" /\ ~k.seen
    /\ tasks' = (tasks \ {k}) \cup (IF entry.present THEN {[k EXCEPT !.seen = TRUE]} ELSE {})
    /\ UNCHANGED <<batch, row, entry, stores, taken, phase, half, expected, lost, hidden, overlap,
                   counts>>

\* The hash command: one that finds no key creates it, with this field only.
CacheWrite(k) ==
    /\ k.op = "fill" \/ k.seen
    /\ tasks' = tasks \ {k}
    /\ entry' = [present |-> TRUE, whole |-> entry.whole \/ k.op = "fill",
                 quota |-> IF k.op = "incr" THEN entry.quota + k.value ELSE k.value]
    /\ hidden' = IF k.op = "incr" THEN hidden ELSE 0
    /\ UNCHANGED <<batch, row, stores, taken, phase, half, expected, lost, overlap, counts>>

\* A Redis command fails: the error is logged, the change of the cache lost.
CacheFault(k) ==
    /\ Mishap
    /\ tasks' = tasks \ {k}
    /\ overlap' = TRUE
    /\ UNCHANGED <<batch, row, entry, stores, taken, phase, half, expected, lost, hidden,
                   ops, reads>>

\* The TTL runs out, or a change of the user invalidates the entry.
EntryExpires ==
    /\ entry.present
    /\ entry' = NoEntry
    /\ overlap' = (overlap \/ \E k \in tasks : k.seen)
    /\ UNCHANGED <<batch, row, stores, taken, phase, half, tasks, expected, lost, hidden, counts>>

----------------------------------------------------------------------------
\* A process dies with the deltas it has collected and its goroutines.
ProcessDies(n) ==
    /\ mishaps < MaxMishaps
    /\ mishaps' = mishaps + 1
    /\ stores[n] # Zero \/ taken[n] # Zero \/ \E k \in tasks : k.node = n
    /\ lost' = Plus(lost, Plus(stores[n], taken[n]))
    /\ stores' = [stores EXCEPT ![n] = Zero]
    /\ taken' = [taken EXCEPT ![n] = Zero]
    /\ phase' = [phase EXCEPT ![n] = 0]
    /\ half' = [half EXCEPT ![n] = 0]
    /\ tasks' = {k \in tasks : k.node # n}
    /\ overlap' = TRUE
    /\ UNCHANGED <<batch, row, entry, expected, hidden, ops, reads>>

Flush(n) == Wake(n) \/ TakeStore(n) \/ WriteBatch(n)
CacheStep(k) == CheckTTL(k) \/ CacheWrite(k) \/ CacheFault(k)

QuotaNext ==
    \/ \E n \in Nodes, a \in Amounts :
        \/ \E db \in BOOLEAN : ChangeQuota(n, a, db) \/ ChangeQuota(n, -a, db)
        \/ UpdateUsed(n, a)
    \/ \E a \in Amounts : ChangeRowOnly(a) \/ ChangeRowOnly(-a)
    \/ \E n \in Nodes : RecordCount(n) \/ Flush(n) \/ ProcessDies(n)
    \/ \E n \in Nodes, fromDB \in BOOLEAN : GetUserQuota(n, fromDB)
    \/ \E k \in tasks : CacheStep(k)
    \/ EntryExpires

QuotaSpec == QuotaInit /\ [][QuotaNext]_quotaVars

\* The updater's loop sleeps and wakes for ever; goroutines are scheduled.
FairQuotaSpec ==
    /\ QuotaSpec
    /\ \A n \in Nodes : WF_quotaVars(Flush(n)) /\ WF_quotaVars(RecordCount(n))

----------------------------------------------------------------------------
(* Every accepted change is in exactly one place: the row, a process's     *)
(* stores, what its flush has taken, or written off with a failed          *)
(* statement or a dead process.  Nothing is applied twice, whatever is     *)
(* recorded while a flush is taking the stores one by one.                 *)
ChangesConserved ==
    \A t \in Types :
        row[t] + Collected(t) + lost[t] = expected[t]

(* ... and no delta grows beyond what was recorded.                        *)
BalancesSound == QuotaTypeOK /\ ChangesConserved

(* The cached quota and the increments on their way to it are the balance  *)
(* but for what row-only statements have changed since the last refill,    *)
(* neither more nor less, and the entry is whole, as long as no refill     *)
(* from the database has overlapped with a change, no key has expired      *)
(* under a command, and nothing has failed.  A refill that did overlap may *)
(* overwrite or repeat a change: see the README.                           *)
CacheFollowsBalance ==
    ~overlap /\ entry.present =>
        /\ entry.whole
        /\ entry.quota + Outstanding + hidden = expected["quota"]

(* What is collected reaches the row in the end, or is lost with its       *)
(* process: the deltas of no type are left behind.                         *)
CollectedEventuallyWritten ==
    \A n \in Nodes : stores[n] # Zero \/ taken[n] # Zero ~> stores[n] = Zero /\ taken[n] = Zero
=============================================================================
