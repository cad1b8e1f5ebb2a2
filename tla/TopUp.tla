------------------------------- MODULE TopUp -------------------------------
(***************************************************************************)
(* Completion of one top-up order, or of one redemption code: the provider *)
(* callbacks and the administrator's request of controller/topup.go,       *)
(* topup_stripe.go and topup_waffo.go, the transactions of model/topup.go  *)
(* and model/redemption.go, and the reference-counted mutex per order.     *)
(*                                                                         *)
(* A handler is one HTTP request.  Providers deliver a callback more than  *)
(* once, and callbacks race with each other and with the administrator, on *)
(* one node or on several.  Which handlers there are, where they run and   *)
(* whether the read in a transaction locks its row is chosen initially:    *)
(* the lock is asked for through the query option "FOR UPDATE", and        *)
(* whether the database layer honours that form is not this program's      *)
(* code.                                                                   *)
(***************************************************************************)
EXTENDS Naturals, FiniteSets

CONSTANTS
    Handlers,     \* HTTP requests; a handler also names the mutex it creates
    Nodes,        \* processes: the mutexes are per process
    Placements,   \* the nodes the handlers may be on, functions from Handlers to Nodes
    None,         \* no handler, no mutex
    MaxFaults,    \* bound: statements that fail
    MaxCrashes    \* bound: nodes that die

ASSUME TopUpAssumption ==
    /\ IsFiniteSet(Handlers)
    /\ None \notin Handlers
    /\ Placements \subseteq [Handlers -> Nodes]
    /\ MaxFaults \in Nat /\ MaxCrashes \in Nat

VARIABLES
    kind, node,   \* per handler: what it does and where it runs
    rowLocks,     \* does a read FOR UPDATE lock the row?
    status,       \* of the order: "pending", "success", "closed" (expired or failed)
    credited,     \* how often the order's quota was added to the user
    rowOwner,     \* the transaction that holds the row's lock
    handler,      \* per handler: [pc, mutex, copy]
    orderLocks,   \* per node: the mutex its map holds for the order
    refCount,     \* per mutex
    holder,       \* per mutex: the handler that has locked it
    faults, crashes

vars == <<kind, node, rowLocks, status, credited, rowOwner, handler, orderLocks, refCount, holder,
          faults, crashes>>
scene == <<kind, node, rowLocks>>
order == <<status, credited, rowOwner>>
locks == <<orderLocks, refCount, holder>>

\* Handlers that may meet on one order: Epay's, Stripe's, Waffo's, and those of
\* a redemption code.  "recharge" is fulfillOrder's Recharge, its Creem and
\* Waffo siblings and the administrator's ManualCompleteTopUp: one transaction
\* each.  "declined" is Waffo's callback for a payment that failed, "refused"
\* the one request that creates the order, and has the provider refuse it.
Scenes == {{"epay", "recharge"}, {"recharge", "expire", "asyncFailed"},
           {"recharge", "declined", "refused"}, {"redeem"}}
Kinds == UNION Scenes
Plain == {"epay", "asyncFailed", "refused"}       \* no transaction
Unlocked == {"redeem", "declined", "refused"}     \* no LockOrder
PC == {"new", "waiting", "locked", "transaction", "saving", "crediting", "leaving", "counting",
       "done", "lost"}

TypeOK ==
    /\ kind \in [Handlers -> Kinds] /\ node \in [Handlers -> Nodes] /\ rowLocks \in BOOLEAN
    /\ status \in {"pending", "success", "closed"}
    /\ credited \in Nat
    /\ rowOwner \in Handlers \cup {None}
    /\ handler \in [Handlers -> [pc : PC, mutex : Handlers \cup {None},
                                 copy : {"pending", "success", "closed"}]]
    /\ orderLocks \in [Nodes -> Handlers \cup {None}]
    /\ refCount \in [Handlers -> 0..Cardinality(Handlers)]
    /\ holder \in [Handlers -> Handlers \cup {None}]
    /\ faults \in 0..MaxFaults /\ crashes \in 0..MaxCrashes

Init ==
    /\ \E scene0 \in Scenes : kind \in [Handlers -> scene0]
    /\ \A g, h \in Handlers : kind[g] = "refused" /\ kind[h] = "refused" => g = h
    /\ node \in Placements
    /\ rowLocks \in BOOLEAN
    /\ status = "pending" /\ credited = 0 /\ rowOwner = None
    /\ handler = [h \in Handlers |-> [pc |-> "new", mutex |-> None, copy |-> "pending"]]
    /\ orderLocks = [n \in Nodes |-> None]
    /\ refCount = [m \in Handlers |-> 0]
    /\ holder = [m \in Handlers |-> None]
    /\ faults = 0 /\ crashes = 0

Goto(h, pc) == handler' = [handler EXCEPT ![h].pc = pc]

Fault ==
    /\ faults < MaxFaults
    /\ faults' = faults + 1

----------------------------------------------------------------------------
(* LockOrder and UnlockOrder.                                              *)
(***************************************************************************)
\* Under createLock: find or create the mutex and count the reference.
RefMutex(h) ==
    LET n == node[h]
        m == IF orderLocks[n] = None THEN h ELSE orderLocks[n]
    IN  /\ handler[h].pc = "new"
        /\ kind[h] \notin Unlocked
        /\ orderLocks' = [orderLocks EXCEPT ![n] = m]
        /\ refCount' = [refCount EXCEPT ![m] = @ + 1]
        /\ handler' = [handler EXCEPT ![h].pc = "waiting", ![h].mutex = m]
        /\ UNCHANGED <<scene, order, holder, faults, crashes>>

LockMutex(h) ==
    LET m == handler[h].mutex IN
    /\ handler[h].pc = "waiting"
    /\ holder[m] = None
    /\ holder' = [holder EXCEPT ![m] = h]
    /\ Goto(h, "locked")
    /\ UNCHANGED <<scene, order, orderLocks, refCount, faults, crashes>>

\* Mutated UnlockMutex: an early return without the deferred unlock.
UnlockMutexSometimes(h) ==
    LET m == handler[h].mutex IN
    /\ handler[h].pc = "leaving"
    /\ holder' = IF handler[h].copy = "pending" THEN [holder EXCEPT ![m] = None] ELSE holder
    /\ Goto(h, "counting")
    /\ UNCHANGED <<scene, order, orderLocks, refCount, faults, crashes>>

\* UnlockOrder finds the mutex through the map.
UnlockMutex(h) ==
    LET m == orderLocks[node[h]] IN
    /\ handler[h].pc = "leaving"
    /\ holder' = [holder EXCEPT ![m] = None]
    /\ Goto(h, "counting")
    /\ UNCHANGED <<scene, order, orderLocks, refCount, faults, crashes>>

\* Mutated UnrefMutex: the mutex is forgotten although others wait for it.
UnrefMutexDeletes(h) ==
    LET m == handler[h].mutex IN
    /\ handler[h].pc = "counting"
    /\ refCount' = [refCount EXCEPT ![m] = @ - 1]
    /\ orderLocks' = [orderLocks EXCEPT ![node[h]] = None]
    /\ Goto(h, "done")
    /\ UNCHANGED <<scene, order, holder, faults, crashes>>

\* Under createLock: drop the reference, and the mutex with the last one.
UnrefMutex(h) ==
    LET m == handler[h].mutex IN
    /\ handler[h].pc = "counting"
    /\ refCount' = [refCount EXCEPT ![m] = @ - 1]
    /\ orderLocks' = IF refCount[m] = 1 THEN [orderLocks EXCEPT ![node[h]] = None] ELSE orderLocks
    /\ Goto(h, "done")
    /\ UNCHANGED <<scene, order, holder, faults, crashes>>

----------------------------------------------------------------------------
(* The order's transactions: Recharge and its siblings,                    *)
(* UpdatePendingTopUpStatus, ManualCompleteTopUp and Redeem.               *)
(***************************************************************************)
Target(h) == IF kind[h] \in {"epay", "recharge", "redeem"} THEN "success" ELSE "closed"
Credit(h) == IF Target(h) = "success" THEN 1 ELSE 0
Leave(h) == IF kind[h] \in Unlocked THEN "done" ELSE "leaving"

\* The read: FOR UPDATE waits for a transaction that has locked the row.
ReadInTransaction(h) ==
    /\ handler[h].pc = IF kind[h] \in Unlocked THEN "new" ELSE "locked"
    /\ kind[h] \notin Plain
    /\ rowLocks => rowOwner = None
    /\ rowOwner' = IF rowLocks THEN h ELSE rowOwner
    /\ handler' = [handler EXCEPT ![h].pc = "transaction", ![h].copy = status]
    /\ UNCHANGED <<scene, status, credited, locks, faults, crashes>>

\* Mutated Commit: the status that was read is not looked at.
CommitAnyway(h) ==
    /\ handler[h].pc = "transaction"
    /\ status' = Target(h)
    /\ credited' = IF credited < 3 THEN credited + Credit(h) ELSE credited
    /\ rowOwner' = IF rowOwner = h THEN None ELSE rowOwner
    /\ Goto(h, Leave(h))
    /\ UNCHANGED <<scene, locks, faults, crashes>>

\* Mutated Commit: the status is committed and the quota added afterwards.
CommitThenCredit(h) ==
    /\ handler[h].pc = "transaction"
    /\ \/ handler[h].copy = "pending" /\ status' = Target(h)
       \/ handler[h].copy # "pending" /\ UNCHANGED status
    /\ rowOwner' = IF rowOwner = h THEN None ELSE rowOwner
    /\ Goto(h, Leave(h))
    /\ UNCHANGED <<scene, credited, locks, faults, crashes>>

\* The rest: a pending order gets its new status and the user its quota, or
\* nothing happens; either way the lock goes.
Commit(h) ==
    /\ handler[h].pc = "transaction"
    /\ \/ /\ handler[h].copy = "pending"
          /\ status' = Target(h)
          /\ credited' = credited + Credit(h)
          /\ UNCHANGED faults
       \/ /\ handler[h].copy # "pending"
          /\ UNCHANGED <<status, credited, faults>>
       \/ /\ Fault
          /\ UNCHANGED <<status, credited>>
    /\ rowOwner' = IF rowOwner = h THEN None ELSE rowOwner
    /\ Goto(h, Leave(h))
    /\ UNCHANGED <<scene, locks, crashes>>

----------------------------------------------------------------------------
(* EpayNotify and sessionAsyncPaymentFailed: no transaction.               *)
(***************************************************************************)
ReadOrder(h) ==
    /\ handler[h].pc = "locked"
    /\ kind[h] \in Plain
    /\ handler' = [handler EXCEPT ![h].pc = IF status = "pending" THEN "saving" ELSE "leaving",
                                  ![h].copy = status]
    /\ UNCHANGED <<scene, order, locks, faults, crashes>>

\* topUp.Update writes every column; it waits for a locked row.
SaveOrder(h) ==
    /\ handler[h].pc = "saving"
    /\ rowOwner = None
    /\ \/ /\ status' = Target(h)
          /\ Goto(h, IF Credit(h) = 1 THEN "crediting" ELSE "leaving")
          /\ UNCHANGED faults
       \/ /\ Fault
          /\ Goto(h, "leaving")
          /\ UNCHANGED status
    /\ UNCHANGED <<scene, credited, rowOwner, locks, crashes>>

IncreaseUserQuota(h) ==
    /\ handler[h].pc = "crediting"
    /\ \/ credited' = credited + 1 /\ UNCHANGED faults
       \/ Fault /\ UNCHANGED credited
    /\ Goto(h, "leaving")
    /\ UNCHANGED <<scene, status, rowOwner, locks, crashes>>

\* The request that made the order marks it failed when the provider refuses
\* it: topUp.Update with the copy it made, whatever the row holds by now, and
\* an error ignored.
RefuseOrder(h) ==
    /\ handler[h].pc = "new"
    /\ kind[h] = "refused"
    /\ rowOwner = None
    /\ \/ status' = Target(h) /\ UNCHANGED faults
       \/ Fault /\ UNCHANGED status
    /\ Goto(h, "done")
    /\ UNCHANGED <<scene, credited, rowOwner, locks, crashes>>

----------------------------------------------------------------------------
\* A node dies: its handlers and its mutexes are gone, its transactions rolled back.
Active(h) == handler[h].pc \notin {"new", "done", "lost"}

Crash(n) ==
    LET dead == {h \in Handlers : node[h] = n /\ Active(h)} IN
    /\ crashes < MaxCrashes
    /\ crashes' = crashes + 1
    /\ dead # {}
    /\ handler' = [h \in Handlers |-> IF h \in dead THEN [handler[h] EXCEPT !.pc = "lost"]
                                      ELSE handler[h]]
    /\ rowOwner' = IF rowOwner \in dead THEN None ELSE rowOwner
    /\ orderLocks' = [orderLocks EXCEPT ![n] = None]
    /\ refCount' = [m \in Handlers |-> IF node[m] = n THEN 0 ELSE refCount[m]]
    /\ holder' = [m \in Handlers |-> IF node[m] = n THEN None ELSE holder[m]]
    /\ UNCHANGED <<scene, status, credited, faults>>

Step(h) ==
    \/ RefMutex(h)
    \/ LockMutex(h)
    \/ ReadInTransaction(h)
    \/ Commit(h)
    \/ ReadOrder(h)
    \/ SaveOrder(h)
    \/ IncreaseUserQuota(h)
    \/ RefuseOrder(h)
    \/ UnlockMutex(h)
    \/ UnrefMutex(h)

Next ==
    \/ \E h \in Handlers : Step(h)
    \/ \E n \in Nodes : Crash(n)

Spec == Init /\ [][Next]_vars

\* A request that has begun is scheduled.  Weak fairness is enough: a handler
\* takes the mutex and the row once, so whoever waits for them finds them free
\* for good in the end.  Nothing forces a request to come.
FairSpec == Spec /\ \A h \in Handlers : WF_vars(Active(h) /\ Step(h))

----------------------------------------------------------------------------
(* Where what credits an order is serialised: on one node by the order's   *)
(* mutex, or as transactions whose read locks the row.                     *)
CreditsSerialised ==
    LET paying == {h \in Handlers : Target(h) = "success"} IN
    \/ \A g, h \in paying : node[g] = node[h] /\ kind[g] # "redeem"
    \/ rowLocks /\ \A h \in paying : kind[h] # "epay"

(* There an order is credited at most once, however often callbacks are    *)
(* delivered, whoever completes it by hand meanwhile, and whatever Waffo's *)
(* failures, which take no mutex, write over it.                           *)
CreditedAtMostOnce == CreditsSerialised => credited <= 1

(* Where every write of the status is serialised: all handlers on one node *)
(* and behind the mutex, which Waffo's failures are not; or all of them    *)
(* transactions, and reads lock the row.                                   *)
Serialised ==
    \/ \A g, h \in Handlers : node[g] = node[h] /\ kind[g] \notin Unlocked
    \/ rowLocks /\ \A h \in Handlers : kind[h] \notin Plain

(* There, what has been completed, expired or failed stays so.  A Waffo    *)
(* order may be completed and then marked failed, or the reverse: see the  *)
(* README.                                                                 *)
OutcomeIsFinal ==
    [][Serialised /\ status # "pending" => status' = status]_vars

(* Two handlers of one node are never both between LockOrder and           *)
(* UnlockOrder, though the mutex is created and dropped on the way.        *)
LockIsExclusive ==
    \A g, h \in Handlers :
        /\ g # h /\ node[g] = node[h]
        /\ kind[g] \notin Unlocked /\ kind[h] \notin Unlocked
        /\ handler[g].pc \in {"locked", "transaction", "saving", "crediting", "leaving"}
        => handler[h].pc \notin {"locked", "transaction", "saving", "crediting", "leaving"}

(* The map keeps no mutex nobody refers to.                                *)
LocksAreForgotten ==
    \A n \in Nodes :
        orderLocks[n] # None => \E h \in Handlers : node[h] = n /\ Active(h)

(* The reference-counted mutexes of the map do what LockOrder promises:    *)
(* they exclude, and they are dropped.                                     *)
LocksSound == TypeOK /\ LockIsExclusive /\ LocksAreForgotten

(* An order that counts as paid has been credited: always if it was        *)
(* completed in a transaction, and for the Epay callback, which writes     *)
(* the two in separate statements, once the handler is through without a   *)
(* fault or a crash.                                                       *)
SuccessIsCredited ==
    status = "success" =>
        \/ credited > 0
        \/ \E h \in Handlers : kind[h] = "epay" /\ handler[h].pc = "crediting"
        \/ (faults > 0 \/ crashes > 0) /\ \E h \in Handlers : kind[h] = "epay"

(* An order is credited when it is paid for, and once.                     *)
CreditedOnce == CreditedAtMostOnce /\ SuccessIsCredited

(* No handler waits for ever: neither for the mutex nor for the row.       *)
HandlersFinish ==
    \A h \in Handlers : Active(h) ~> ~Active(h)
============================================================================
