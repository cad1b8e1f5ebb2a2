---------------------------- MODULE TopUp_proofs ----------------------------
(***************************************************************************)
(* Proofs about TopUp for any number of requests, nodes, faults and        *)
(* crashes: the reference-counted mutexes exclude and are dropped, where   *)
(* the handlers that credit are serialised an order is credited at most    *)
(* once, and where all its handlers are its outcome is final.              *)
(***************************************************************************)
EXTENDS TopUp, FiniteSetTheorems, TLAPS

Handler == [pc : PC, mutex : Handlers \cup {None}, copy : {"pending", "success", "closed"}]

\* Between LockOrder's mutex.Lock and UnlockOrder's mutex.Unlock.
Holding == {"locked", "transaction", "saving", "crediting", "leaving"}

----------------------------------------------------------------------------
(* The inductive invariant.                                                *)
(***************************************************************************)
Types ==
    /\ kind \in [Handlers -> Kinds] /\ node \in [Handlers -> Nodes] /\ rowLocks \in BOOLEAN
    /\ status \in {"pending", "success", "closed"}
    /\ credited \in Nat
    /\ rowOwner \in Handlers \cup {None}
    /\ handler \in [Handlers -> Handler]
    /\ orderLocks \in [Nodes -> Handlers \cup {None}]
    /\ refCount \in [Handlers -> Int]
    /\ holder \in [Handlers -> Handlers \cup {None}]
    /\ faults \in 0..MaxFaults /\ crashes \in 0..MaxCrashes

\* What a handler does fits its kind.
KindSound(h) ==
    /\ handler[h].pc \in PC \ {"new", "transaction", "done", "lost"} => kind[h] \notin Unlocked
    /\ handler[h].pc = "saving" => kind[h] \in Plain
    /\ handler[h].pc = "crediting" => kind[h] = "epay"

\* A handler that has taken part in LockOrder, and not yet left UnlockOrder.
Locking(h) == kind[h] \notin Unlocked /\ Active(h)

\* While h refers to a mutex, the map holds that one, and h is the holder
\* from Lock to Unlock.
LockSound(h) ==
    /\ Locking(h) => handler[h].mutex = orderLocks[node[h]] /\ handler[h].mutex \in Handlers
    /\ Locking(h) /\ handler[h].pc \in Holding => holder[handler[h].mutex] = h

Users(m) == {h \in Handlers : Locking(h) /\ handler[h].mutex = m}

\* A mutex in the map was made on that node, and someone refers to it.
MutexSound(n) ==
    orderLocks[n] # None => node[orderLocks[n]] = n /\ Users(orderLocks[n]) # {}

\* The count is the number of handlers that refer to the mutex.
CountSound(m) == refCount[m] = Cardinality(Users(m))

LocksInv ==
    /\ \A h \in Handlers : KindSound(h) /\ LockSound(h)
    /\ \A n \in Nodes : MutexSound(n)
    /\ \A m \in Handlers : CountSound(m)

\* Where the read locks the row, the transaction that has read owns it.
RowInv == rowLocks => \A h \in Handlers : handler[h].pc = "transaction" => rowOwner = h

\* Where every write of the status is serialised, what a handler read of the
\* order is still so when it writes.
FreshInv ==
    Serialised =>
        \A h \in Handlers :
            /\ handler[h].pc = "transaction" /\ handler[h].copy = "pending" => status = "pending"
            /\ handler[h].pc = "saving" => status = "pending"

Paying(h) == Target(h) = "success"

\* Where only what credits is serialised, a handler about to credit the order
\* knows no more than that nobody has: its status may have been overwritten.
CreditInv ==
    CreditsSerialised =>
        /\ \A h \in Handlers : Paying(h) =>
               /\ handler[h].pc = "transaction" /\ handler[h].copy = "pending" => credited = 0
               /\ handler[h].pc = "saving" => credited = 0
               /\ handler[h].pc = "crediting" => status # "pending" /\ credited = 0
        /\ status = "pending" => credited = 0
        /\ credited <= 1

TopUpInv == Types /\ LocksInv /\ RowInv /\ FreshInv /\ CreditInv /\ SuccessIsCredited

----------------------------------------------------------------------------
(* Types.                                                                  *)
(***************************************************************************)
LEMMA TypesInit == Init => Types
  <1> SUFFICES ASSUME Init PROVE Types
    OBVIOUS
  <1>1. kind \in [Handlers -> Kinds]
    BY DEF Init, Kinds
  <1>2. node \in [Handlers -> Nodes]
    BY TopUpAssumption DEF Init
  <1>3. faults \in 0..MaxFaults /\ crashes \in 0..MaxCrashes
    BY TopUpAssumption DEF Init
  <1>4. handler \in [Handlers -> Handler]
    BY DEF Init, Handler, PC
  <1> QED
    BY <1>1, <1>2, <1>3, <1>4 DEF Init, Types

LEMMA HandlerTyped ==
    ASSUME Types, NEW h \in Handlers
    PROVE  handler[h] \in Handler
  BY DEF Types

\* One handler moves on; it keeps its mutex unless it takes one.
LEMMA Moved ==
    ASSUME Types, NEW h \in Handlers, NEW pc \in PC, NEW m \in Handlers \cup {None},
           NEW copy \in {"pending", "success", "closed"},
           handler' = [handler EXCEPT ![h] = [pc |-> pc, mutex |-> m, copy |-> copy]]
    PROVE  /\ handler' \in [Handlers -> Handler]
           /\ handler'[h].pc = pc /\ handler'[h].mutex = m /\ handler'[h].copy = copy
           /\ \A g \in Handlers : g # h => handler'[g] = handler[g]
  <1> DEFINE q == [pc |-> pc, mutex |-> m, copy |-> copy]
  <1>1. q \in Handler /\ q.pc = pc /\ q.mutex = m /\ q.copy = copy
    BY DEF Handler
  <1>2. handler' = [handler EXCEPT ![h] = q]
    OBVIOUS
  <1> HIDE DEF q
  <1> QED
    BY <1>1, <1>2 DEF Types

LEMMA Went ==
    ASSUME Types, NEW h \in Handlers, NEW pc \in PC, Goto(h, pc)
    PROVE  /\ handler' \in [Handlers -> Handler]
           /\ handler'[h].pc = pc /\ handler'[h].mutex = handler[h].mutex
           /\ handler'[h].copy = handler[h].copy
           /\ \A g \in Handlers : g # h => handler'[g] = handler[g]
  BY HandlerTyped DEF Types, Goto, Handler

LEMMA LeaveType == \A h \in Handlers : Leave(h) \in PC
  BY DEF Leave, PC

LEMMA TargetType == \A h \in Handlers : Target(h) \in {"pending", "success", "closed"} /\ Credit(h) \in Nat
  BY DEF Target, Credit

LEMMA FaultType ==
    ASSUME Types, Fault
    PROVE  faults' \in 0..MaxFaults /\ faults' > 0
  BY TopUpAssumption DEF Types, Fault

\* The steps of one handler, field by field.
Alone(h) == \A g \in Handlers : g # h => handler'[g] = handler[g]

Moves(h, pc) == Alone(h) /\ handler'[h].pc = pc /\ handler'[h].mutex = handler[h].mutex

LEMMA RefMutexStep ==
    ASSUME Types, NEW h \in Handlers, RefMutex(h)
    PROVE  /\ Types' /\ Alone(h)
           /\ handler'[h].pc = "waiting"
           /\ handler'[h].mutex = IF orderLocks[node[h]] = None THEN h ELSE orderLocks[node[h]]
           /\ handler'[h].mutex \in Handlers
           /\ orderLocks' = [orderLocks EXCEPT ![node[h]] = handler'[h].mutex]
           /\ refCount' = [refCount EXCEPT ![handler'[h].mutex] = @ + 1]
  <1>1. PICK m : m = IF orderLocks[node[h]] = None THEN h ELSE orderLocks[node[h]]
    OBVIOUS
  <1>2. m \in Handlers
    BY <1>1 DEF Types
  <1>3. handler' = [handler EXCEPT ![h].pc = "waiting", ![h].mutex = m]
    BY <1>1 DEF RefMutex
  <1>4. /\ orderLocks' = [orderLocks EXCEPT ![node[h]] = m] /\ refCount' = [refCount EXCEPT ![m] = @ + 1]
        /\ UNCHANGED <<scene, order, holder, faults, crashes>>
    BY <1>1 DEF RefMutex
  <1> DEFINE q == [handler[h] EXCEPT !.pc = "waiting", !.mutex = m]
  <1>5. q \in Handler /\ q.pc = "waiting" /\ q.mutex = m
    BY <1>2, HandlerTyped DEF Handler, PC
  <1>6. handler' = [handler EXCEPT ![h] = q]
    BY <1>3
  <1> HIDE DEF q
  <1>7. handler' \in [Handlers -> Handler] /\ Alone(h) /\ handler'[h] = q
    BY <1>5, <1>6 DEF Types, Alone
  <1>8. orderLocks' \in [Nodes -> Handlers \cup {None}]
    BY <1>2, <1>4 DEF Types
  <1>9. refCount' \in [Handlers -> Int]
    BY <1>2, <1>4 DEF Types
  <1>10. Types'
    BY <1>4, <1>7, <1>8, <1>9 DEF Types, scene, order
  <1> QED
    BY <1>1, <1>2, <1>4, <1>5, <1>7, <1>10

LEMMA LockMutexStep ==
    ASSUME Types, NEW h \in Handlers, LockMutex(h)
    PROVE  /\ Types' /\ Moves(h, "locked")
           /\ holder' = [holder EXCEPT ![handler[h].mutex] = h]
  <1>1. Goto(h, "locked") /\ "locked" \in PC /\ UNCHANGED <<scene, order, orderLocks, refCount, faults, crashes>>
    BY DEF LockMutex, PC
  <1>2. holder' = [holder EXCEPT ![handler[h].mutex] = h]
    BY DEF LockMutex
  <1>3. handler' \in [Handlers -> Handler] /\ Moves(h, "locked")
    BY <1>1, Went DEF Moves, Alone
  <1>4. Types'
    BY <1>1, <1>2, <1>3 DEF Types, scene, order
  <1> QED
    BY <1>2, <1>3, <1>4

LEMMA UnlockMutexStep ==
    ASSUME Types, NEW h \in Handlers, UnlockMutex(h)
    PROVE  /\ Types' /\ Moves(h, "counting")
           /\ holder' = [holder EXCEPT ![orderLocks[node[h]]] = None]
  <1>1. Goto(h, "counting") /\ "counting" \in PC /\ UNCHANGED <<scene, order, orderLocks, refCount, faults, crashes>>
    BY DEF UnlockMutex, PC
  <1>2. holder' = [holder EXCEPT ![orderLocks[node[h]]] = None]
    BY DEF UnlockMutex
  <1>3. handler' \in [Handlers -> Handler] /\ Moves(h, "counting")
    BY <1>1, Went DEF Moves, Alone
  <1>4. Types'
    BY <1>1, <1>2, <1>3 DEF Types, scene, order
  <1> QED
    BY <1>2, <1>3, <1>4

LEMMA UnrefMutexStep ==
    ASSUME Types, NEW h \in Handlers, UnrefMutex(h)
    PROVE  /\ Types' /\ Moves(h, "done")
           /\ refCount' = [refCount EXCEPT ![handler[h].mutex] = @ - 1]
           /\ orderLocks' = IF refCount[handler[h].mutex] = 1 THEN [orderLocks EXCEPT ![node[h]] = None]
                            ELSE orderLocks
  <1>1. Goto(h, "done") /\ "done" \in PC /\ UNCHANGED <<scene, order, holder, faults, crashes>>
    BY DEF UnrefMutex, PC
  <1>2. /\ refCount' = [refCount EXCEPT ![handler[h].mutex] = @ - 1]
        /\ orderLocks' = IF refCount[handler[h].mutex] = 1 THEN [orderLocks EXCEPT ![node[h]] = None]
                         ELSE orderLocks
    BY DEF UnrefMutex
  <1>3. handler' \in [Handlers -> Handler] /\ Moves(h, "done")
    BY <1>1, Went DEF Moves, Alone
  <1>4. refCount' \in [Handlers -> Int]
    <2>1. refCount \in [Handlers -> Int]
      BY DEF Types
    <2>2. CASE handler[h].mutex \in Handlers
      BY <1>2, <2>1, <2>2
    <2>3. CASE handler[h].mutex \notin Handlers
      <3>1. refCount' = refCount
        BY <1>2, <2>1, <2>3
      <3> QED
        BY <2>1, <3>1
    <2> QED
      BY <2>2, <2>3
  <1>5. orderLocks' \in [Nodes -> Handlers \cup {None}]
    BY <1>2 DEF Types
  <1>6. Types'
    BY <1>1, <1>3, <1>4, <1>5 DEF Types, scene, order
  <1> QED
    BY <1>2, <1>3, <1>6

LEMMA ReadInTransactionStep ==
    ASSUME Types, NEW h \in Handlers, ReadInTransaction(h)
    PROVE  Types' /\ Moves(h, "transaction") /\ handler'[h].copy = status
  <1> DEFINE q == [handler[h] EXCEPT !.pc = "transaction", !.copy = status]
  <1>1. q \in Handler /\ q.pc = "transaction" /\ q.mutex = handler[h].mutex /\ q.copy = status
    BY HandlerTyped DEF Handler, PC, Types
  <1>2. handler' = [handler EXCEPT ![h] = q]
    BY DEF ReadInTransaction
  <1> HIDE DEF q
  <1>3. handler' \in [Handlers -> Handler] /\ Alone(h) /\ handler'[h] = q
    BY <1>1, <1>2 DEF Types, Alone
  <1>4. Types'
    BY <1>3 DEF Types, ReadInTransaction, scene, locks
  <1> QED
    BY <1>1, <1>3, <1>4 DEF Moves

LEMMA ReadOrderStep ==
    ASSUME Types, NEW h \in Handlers, ReadOrder(h)
    PROVE  Types' /\ Moves(h, IF status = "pending" THEN "saving" ELSE "leaving")
  <1> DEFINE pc == IF status = "pending" THEN "saving" ELSE "leaving"
             q == [handler[h] EXCEPT !.pc = pc, !.copy = status]
  <1>1. q \in Handler /\ q.pc = pc /\ q.mutex = handler[h].mutex
    BY HandlerTyped DEF Handler, PC, Types
  <1>2. handler' = [handler EXCEPT ![h] = q]
    BY DEF ReadOrder
  <1> HIDE DEF q
  <1>3. handler' \in [Handlers -> Handler] /\ Alone(h) /\ handler'[h] = q
    BY <1>1, <1>2 DEF Types, Alone
  <1>4. Types'
    BY <1>3 DEF Types, ReadOrder, scene, order, locks
  <1> QED
    BY <1>1, <1>3, <1>4 DEF Moves

LEMMA CommitStep ==
    ASSUME Types, NEW h \in Handlers, Commit(h)
    PROVE  Types' /\ Moves(h, Leave(h))
  <1>1. Goto(h, Leave(h)) /\ UNCHANGED <<scene, locks, crashes>>
    BY DEF Commit
  <1>2. handler' \in [Handlers -> Handler] /\ Moves(h, Leave(h))
    BY <1>1, LeaveType, Went DEF Moves, Alone
  <1>3. /\ status' \in {"pending", "success", "closed"} /\ credited' \in Nat /\ faults' \in 0..MaxFaults
        /\ rowOwner' \in Handlers \cup {None}
    BY TargetType, FaultType DEF Commit, Types
  <1>4. Types'
    BY <1>1, <1>2, <1>3 DEF Types, scene, locks
  <1> QED
    BY <1>2, <1>4

LEMMA SaveOrderStep ==
    ASSUME Types, NEW h \in Handlers, SaveOrder(h)
    PROVE  /\ Types'
           /\ \/ Moves(h, IF Credit(h) = 1 THEN "crediting" ELSE "leaving") /\ status' = Target(h)
              \/ Moves(h, "leaving") /\ status' = status
  <1>1. "crediting" \in PC /\ "leaving" \in PC /\ UNCHANGED <<scene, credited, rowOwner, locks, crashes>>
    BY DEF PC, SaveOrder
  <1>2. CASE status' = Target(h) /\ Goto(h, IF Credit(h) = 1 THEN "crediting" ELSE "leaving") /\ UNCHANGED faults
    <2>1. handler' \in [Handlers -> Handler] /\ Moves(h, IF Credit(h) = 1 THEN "crediting" ELSE "leaving")
      BY <1>1, <1>2, Went DEF Moves, Alone
    <2>2. Types'
      BY <1>1, <1>2, <2>1, TargetType DEF Types, scene, locks
    <2> QED
      BY <1>2, <2>1, <2>2
  <1>3. CASE Fault /\ Goto(h, "leaving") /\ UNCHANGED status
    <2>1. handler' \in [Handlers -> Handler] /\ Moves(h, "leaving")
      BY <1>1, <1>3, Went DEF Moves, Alone
    <2>2. Types'
      BY <1>1, <1>3, <2>1, FaultType DEF Types, scene, locks
    <2> QED
      BY <1>3, <2>1, <2>2
  <1> QED
    BY <1>2, <1>3 DEF SaveOrder

LEMMA IncreaseUserQuotaStep ==
    ASSUME Types, NEW h \in Handlers, IncreaseUserQuota(h)
    PROVE  Types' /\ Moves(h, "leaving")
  <1>1. Goto(h, "leaving") /\ "leaving" \in PC /\ UNCHANGED <<scene, status, rowOwner, locks, crashes>>
    BY DEF PC, IncreaseUserQuota
  <1>2. handler' \in [Handlers -> Handler] /\ Moves(h, "leaving")
    BY <1>1, Went DEF Moves, Alone
  <1>3. credited' \in Nat /\ faults' \in 0..MaxFaults
    BY FaultType DEF IncreaseUserQuota, Types
  <1> QED
    BY <1>1, <1>2, <1>3 DEF Types, scene, locks

LEMMA RefuseOrderStep ==
    ASSUME Types, NEW h \in Handlers, RefuseOrder(h)
    PROVE  Types' /\ Moves(h, "done") /\ (status' = Target(h) \/ status' = status)
  <1>1. Goto(h, "done") /\ "done" \in PC /\ UNCHANGED <<scene, credited, rowOwner, locks, crashes>>
    BY DEF PC, RefuseOrder
  <1>2. handler' \in [Handlers -> Handler] /\ Moves(h, "done")
    BY <1>1, Went DEF Moves, Alone
  <1>3. /\ status' = Target(h) \/ status' = status
        /\ status' \in {"pending", "success", "closed"} /\ faults' \in 0..MaxFaults
    BY TargetType, FaultType DEF RefuseOrder, Types
  <1> QED
    BY <1>1, <1>2, <1>3 DEF Types, scene, locks

LEMMA CrashStep ==
    ASSUME Types, NEW n \in Nodes, Crash(n)
    PROVE  /\ Types'
           /\ \A h \in Handlers :
                  /\ node[h] = n /\ Active(h) => handler'[h].pc = "lost"
                  /\ ~(node[h] = n /\ Active(h)) => handler'[h] = handler[h]
           /\ rowOwner' = IF rowOwner \in {h \in Handlers : node[h] = n /\ Active(h)} THEN None ELSE rowOwner
  <1> DEFINE dead == {h \in Handlers : node[h] = n /\ Active(h)}
  <1>1. /\ handler' = [h \in Handlers |-> IF h \in dead THEN [handler[h] EXCEPT !.pc = "lost"]
                                          ELSE handler[h]]
        /\ rowOwner' = IF rowOwner \in dead THEN None ELSE rowOwner
    BY DEF Crash
  <1>2. \A h \in Handlers : /\ [handler[h] EXCEPT !.pc = "lost"] \in Handler
                            /\ [handler[h] EXCEPT !.pc = "lost"].pc = "lost"
    BY HandlerTyped DEF Handler, PC
  <1>3. \A h \in Handlers : h \in dead <=> (node[h] = n /\ Active(h))
    OBVIOUS
  <1> HIDE DEF dead
  <1>4. /\ handler' \in [Handlers -> Handler]
        /\ \A h \in Handlers : /\ h \in dead => handler'[h].pc = "lost"
                               /\ h \notin dead => handler'[h] = handler[h]
    BY <1>1, <1>2, HandlerTyped
  <1>5. /\ orderLocks' \in [Nodes -> Handlers \cup {None}]
        /\ refCount' \in [Handlers -> Int]
        /\ holder' \in [Handlers -> Handlers \cup {None}]
    BY DEF Crash, Types
  <1>6. crashes' \in 0..MaxCrashes /\ UNCHANGED <<scene, status, credited, faults>>
    BY TopUpAssumption DEF Crash, Types
  <1>7. rowOwner' \in Handlers \cup {None}
    BY <1>1 DEF Types
  <1>8. Types'
    BY <1>4, <1>5, <1>6, <1>7 DEF Types, scene
  <1> QED
    BY <1>1, <1>3, <1>4, <1>8 DEF dead

----------------------------------------------------------------------------
(* The order's mutexes.                                                    *)
(***************************************************************************)
LEMMA LocksInit == Init => LocksInv
  <1> SUFFICES ASSUME Init PROVE LocksInv
    OBVIOUS
  <1>1. \A h \in Handlers : handler[h].pc = "new"
    BY DEF Init
  <1>2. \A h \in Handlers : ~Active(h)
    BY <1>1 DEF Active
  <1>3. \A m \in Handlers : Users(m) = {}
    BY <1>2 DEF Users, Locking
  <1>4. \A m \in Handlers : CountSound(m)
    BY <1>3, FS_EmptySet DEF CountSound, Init
  <1> QED
    BY <1>1, <1>2, <1>4 DEF Init, LocksInv, KindSound, LockSound, MutexSound, Locking

LEMMA UsersFinite ==
    ASSUME NEW m
    PROVE  IsFiniteSet(Users(m)) /\ Cardinality(Users(m)) \in Nat
           /\ Cardinality(Users(m)) <= Cardinality(Handlers)
  <1>1. Users(m) \subseteq Handlers
    BY DEF Users
  <1> QED
    BY <1>1, TopUpAssumption, FS_Subset, FS_CardinalityType

\* A mutex is referred to on the node it was made on.
LEMMA UserNode ==
    ASSUME LocksInv, Types, NEW h \in Handlers, Locking(h)
    PROVE  /\ handler[h].mutex = orderLocks[node[h]] /\ handler[h].mutex \in Handlers
           /\ node[handler[h].mutex] = node[h]
  <1>1. handler[h].mutex = orderLocks[node[h]] /\ handler[h].mutex \in Handlers /\ node[h] \in Nodes
    BY DEF LocksInv, LockSound, Types
  <1> QED
    BY <1>1, TopUpAssumption DEF LocksInv, MutexSound

\* A step between Lock and Unlock, or of a handler that takes no mutex.
LEMMA LocksKept ==
    ASSUME Types, LocksInv, NEW h \in Handlers, NEW pc, Moves(h, pc), UNCHANGED <<scene, locks>>,
           KindSound(h)', kind[h] \notin Unlocked => Active(h)' /\ handler[h].pc \in Holding
    PROVE  LocksInv'
  <1>0. UNCHANGED <<kind, node, orderLocks, refCount, holder>>
    BY DEF scene, locks
  <1>1. \A g \in Handlers : Locking(g)' <=> Locking(g)
    BY <1>0 DEF Moves, Alone, Locking, Active, Holding
  <1>2. \A g \in Handlers : handler'[g].mutex = handler[g].mutex
    BY DEF Moves, Alone
  <1>3. \A m : Users(m)' = Users(m)
    BY <1>1, <1>2 DEF Users
  <1>4. \A g \in Handlers : KindSound(g)'
    BY <1>0 DEF LocksInv, KindSound, Moves, Alone
  <1>5. ASSUME NEW g \in Handlers PROVE LockSound(g)'
    <2>1. LockSound(g)
      BY DEF LocksInv
    <2>2. CASE g = h
      BY <1>0, <1>1, <1>2, <2>1, <2>2 DEF LockSound, Locking
    <2>3. CASE g # h
      BY <1>0, <1>1, <1>2, <2>1, <2>3 DEF LockSound, Moves, Alone
    <2> QED
      BY <2>2, <2>3
  <1>6. \A n \in Nodes : MutexSound(n)'
    BY <1>0, <1>3 DEF LocksInv, MutexSound
  <1>7. \A m \in Handlers : CountSound(m)'
    BY <1>0, <1>3 DEF LocksInv, CountSound
  <1> QED
    BY <1>4, <1>5, <1>6, <1>7 DEF LocksInv

LEMMA LocksRef ==
    ASSUME Types, LocksInv, NEW h \in Handlers, RefMutex(h)
    PROVE  LocksInv'
  <1>0. UNCHANGED <<kind, node, holder>> /\ handler[h].pc = "new" /\ kind[h] \notin Unlocked
    BY DEF RefMutex, scene
  <1>1. PICK m \in Handlers : m = handler'[h].mutex
    BY RefMutexStep
  <1>2. /\ Alone(h) /\ handler'[h].pc = "waiting"
        /\ m = IF orderLocks[node[h]] = None THEN h ELSE orderLocks[node[h]]
        /\ orderLocks' = [orderLocks EXCEPT ![node[h]] = m]
        /\ refCount' = [refCount EXCEPT ![m] = @ + 1]
    BY <1>1, RefMutexStep
  <1>3. node[h] \in Nodes
    BY DEF Types
  <1>4. ~Locking(h) /\ Locking(h)' /\ \A g \in Handlers : g # h => (Locking(g)' <=> Locking(g))
    BY <1>0, <1>2 DEF Locking, Active, Alone
  <1>5. \A g \in Handlers : KindSound(g)'
    BY <1>0, <1>2 DEF LocksInv, KindSound, Alone
  <1>6. orderLocks'[node[h]] = m /\ \A n \in Nodes : n # node[h] => orderLocks'[n] = orderLocks[n]
    BY <1>2, <1>3 DEF Types
  <1>7. ASSUME NEW g \in Handlers PROVE LockSound(g)'
    <2>1. CASE g = h
      BY <1>0, <1>1, <1>2, <1>6, <2>1 DEF LockSound, Holding
    <2>2. CASE g # h
      <3>1. handler'[g] = handler[g] /\ LockSound(g) /\ (Locking(g)' <=> Locking(g)) /\ node[g] \in Nodes
        BY <1>2, <1>4, <2>2 DEF Alone, LocksInv, Types
      <3>2. Locking(g) => orderLocks'[node[g]] = orderLocks[node[g]]
        <4>1. CASE node[g] = node[h]
          BY <1>2, <1>6, <3>1, <4>1, TopUpAssumption DEF LockSound
        <4>2. CASE node[g] # node[h]
          BY <1>6, <3>1, <4>2
        <4> QED
          BY <4>1, <4>2
      <3> QED
        BY <1>0, <3>1, <3>2 DEF LockSound
    <2> QED
      BY <2>1, <2>2
  <1>8. /\ Users(m)' = Users(m) \cup {h} /\ h \notin Users(m)
        /\ \A k \in Handlers : k # m => Users(k)' = Users(k)
    BY <1>1, <1>2, <1>4 DEF Users, Alone
  <1>9. ASSUME NEW n \in Nodes PROVE MutexSound(n)'
    <2>1. CASE n = node[h]
      <3>1. node[m] = n
        <4>1. CASE orderLocks[node[h]] = None
          BY <1>2, <2>1, <4>1
        <4>2. CASE orderLocks[node[h]] # None
          BY <1>2, <2>1, <4>2 DEF LocksInv, MutexSound
        <4> QED
          BY <4>1, <4>2
      <3> QED
        BY <1>0, <1>6, <1>8, <2>1, <3>1 DEF MutexSound
    <2>2. CASE n # node[h]
      <3>1. orderLocks'[n] = orderLocks[n] /\ MutexSound(n)
        BY <1>6, <2>2 DEF LocksInv
      <3>2. orderLocks[n] # None => orderLocks[n] \in Handlers
        BY DEF Types
      <3>3. orderLocks[n] # None => Users(orderLocks[n])' # {}
        BY <1>8, <3>1, <3>2 DEF MutexSound
      <3> QED
        BY <1>0, <3>1, <3>3 DEF MutexSound
    <2> QED
      BY <2>1, <2>2
  <1>10. ASSUME NEW k \in Handlers PROVE CountSound(k)'
    <2>1. CountSound(k)
      BY DEF LocksInv
    <2>2. CASE k = m
      <3>1. refCount'[k] = refCount[k] + 1
        BY <1>2, <2>2 DEF Types
      <3>2. Cardinality(Users(k)') = Cardinality(Users(k)) + 1
        BY <1>8, <2>2, UsersFinite, FS_AddElement
      <3> QED
        BY <2>1, <3>1, <3>2 DEF CountSound
    <2>3. CASE k # m
      <3>1. refCount'[k] = refCount[k]
        BY <1>2, <2>3 DEF Types
      <3> QED
        BY <1>8, <2>1, <2>3, <3>1 DEF CountSound
    <2> QED
      BY <2>2, <2>3
  <1> QED
    BY <1>5, <1>7, <1>9, <1>10 DEF LocksInv

\* Lock and Unlock change who holds the mutex, not who refers to it.
LEMMA LocksHeld ==
    ASSUME Types, LocksInv, NEW h \in Handlers, LockMutex(h) \/ UnlockMutex(h)
    PROVE  LocksInv'
  <1>0. UNCHANGED <<kind, node, orderLocks, refCount>> /\ handler[h].pc \in {"waiting", "leaving"}
    BY DEF LockMutex, UnlockMutex, scene
  <1>1. /\ Alone(h) /\ handler'[h].mutex = handler[h].mutex
        /\ handler[h].pc = "waiting" => handler'[h].pc = "locked"
        /\ handler[h].pc = "leaving" => handler'[h].pc = "counting"
    BY LockMutexStep, UnlockMutexStep DEF Moves, LockMutex, UnlockMutex
  <1>2. \A g \in Handlers : handler'[g].mutex = handler[g].mutex
    BY <1>1 DEF Alone
  <1>3. kind[h] \notin Unlocked /\ Locking(h)
    BY <1>0 DEF LocksInv, KindSound, PC, Locking, Active
  <1>4. \A g \in Handlers : Locking(g)' <=> Locking(g)
    BY <1>0, <1>1, <1>3 DEF Locking, Active, Alone
  <1>5. \A m : Users(m)' = Users(m)
    BY <1>2, <1>4 DEF Users
  <1>6. \A g \in Handlers : KindSound(g)'
    BY <1>0, <1>1, <1>3 DEF LocksInv, KindSound, Alone
  <1>7. PICK m \in Handlers : m = handler[h].mutex /\ m = orderLocks[node[h]]
    BY <1>3, UserNode
  <1>8. ASSUME NEW g \in Handlers PROVE LockSound(g)'
    <2>1. LockSound(g) /\ LockSound(h)
      BY DEF LocksInv
    <2>2. CASE LockMutex(h)
      <3>1. holder[m] = None /\ holder' = [holder EXCEPT ![m] = h] /\ handler'[h].pc = "locked"
        BY <1>1, <1>7, <2>2, LockMutexStep DEF LockMutex
      <3>2. CASE g = h
        BY <1>0, <1>2, <1>4, <1>7, <2>1, <3>1, <3>2 DEF LockSound, Types
      <3>3. CASE g # h
        <4>1. handler'[g] = handler[g]
          BY <1>1, <3>3 DEF Alone
        <4>2. Locking(g) /\ handler[g].pc \in Holding => handler[g].mutex # m
          BY <2>1, <3>1, TopUpAssumption DEF LockSound
        <4> QED
          BY <1>0, <1>4, <2>1, <3>1, <4>1, <4>2 DEF LockSound, Types
      <3> QED
        BY <3>2, <3>3
    <2>3. CASE UnlockMutex(h)
      <3>1. holder' = [holder EXCEPT ![m] = None] /\ handler[h].pc = "leaving" /\ handler'[h].pc = "counting"
        BY <1>1, <1>7, <2>3, UnlockMutexStep DEF UnlockMutex
      <3>2. holder[m] = h
        BY <1>3, <1>7, <2>1, <3>1 DEF LockSound, Holding
      <3>3. CASE g = h
        BY <1>0, <1>2, <1>4, <2>1, <3>1, <3>3 DEF LockSound, Holding
      <3>4. CASE g # h
        <4>1. handler'[g] = handler[g]
          BY <1>1, <3>4 DEF Alone
        <4>2. Locking(g) /\ handler[g].pc \in Holding => handler[g].mutex # m
          BY <2>1, <3>2, <3>4 DEF LockSound
        <4> QED
          BY <1>0, <1>4, <2>1, <3>1, <4>1, <4>2 DEF LockSound, Types
      <3> QED
        BY <3>3, <3>4
    <2> QED
      BY <2>2, <2>3
  <1>9. \A n \in Nodes : MutexSound(n)'
    BY <1>0, <1>5 DEF LocksInv, MutexSound
  <1>10. \A k \in Handlers : CountSound(k)'
    BY <1>0, <1>5 DEF LocksInv, CountSound
  <1> QED
    BY <1>6, <1>8, <1>9, <1>10 DEF LocksInv

\* The last reference takes the mutex out of the map.
LEMMA LocksUnref ==
    ASSUME Types, LocksInv, NEW h \in Handlers, UnrefMutex(h)
    PROVE  LocksInv'
  <1>0. UNCHANGED <<kind, node, holder>> /\ handler[h].pc = "counting"
    BY DEF UnrefMutex, scene
  <1>1. kind[h] \notin Unlocked /\ Locking(h)
    BY <1>0 DEF LocksInv, KindSound, PC, Locking, Active
  <1>2. PICK m \in Handlers : m = handler[h].mutex /\ m = orderLocks[node[h]] /\ node[m] = node[h]
    BY <1>1, UserNode
  <1>3. /\ Alone(h) /\ handler'[h].pc = "done" /\ handler'[h].mutex = handler[h].mutex
        /\ refCount' = [refCount EXCEPT ![m] = @ - 1]
        /\ orderLocks' = IF refCount[m] = 1 THEN [orderLocks EXCEPT ![node[h]] = None] ELSE orderLocks
    BY <1>2, UnrefMutexStep DEF Moves
  <1>4. node[h] \in Nodes
    BY DEF Types
  <1>5. ~Locking(h)' /\ \A g \in Handlers : g # h => (Locking(g)' <=> Locking(g))
    BY <1>0, <1>3 DEF Locking, Active, Alone
  <1>6. \A g \in Handlers : KindSound(g)'
    BY <1>0, <1>3 DEF LocksInv, KindSound, Alone
  <1>7. /\ Users(m)' = Users(m) \ {h} /\ h \in Users(m)
        /\ \A k \in Handlers : k # m => Users(k)' = Users(k)
    BY <1>1, <1>2, <1>3, <1>5 DEF Users, Alone
  <1>8. /\ Cardinality(Users(m)) \in Nat /\ IsFiniteSet(Users(m)')
        /\ Cardinality(Users(m)') = Cardinality(Users(m)) - 1
        /\ refCount[m] = Cardinality(Users(m))
    BY <1>7, UsersFinite, FS_RemoveElement DEF LocksInv, CountSound
  <1>9. refCount[m] = 1 <=> Users(m)' = {}
    BY <1>8, FS_EmptySet
  <1>10. ASSUME NEW n \in Nodes, n # node[h] \/ refCount[m] # 1 PROVE orderLocks'[n] = orderLocks[n]
    BY <1>3, <1>10 DEF Types
  <1>11. refCount[m] = 1 => orderLocks'[node[h]] = None
    BY <1>3, <1>4 DEF Types
  <1>12. ASSUME NEW g \in Handlers PROVE LockSound(g)'
    <2>1. CASE g = h
      BY <1>5, <2>1 DEF LockSound
    <2>2. CASE g # h
      <3>1. handler'[g] = handler[g] /\ LockSound(g) /\ (Locking(g)' <=> Locking(g)) /\ node[g] \in Nodes
        BY <1>3, <1>5, <2>2 DEF Alone, LocksInv, Types
      <3>2. Locking(g) => node[g] # node[h] \/ refCount[m] # 1
        <4>1. SUFFICES ASSUME Locking(g), node[g] = node[h] PROVE Users(m)' # {}
          BY <1>9
        <4>2. g \in Users(m)
          BY <1>2, <3>1, <4>1 DEF Users, LockSound
        <4> QED
          BY <1>7, <2>2, <4>2
      <3>3. Locking(g) => orderLocks'[node[g]] = orderLocks[node[g]]
        BY <1>10, <3>1, <3>2
      <3> QED
        BY <1>0, <3>1, <3>3 DEF LockSound
    <2> QED
      BY <2>1, <2>2
  <1>13. ASSUME NEW n \in Nodes PROVE MutexSound(n)'
    <2>1. MutexSound(n) /\ (orderLocks[n] # None => orderLocks[n] \in Handlers)
      BY DEF LocksInv, Types
    <2>2. CASE n = node[h] /\ refCount[m] = 1
      BY <1>11, <2>2 DEF MutexSound
    <2>3. CASE n = node[h] /\ refCount[m] # 1
      BY <1>0, <1>2, <1>9, <1>10, <2>1, <2>3 DEF MutexSound
    <2>4. CASE n # node[h]
      <3>1. orderLocks'[n] = orderLocks[n]
        BY <1>10, <2>4
      <3>2. orderLocks[n] # None => orderLocks[n] # m
        BY <1>2, <2>1, <2>4 DEF MutexSound
      <3>3. orderLocks[n] # None => Users(orderLocks[n])' # {}
        BY <1>7, <2>1, <3>1, <3>2 DEF MutexSound
      <3> QED
        BY <1>0, <2>1, <3>1, <3>3 DEF MutexSound
    <2> QED
      BY <2>2, <2>3, <2>4
  <1>14. ASSUME NEW k \in Handlers PROVE CountSound(k)'
    <2>1. CountSound(k)
      BY DEF LocksInv
    <2>2. CASE k = m
      <3>1. refCount'[k] = refCount[k] - 1
        BY <1>3, <2>2 DEF Types
      <3> QED
        BY <1>8, <2>1, <2>2, <3>1 DEF CountSound
    <2>3. CASE k # m
      <3>1. refCount'[k] = refCount[k]
        BY <1>3, <2>3 DEF Types
      <3> QED
        BY <1>7, <2>1, <2>3, <3>1 DEF CountSound
    <2> QED
      BY <2>2, <2>3
  <1> QED
    BY <1>6, <1>12, <1>13, <1>14 DEF LocksInv

\* A dead node takes its mutexes and everyone who referred to them along.
LEMMA LocksCrash ==
    ASSUME Types, LocksInv, NEW n \in Nodes, Crash(n)
    PROVE  LocksInv'
  <1>0. /\ UNCHANGED <<kind, node>>
        /\ orderLocks' = [orderLocks EXCEPT ![n] = None]
        /\ refCount' = [m \in Handlers |-> IF node[m] = n THEN 0 ELSE refCount[m]]
        /\ holder' = [m \in Handlers |-> IF node[m] = n THEN None ELSE holder[m]]
    BY DEF Crash, scene
  <1>1. \A h \in Handlers : /\ node[h] = n /\ Active(h) => handler'[h].pc = "lost"
                            /\ ~(node[h] = n /\ Active(h)) => handler'[h] = handler[h]
    BY CrashStep
  <1>2. \A h \in Handlers : KindSound(h)'
    BY <1>0, <1>1 DEF LocksInv, KindSound, PC
  <1>3. \A h \in Handlers : Locking(h)' => node[h] # n /\ Locking(h) /\ handler'[h] = handler[h]
    BY <1>0, <1>1 DEF Locking, Active
  <1>4. \A h \in Handlers : Locking(h) /\ node[h] # n => Locking(h)' /\ handler'[h] = handler[h]
    BY <1>0, <1>1 DEF Locking, Active
  <1>5. orderLocks'[n] = None /\ \A k \in Nodes : k # n => orderLocks'[k] = orderLocks[k]
    BY <1>0 DEF Types
  <1>6. ASSUME NEW h \in Handlers PROVE LockSound(h)'
    <2>1. SUFFICES ASSUME Locking(h)' PROVE LockSound(h)'
      BY DEF LockSound
    <2>2. /\ node[h] # n /\ node[h] \in Nodes /\ Locking(h) /\ handler'[h] = handler[h]
          /\ LockSound(h) /\ handler[h].mutex \in Handlers /\ node[handler[h].mutex] # n
      BY <1>3, <2>1, UserNode DEF LocksInv, Types
    <2>3. holder'[handler[h].mutex] = holder[handler[h].mutex]
      BY <1>0, <2>2
    <2> QED
      BY <1>0, <1>5, <2>2, <2>3 DEF LockSound
  <1>7. ASSUME NEW m \in Handlers, node[m] # n PROVE Users(m)' = Users(m)
    <2>1. \A h \in Handlers : Locking(h) /\ handler[h].mutex = m => node[h] # n
      BY <1>7, UserNode
    <2> QED
      BY <1>3, <1>4, <2>1 DEF Users
  <1>8. ASSUME NEW m \in Handlers, node[m] = n PROVE Users(m)' = {}
    <2>1. \A h \in Handlers : Locking(h) /\ handler[h].mutex = m => node[h] = n
      BY <1>8, UserNode
    <2> QED
      BY <1>3, <2>1 DEF Users
  <1>9. ASSUME NEW k \in Nodes PROVE MutexSound(k)'
    <2>1. CASE k = n
      BY <1>5, <2>1 DEF MutexSound
    <2>2. CASE k # n
      <3>1. /\ orderLocks'[k] = orderLocks[k] /\ MutexSound(k)
            /\ orderLocks[k] # None => orderLocks[k] \in Handlers
        BY <1>5, <2>2 DEF LocksInv, Types
      <3>2. orderLocks[k] # None => Users(orderLocks[k])' = Users(orderLocks[k])
        BY <1>7, <2>2, <3>1 DEF MutexSound
      <3> QED
        BY <1>0, <3>1, <3>2 DEF MutexSound
    <2> QED
      BY <2>1, <2>2
  <1>10. ASSUME NEW m \in Handlers PROVE CountSound(m)'
    <2>1. CASE node[m] = n
      BY <1>0, <1>8, <2>1, FS_EmptySet DEF CountSound
    <2>2. CASE node[m] # n
      BY <1>0, <1>7, <2>2 DEF CountSound, LocksInv
    <2> QED
      BY <2>1, <2>2
  <1> QED
    BY <1>2, <1>6, <1>9, <1>10 DEF LocksInv

LEMMA LocksStutter ==
    ASSUME LocksInv, UNCHANGED vars
    PROVE  LocksInv'
  <1>0. UNCHANGED <<kind, node, handler, orderLocks, refCount, holder>>
    BY DEF vars
  <1>1. \A h \in Handlers : Locking(h)' <=> Locking(h)
    BY <1>0 DEF Locking, Active
  <1>2. \A m : Users(m)' = Users(m)
    BY <1>0, <1>1 DEF Users
  <1>3. \A h \in Handlers : KindSound(h)' /\ LockSound(h)'
    BY <1>0, <1>1 DEF LocksInv, KindSound, LockSound
  <1>4. \A n \in Nodes : MutexSound(n)'
    BY <1>0, <1>2 DEF LocksInv, MutexSound
  <1>5. \A m \in Handlers : CountSound(m)'
    BY <1>0, <1>2 DEF LocksInv, CountSound
  <1> QED
    BY <1>3, <1>4, <1>5 DEF LocksInv

\* The steps that read and write the order.
Works(h) ==
    \/ ReadInTransaction(h) \/ Commit(h) \/ ReadOrder(h) \/ SaveOrder(h)
    \/ IncreaseUserQuota(h) \/ RefuseOrder(h)

LEMMA LocksWork ==
    ASSUME Types, LocksInv, NEW h \in Handlers, Works(h)
    PROVE  Types' /\ LocksInv'
  <1>0. UNCHANGED <<scene, locks>>
    BY DEF Works, ReadInTransaction, Commit, ReadOrder, SaveOrder, IncreaseUserQuota, RefuseOrder
  <1>1. KindSound(h) /\ kind' = kind
    BY <1>0 DEF LocksInv, scene
  <1>2. CASE ReadInTransaction(h)
    <2>1. Types' /\ Moves(h, "transaction") /\ handler'[h].pc = "transaction"
      BY <1>2, ReadInTransactionStep DEF Moves
    <2>2. KindSound(h)' /\ Active(h)' /\ (kind[h] \notin Unlocked => handler[h].pc \in Holding)
      BY <1>1, <1>2, <2>1 DEF KindSound, Active, ReadInTransaction, Holding
    <2> QED
      BY <1>0, <2>1, <2>2, LocksKept
  <1>3. CASE Commit(h)
    <2>1. Types' /\ Moves(h, Leave(h)) /\ handler'[h].pc = Leave(h)
      BY <1>3, CommitStep DEF Moves
    <2>2. KindSound(h)' /\ (kind[h] \notin Unlocked => Active(h)' /\ handler[h].pc \in Holding)
      BY <1>1, <1>3, <2>1 DEF KindSound, Active, Commit, Leave, Holding
    <2> QED
      BY <1>0, <2>1, <2>2, LocksKept
  <1>4. CASE ReadOrder(h)
    <2> DEFINE pc == IF status = "pending" THEN "saving" ELSE "leaving"
    <2>1. Types' /\ Moves(h, pc) /\ handler'[h].pc = pc
      BY <1>4, ReadOrderStep DEF Moves
    <2>2. KindSound(h)' /\ Active(h)' /\ handler[h].pc \in Holding
      BY <1>1, <1>4, <2>1 DEF KindSound, Active, ReadOrder, Holding, Plain, PC
    <2> QED
      BY <1>0, <2>1, <2>2, LocksKept
  <1>5. CASE SaveOrder(h)
    <2>1. handler[h].pc = "saving" /\ kind[h] \in Plain /\ handler[h].pc \in Holding
      BY <1>1, <1>5 DEF SaveOrder, KindSound, Holding
    <2>2. CASE Moves(h, IF Credit(h) = 1 THEN "crediting" ELSE "leaving")
      <3>1. KindSound(h)' /\ Active(h)'
        BY <1>1, <2>1, <2>2 DEF KindSound, Active, Moves, Credit, Target, Plain, PC
      <3> QED
        BY <1>0, <1>5, <2>1, <2>2, <3>1, LocksKept, SaveOrderStep
    <2>3. CASE Moves(h, "leaving")
      <3>1. KindSound(h)' /\ Active(h)'
        BY <1>1, <2>1, <2>3 DEF KindSound, Active, Moves, Plain, PC
      <3> QED
        BY <1>0, <1>5, <2>1, <2>3, <3>1, LocksKept, SaveOrderStep
    <2> QED
      BY <1>5, <2>2, <2>3, SaveOrderStep
  <1>6. CASE IncreaseUserQuota(h)
    <2>1. Types' /\ Moves(h, "leaving") /\ handler'[h].pc = "leaving"
      BY <1>6, IncreaseUserQuotaStep DEF Moves
    <2>2. KindSound(h)' /\ Active(h)' /\ handler[h].pc \in Holding
      BY <1>1, <1>6, <2>1 DEF KindSound, Active, IncreaseUserQuota, Holding, PC
    <2> QED
      BY <1>0, <2>1, <2>2, LocksKept
  <1>7. CASE RefuseOrder(h)
    <2>1. Types' /\ Moves(h, "done") /\ handler'[h].pc = "done"
      BY <1>7, RefuseOrderStep DEF Moves
    <2>2. KindSound(h)' /\ kind[h] \in Unlocked
      BY <1>1, <1>7, <2>1 DEF KindSound, RefuseOrder, Unlocked
    <2> QED
      BY <1>0, <2>1, <2>2, LocksKept
  <1> QED
    BY <1>2, <1>3, <1>4, <1>5, <1>6, <1>7 DEF Works

\* Every step is one on the order or one on the mutexes, or a crash.
Locks(h) == RefMutex(h) \/ LockMutex(h) \/ UnlockMutex(h) \/ UnrefMutex(h)

LEMMA Steps ==
    ASSUME [Next]_vars
    PROVE  \/ \E h \in Handlers : Works(h) \/ Locks(h)
           \/ \E n \in Nodes : Crash(n)
           \/ UNCHANGED vars
  BY DEF Next, Step, Works, Locks

LEMMA LocksNext ==
    ASSUME Types, LocksInv, [Next]_vars
    PROVE  Types' /\ LocksInv'
  <1>1. ASSUME NEW h \in Handlers, Locks(h) PROVE Types' /\ LocksInv'
    BY <1>1, RefMutexStep, LockMutexStep, UnlockMutexStep, UnrefMutexStep, LocksRef, LocksHeld,
       LocksUnref DEF Locks
  <1>2. CASE UNCHANGED vars
    <2>1. Types'
      BY <1>2 DEF Types, vars
    <2> QED
      BY <1>2, <2>1, LocksStutter
  <1> QED
    BY <1>1, <1>2, Steps, LocksWork, CrashStep, LocksCrash

LEMMA LocksInvariant == Spec => [](Types /\ LocksInv)
  <1>1. Init => Types /\ LocksInv
    BY TypesInit, LocksInit
  <1>2. Types /\ LocksInv /\ [Next]_vars => (Types /\ LocksInv)'
    BY LocksNext
  <1> QED
    BY <1>1, <1>2, PTL DEF Spec

\* Two holders of one node hold the mutex the map has for it.
LEMMA Exclusive == Types /\ LocksInv => LockIsExclusive
  <1> SUFFICES ASSUME Types, LocksInv, NEW g \in Handlers, NEW h \in Handlers,
                      g # h, node[g] = node[h], kind[g] \notin Unlocked, kind[h] \notin Unlocked,
                      handler[g].pc \in Holding, handler[h].pc \in Holding
               PROVE  FALSE
    BY DEF LockIsExclusive, Holding
  <1>1. Locking(g) /\ Locking(h) /\ LockSound(g) /\ LockSound(h)
    BY DEF LocksInv, Locking, Active, Holding
  <1> QED
    BY <1>1 DEF LockSound

(* LockOrder and UnlockOrder do what they promise, whatever the number of  *)
(* requests and nodes, though a mutex is created and dropped on the way:   *)
(* they exclude, the map keeps no mutex nobody refers to, and the counts   *)
(* stay within the number of requests.                                     *)
THEOREM LocksAlwaysSound == Spec => []LocksSound
  <1>1. Types /\ LocksInv => LocksSound
    <2> SUFFICES ASSUME Types, LocksInv PROVE LocksSound
      OBVIOUS
    <2>1. \A m \in Handlers : refCount[m] \in 0..Cardinality(Handlers)
      <3>1. Cardinality(Handlers) \in Nat
        BY TopUpAssumption, FS_CardinalityType
      <3> QED
        BY <3>1, UsersFinite DEF LocksInv, CountSound
    <2>2. TypeOK
      BY <2>1 DEF Types, TypeOK, Handler
    <2>3. LocksAreForgotten
      <3> SUFFICES ASSUME NEW n \in Nodes, orderLocks[n] # None
                   PROVE  \E h \in Handlers : node[h] = n /\ Active(h)
        BY DEF LocksAreForgotten
      <3>1. PICK h \in Handlers : Locking(h) /\ handler[h].mutex = orderLocks[n]
        BY DEF LocksInv, MutexSound, Users
      <3>2. node[h] = node[orderLocks[n]] /\ node[orderLocks[n]] = n
        BY <3>1, UserNode DEF LocksInv, MutexSound
      <3> QED
        BY <3>1, <3>2 DEF Locking
    <2> QED
      BY <2>2, <2>3, Exclusive DEF LocksSound
  <1> QED
    BY <1>1, LocksInvariant, PTL

----------------------------------------------------------------------------
(* The order.                                                              *)
(***************************************************************************)
\* Between the read of the order and the last write that depends on it.
Working == {"transaction", "saving", "crediting"}

LEMMA OrderInit == Init => RowInv /\ FreshInv /\ CreditInv /\ SuccessIsCredited
  BY DEF Init, RowInv, FreshInv, CreditInv, SuccessIsCredited

\* Steps on the mutexes, crashes and stuttering leave the order as it is, and
\* bring no handler between its read and its write.
LEMMA OrderLeft ==
    ASSUME Types, LocksInv, [Next]_vars, \A h \in Handlers : ~Works(h)
    PROVE  /\ UNCHANGED <<kind, node, rowLocks, status, credited>>
           /\ \A h \in Handlers : handler'[h].pc \in Working => handler'[h] = handler[h]
           /\ faults' = faults /\ (crashes' = crashes \/ crashes' > 0)
           /\ rowOwner' = rowOwner \/ (rowOwner' = None /\ rowOwner \in Handlers /\ handler'[rowOwner].pc = "lost")
           /\ \A h \in Handlers : handler[h].pc \in Working => handler'[h] = handler[h] \/ crashes' > 0
  <1>1. ASSUME NEW h \in Handlers, Locks(h)
        PROVE  /\ UNCHANGED <<kind, node, rowLocks, status, credited, rowOwner, faults, crashes>>
               /\ Alone(h) /\ handler[h].pc \notin Working /\ handler'[h].pc \notin Working
    <2>1. UNCHANGED <<kind, node, rowLocks, status, credited, rowOwner, faults, crashes>>
      BY <1>1 DEF Locks, RefMutex, LockMutex, UnlockMutex, UnrefMutex, scene, order
    <2>2. handler[h].pc \notin Working
      BY <1>1 DEF Locks, RefMutex, LockMutex, UnlockMutex, UnrefMutex, Working
    <2>3. Alone(h) /\ handler'[h].pc \in {"waiting", "locked", "counting", "done"}
      BY <1>1, RefMutexStep, LockMutexStep, UnlockMutexStep, UnrefMutexStep DEF Locks, Moves
    <2> QED
      BY <2>1, <2>2, <2>3 DEF Working
  <1>2. ASSUME NEW n \in Nodes, Crash(n)
        PROVE  /\ UNCHANGED <<kind, node, rowLocks, status, credited, faults>> /\ crashes' > 0
               /\ \A h \in Handlers : handler'[h].pc = "lost" \/ handler'[h] = handler[h]
               /\ rowOwner' = rowOwner \/ (rowOwner' = None /\ rowOwner \in Handlers /\ handler'[rowOwner].pc = "lost")
    <2>1. UNCHANGED <<kind, node, rowLocks, status, credited, faults>> /\ crashes' > 0
      BY <1>2 DEF Crash, scene, Types
    <2> QED
      BY <1>2, <2>1, CrashStep
  <1>3. CASE \E h \in Handlers : Locks(h)
    BY <1>1, <1>3 DEF Alone
  <1>4. CASE \E n \in Nodes : Crash(n)
    BY <1>2, <1>4 DEF Working
  <1>5. CASE UNCHANGED vars
    BY <1>5 DEF vars
  <1> QED
    BY <1>3, <1>4, <1>5, Steps

LEMMA RowNext ==
    ASSUME Types, LocksInv, RowInv, [Next]_vars
    PROVE  RowInv'
  <1>1. CASE \A h \in Handlers : ~Works(h)
    BY <1>1, OrderLeft DEF RowInv, Working
  <1>2. ASSUME NEW h \in Handlers, Works(h) PROVE RowInv'
    <2>1. UNCHANGED rowLocks
      BY <1>2 DEF Works, ReadInTransaction, Commit, ReadOrder, SaveOrder, IncreaseUserQuota, RefuseOrder,
                  scene
    <2>2. CASE ReadInTransaction(h)
      <3>1. rowLocks => rowOwner = None /\ rowOwner' = h
        BY <2>2 DEF ReadInTransaction
      <3>2. rowLocks => \A g \in Handlers : handler[g].pc # "transaction"
        BY <3>1, TopUpAssumption DEF RowInv
      <3> QED
        BY <2>1, <2>2, <3>1, <3>2, ReadInTransactionStep DEF RowInv, Moves, Alone
    <2>3. CASE Commit(h)
      <3>1. handler[h].pc = "transaction" /\ rowOwner' = IF rowOwner = h THEN None ELSE rowOwner
        BY <2>3 DEF Commit
      <3>2. Alone(h) /\ handler'[h].pc # "transaction"
        BY <2>3, CommitStep DEF Moves, Leave
      <3> QED
        BY <2>1, <3>1, <3>2 DEF RowInv, Alone
    <2>4. CASE ReadOrder(h) \/ SaveOrder(h) \/ IncreaseUserQuota(h) \/ RefuseOrder(h)
      <3>1. UNCHANGED rowOwner
        BY <2>4 DEF ReadOrder, SaveOrder, IncreaseUserQuota, RefuseOrder, order
      <3>2. Alone(h) /\ handler'[h].pc # "transaction"
        BY <2>4, ReadOrderStep, SaveOrderStep, IncreaseUserQuotaStep, RefuseOrderStep DEF Moves
      <3> QED
        BY <2>1, <3>1, <3>2 DEF RowInv, Alone
    <2> QED
      BY <1>2, <2>2, <2>3, <2>4 DEF Works
  <1> QED
    BY <1>1, <1>2

\* Where completion is serialised, only one handler is at work.
LEMMA OneAtWork ==
    ASSUME Types, LocksInv, RowInv, Serialised, NEW g \in Handlers, NEW h \in Handlers,
           handler[g].pc \in Working, handler[h].pc \in Working
    PROVE  g = h
  <1>1. CASE \A f, k \in Handlers : node[f] = node[k] /\ kind[f] \notin Unlocked
    BY <1>1, Exclusive DEF LockIsExclusive, Working
  <1>2. CASE rowLocks /\ \A f \in Handlers : kind[f] \notin Plain
    <2>1. handler[g].pc = "transaction" /\ handler[h].pc = "transaction"
      BY <1>2 DEF LocksInv, KindSound, Working, Plain
    <2> QED
      BY <1>2, <2>1 DEF RowInv
  <1> QED
    BY <1>1, <1>2 DEF Serialised

LEMMA FreshNext ==
    ASSUME Types, LocksInv, RowInv, FreshInv, [Next]_vars
    PROVE  FreshInv' /\ (Serialised /\ status # "pending" => status' = status)
  <1>1. CASE \A h \in Handlers : ~Works(h)
    <2>1. (Serialised' <=> Serialised) /\ UNCHANGED status
      BY <1>1, OrderLeft DEF Serialised
    <2> QED
      BY <1>1, <2>1, OrderLeft DEF FreshInv, Working
  <1>2. ASSUME NEW h \in Handlers, Works(h)
        PROVE  FreshInv' /\ (Serialised /\ status # "pending" => status' = status)
    <2>1. UNCHANGED <<kind, node, rowLocks>>
      BY <1>2 DEF Works, ReadInTransaction, Commit, ReadOrder, SaveOrder, IncreaseUserQuota, RefuseOrder,
                  scene
    <2>2. Serialised' <=> Serialised
      BY <2>1 DEF Serialised
    <2>3. CASE ~Serialised
      BY <2>2, <2>3 DEF FreshInv
    <2>4. CASE Serialised
      <3>1. CASE ReadInTransaction(h)
        <4>1. UNCHANGED status /\ Moves(h, "transaction") /\ handler'[h].copy = status
          BY <3>1, ReadInTransactionStep DEF ReadInTransaction
        <4> QED
          BY <2>4, <4>1 DEF FreshInv, Moves, Alone
      <3>2. CASE ReadOrder(h)
        <4>1. UNCHANGED status /\ Alone(h)
              /\ handler'[h].pc = IF status = "pending" THEN "saving" ELSE "leaving"
          BY <3>2, ReadOrderStep DEF ReadOrder, order, Moves
        <4> QED
          BY <2>4, <4>1 DEF FreshInv, Alone
      <3>3. CASE Commit(h) \/ SaveOrder(h) \/ IncreaseUserQuota(h)
        <4>1. handler[h].pc \in Working
          BY <3>3 DEF Commit, SaveOrder, IncreaseUserQuota, Working
        <4>2. \A g \in Handlers : g # h => handler[g].pc \notin Working
          BY <2>4, <4>1, OneAtWork
        <4>3. Alone(h) /\ handler'[h].pc \in {"leaving", "done", "crediting"}
          BY <3>3, CommitStep, SaveOrderStep, IncreaseUserQuotaStep DEF Moves, Leave
        <4>4. \A g \in Handlers : handler'[g].pc \notin {"transaction", "saving"}
          BY <4>2, <4>3 DEF Alone, Working
        <4>5. status # "pending" => status' = status
          BY <2>4, <3>3 DEF FreshInv, Commit, SaveOrder, IncreaseUserQuota
        <4> QED
          BY <4>4, <4>5 DEF FreshInv
      <3>4. ~RefuseOrder(h)
        BY <2>4 DEF Serialised, RefuseOrder, Plain, Unlocked
      <3> QED
        BY <1>2, <3>1, <3>2, <3>3, <3>4 DEF Works
    <2> QED
      BY <2>3, <2>4
  <1> QED
    BY <1>1, <1>2

\* Where what credits is serialised, only one such handler is at work.
LEMMA OnePaying ==
    ASSUME Types, LocksInv, RowInv, CreditsSerialised, NEW g \in Handlers, NEW h \in Handlers,
           Paying(g), Paying(h), handler[g].pc \in Working, handler[h].pc \in Working
    PROVE  g = h
  <1>1. CASE \A f, k \in {i \in Handlers : Paying(i)} : node[f] = node[k] /\ kind[f] # "redeem"
    <2>1. kind[g] \notin Unlocked /\ kind[h] \notin Unlocked /\ node[g] = node[h]
      BY <1>1 DEF Paying, Target, Unlocked
    <2> QED
      BY <2>1, Exclusive DEF LockIsExclusive, Working
  <1>2. CASE rowLocks /\ \A f \in {i \in Handlers : Paying(i)} : kind[f] # "epay"
    <2>1. ASSUME NEW f \in Handlers, Paying(f), handler[f].pc \in Working
          PROVE  handler[f].pc = "transaction"
      BY <1>2, <2>1 DEF LocksInv, KindSound, Working, Plain, Paying, Target
    <2>2. handler[g].pc = "transaction" /\ handler[h].pc = "transaction"
      BY <2>1
    <2> QED
      BY <1>2, <2>2 DEF RowInv
  <1> QED
    BY <1>1, <1>2 DEF CreditsSerialised, Paying

LEMMA CreditNext ==
    ASSUME Types, LocksInv, RowInv, CreditInv, [Next]_vars
    PROVE  CreditInv'
  <1>0. credited \in Nat
    BY DEF Types
  <1>1. CASE \A h \in Handlers : ~Works(h)
    <2>1. UNCHANGED <<kind, node, rowLocks, status, credited>>
      BY <1>1, OrderLeft
    <2>2. (CreditsSerialised' <=> CreditsSerialised) /\ \A h \in Handlers : Paying(h)' <=> Paying(h)
      BY <2>1 DEF CreditsSerialised, Paying, Target
    <2>3. \A h \in Handlers : handler'[h].pc \in Working => handler'[h] = handler[h]
      BY <1>1, OrderLeft
    <2> QED
      BY <2>1, <2>2, <2>3 DEF CreditInv, Working
  <1>2. ASSUME NEW h \in Handlers, Works(h) PROVE CreditInv'
    <2>1. UNCHANGED <<kind, node, rowLocks>>
      BY <1>2 DEF Works, ReadInTransaction, Commit, ReadOrder, SaveOrder, IncreaseUserQuota, RefuseOrder,
                  scene
    <2>2. (CreditsSerialised' <=> CreditsSerialised) /\ \A g \in Handlers : Paying(g)' <=> Paying(g)
      BY <2>1 DEF CreditsSerialised, Paying, Target
    <2>3. SUFFICES ASSUME CreditsSerialised PROVE CreditInv'
      BY <2>2 DEF CreditInv
    <2>4. CASE ReadInTransaction(h)
      <3>1. UNCHANGED <<status, credited>> /\ Moves(h, "transaction") /\ handler'[h].copy = status
        BY <2>4, ReadInTransactionStep DEF ReadInTransaction
      <3> QED
        BY <2>2, <2>3, <3>1 DEF CreditInv, Moves, Alone
    <2>5. CASE ReadOrder(h)
      <3>1. UNCHANGED <<status, credited>> /\ Alone(h)
            /\ handler'[h].pc = IF status = "pending" THEN "saving" ELSE "leaving"
        BY <2>5, ReadOrderStep DEF ReadOrder, order, Moves
      <3> QED
        BY <2>2, <2>3, <3>1 DEF CreditInv, Alone
    <2>6. CASE ~Paying(h) /\ (Commit(h) \/ SaveOrder(h) \/ IncreaseUserQuota(h) \/ RefuseOrder(h))
      <3>1. Alone(h)
        BY <2>6, CommitStep, SaveOrderStep, IncreaseUserQuotaStep, RefuseOrderStep DEF Moves
      <3>2. Credit(h) = 0 /\ Target(h) = "closed" /\ ~IncreaseUserQuota(h)
        BY <2>6 DEF Credit, Target, Paying, IncreaseUserQuota, LocksInv, KindSound
      <3>3. credited' = credited /\ (status' = status \/ status' = "closed")
        BY <1>0, <2>6, <3>2 DEF Commit, SaveOrder, RefuseOrder
      <3>4. \A g \in Handlers : Paying(g) => handler'[g] = handler[g]
        BY <2>6, <3>1 DEF Alone
      <3> QED
        BY <2>2, <2>3, <3>3, <3>4 DEF CreditInv
    <2>7. CASE Paying(h) /\ (Commit(h) \/ SaveOrder(h) \/ IncreaseUserQuota(h))
      <3>1. handler[h].pc \in Working
        BY <2>7 DEF Commit, SaveOrder, IncreaseUserQuota, Working
      <3>2. \A g \in Handlers : g # h /\ Paying(g) => handler[g].pc \notin Working
        BY <2>3, <2>7, <3>1, OnePaying
      <3>3. Alone(h) /\ handler'[h].pc \in {"leaving", "done", "crediting"}
        BY <2>7, CommitStep, SaveOrderStep, IncreaseUserQuotaStep DEF Moves, Leave
      <3>4. \A g \in Handlers : Paying(g) /\ handler'[g].pc \in Working
                                    => g = h /\ handler'[g].pc = "crediting"
        BY <3>2, <3>3 DEF Alone, Working
      <3>5. Target(h) = "success" /\ Credit(h) = 1
        BY <2>7 DEF Paying, Credit
      <3>6. CASE Commit(h)
        <4>1. handler'[h].pc # "crediting" /\ handler[h].pc = "transaction"
          BY <3>6, CommitStep DEF Moves, Leave, Commit
        <4>2. \A g \in Handlers : Paying(g) => handler'[g].pc \notin Working
          BY <3>4, <4>1
        <4>3. CASE UNCHANGED <<status, credited>>
          BY <2>2, <2>3, <4>2, <4>3 DEF CreditInv, Working
        <4>4. CASE handler[h].copy = "pending" /\ status' = Target(h) /\ credited' = credited + Credit(h)
          <5>1. credited = 0
            BY <2>3, <2>7, <4>1, <4>4 DEF CreditInv
          <5>2. status' # "pending" /\ credited' <= 1
            BY <3>5, <4>4, <5>1
          <5> QED
            BY <2>2, <4>2, <5>2 DEF CreditInv, Working
        <4> QED
          BY <3>6, <4>3, <4>4 DEF Commit
      <3>7. CASE SaveOrder(h)
        <4>1. handler[h].pc = "saving" /\ UNCHANGED credited
          BY <3>7 DEF SaveOrder
        <4>2. credited = 0
          BY <2>3, <2>7, <4>1 DEF CreditInv
        <4>3. CASE status' = Target(h)
          BY <2>2, <3>4, <3>5, <4>1, <4>2, <4>3 DEF CreditInv, Working
        <4>4. CASE Moves(h, "leaving") /\ status' = status
          BY <2>2, <3>4, <4>1, <4>2, <4>4 DEF CreditInv, Working, Moves
        <4> QED
          BY <3>7, <4>3, <4>4, SaveOrderStep
      <3>8. CASE IncreaseUserQuota(h)
        <4>1. /\ handler[h].pc = "crediting" /\ UNCHANGED status
              /\ credited' = credited \/ credited' = credited + 1
          BY <3>8 DEF IncreaseUserQuota
        <4>2. status # "pending" /\ credited = 0
          BY <2>3, <2>7, <4>1 DEF CreditInv
        <4>3. \A g \in Handlers : Paying(g) => handler'[g].pc \notin Working
          BY <3>4, <3>8, IncreaseUserQuotaStep DEF Moves
        <4> QED
          BY <2>2, <4>1, <4>2, <4>3 DEF CreditInv, Working
      <3> QED
        BY <2>7, <3>6, <3>7, <3>8
    <2>8. RefuseOrder(h) => ~Paying(h)
      BY DEF RefuseOrder, Paying, Target
    <2> QED
      BY <1>2, <2>4, <2>5, <2>6, <2>7, <2>8 DEF Works
  <1> QED
    BY <1>1, <1>2

LEMMA SuccessNext ==
    ASSUME Types, LocksInv, SuccessIsCredited, [Next]_vars
    PROVE  SuccessIsCredited'
  <1>0. credited \in Nat /\ faults \in Nat /\ crashes \in Nat
    BY TopUpAssumption DEF Types
  <1>1. CASE \A h \in Handlers : ~Works(h)
    BY <1>0, <1>1, OrderLeft DEF SuccessIsCredited, Working
  <1>2. ASSUME NEW h \in Handlers, Works(h) PROVE SuccessIsCredited'
    <2>1. UNCHANGED <<kind, crashes>>
      BY <1>2 DEF Works, ReadInTransaction, Commit, ReadOrder, SaveOrder, IncreaseUserQuota, RefuseOrder,
                  scene
    <2>2. faults' = faults \/ faults' > 0
      BY <1>2, FaultType DEF Works, ReadInTransaction, Commit, ReadOrder, SaveOrder,
         IncreaseUserQuota, RefuseOrder
    <2>3. CASE ReadInTransaction(h) \/ ReadOrder(h)
      <3>1. UNCHANGED <<status, credited>> /\ Alone(h) /\ handler[h].pc # "crediting" /\ faults' = faults
        BY <2>3, ReadInTransactionStep, ReadOrderStep DEF ReadInTransaction, ReadOrder, order, Moves
      <3> QED
        BY <2>1, <3>1 DEF SuccessIsCredited, Alone
    <2>4. CASE Commit(h)
      <3>1. Alone(h) /\ handler[h].pc # "crediting"
        BY <2>4, CommitStep DEF Moves, Commit
      <3>2. CASE UNCHANGED <<status, credited>>
        BY <2>1, <2>2, <3>1, <3>2 DEF SuccessIsCredited, Alone
      <3>3. CASE status' = Target(h) /\ credited' = credited + Credit(h)
        BY <1>0, <3>3 DEF SuccessIsCredited, Target, Credit
      <3> QED
        BY <2>4, <3>2, <3>3 DEF Commit
    <2>5. CASE SaveOrder(h)
      <3>1. handler[h].pc = "saving" /\ UNCHANGED credited /\ kind[h] \in Plain
        BY <2>5 DEF SaveOrder, LocksInv, KindSound
      <3>2. CASE status' = Target(h) /\ Moves(h, IF Credit(h) = 1 THEN "crediting" ELSE "leaving")
        BY <2>1, <3>1, <3>2 DEF SuccessIsCredited, Moves, Credit, Target, Plain
      <3>3. CASE status' = status /\ Moves(h, "leaving")
        BY <2>1, <2>2, <3>1, <3>3 DEF SuccessIsCredited, Moves, Alone
      <3> QED
        BY <2>5, <3>2, <3>3, SaveOrderStep
    <2>6. CASE IncreaseUserQuota(h)
      <3>1. kind[h] = "epay" /\ UNCHANGED status
        BY <2>6 DEF IncreaseUserQuota, LocksInv, KindSound
      <3>2. credited' = credited + 1 \/ faults' > 0
        BY <2>6, FaultType DEF IncreaseUserQuota
      <3> QED
        BY <1>0, <2>1, <3>1, <3>2 DEF SuccessIsCredited
    <2>7. CASE RefuseOrder(h)
      <3>1. Alone(h) /\ handler[h].pc # "crediting" /\ UNCHANGED credited /\ Target(h) = "closed"
        BY <2>7, RefuseOrderStep DEF RefuseOrder, Moves, Target
      <3>2. status' = "closed" \/ status' = status
        BY <2>7, <3>1, RefuseOrderStep
      <3> QED
        BY <2>1, <2>2, <3>1, <3>2 DEF SuccessIsCredited, Alone
    <2> QED
      BY <1>2, <2>3, <2>4, <2>5, <2>6, <2>7 DEF Works
  <1> QED
    BY <1>1, <1>2

(* TopUpInv holds in every reachable state, whatever the numbers of        *)
(* requests, nodes, faults and crashes.                                    *)
THEOREM TopUpInvariant == Spec => []TopUpInv
  <1>1. Init => TopUpInv
    BY TypesInit, LocksInit, OrderInit DEF TopUpInv
  <1>2. TopUpInv /\ [Next]_vars => TopUpInv'
    BY LocksNext, RowNext, FreshNext, CreditNext, SuccessNext DEF TopUpInv
  <1> QED
    BY <1>1, <1>2, PTL DEF Spec

(* Where the order's mutex or the row's lock serialises the handlers that  *)
(* credit it, an order is credited at most once, however many callbacks    *)
(* and requests of the administrator race and whatever failures are        *)
(* written without the mutex; and a paid order is credited, but for a      *)
(* fault or a crash between EpayNotify's two statements.                   *)
THEOREM CreditedExactlyWhenPaid == Spec => []CreditedOnce
  <1>1. TopUpInv => CreditedOnce
    BY DEF TopUpInv, CreditInv, CreditedOnce, CreditedAtMostOnce
  <1> QED
    BY <1>1, TopUpInvariant, PTL

(* Where all its handlers are serialised, Waffo's failures among them,     *)
(* what has been completed, expired or failed stays so: the status a       *)
(* handler read is still the order's when it writes.                       *)
THEOREM OutcomeStaysFinal == Spec => OutcomeIsFinal
  <1>1. TopUpInv /\ [Next]_vars => [Serialised /\ status # "pending" => status' = status]_vars
    BY FreshNext DEF TopUpInv
  <1> QED
    BY <1>1, TopUpInvariant, PTL DEF Spec, OutcomeIsFinal
=============================================================================
