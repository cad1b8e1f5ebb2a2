------------------------- MODULE TaskBilling_proofs -------------------------
(***************************************************************************)
(* Proofs about TaskBilling for any number of tasks, nodes and user        *)
(* requests, and any number of faults and crashes: video tasks are billed  *)
(* as TaskLifecycle says, a token never regains quota before its owner's   *)
(* funds do, and a Suno task is refunded once by one undisturbed master.   *)
(***************************************************************************)
EXTENDS TaskBilling, FiniteSetTheorems, TLAPS

USE TaskAssumption

Poller == [pc : {"sleep", "sweep", "poll", "funding", "token", "save"},
           todo : SUBSET Copy, cur : Tasks \cup {NoTask},
           kind : {"refund", "adjust"}, next : {"sweep", "poll", "save"}, copy : Row]
Kinds == {"refund", "adjust"}

----------------------------------------------------------------------------
(* The inductive invariant.                                                *)
(***************************************************************************)
\* Node n is between winning a row of t and the end of its billing.
Billing(n, t) == poller[n].pc \in {"funding", "token"} /\ poller[n].cur = t

One(kind) == [NoBills EXCEPT ![kind] = 1]

\* A poller works on a task, has listed only tasks that were unfinished, and
\* saves whole rows of Suno tasks only.
PollerSound(n) ==
    /\ poller[n].pc \in {"funding", "token", "save"} => poller[n].cur \in Tasks
    /\ poller[n].pc = "save" => platform[poller[n].cur] = "suno"
    /\ poller[n].pc \in {"funding", "token"} /\ poller[n].next = "save"
           => platform[poller[n].cur] = "suno"
    /\ \A item \in poller[n].todo : item.status \notin Ended

PollersSound == \A n \in Nodes : PollerSound(n)

FetchersSound ==
    \A f \in Fetchers : fetcher[f].task \in Tasks => platform[fetcher[f].task] = "realtime"

\* Nothing is billed for a video task that is open.  The one node that won its
\* row, and no other, bills it, and has not done so before.
GuardedSound(t) ==
    /\ row[t].status \notin Ended =>
           funds[t] = NoBills /\ tokens[t] = NoBills /\ \A n \in Nodes : ~Billing(n, t)
    /\ \A n \in Nodes : Billing(n, t) =>
           /\ \A m \in Nodes : Billing(m, t) => m = n
           /\ tokens[t] = NoBills
           /\ poller[n].pc = "funding" => funds[t] = NoBills
           /\ poller[n].pc = "token" => funds[t] = One(poller[n].kind)
           /\ poller[n].kind = "refund" => row[t].status = "FAILURE"
    /\ BilledAtMostOnce(funds[t]) /\ BilledAtMostOnce(tokens[t])

\* Nodes that have moved the funds and not yet the token.
Paying(t, kind) ==
    {n \in Nodes : poller[n].pc = "token" /\ poller[n].cur = t /\ poller[n].kind = kind}

TokensBehind ==
    \A t \in Tasks, kind \in Kinds :
        \/ tokens[t][kind] + Cardinality(Paying(t, kind)) <= funds[t][kind]
        \/ funds[t][kind] = MaxBills

TaskInv ==
    /\ TypeOK
    /\ PollersSound
    /\ FetchersSound
    /\ \A t \in Guarded : GuardedSound(t)
    /\ TokensBehind

----------------------------------------------------------------------------
(* Types.                                                                  *)
(***************************************************************************)
LEMMA RowWithType == \A status \in Status : RowWith(status) \in Row
  BY DEF RowWith, Row

LEMMA RestingType == Resting \in Poller
  BY RowWithType DEF Resting, Poller, Status

LEMMA TaskTypeInit == Init => TypeOK
  <1>1. RowWith("NOT_START") \in Row
    BY RowWithType DEF Status
  <1>2. NoBills \in Bills
    BY DEF NoBills, Bills
  <1>3. NoFetch \in [task : Tasks \cup {NoTask}, status : Status]
    BY DEF NoFetch, Status
  <1> QED
    BY <1>1, <1>2, <1>3, RestingType DEF Init, TypeOK, Poller

\* What a poller's item says of the task it copies.
LEMMA ItemType ==
    ASSUME TypeOK, NEW n \in Nodes, NEW item \in poller[n].todo
    PROVE  item \in Copy /\ item.task \in Tasks /\ item.status \in Status
  <1>1. poller[n].todo \in SUBSET Copy
    BY DEF TypeOK
  <1> QED
    BY <1>1 DEF Copy

LEMMA AnswerType ==
    ASSUME TypeOK, NEW t \in Tasks
    PROVE  Answer(t) \in Status
  BY DEF TypeOK, Answer, Status, Ended

LEMMA CopiesType ==
    ASSUME TypeOK, NEW S \in SUBSET Tasks
    PROVE  Copies(S) \in SUBSET Copy
  BY DEF TypeOK, Copies, Copy, Row

LEMMA UpdateType ==
    ASSUME TypeOK, NEW item, item.task \in Tasks, NEW status \in Status,
           UpdateWithStatus(item, RowWith(status))
    PROVE  row' \in [Tasks -> Row]
  BY RowWithType DEF TypeOK, UpdateWithStatus

LEMMA FaultType ==
    ASSUME TypeOK, Fault
    PROVE  faults' \in 0..MaxFaults
  BY DEF TypeOK, Fault

\* One poller's record is replaced.
LEMMA PollerReplaced ==
    ASSUME TypeOK, NEW n \in Nodes, NEW q \in Poller, poller' = [poller EXCEPT ![n] = q]
    PROVE  /\ poller' \in [Nodes -> Poller]
           /\ poller'[n] = q
           /\ \A m \in Nodes : m # n => poller'[m] = poller[m]
  <1>1. poller \in [Nodes -> Poller]
    BY DEF TypeOK, Poller
  <1> QED
    BY <1>1

LEMMA PollerTyped ==
    ASSUME TypeOK, NEW n \in Nodes
    PROVE  poller[n] \in Poller
  BY DEF TypeOK, Poller

LEMMA ListedStep ==
    ASSUME TypeOK, NEW n \in Nodes, NEW pc \in {"sweep", "poll"}, NEW S \in SUBSET Tasks,
           Listed(n, pc, S)
    PROVE  /\ poller' \in [Nodes -> Poller]
           /\ poller'[n] = [poller[n] EXCEPT !.pc = pc, !.todo = Copies(S)]
           /\ \A m \in Nodes : m # n => poller'[m] = poller[m]
  <1> DEFINE q == [poller[n] EXCEPT !.pc = pc, !.todo = Copies(S)]
  <1>1. q \in Poller
    BY CopiesType, PollerTyped DEF Poller
  <1>2. poller' = [poller EXCEPT ![n] = q]
    BY DEF Listed
  <1> QED
    BY <1>1, <1>2, PollerReplaced

LEMMA SkipStep ==
    ASSUME TypeOK, NEW n \in Nodes, NEW item, Skip(n, item)
    PROVE  /\ poller' \in [Nodes -> Poller]
           /\ poller'[n] = [poller[n] EXCEPT !.todo = @ \ {item}]
           /\ \A m \in Nodes : m # n => poller'[m] = poller[m]
  <1> DEFINE q == [poller[n] EXCEPT !.todo = @ \ {item}]
  <1>1. q \in Poller
    BY PollerTyped DEF Poller
  <1>2. poller' = [poller EXCEPT ![n] = q]
    BY DEF Skip
  <1> QED
    BY <1>1, <1>2, PollerReplaced

LEMMA BillStep ==
    ASSUME TypeOK, NEW n \in Nodes, NEW item, item.task \in Tasks, NEW kind \in Kinds,
           NEW next \in {"sweep", "poll"}, Bill(n, item, kind, next)
    PROVE  /\ poller' \in [Nodes -> Poller]
           /\ poller'[n].pc = "funding" /\ poller'[n].todo = poller[n].todo \ {item}
           /\ poller'[n].cur = item.task /\ poller'[n].kind = kind /\ poller'[n].next = next
           /\ \A m \in Nodes : m # n => poller'[m] = poller[m]
  <1> DEFINE q == [poller[n] EXCEPT !.todo = @ \ {item}, !.pc = "funding",
                                !.cur = item.task, !.kind = kind, !.next = next]
  <1>1. q \in Poller
    BY PollerTyped DEF Poller, Kinds
  <1>2. poller' = [poller EXCEPT ![n] = q]
    BY DEF Bill
  <1>3. /\ q.pc = "funding" /\ q.todo = poller[n].todo \ {item}
        /\ q.cur = item.task /\ q.kind = kind /\ q.next = next
    BY PollerTyped DEF Poller
  <1> HIDE DEF q
  <1> QED
    BY <1>1, <1>2, <1>3, PollerReplaced

LEMMA PcStep ==
    ASSUME TypeOK, NEW n \in Nodes,
           NEW pc \in {"sleep", "sweep", "poll", "funding", "token", "save"},
           poller' = [poller EXCEPT ![n].pc = pc]
    PROVE  /\ poller' \in [Nodes -> Poller]
           /\ poller'[n] = [poller[n] EXCEPT !.pc = pc]
           /\ \A m \in Nodes : m # n => poller'[m] = poller[m]
  <1> DEFINE q == [poller[n] EXCEPT !.pc = pc]
  <1>1. q \in Poller
    BY PollerTyped DEF Poller
  <1>2. poller' = [poller EXCEPT ![n] = q]
    OBVIOUS
  <1> QED
    BY <1>1, <1>2, PollerReplaced

----------------------------------------------------------------------------
(* What a step does to rows and bills, in four shapes.                     *)
(***************************************************************************)
Others(n) == \A m \in Nodes : m # n => poller'[m] = poller[m]

\* At most one row is written: an ended one only to FAILURE.
RowQuiet ==
    \/ \A t \in Guarded : row'[t] = row[t]
    \/ \E t \in Guarded, r \in Row :
        /\ row' = [row EXCEPT ![t] = r]
        /\ r.status = "FAILURE" \/ row[t].status \notin Ended

\* No bill of a video task begins, and none of any task moves funds or tokens.
Quiet ==
    /\ UNCHANGED <<funds, tokens>>
    /\ RowQuiet
    /\ \A n \in Nodes : poller'[n].pc \in {"funding", "token"} =>
           \/ poller'[n] = poller[n]
           \/ poller'[n].pc = "funding" /\ poller'[n].cur \notin Guarded

\* Node n's compare-and-swap ends t's row, and n turns to the bill.
Wins(n, t, kind) ==
    /\ UNCHANGED <<funds, tokens>>
    /\ row[t].status \notin Ended
    /\ row' = [row EXCEPT ![t] = RowWith(IF kind = "refund" THEN "FAILURE" ELSE "SUCCESS")]
    /\ poller[n].pc \in {"sweep", "poll"}
    /\ poller'[n].pc = "funding" /\ poller'[n].cur = t /\ poller'[n].kind = kind
    /\ Others(n)

MovesFunds(n) ==
    /\ UNCHANGED <<row, tokens>>
    /\ poller[n].pc = "funding"
    /\ poller'[n] = [poller[n] EXCEPT !.pc = "token"]
    /\ funds' = [funds EXCEPT ![poller[n].cur][poller[n].kind] = More(@)]
    /\ Others(n)

MovesToken(n) ==
    /\ UNCHANGED <<row, funds>>
    /\ poller[n].pc = "token"
    /\ poller'[n] = [poller[n] EXCEPT !.pc = poller[n].next]
    /\ tokens' = [tokens EXCEPT ![poller[n].cur][poller[n].kind] = More(@)]
    /\ Others(n)

Shape ==
    \/ Quiet
    \/ \E n \in Nodes, t \in Tasks, kind \in Kinds : Wins(n, t, kind)
    \/ \E n \in Nodes : MovesFunds(n) \/ MovesToken(n)

StepSound ==
    /\ TypeOK'
    /\ platform' = platform
    /\ PollersSound'
    /\ FetchersSound'
    /\ Shape

\* A write of one row, video tasks' rows as RowQuiet says.
LEMMA RowWritten ==
    ASSUME TypeOK, NEW t \in Tasks, NEW r \in Row, row' = [row EXCEPT ![t] = r],
           t \in Guarded => r.status = "FAILURE" \/ row[t].status \notin Ended
    PROVE  row' \in [Tasks -> Row] /\ RowQuiet
  <1>1. row' \in [Tasks -> Row]
    BY DEF TypeOK
  <1>2. CASE t \in Guarded
    BY <1>1, <1>2 DEF RowQuiet
  <1>3. CASE t \notin Guarded
    BY <1>1, <1>3 DEF RowQuiet, TypeOK, Guarded
  <1> QED
    BY <1>1, <1>2, <1>3

LEMMA RowKept ==
    ASSUME TypeOK, UNCHANGED row
    PROVE  row' \in [Tasks -> Row] /\ RowQuiet
  BY DEF TypeOK, RowQuiet

\* A poller's step that begins no bill.
LEMMA QuietPoller ==
    ASSUME TypeOK, NEW n \in Nodes, Others(n), UNCHANGED <<funds, tokens>>, RowQuiet,
           poller'[n].pc \notin {"funding", "token"}
               \/ (poller'[n].pc = "funding" /\ poller'[n].cur \notin Guarded)
    PROVE  Quiet
  BY DEF Quiet, Others

LEMMA SoundOne ==
    ASSUME PollersSound, platform' = platform, NEW n \in Nodes, Others(n), PollerSound(n)'
    PROVE  PollersSound'
  BY DEF PollersSound, PollerSound, Others

LEMMA FetchersKept ==
    ASSUME FetchersSound, UNCHANGED <<platform, fetcher>>
    PROVE  FetchersSound'
  BY DEF FetchersSound

\* A new list holds unfinished tasks only.
LEMMA CopiesOpen ==
    ASSUME TypeOK, NEW S \in SUBSET Tasks, \A t \in S : Unfinished(t)
    PROVE  \A item \in Copies(S) : item.status \notin Ended
  BY DEF Copies, Unfinished

LEMMA ListedSound ==
    ASSUME TypeOK, PollersSound, FetchersSound, NEW n \in Nodes, NEW pc \in {"sweep", "poll"},
           NEW S \in SUBSET Tasks, \A t \in S : Unfinished(t), Listed(n, pc, S),
           UNCHANGED <<deployment, row, world, fetcher, funds, tokens, bounds>>
    PROVE  StepSound
  <1>1. /\ poller' \in [Nodes -> Poller]
        /\ poller'[n] = [poller[n] EXCEPT !.pc = pc, !.todo = Copies(S)]
        /\ Others(n)
    BY ListedStep DEF Others
  <1>2. poller'[n].pc = pc /\ poller'[n].todo = Copies(S)
    BY <1>1, PollerTyped DEF Poller
  <1>3. TypeOK'
    BY <1>1 DEF TypeOK, Poller, deployment, world, bounds
  <1>4. PollerSound(n)'
    BY <1>2, CopiesOpen DEF PollerSound, deployment
  <1>5. PollersSound'
    BY <1>1, <1>4, SoundOne DEF deployment
  <1>6. FetchersSound'
    BY FetchersKept DEF deployment
  <1>7. Quiet
    BY <1>1, <1>2, QuietPoller, RowKept
  <1> QED
    BY <1>3, <1>5, <1>6, <1>7 DEF StepSound, Shape, deployment

LEMMA RestSound ==
    ASSUME TypeOK, PollersSound, FetchersSound, NEW n \in Nodes,
           poller' = [poller EXCEPT ![n] = Resting], crashes' \in 0..MaxCrashes,
           UNCHANGED <<deployment, row, world, fetcher, funds, tokens, faults, fetches>>
    PROVE  StepSound
  <1>1. /\ poller' \in [Nodes -> Poller]
        /\ poller'[n] = Resting
        /\ Others(n)
    BY PollerReplaced, RestingType DEF Others
  <1>2. poller'[n].pc = "sleep" /\ poller'[n].todo = {}
    BY <1>1 DEF Resting
  <1>3. TypeOK'
    BY <1>1 DEF TypeOK, Poller, deployment, world
  <1>4. PollerSound(n)'
    BY <1>2 DEF PollerSound
  <1>5. PollersSound'
    BY <1>1, <1>4, SoundOne DEF deployment
  <1>6. FetchersSound'
    BY FetchersKept DEF deployment
  <1>7. Quiet
    BY <1>1, <1>2, QuietPoller, RowKept
  <1> QED
    BY <1>3, <1>5, <1>6, <1>7 DEF StepSound, Shape, deployment

\* An item is dropped from the list, with or without a write of its row.
LEMMA SkipSound ==
    ASSUME TypeOK, PollersSound, FetchersSound, NEW n \in Nodes, NEW item, Skip(n, item),
           poller[n].pc \in {"sweep", "poll"}, row' \in [Tasks -> Row], RowQuiet,
           faults' \in 0..MaxFaults,
           UNCHANGED <<deployment, world, fetcher, funds, tokens, crashes, fetches>>
    PROVE  StepSound
  <1>1. /\ poller' \in [Nodes -> Poller]
        /\ poller'[n] = [poller[n] EXCEPT !.todo = @ \ {item}]
        /\ Others(n)
    BY SkipStep DEF Others
  <1>2. poller'[n].pc = poller[n].pc /\ poller'[n].todo = poller[n].todo \ {item}
    BY <1>1, PollerTyped DEF Poller
  <1>3. TypeOK'
    BY <1>1 DEF TypeOK, Poller, deployment, world
  <1>4. PollerSound(n)'
    BY <1>2 DEF PollerSound, PollersSound
  <1>5. PollersSound'
    BY <1>1, <1>4, SoundOne DEF deployment
  <1>6. FetchersSound'
    BY FetchersKept DEF deployment
  <1>7. Quiet
    BY <1>1, <1>2, QuietPoller
  <1> QED
    BY <1>3, <1>5, <1>6, <1>7 DEF StepSound, Shape, deployment

LEMMA BillSound ==
    ASSUME TypeOK, PollersSound, FetchersSound, NEW n \in Nodes, NEW item \in poller[n].todo,
           NEW kind \in Kinds, NEW next \in {"sweep", "poll"}, poller[n].pc \in {"sweep", "poll"},
           Won(item), Bill(n, item, kind, next),
           UpdateWithStatus(item, RowWith(IF kind = "refund" THEN "FAILURE" ELSE "SUCCESS")),
           UNCHANGED <<deployment, world, fetcher, funds, tokens, bounds>>
    PROVE  StepSound
  <1>0. item.task \in Tasks /\ item.status \in Status /\ item.status \notin Ended
    BY ItemType DEF PollersSound, PollerSound
  <1>1. poller' \in [Nodes -> Poller] /\ Others(n)
    BY <1>0, BillStep DEF Others
  <1>2. /\ poller'[n].pc = "funding" /\ poller'[n].todo = poller[n].todo \ {item}
        /\ poller'[n].cur = item.task /\ poller'[n].kind = kind /\ poller'[n].next = next
    BY <1>0, BillStep
  <1> DEFINE r == RowWith(IF kind = "refund" THEN "FAILURE" ELSE "SUCCESS")
  <1>3. row' = [row EXCEPT ![item.task] = r] /\ r \in Row
    BY RowWithType DEF UpdateWithStatus, Status, Ended
  <1>4. row' \in [Tasks -> Row]
    BY <1>0, <1>3 DEF TypeOK
  <1>5. TypeOK'
    BY <1>1, <1>4 DEF TypeOK, Poller, deployment, world, bounds
  <1>6. PollerSound(n)'
    BY <1>0, <1>2 DEF PollerSound, PollersSound
  <1>7. PollersSound'
    BY <1>1, <1>6, SoundOne DEF deployment
  <1>8. FetchersSound'
    BY FetchersKept DEF deployment
  <1>9. Wins(n, item.task, kind)
    BY <1>0, <1>1, <1>2, <1>3 DEF Wins, Won
  <1> QED
    BY <1>0, <1>5, <1>7, <1>8, <1>9 DEF StepSound, Shape, deployment

LEMMA TimeOutSound ==
    ASSUME TypeOK, PollersSound, FetchersSound, NEW n \in Nodes, NEW item \in poller[n].todo,
           TimeOut(n, item)
    PROVE  StepSound
  <1>1. poller[n].pc \in {"sweep", "poll"} /\ UNCHANGED <<deployment, world, fetcher, funds, tokens, crashes, fetches>>
    BY DEF TimeOut
  <1>2. CASE UpdateWithStatus(item, RowWith("FAILURE")) /\ Won(item)
             /\ Bill(n, item, "refund", "sweep") /\ UNCHANGED faults
    BY <1>1, <1>2, BillSound DEF Kinds, bounds
  <1>3. CASE UpdateWithStatus(item, RowWith("FAILURE")) /\ ~Won(item)
             /\ Skip(n, item) /\ UNCHANGED faults
    <2>1. UNCHANGED row /\ faults' \in 0..MaxFaults
      BY <1>3 DEF UpdateWithStatus, TypeOK
    <2> QED
      BY <1>1, <1>3, <2>1, RowKept, SkipSound
  <1>4. CASE Fault /\ Skip(n, item) /\ UNCHANGED row
    BY <1>1, <1>4, FaultType, RowKept, SkipSound
  <1> QED
    BY <1>2, <1>3, <1>4 DEF TimeOut

LEMMA ChannelLostSound ==
    ASSUME TypeOK, PollersSound, FetchersSound, NEW n \in Nodes, NEW item \in poller[n].todo,
           ChannelLost(n, item)
    PROVE  StepSound
  <1>1. /\ poller[n].pc \in {"sweep", "poll"} /\ Skip(n, item)
        /\ UNCHANGED <<deployment, world, fetcher, funds, tokens, crashes, fetches>>
    BY DEF ChannelLost
  <1>2. CASE row' = [row EXCEPT ![item.task] = RowWith("FAILURE")] /\ UNCHANGED faults
    <2>1. item.task \in Tasks /\ RowWith("FAILURE") \in Row /\ RowWith("FAILURE").status = "FAILURE"
      BY ItemType, RowWithType DEF RowWith, Status, Ended
    <2>2. row' \in [Tasks -> Row] /\ RowQuiet
      BY <1>2, <2>1, RowWritten
    <2>3. faults' \in 0..MaxFaults
      BY <1>2 DEF TypeOK
    <2> QED
      BY <1>1, <2>2, <2>3, SkipSound
  <1>3. CASE Fault /\ UNCHANGED row
    BY <1>1, <1>3, FaultType, RowKept, SkipSound
  <1> QED
    BY <1>2, <1>3 DEF ChannelLost

LEMMA PollVideoSound ==
    ASSUME TypeOK, PollersSound, FetchersSound, NEW n \in Nodes, NEW item \in poller[n].todo,
           PollVideo(n, item)
    PROVE  StepSound
  <1>0. item.task \in Tasks /\ item.status \in Status /\ item.status \notin Ended
    BY ItemType DEF PollersSound, PollerSound
  <1>1. /\ poller[n].pc \in {"sweep", "poll"}
        /\ UNCHANGED <<deployment, world, fetcher, funds, tokens, crashes, fetches>>
    BY DEF PollVideo
  <1>2. PICK status \in {Answer(item.task), "FAILURE"} :
            \/ /\ UpdateWithStatus(item, RowWith(status))
               /\ \/ status = "FAILURE" /\ Won(item) /\ Bill(n, item, "refund", "poll")
                  \/ status = "SUCCESS" /\ Won(item) /\ Bill(n, item, "adjust", "poll")
                  \/ (status # "FAILURE" \/ ~Won(item)) /\ Skip(n, item)
               /\ UNCHANGED faults
            \/ Fault /\ Skip(n, item) /\ UNCHANGED row
    BY DEF PollVideo
  <1>3. CASE UpdateWithStatus(item, RowWith(status)) /\ status = "FAILURE" /\ Won(item)
             /\ Bill(n, item, "refund", "poll") /\ UNCHANGED faults
    BY <1>1, <1>3, BillSound DEF Kinds, bounds
  <1>4. CASE UpdateWithStatus(item, RowWith(status)) /\ status = "SUCCESS" /\ Won(item)
             /\ Bill(n, item, "adjust", "poll") /\ UNCHANGED faults
    BY <1>1, <1>4, BillSound DEF Kinds, bounds
  <1>5. CASE UpdateWithStatus(item, RowWith(status)) /\ ~Won(item) /\ Skip(n, item) /\ UNCHANGED faults
    <2>1. UNCHANGED row /\ faults' \in 0..MaxFaults
      BY <1>5 DEF UpdateWithStatus, TypeOK
    <2> QED
      BY <1>1, <1>5, <2>1, RowKept, SkipSound
  <1>6. CASE UpdateWithStatus(item, RowWith(status)) /\ Won(item) /\ status # "FAILURE"
             /\ Skip(n, item) /\ UNCHANGED faults
    <2>1. RowWith(status) \in Row /\ row' = [row EXCEPT ![item.task] = RowWith(status)]
      BY <1>0, <1>6, AnswerType, RowWithType DEF UpdateWithStatus, Status, Ended
    <2>2. faults' \in 0..MaxFaults
      BY <1>6 DEF TypeOK
    <2>3. row[item.task].status \notin Ended
      BY <1>0, <1>6 DEF Won
    <2>4. row' \in [Tasks -> Row] /\ RowQuiet
      BY <1>0, <2>1, <2>3, RowWritten
    <2> QED
      BY <1>1, <1>6, <2>2, <2>4, SkipSound
  <1>7. CASE Fault /\ Skip(n, item) /\ UNCHANGED row
    BY <1>1, <1>7, FaultType, RowKept, SkipSound
  <1> QED
    BY <1>2, <1>3, <1>4, <1>5, <1>6, <1>7

LEMMA PollSunoSound ==
    ASSUME TypeOK, PollersSound, FetchersSound, NEW n \in Nodes, NEW item \in poller[n].todo,
           PollSuno(n, item)
    PROVE  StepSound
  <1>0. item.task \in Tasks /\ item.status \in Status
    BY ItemType
  <1>1. PICK status \in Status, pc \in {"funding", "save"}, full \in BOOLEAN :
            poller' = [poller EXCEPT ![n].todo = @ \ {item}, ![n].cur = item.task, ![n].pc = pc,
                           ![n].kind = "refund", ![n].next = "save",
                           ![n].copy = [status |-> status, full |-> full]]
    <2>1. PICK reason \in {FALSE, upstream[item.task] = "FAILURE"} :
            LET status == IF upstream[item.task] = "FAILURE" /\ reason THEN item.status
                          ELSE Answer(item.task)
                failed == reason \/ status = "FAILURE"
            IN  poller' = [poller EXCEPT
                    ![n].todo = @ \ {item}, ![n].cur = item.task,
                    ![n].pc = IF failed THEN "funding" ELSE "save",
                    ![n].kind = "refund", ![n].next = "save",
                    ![n].copy = [status |-> status, full |-> failed \/ status = "SUCCESS"]]
      BY DEF PollSuno
    <2> DEFINE status == IF upstream[item.task] = "FAILURE" /\ reason THEN item.status
                         ELSE Answer(item.task)
               failed == reason \/ status = "FAILURE"
               pc == IF failed THEN "funding" ELSE "save"
               full == failed \/ status = "SUCCESS"
    <2>2. status \in Status
      BY <1>0, AnswerType
    <2>3. pc \in {"funding", "save"} /\ full \in BOOLEAN
      OBVIOUS
    <2>4. poller' = [poller EXCEPT ![n].todo = @ \ {item}, ![n].cur = item.task, ![n].pc = pc,
                         ![n].kind = "refund", ![n].next = "save",
                         ![n].copy = [status |-> status, full |-> full]]
      BY <2>1
    <2> HIDE DEF status, pc, full
    <2> QED
      BY <2>2, <2>3, <2>4
  <1> DEFINE q == [poller[n] EXCEPT !.todo = @ \ {item}, !.cur = item.task, !.pc = pc,
                       !.kind = "refund", !.next = "save",
                       !.copy = [status |-> status, full |-> full]]
  <1>2. q \in Poller
    BY <1>0, PollerTyped DEF Poller, Row
  <1>3. poller' = [poller EXCEPT ![n] = q]
    BY <1>1
  <1>4. /\ q.pc = pc /\ q.todo = poller[n].todo \ {item} /\ q.cur = item.task /\ q.next = "save"
    BY PollerTyped DEF Poller
  <1> HIDE DEF q
  <1>5. poller' \in [Nodes -> Poller] /\ poller'[n] = q /\ Others(n)
    BY <1>2, <1>3, PollerReplaced DEF Others
  <1>6. /\ platform[item.task] = "suno"
        /\ UNCHANGED <<deployment, row, world, fetcher, funds, tokens, bounds>>
    BY DEF PollSuno
  <1>7. TypeOK'
    BY <1>5, <1>6 DEF TypeOK, Poller, deployment, world, bounds
  <1>8. PollerSound(n)'
    BY <1>0, <1>4, <1>5, <1>6 DEF PollerSound, PollersSound, deployment
  <1>9. PollersSound'
    BY <1>5, <1>6, <1>8, SoundOne DEF deployment
  <1>10. FetchersSound'
    BY <1>6, FetchersKept DEF deployment
  <1>11. Quiet
    BY <1>4, <1>5, <1>6, QuietPoller, RowKept DEF Guarded
  <1> QED
    BY <1>6, <1>7, <1>9, <1>10, <1>11 DEF StepSound, Shape, deployment

LEMMA SaveTaskSound ==
    ASSUME TypeOK, PollersSound, FetchersSound, NEW n \in Nodes, SaveTask(n)
    PROVE  StepSound
  <1>1. /\ poller[n].pc = "save" /\ poller' = [poller EXCEPT ![n].pc = "poll"]
        /\ UNCHANGED <<deployment, world, fetcher, funds, tokens, crashes, fetches>>
    BY DEF SaveTask
  <1>2. poller[n].cur \in Tasks /\ poller[n].cur \notin Guarded /\ poller[n].copy \in Row
    BY <1>1, PollerTyped DEF PollersSound, PollerSound, Guarded, Poller
  <1>3. row' \in [Tasks -> Row] /\ RowQuiet /\ faults' \in 0..MaxFaults
    <2>1. CASE row' = [row EXCEPT ![poller[n].cur] = poller[n].copy] /\ UNCHANGED faults
      BY <1>2, <2>1, RowWritten DEF TypeOK
    <2>2. CASE Fault /\ UNCHANGED row
      BY <2>2, FaultType, RowKept
    <2> QED
      BY <2>1, <2>2 DEF SaveTask
  <1>4. /\ poller' \in [Nodes -> Poller]
        /\ poller'[n] = [poller[n] EXCEPT !.pc = "poll"]
        /\ Others(n)
    BY <1>1, PcStep DEF Others
  <1>5. poller'[n].pc = "poll" /\ poller'[n].todo = poller[n].todo
    BY <1>4, PollerTyped DEF Poller
  <1>6. TypeOK'
    BY <1>1, <1>3, <1>4 DEF TypeOK, Poller, deployment, world
  <1>7. PollerSound(n)'
    BY <1>5 DEF PollerSound, PollersSound
  <1>8. PollersSound'
    BY <1>1, <1>4, <1>7, SoundOne DEF deployment
  <1>9. FetchersSound'
    BY <1>1, FetchersKept DEF deployment
  <1>10. Quiet
    BY <1>1, <1>3, <1>4, <1>5, QuietPoller
  <1> QED
    BY <1>1, <1>6, <1>8, <1>9, <1>10 DEF StepSound, Shape, deployment

LEMMA MoreType ==
    ASSUME NEW b \in [Tasks -> Bills], NEW t \in Tasks, NEW kind \in Kinds
    PROVE  [b EXCEPT ![t][kind] = More(@)] \in [Tasks -> Bills]
  <1>1. b[t] \in [Kinds -> 0..MaxBills]
    BY DEF Bills, Kinds
  <1> QED
    BY <1>1 DEF Bills, Kinds, More

\* A poller in the middle of a bill goes on, to its token or to what comes next.
LEMMA BillGoesOn ==
    ASSUME TypeOK, PollersSound, FetchersSound, NEW n \in Nodes,
           poller[n].pc \in {"funding", "token"}, NEW pc \in {"token", poller[n].next},
           poller' = [poller EXCEPT ![n].pc = pc],
           funds' \in [Tasks -> Bills], tokens' \in [Tasks -> Bills], faults' \in 0..MaxFaults,
           UNCHANGED <<deployment, row, world, fetcher, crashes, fetches>>
    PROVE  /\ TypeOK' /\ platform' = platform /\ PollersSound' /\ FetchersSound'
           /\ Others(n) /\ poller'[n] = [poller[n] EXCEPT !.pc = pc] /\ poller'[n].pc = pc
  <1>1. pc \in {"sleep", "sweep", "poll", "funding", "token", "save"}
    BY PollerTyped DEF Poller
  <1>2. /\ poller' \in [Nodes -> Poller]
        /\ poller'[n] = [poller[n] EXCEPT !.pc = pc]
        /\ Others(n)
    BY <1>1, PcStep DEF Others
  <1>3. /\ poller'[n].pc = pc /\ poller'[n].todo = poller[n].todo /\ poller'[n].cur = poller[n].cur
        /\ poller'[n].next = poller[n].next
    BY <1>2, PollerTyped DEF Poller
  <1>4. TypeOK'
    BY <1>2 DEF TypeOK, Poller, deployment, world
  <1>5. PollerSound(n)'
    <2>1. pc = "token" \/ pc = poller[n].next
      OBVIOUS
    <2>2. PollerSound(n)
      BY DEF PollersSound
    <2>3. platform' = platform
      BY DEF deployment
    <2> QED
      BY <1>3, <2>1, <2>2, <2>3 DEF PollerSound
  <1>6. PollersSound'
    BY <1>2, <1>5, SoundOne DEF deployment
  <1>7. FetchersSound'
    BY FetchersKept DEF deployment
  <1> QED
    BY <1>2, <1>3, <1>4, <1>6, <1>7 DEF deployment

LEMMA NextPc ==
    ASSUME TypeOK, NEW n \in Nodes
    PROVE  poller[n].next \notin {"funding", "token"}
  BY PollerTyped DEF Poller

LEMMA AdjustFundingSound ==
    ASSUME TypeOK, PollersSound, FetchersSound, NEW n \in Nodes, AdjustFunding(n)
    PROVE  StepSound
  <1>1. /\ poller[n].pc = "funding"
        /\ UNCHANGED <<deployment, row, world, fetcher, tokens, crashes, fetches>>
    BY DEF AdjustFunding
  <1>2. poller[n].cur \in Tasks /\ poller[n].kind \in Kinds
    BY <1>1, PollerTyped DEF PollersSound, PollerSound, Poller, Kinds
  <1>3. CASE /\ funds' = [funds EXCEPT ![poller[n].cur][poller[n].kind] = More(@)]
             /\ poller' = [poller EXCEPT ![n].pc = "token"]
             /\ UNCHANGED faults
    <2>1. /\ funds' \in [Tasks -> Bills] /\ tokens' \in [Tasks -> Bills] /\ faults' \in 0..MaxFaults
      BY <1>1, <1>2, <1>3, MoreType DEF TypeOK
    <2>2. /\ TypeOK' /\ platform' = platform /\ PollersSound' /\ FetchersSound'
          /\ Others(n) /\ poller'[n] = [poller[n] EXCEPT !.pc = "token"]
      BY <1>1, <1>3, <2>1, BillGoesOn
    <2>3. MovesFunds(n)
      BY <1>1, <1>3, <2>2 DEF MovesFunds
    <2> QED
      BY <2>2, <2>3 DEF StepSound, Shape
  <1>4. CASE Fault /\ poller' = [poller EXCEPT ![n].pc = poller[n].next] /\ UNCHANGED funds
    <2>1. /\ funds' \in [Tasks -> Bills] /\ tokens' \in [Tasks -> Bills] /\ faults' \in 0..MaxFaults
      BY <1>1, <1>4, FaultType DEF TypeOK
    <2>2. /\ TypeOK' /\ platform' = platform /\ PollersSound' /\ FetchersSound'
          /\ Others(n) /\ poller'[n].pc = poller[n].next
      BY <1>1, <1>4, <2>1, BillGoesOn
    <2>3. Quiet
      BY <1>1, <1>4, <2>2, NextPc, RowKept, QuietPoller
    <2> QED
      BY <2>2, <2>3 DEF StepSound, Shape
  <1> QED
    BY <1>3, <1>4 DEF AdjustFunding

LEMMA AdjustTokenSound ==
    ASSUME TypeOK, PollersSound, FetchersSound, NEW n \in Nodes, AdjustToken(n)
    PROVE  StepSound
  <1>1. /\ poller[n].pc = "token" /\ poller' = [poller EXCEPT ![n].pc = poller[n].next]
        /\ UNCHANGED <<deployment, row, world, fetcher, funds, crashes, fetches>>
    BY DEF AdjustToken
  <1>2. poller[n].cur \in Tasks /\ poller[n].kind \in Kinds
    BY <1>1, PollerTyped DEF PollersSound, PollerSound, Poller, Kinds
  <1>3. CASE tokens' = [tokens EXCEPT ![poller[n].cur][poller[n].kind] = More(@)] /\ UNCHANGED faults
    <2>1. /\ funds' \in [Tasks -> Bills] /\ tokens' \in [Tasks -> Bills] /\ faults' \in 0..MaxFaults
      BY <1>1, <1>2, <1>3, MoreType DEF TypeOK
    <2>2. /\ TypeOK' /\ platform' = platform /\ PollersSound' /\ FetchersSound'
          /\ Others(n) /\ poller'[n] = [poller[n] EXCEPT !.pc = poller[n].next]
      BY <1>1, <2>1, BillGoesOn
    <2>3. MovesToken(n)
      BY <1>1, <1>3, <2>2 DEF MovesToken
    <2> QED
      BY <2>2, <2>3 DEF StepSound, Shape
  <1>4. CASE Fault /\ UNCHANGED tokens
    <2>1. /\ funds' \in [Tasks -> Bills] /\ tokens' \in [Tasks -> Bills] /\ faults' \in 0..MaxFaults
      BY <1>1, <1>4, FaultType DEF TypeOK
    <2>2. /\ TypeOK' /\ platform' = platform /\ PollersSound' /\ FetchersSound'
          /\ Others(n) /\ poller'[n].pc = poller[n].next
      BY <1>1, <2>1, BillGoesOn
    <2>3. Quiet
      BY <1>1, <1>4, <2>2, NextPc, RowKept, QuietPoller
    <2> QED
      BY <2>2, <2>3 DEF StepSound, Shape
  <1> QED
    BY <1>3, <1>4 DEF AdjustToken

\* A step of anyone but the pollers.
LEMMA PollersRest ==
    ASSUME TypeOK, PollersSound, UNCHANGED <<deployment, poller, funds, tokens>>, RowQuiet
    PROVE  platform' = platform /\ PollersSound' /\ Quiet
  <1>1. platform' = platform /\ poller' = poller
    BY DEF deployment
  <1>2. PollersSound'
    BY <1>1 DEF PollersSound, PollerSound
  <1>3. Quiet
    BY <1>1 DEF Quiet
  <1> QED
    BY <1>1, <1>2, <1>3

LEMMA ReadTaskSound ==
    ASSUME TypeOK, PollersSound, FetchersSound, NEW f \in Fetchers, NEW t \in Tasks, ReadTask(f, t)
    PROVE  StepSound
  <1>1. platform' = platform /\ PollersSound' /\ Quiet
    BY PollersRest, RowKept DEF ReadTask
  <1>2. row[t].status \in Status
    BY DEF TypeOK, Row
  <1>3. TypeOK'
    BY <1>2 DEF TypeOK, ReadTask, deployment, world
  <1>4. FetchersSound'
    BY <1>1 DEF FetchersSound, ReadTask, TypeOK
  <1> QED
    BY <1>1, <1>3, <1>4 DEF StepSound, Shape

LEMMA WriteAnswerSound ==
    ASSUME TypeOK, PollersSound, FetchersSound, NEW f \in Fetchers, WriteAnswer(f)
    PROVE  StepSound
  <1> DEFINE t == fetcher[f].task
  <1>1. t \in Tasks /\ t \notin Guarded /\ RowWith(Answer(t)) \in Row
    BY AnswerType, RowWithType DEF WriteAnswer, FetchersSound, Guarded
  <1>2. row' \in [Tasks -> Row] /\ RowQuiet
    <2>1. CASE Won(fetcher[f])
      BY <1>1, <2>1, RowWritten DEF WriteAnswer, UpdateWithStatus
    <2>2. CASE ~Won(fetcher[f])
      BY <2>2, RowKept DEF WriteAnswer, UpdateWithStatus
    <2> QED
      BY <2>1, <2>2
  <1>3. platform' = platform /\ PollersSound' /\ Quiet
    BY <1>2, PollersRest DEF WriteAnswer
  <1>4. NoFetch \in [task : Tasks \cup {NoTask}, status : Status] /\ NoFetch.task \notin Tasks
    BY DEF NoFetch, Status
  <1>5. TypeOK'
    BY <1>2, <1>4 DEF TypeOK, WriteAnswer, deployment, world, bounds
  <1>6. FetchersSound'
    BY <1>3, <1>4 DEF FetchersSound, WriteAnswer, TypeOK
  <1> QED
    BY <1>3, <1>5, <1>6 DEF StepSound, Shape

LEMMA EnvironmentSound ==
    ASSUME TypeOK, PollersSound, FetchersSound, NEW t \in Tasks,
           UpstreamEnds(t) \/ TimePasses(t) \/ DeleteChannel(t)
    PROVE  StepSound
  <1>1. UNCHANGED <<deployment, row, poller, fetcher, funds, tokens, bounds>>
    BY DEF UpstreamEnds, TimePasses, DeleteChannel
  <1>2. platform' = platform /\ PollersSound' /\ Quiet
    BY <1>1, PollersRest, RowKept
  <1>3. /\ late' \in [Tasks -> BOOLEAN] /\ channel' \in [Tasks -> BOOLEAN]
        /\ upstream' \in [Tasks -> {"running", "SUCCESS", "FAILURE"}]
    BY DEF TypeOK, UpstreamEnds, TimePasses, DeleteChannel, Ended
  <1>4. TypeOK'
    BY <1>1, <1>3 DEF TypeOK, deployment, bounds
  <1>5. FetchersSound'
    BY <1>1, <1>2, FetchersKept
  <1> QED
    BY <1>2, <1>4, <1>5 DEF StepSound, Shape

LEMMA StutterSound ==
    ASSUME TypeOK, PollersSound, FetchersSound, UNCHANGED vars
    PROVE  StepSound
  <1>1. UNCHANGED <<deployment, row, poller, fetcher, funds, tokens, bounds, world>>
    BY DEF vars, deployment, bounds, world
  <1>2. platform' = platform /\ PollersSound' /\ Quiet
    BY <1>1, PollersRest, RowKept
  <1>3. TypeOK'
    BY <1>1 DEF TypeOK, deployment, bounds, world
  <1>4. FetchersSound'
    BY <1>1, <1>2, FetchersKept
  <1> QED
    BY <1>2, <1>3, <1>4 DEF StepSound, Shape

LEMMA EveryStepSound ==
    ASSUME TypeOK, PollersSound, FetchersSound, [Next]_vars
    PROVE  StepSound
  <1>1. ASSUME NEW n \in Nodes, PollerStep(n) PROVE StepSound
    <2>1. CASE ListTimedOut(n)
      <3> DEFINE S == {t \in Tasks : Unfinished(t) /\ late[t]}
      <3>1. "sweep" \in {"sweep", "poll"} /\ S \in SUBSET Tasks /\ \A t \in S : Unfinished(t)
        OBVIOUS
      <3>2. Listed(n, "sweep", S) /\ UNCHANGED <<deployment, row, world, fetcher, funds, tokens, bounds>>
        BY <2>1 DEF ListTimedOut
      <3> HIDE DEF S
      <3> QED
        BY <3>1, <3>2, ListedSound
    <2>2. CASE ListUnfinished(n)
      <3> DEFINE S == {t \in Tasks : Unfinished(t)}
      <3>1. "poll" \in {"sweep", "poll"} /\ S \in SUBSET Tasks /\ \A t \in S : Unfinished(t)
        OBVIOUS
      <3>2. Listed(n, "poll", S) /\ UNCHANGED <<deployment, row, world, fetcher, funds, tokens, bounds>>
        BY <2>2 DEF ListUnfinished
      <3> HIDE DEF S
      <3> QED
        BY <3>1, <3>2, ListedSound
    <2>3. CASE EndRound(n)
      <3>1. crashes' \in 0..MaxCrashes /\ faults' = faults /\ fetches' = fetches
        BY <2>3 DEF EndRound, bounds, TypeOK
      <3> QED
        BY <2>3, <3>1, RestSound DEF EndRound
    <2>4. ASSUME NEW item \in poller[n].todo, NoAnswer(n, item) PROVE StepSound
      <3>1. faults' \in 0..MaxFaults /\ crashes' = crashes /\ fetches' = fetches
        BY <2>4 DEF NoAnswer, bounds, TypeOK
      <3> QED
        BY <2>4, <3>1, RowKept, SkipSound DEF NoAnswer
    <2>5. ASSUME NEW item \in poller[n].todo, HandleItem(n, item) PROVE StepSound
      BY <2>4, <2>5, TimeOutSound, ChannelLostSound, PollVideoSound, PollSunoSound DEF HandleItem
    <2> QED
      BY <1>1, <2>1, <2>2, <2>3, <2>5, AdjustFundingSound, AdjustTokenSound, SaveTaskSound
      DEF PollerStep
  <1>2. ASSUME NEW n \in Nodes, Crash(n) PROVE StepSound
    <2>1. crashes' \in 0..MaxCrashes
      BY <1>2 DEF Crash, TypeOK
    <2> QED
      BY <1>2, <2>1, RestSound DEF Crash
  <1> QED
    BY <1>1, <1>2, ReadTaskSound, WriteAnswerSound, EnvironmentSound, StutterSound DEF Next

----------------------------------------------------------------------------
(* The bills of video tasks.                                               *)
(***************************************************************************)
LEMMA BillsTyped ==
    ASSUME TypeOK, NEW t \in Tasks
    PROVE  funds[t] \in [Kinds -> 0..MaxBills] /\ tokens[t] \in [Kinds -> 0..MaxBills]
  BY DEF TypeOK, Bills, Kinds

LEMMA OneMore ==
    ASSUME NEW kind \in Kinds
    PROVE  [NoBills EXCEPT ![kind] = More(@)] = One(kind) /\ BilledAtMostOnce(One(kind))
  <1>1. NoBills \in [Kinds -> {0}]
    BY DEF NoBills, Kinds
  <1>2. [NoBills EXCEPT ![kind] = More(@)] = One(kind)
    <2>1. NoBills[kind] = 0
      BY <1>1
    <2>2. More(0) = 1
      BY DEF More
    <2> QED
      BY <2>1, <2>2 DEF One
  <1>3. One("refund").refund = 1 /\ One("refund").adjust = 0
    BY DEF One, NoBills
  <1>4. One("adjust").refund = 0 /\ One("adjust").adjust = 1
    BY DEF One, NoBills
  <1> QED
    BY <1>2, <1>3, <1>4 DEF BilledAtMostOnce, Kinds

\* A step of any shape leaves an ended video row ended, and a failed one failed.
LEMMA QuietRow ==
    ASSUME TypeOK, RowQuiet, NEW t \in Guarded
    PROVE  /\ row[t].status \in Ended => row'[t].status \in Ended
           /\ row[t].status = "FAILURE" => row'[t].status = "FAILURE"
  BY DEF TypeOK, RowQuiet, Guarded, Ended

LEMMA GuardedQuiet ==
    ASSUME TypeOK, Quiet, NEW t \in Guarded, GuardedSound(t)
    PROVE  GuardedSound(t)'
  <1>1. \A n \in Nodes : Billing(n, t)' => poller'[n] = poller[n] /\ Billing(n, t)
    BY DEF Quiet, Billing
  <1>2. /\ row[t].status \in Ended => row'[t].status \in Ended
        /\ row[t].status = "FAILURE" => row'[t].status = "FAILURE"
    BY QuietRow DEF Quiet
  <1>3. funds'[t] = funds[t] /\ tokens'[t] = tokens[t]
    BY DEF Quiet
  <1>4. row'[t].status \notin Ended =>
            funds'[t] = NoBills /\ tokens'[t] = NoBills /\ \A n \in Nodes : ~Billing(n, t)'
    BY <1>1, <1>2, <1>3 DEF GuardedSound
  <1>5. ASSUME NEW n \in Nodes, Billing(n, t)'
        PROVE  /\ \A m \in Nodes : Billing(m, t)' => m = n
               /\ tokens'[t] = NoBills
               /\ poller'[n].pc = "funding" => funds'[t] = NoBills
               /\ poller'[n].pc = "token" => funds'[t] = One(poller'[n].kind)
               /\ poller'[n].kind = "refund" => row'[t].status = "FAILURE"
    BY <1>1, <1>2, <1>3, <1>5 DEF GuardedSound
  <1>6. (BilledAtMostOnce(funds[t]) /\ BilledAtMostOnce(tokens[t]))'
    BY <1>3 DEF GuardedSound, BilledAtMostOnce
  <1> QED
    BY <1>4, <1>5, <1>6 DEF GuardedSound

LEMMA GuardedWins ==
    ASSUME TypeOK, NEW n \in Nodes, NEW u \in Tasks, NEW kind \in Kinds, Wins(n, u, kind),
           NEW t \in Guarded, GuardedSound(t)
    PROVE  GuardedSound(t)'
  <1>0. t \in Tasks
    BY DEF Guarded
  <1>1. funds'[t] = funds[t] /\ tokens'[t] = tokens[t]
    BY DEF Wins
  <1>2. CASE t # u
    <2>1. row'[t] = row[t]
      BY <1>0, <1>2 DEF Wins, TypeOK
    <2>2. \A m \in Nodes : Billing(m, t)' => m # n
      BY <1>2 DEF Wins, Billing
    <2>3. \A m \in Nodes : Billing(m, t)' => poller'[m] = poller[m] /\ Billing(m, t)
      BY <2>2 DEF Wins, Others, Billing
    <2>4. ASSUME NEW m \in Nodes, Billing(m, t)'
          PROVE  /\ \A k \in Nodes : Billing(k, t)' => k = m
                 /\ tokens'[t] = NoBills
                 /\ poller'[m].pc = "funding" => funds'[t] = NoBills
                 /\ poller'[m].pc = "token" => funds'[t] = One(poller'[m].kind)
                 /\ poller'[m].kind = "refund" => row'[t].status = "FAILURE"
      BY <1>1, <2>1, <2>3, <2>4 DEF GuardedSound
    <2> QED
      BY <1>1, <2>1, <2>3, <2>4 DEF GuardedSound, BilledAtMostOnce
  <1>3. CASE t = u
    <2>1. /\ funds[t] = NoBills /\ tokens[t] = NoBills
          /\ \A m \in Nodes : ~Billing(m, t)
      BY <1>3 DEF Wins, GuardedSound
    <2>2. /\ row'[t].status \in Ended
          /\ kind = "refund" => row'[t].status = "FAILURE"
      BY <1>0, <1>3 DEF Wins, TypeOK, RowWith, Ended
    <2>3. \A m \in Nodes : Billing(m, t)' => m = n
      BY <2>1 DEF Wins, Others, Billing
    <2>4. poller'[n].pc = "funding" /\ poller'[n].kind = kind
      BY DEF Wins
    <2>5. BilledAtMostOnce(NoBills)
      BY DEF BilledAtMostOnce, NoBills
    <2>6. ASSUME NEW m \in Nodes, Billing(m, t)'
          PROVE  /\ \A k \in Nodes : Billing(k, t)' => k = m
                 /\ tokens'[t] = NoBills
                 /\ poller'[m].pc = "funding" => funds'[t] = NoBills
                 /\ poller'[m].pc = "token" => funds'[t] = One(poller'[m].kind)
                 /\ poller'[m].kind = "refund" => row'[t].status = "FAILURE"
      BY <1>1, <2>1, <2>2, <2>3, <2>4, <2>6
    <2> QED
      BY <1>1, <2>1, <2>2, <2>5, <2>6 DEF GuardedSound, BilledAtMostOnce
  <1> QED
    BY <1>2, <1>3

LEMMA GuardedFunds ==
    ASSUME TypeOK, PollersSound, NEW n \in Nodes, MovesFunds(n), NEW t \in Guarded, GuardedSound(t)
    PROVE  GuardedSound(t)'
  <1>0. t \in Tasks /\ poller[n].cur \in Tasks /\ poller[n].kind \in Kinds
    BY PollerTyped DEF Guarded, MovesFunds, PollersSound, PollerSound, Poller, Kinds
  <1>1. row'[t] = row[t] /\ tokens'[t] = tokens[t]
    BY DEF MovesFunds
  <1>2. /\ poller'[n].pc = "token" /\ poller'[n].cur = poller[n].cur /\ poller'[n].kind = poller[n].kind
        /\ \A m \in Nodes : m # n => poller'[m] = poller[m]
        /\ \A m \in Nodes : Billing(m, t)' => Billing(m, t)
    BY PollerTyped DEF MovesFunds, Others, Poller, Billing
  <1>3. CASE poller[n].cur # t
    <2>1. funds'[t] = funds[t]
      BY <1>0, <1>3 DEF MovesFunds, TypeOK
    <2>2. ASSUME NEW m \in Nodes, Billing(m, t)'
          PROVE  /\ \A k \in Nodes : Billing(k, t)' => k = m
                 /\ tokens'[t] = NoBills
                 /\ poller'[m].pc = "funding" => funds'[t] = NoBills
                 /\ poller'[m].pc = "token" => funds'[t] = One(poller'[m].kind)
                 /\ poller'[m].kind = "refund" => row'[t].status = "FAILURE"
      <3>1. m # n
        BY <1>2, <1>3, <2>2 DEF Billing
      <3> QED
        BY <1>1, <1>2, <2>1, <2>2, <3>1 DEF GuardedSound
    <2> QED
      BY <1>1, <1>2, <2>1, <2>2 DEF GuardedSound, BilledAtMostOnce
  <1>4. CASE poller[n].cur = t
    <2>1. Billing(n, t) /\ poller[n].pc = "funding"
      BY <1>4 DEF MovesFunds, Billing
    <2>2. /\ funds[t] = NoBills /\ tokens[t] = NoBills /\ row[t].status \in Ended
          /\ \A m \in Nodes : Billing(m, t) => m = n
          /\ poller[n].kind = "refund" => row[t].status = "FAILURE"
      BY <2>1 DEF GuardedSound
    <2>3. funds'[t] = One(poller[n].kind)
      <3>1. funds'[t] = [funds[t] EXCEPT ![poller[n].kind] = More(@)]
        BY <1>0, <1>4 DEF MovesFunds, TypeOK
      <3> QED
        BY <1>0, <2>2, <3>1, OneMore
    <2>4. ASSUME NEW m \in Nodes, Billing(m, t)'
          PROVE  /\ \A k \in Nodes : Billing(k, t)' => k = m
                 /\ tokens'[t] = NoBills
                 /\ poller'[m].pc = "funding" => funds'[t] = NoBills
                 /\ poller'[m].pc = "token" => funds'[t] = One(poller'[m].kind)
                 /\ poller'[m].kind = "refund" => row'[t].status = "FAILURE"
      BY <1>1, <1>2, <2>2, <2>3, <2>4
    <2>5. (BilledAtMostOnce(funds[t]) /\ BilledAtMostOnce(tokens[t]))'
      <3>1. BilledAtMostOnce(funds'[t]) /\ BilledAtMostOnce(tokens'[t])
        BY <1>0, <1>1, <2>3, OneMore DEF GuardedSound
      <3> QED
        BY <3>1 DEF BilledAtMostOnce
    <2> QED
      BY <1>1, <2>2, <2>4, <2>5 DEF GuardedSound
  <1> QED
    BY <1>3, <1>4

LEMMA GuardedToken ==
    ASSUME TypeOK, PollersSound, NEW n \in Nodes, MovesToken(n), NEW t \in Guarded, GuardedSound(t)
    PROVE  GuardedSound(t)'
  <1>0. t \in Tasks /\ poller[n].cur \in Tasks /\ poller[n].kind \in Kinds
    BY PollerTyped DEF Guarded, MovesToken, PollersSound, PollerSound, Poller, Kinds
  <1>1. row'[t] = row[t] /\ funds'[t] = funds[t]
    BY DEF MovesToken
  <1>2. /\ ~Billing(n, t)'
        /\ \A m \in Nodes : m # n => poller'[m] = poller[m]
        /\ \A m \in Nodes : Billing(m, t)' => m # n /\ Billing(m, t)
    BY PollerTyped, NextPc DEF MovesToken, Others, Poller, Billing
  <1>3. CASE poller[n].cur # t
    <2>1. tokens'[t] = tokens[t]
      BY <1>0, <1>3 DEF MovesToken, TypeOK
    <2>2. ASSUME NEW m \in Nodes, Billing(m, t)'
          PROVE  /\ \A k \in Nodes : Billing(k, t)' => k = m
                 /\ tokens'[t] = NoBills
                 /\ poller'[m].pc = "funding" => funds'[t] = NoBills
                 /\ poller'[m].pc = "token" => funds'[t] = One(poller'[m].kind)
                 /\ poller'[m].kind = "refund" => row'[t].status = "FAILURE"
      BY <1>1, <1>2, <2>1, <2>2 DEF GuardedSound
    <2> QED
      BY <1>1, <1>2, <2>1, <2>2 DEF GuardedSound, BilledAtMostOnce
  <1>4. CASE poller[n].cur = t
    <2>1. Billing(n, t) /\ poller[n].pc = "token"
      BY <1>4 DEF MovesToken, Billing
    <2>2. /\ tokens[t] = NoBills /\ row[t].status \in Ended
          /\ \A m \in Nodes : Billing(m, t) => m = n
      BY <2>1 DEF GuardedSound
    <2>3. tokens'[t] = One(poller[n].kind)
      <3>1. tokens'[t] = [tokens[t] EXCEPT ![poller[n].kind] = More(@)]
        BY <1>0, <1>4 DEF MovesToken, TypeOK
      <3> QED
        BY <1>0, <2>2, <3>1, OneMore
    <2>4. \A m \in Nodes : ~Billing(m, t)'
      BY <1>2, <2>2
    <2>5. (BilledAtMostOnce(funds[t]) /\ BilledAtMostOnce(tokens[t]))'
      <3>1. BilledAtMostOnce(funds'[t]) /\ BilledAtMostOnce(tokens'[t])
        BY <1>0, <1>1, <2>3, OneMore DEF GuardedSound
      <3> QED
        BY <3>1 DEF BilledAtMostOnce
    <2> QED
      BY <1>1, <2>2, <2>4, <2>5 DEF GuardedSound
  <1> QED
    BY <1>3, <1>4

----------------------------------------------------------------------------
(* Tokens behind funds.                                                    *)
(***************************************************************************)
\* The pair of a task and a kind of bill, as TokensBehind counts it.
Behind(t, kind) ==
    \/ tokens[t][kind] + Cardinality(Paying(t, kind)) <= funds[t][kind]
    \/ funds[t][kind] = MaxBills

LEMMA PayingFinite ==
    ASSUME NEW t, NEW kind
    PROVE  IsFiniteSet(Paying(t, kind)) /\ Cardinality(Paying(t, kind)) \in Nat
  <1>1. Paying(t, kind) \subseteq Nodes
    BY DEF Paying
  <1> QED
    BY <1>1, FS_Subset, FS_CardinalityType DEF TaskAssumption

LEMMA PayingShrinks ==
    ASSUME TypeOK, NEW t \in Tasks, NEW kind \in Kinds, Behind(t, kind),
           UNCHANGED <<funds, tokens>>, Paying(t, kind)' \subseteq Paying(t, kind)
    PROVE  Behind(t, kind)'
  <1>1. /\ IsFiniteSet(Paying(t, kind)')
        /\ Cardinality(Paying(t, kind)') \in Nat /\ Cardinality(Paying(t, kind)) \in Nat
        /\ Cardinality(Paying(t, kind)') <= Cardinality(Paying(t, kind))
    BY PayingFinite, FS_Subset, FS_CardinalityType
  <1>2. funds[t][kind] \in Nat /\ tokens[t][kind] \in Nat
    BY BillsTyped
  <1> QED
    BY <1>1, <1>2 DEF Behind

LEMMA BehindFunds ==
    ASSUME TypeOK, PollersSound, NEW n \in Nodes, MovesFunds(n),
           NEW t \in Tasks, NEW kind \in Kinds, Behind(t, kind)
    PROVE  Behind(t, kind)'
  <1>0. poller[n].cur \in Tasks /\ poller[n].kind \in Kinds /\ poller[n].pc = "funding"
    BY PollerTyped DEF MovesFunds, PollersSound, PollerSound, Poller, Kinds
  <1>1. /\ poller'[n].pc = "token" /\ poller'[n].cur = poller[n].cur /\ poller'[n].kind = poller[n].kind
        /\ \A m \in Nodes : m # n => poller'[m] = poller[m]
    BY PollerTyped DEF MovesFunds, Others, Poller
  <1>2. funds[t][kind] \in 0..MaxBills /\ tokens[t][kind] \in Nat /\ tokens'[t][kind] = tokens[t][kind]
    BY BillsTyped DEF MovesFunds
  <1>3. CASE poller[n].cur = t /\ poller[n].kind = kind
    <2>1. Paying(t, kind)' = Paying(t, kind) \cup {n} /\ n \notin Paying(t, kind)
      BY <1>0, <1>1, <1>3 DEF Paying
    <2>2. /\ Cardinality(Paying(t, kind)) \in Nat
          /\ Cardinality(Paying(t, kind)') = Cardinality(Paying(t, kind)) + 1
      BY <2>1, PayingFinite, FS_AddElement
    <2>3. funds'[t][kind] = More(funds[t][kind])
      BY <1>0, <1>3, BillsTyped DEF MovesFunds, TypeOK
    <2> QED
      BY <1>2, <2>2, <2>3 DEF Behind, More
  <1>4. CASE ~(poller[n].cur = t /\ poller[n].kind = kind)
    <2>1. Paying(t, kind)' = Paying(t, kind)
      BY <1>0, <1>1, <1>4 DEF Paying
    <2>2. funds'[t][kind] = funds[t][kind]
      BY <1>0, <1>4, BillsTyped DEF MovesFunds, TypeOK
    <2> QED
      BY <1>2, <2>1, <2>2 DEF Behind
  <1> QED
    BY <1>3, <1>4

LEMMA BehindToken ==
    ASSUME TypeOK, PollersSound, NEW n \in Nodes, MovesToken(n),
           NEW t \in Tasks, NEW kind \in Kinds, Behind(t, kind)
    PROVE  Behind(t, kind)'
  <1>0. poller[n].cur \in Tasks /\ poller[n].kind \in Kinds /\ poller[n].pc = "token"
    BY PollerTyped DEF MovesToken, PollersSound, PollerSound, Poller, Kinds
  <1>1. /\ poller'[n].pc # "token"
        /\ \A m \in Nodes : m # n => poller'[m] = poller[m]
    BY PollerTyped, NextPc DEF MovesToken, Others, Poller
  <1>2. funds[t][kind] \in 0..MaxBills /\ tokens[t][kind] \in 0..MaxBills /\ funds'[t][kind] = funds[t][kind]
    BY BillsTyped DEF MovesToken
  <1>3. CASE poller[n].cur = t /\ poller[n].kind = kind
    <2>1. Paying(t, kind)' = Paying(t, kind) \ {n} /\ n \in Paying(t, kind)
      BY <1>0, <1>1, <1>3 DEF Paying
    <2>2. /\ Cardinality(Paying(t, kind)) \in Nat
          /\ Cardinality(Paying(t, kind)') = Cardinality(Paying(t, kind)) - 1
      BY <2>1, PayingFinite, FS_RemoveElement
    <2>3. tokens'[t][kind] = More(tokens[t][kind])
      BY <1>0, <1>3, BillsTyped DEF MovesToken, TypeOK
    <2> QED
      BY <1>2, <2>2, <2>3 DEF Behind, More
  <1>4. CASE ~(poller[n].cur = t /\ poller[n].kind = kind)
    <2>1. Paying(t, kind)' = Paying(t, kind)
      BY <1>0, <1>1, <1>4 DEF Paying
    <2>2. tokens'[t][kind] = tokens[t][kind]
      BY <1>0, <1>4, BillsTyped DEF MovesToken, TypeOK
    <2> QED
      BY <1>2, <2>1, <2>2 DEF Behind
  <1> QED
    BY <1>3, <1>4

----------------------------------------------------------------------------
(* The invariant.                                                          *)
(***************************************************************************)
LEMMA TaskInvInit == Init => TaskInv
  <1> SUFFICES ASSUME Init PROVE TaskInv
    OBVIOUS
  <1>1. TypeOK
    BY TaskTypeInit
  <1>2. \A n \in Nodes : poller[n].pc = "sleep" /\ poller[n].todo = {}
    BY DEF Init, Resting
  <1>3. PollersSound
    BY <1>2 DEF PollersSound, PollerSound
  <1>4. FetchersSound
    BY DEF Init, NoFetch, FetchersSound, TaskAssumption
  <1>5. ASSUME NEW t \in Guarded PROVE GuardedSound(t)
    <2>1. t \in Tasks
      BY DEF Guarded
    <2>2. BilledAtMostOnce(NoBills)
      BY DEF BilledAtMostOnce, NoBills
    <2> QED
      BY <1>2, <2>1, <2>2 DEF Init, GuardedSound, Billing
  <1>6. ASSUME NEW t \in Tasks, NEW kind \in Kinds PROVE Behind(t, kind)
    <2>1. Paying(t, kind) = {}
      BY <1>2 DEF Paying
    <2>2. tokens[t][kind] = 0 /\ funds[t][kind] = 0
      BY DEF Init, NoBills, Kinds
    <2> QED
      BY <2>1, <2>2, FS_EmptySet DEF Behind
  <1> QED
    BY <1>1, <1>3, <1>4, <1>5, <1>6 DEF TaskInv, TokensBehind, Behind

LEMMA TaskInvStep == TaskInv /\ [Next]_vars => TaskInv'
  <1> SUFFICES ASSUME TaskInv, [Next]_vars PROVE TaskInv'
    OBVIOUS
  <1>1. TypeOK /\ PollersSound /\ FetchersSound
    BY DEF TaskInv
  <1>2. StepSound
    BY <1>1, EveryStepSound
  <1>3. \A t \in Guarded : GuardedSound(t)'
    BY <1>1, <1>2, GuardedQuiet, GuardedWins, GuardedFunds, GuardedToken DEF TaskInv, StepSound, Shape
  <1>4. Guarded' = Guarded
    BY <1>2 DEF StepSound, Guarded
  <1>5. ASSUME NEW t \in Tasks, NEW kind \in Kinds PROVE Behind(t, kind)'
    <2>1. Behind(t, kind)
      BY DEF TaskInv, TokensBehind, Behind
    <2>2. CASE Quiet
      BY <1>1, <2>1, <2>2, PayingShrinks DEF Quiet, Paying
    <2>3. ASSUME NEW n \in Nodes, NEW u \in Tasks, NEW k \in Kinds, Wins(n, u, k)
          PROVE  Behind(t, kind)'
      BY <1>1, <2>1, <2>3, PayingShrinks DEF Wins, Others, Paying
    <2> QED
      BY <1>1, <1>2, <2>1, <2>2, <2>3, BehindFunds, BehindToken DEF StepSound, Shape
  <1>6. TokensBehind'
    BY <1>5 DEF TokensBehind, Behind
  <1>7. (\A t \in Guarded : GuardedSound(t))'
    BY <1>3, <1>4
  <1> QED
    BY <1>2, <1>6, <1>7 DEF TaskInv, StepSound

(* TaskInv holds in every reachable state, whatever the numbers of tasks,  *)
(* nodes, user requests, faults and crashes.                               *)
THEOREM TaskInvariant == Spec => []TaskInv
  BY TaskInvInit, TaskInvStep, PTL DEF Spec

(* However many nodes poll and time out a video task, its quota is given   *)
(* back or adjusted at most once (the loser of UpdateWithStatus bills      *)
(* nothing), and no token is credited before the money is.                 *)
THEOREM BillsAlwaysSound == Spec => []BillsSound
  <1>1. TaskInv => BillsSound
    <2> SUFFICES ASSUME TaskInv PROVE BillsSound
      OBVIOUS
    <2>1. TypeOK /\ GuardedBilledOnce
      BY DEF TaskInv, GuardedBilledOnce, GuardedSound
    <2>2. ASSUME NEW t \in Tasks, NEW kind \in Kinds PROVE tokens[t][kind] <= funds[t][kind]
      <3>1. Behind(t, kind)
        BY DEF TaskInv, TokensBehind, Behind
      <3>2. Cardinality(Paying(t, kind)) \in Nat
        BY PayingFinite
      <3>3. funds[t][kind] \in 0..MaxBills /\ tokens[t][kind] \in 0..MaxBills
        BY <2>1, BillsTyped
      <3> QED
        BY <3>1, <3>2, <3>3 DEF Behind
    <2>3. "refund" \in Kinds /\ "adjust" \in Kinds
      BY DEF Kinds
    <2>4. \A t \in Tasks : tokens[t]["refund"] <= funds[t]["refund"] /\ tokens[t]["adjust"] <= funds[t]["adjust"]
      BY <2>2, <2>3
    <2>5. TokenFollowsFunds
      BY <2>4 DEF TokenFollowsFunds
    <2> QED
      BY <2>1, <2>5 DEF BillsSound
  <1> QED
    BY <1>1, TaskInvariant, PTL

----------------------------------------------------------------------------
(* The abstract lifecycle.                                                 *)
(***************************************************************************)
\* The lifecycle's variables, as Lifecycle maps them.
LState == [t \in Tasks |-> IF t \in Guarded THEN State(t) ELSE "open"]
LBill == [t \in Tasks |-> IF t \in Guarded THEN Billed(t) ELSE "kept"]

LEMMA SameState ==
    ASSUME Guarded' = Guarded, \A t \in Guarded : State(t)' = State(t)
    PROVE  UNCHANGED LState
  BY DEF LState

LEMMA SameBill ==
    ASSUME Guarded' = Guarded, \A t \in Guarded : Billed(t)' = Billed(t)
    PROVE  UNCHANGED LBill
  BY DEF LBill

LEMMA NewState ==
    ASSUME Guarded' = Guarded, NEW u \in Guarded, \A t \in Guarded : t # u => State(t)' = State(t)
    PROVE  LState' = [LState EXCEPT ![u] = State(u)'] /\ LState[u] = State(u)
  BY DEF LState, Guarded

LEMMA NewBill ==
    ASSUME Guarded' = Guarded, NEW u \in Guarded, \A t \in Guarded : t # u => Billed(t)' = Billed(t)
    PROVE  LBill' = [LBill EXCEPT ![u] = Billed(u)'] /\ LBill[u] = Billed(u)
  BY DEF LBill, Guarded

\* A row of a video task written once more: it ends, is shown as failed, or stays open.
LEMMA RowSimulated ==
    ASSUME TypeOK, Guarded' = Guarded, UNCHANGED funds, NEW u \in Guarded, NEW r \in Row,
           row' = [row EXCEPT ![u] = r], r.status = "FAILURE" \/ row[u].status \notin Ended
    PROVE  [Lifecycle!Next]_(Lifecycle!vars)
  <1>0. u \in Tasks /\ r.status \in Status
    BY DEF Guarded, Row
  <1>1. row'[u] = r /\ \A t \in Guarded : t # u => row'[t] = row[t]
    BY <1>0 DEF TypeOK, Guarded
  <1>2. UNCHANGED LBill
    BY SameBill DEF Billed
  <1>3. \A t \in Guarded : t # u => State(t)' = State(t)
    BY <1>1 DEF State
  <1>4. LState' = [LState EXCEPT ![u] = State(u)'] /\ LState[u] = State(u)
    BY <1>3, NewState
  <1>5. State(u)' = IF r.status \in Ended THEN r.status ELSE "open"
    BY <1>1 DEF State
  <1>6. CASE row[u].status \in Ended
    <2>1. LState[u] # "open" /\ LState' = [LState EXCEPT ![u] = "FAILURE"]
      BY <1>4, <1>5, <1>6 DEF State, Ended
    <2>2. Lifecycle!ShowFailed(u)
      BY <1>2, <2>1 DEF Lifecycle!ShowFailed, LState, LBill
    <2> QED
      BY <1>0, <2>2 DEF Lifecycle!Next
  <1>7. CASE row[u].status \notin Ended /\ r.status \in Ended
    <2>1. LState[u] = "open" /\ \E s \in {"SUCCESS", "FAILURE"} : LState' = [LState EXCEPT ![u] = s]
      BY <1>4, <1>5, <1>7 DEF State, Ended
    <2>2. Lifecycle!End(u)
      BY <1>2, <2>1 DEF Lifecycle!End, LState, LBill
    <2> QED
      BY <1>0, <2>2 DEF Lifecycle!Next
  <1>8. CASE row[u].status \notin Ended /\ r.status \notin Ended
    <2>1. \A t \in Guarded : State(t)' = State(t)
      BY <1>3, <1>5, <1>8 DEF State
    <2>2. UNCHANGED LState
      BY <2>1, SameState
    <2> QED
      BY <1>2, <2>2 DEF Lifecycle!vars, LState, LBill
  <1> QED
    BY <1>6, <1>7, <1>8

LEMMA StutterSimulated ==
    ASSUME Guarded' = Guarded, UNCHANGED funds, \A t \in Guarded : row'[t] = row[t]
    PROVE  [Lifecycle!Next]_(Lifecycle!vars)
  <1>1. UNCHANGED LBill
    BY SameBill DEF Billed
  <1>2. UNCHANGED LState
    BY SameState DEF State
  <1> QED
    BY <1>1, <1>2 DEF Lifecycle!vars, LState, LBill

LEMMA FundsSimulated ==
    ASSUME TypeOK, PollersSound, \A t \in Guarded : GuardedSound(t), Guarded' = Guarded,
           NEW n \in Nodes, MovesFunds(n), NEW u, u = poller[n].cur
    PROVE  [Lifecycle!Next]_(Lifecycle!vars)
  <1>0. u \in Tasks /\ poller[n].kind \in Kinds
    BY PollerTyped DEF MovesFunds, PollersSound, PollerSound, Poller, Kinds
  <1>1. \A t \in Guarded : t # u => funds'[t] = funds[t]
    BY <1>0 DEF MovesFunds, TypeOK, Guarded
  <1>2. UNCHANGED LState
    BY SameState DEF State, MovesFunds
  <1>3. CASE u \notin Guarded
    <2>1. UNCHANGED LBill
      BY <1>1, <1>3, SameBill DEF Billed
    <2> QED
      BY <1>2, <2>1 DEF Lifecycle!vars, LState, LBill
  <1>4. CASE u \in Guarded
    <2>1. GuardedSound(u) /\ Billing(n, u) /\ poller[n].pc = "funding"
      BY <1>4 DEF MovesFunds, Billing
    <2>2. /\ funds[u] = NoBills /\ row[u].status \in Ended
          /\ poller[n].kind = "refund" => row[u].status = "FAILURE"
      BY <2>1 DEF GuardedSound
    <2>3. funds'[u] = One(poller[n].kind)
      <3>1. funds'[u] = [funds[u] EXCEPT ![poller[n].kind] = More(@)]
        BY <1>0 DEF MovesFunds, TypeOK
      <3> QED
        BY <1>0, <2>2, <3>1, OneMore
    <2>4. Billed(u)' = IF poller[n].kind = "refund" THEN "refunded" ELSE "adjusted"
      BY <1>0, <2>3 DEF Billed, One, NoBills, Kinds
    <2>5. Billed(u) = "kept" /\ State(u) = row[u].status
      BY <2>2 DEF Billed, NoBills, State
    <2>6. LBill' = [LBill EXCEPT ![u] = Billed(u)'] /\ LBill[u] = Billed(u)
      BY <1>1, <1>4, NewBill DEF Billed
    <2>7. LState[u] = State(u)
      BY <1>0, <1>4 DEF LState
    <2>8. CASE poller[n].kind = "refund"
      <3>1. LState[u] = "FAILURE" /\ LBill[u] = "kept" /\ LBill' = [LBill EXCEPT ![u] = "refunded"]
        BY <2>2, <2>4, <2>5, <2>6, <2>7, <2>8
      <3>2. Lifecycle!Refund(u)
        BY <1>2, <3>1 DEF Lifecycle!Refund, LState, LBill
      <3> QED
        BY <1>0, <3>2 DEF Lifecycle!Next
    <2>9. CASE poller[n].kind = "adjust"
      <3>1. LState[u] # "open" /\ LBill[u] = "kept" /\ LBill' = [LBill EXCEPT ![u] = "adjusted"]
        BY <2>2, <2>4, <2>5, <2>6, <2>7, <2>9 DEF Ended
      <3>2. Lifecycle!Adjust(u)
        BY <1>2, <3>1 DEF Lifecycle!Adjust, LState, LBill
      <3> QED
        BY <1>0, <3>2 DEF Lifecycle!Next
    <2> QED
      BY <1>0, <2>8, <2>9 DEF Kinds
  <1> QED
    BY <1>3, <1>4

LEMMA LifecycleSimulated == TaskInv /\ [Next]_vars => [Lifecycle!Next]_(Lifecycle!vars)
  <1> SUFFICES ASSUME TaskInv, [Next]_vars PROVE [Lifecycle!Next]_(Lifecycle!vars)
    OBVIOUS
  <1>1. TypeOK /\ PollersSound /\ FetchersSound /\ \A t \in Guarded : GuardedSound(t)
    BY DEF TaskInv
  <1>2. StepSound
    BY <1>1, EveryStepSound
  <1>3. Guarded' = Guarded
    BY <1>2 DEF StepSound, Guarded
  <1>4. CASE Quiet
    BY <1>1, <1>3, <1>4, RowSimulated, StutterSimulated DEF Quiet, RowQuiet
  <1>5. ASSUME NEW n \in Nodes, NEW u \in Tasks, NEW kind \in Kinds, Wins(n, u, kind)
        PROVE  [Lifecycle!Next]_(Lifecycle!vars)
    <2> DEFINE r == RowWith(IF kind = "refund" THEN "FAILURE" ELSE "SUCCESS")
    <2>1. r \in Row /\ row' = [row EXCEPT ![u] = r] /\ row[u].status \notin Ended /\ UNCHANGED funds
      BY <1>5, RowWithType DEF Wins, Status, Ended
    <2> HIDE DEF r
    <2>2. CASE u \in Guarded
      BY <1>1, <1>3, <2>1, <2>2, RowSimulated
    <2>3. CASE u \notin Guarded
      <3>1. \A t \in Guarded : row'[t] = row[t]
        BY <1>1, <2>1, <2>3 DEF TypeOK, Guarded
      <3> QED
        BY <1>3, <2>1, <3>1, StutterSimulated
    <2> QED
      BY <2>2, <2>3
  <1>6. ASSUME NEW n \in Nodes, MovesToken(n) PROVE [Lifecycle!Next]_(Lifecycle!vars)
    BY <1>3, <1>6, StutterSimulated DEF MovesToken
  <1>7. ASSUME NEW n \in Nodes, MovesFunds(n) PROVE [Lifecycle!Next]_(Lifecycle!vars)
    <2>1. PICK u : u = poller[n].cur
      OBVIOUS
    <2> QED
      BY <1>1, <1>3, <1>7, <2>1, FundsSimulated
  <1> QED
    BY <1>2, <1>4, <1>5, <1>6, <1>7 DEF StepSound, Shape

(* Video tasks, polled and timed out by any number of nodes on copies of   *)
(* rows however old, with failing statements and nodes that die, implement *)
(* TaskLifecycle: an ended task stays ended, and only then, and only once, *)
(* is its quota refunded (after a failure) or adjusted.                    *)
THEOREM TaskImplementsLifecycle == Spec => LifecycleSpec
  <1>1. Init => Lifecycle!Init
    <2> SUFFICES ASSUME Init PROVE Lifecycle!Init
      OBVIOUS
    <2>1. \A t \in Guarded : t \in Tasks /\ State(t) = "open" /\ Billed(t) = "kept"
      BY DEF Init, Guarded, State, Billed, RowWith, NoBills, Ended
    <2> QED
      BY <2>1 DEF Lifecycle!Init
  <1>2. TaskInv /\ [Next]_vars => [Lifecycle!Next]_(Lifecycle!vars)
    BY LifecycleSimulated
  <1> QED
    BY <1>1, <1>2, TaskInvariant, PTL DEF Spec, LifecycleSpec, Lifecycle!Spec
----------------------------------------------------------------------------
(* Suno tasks under one undisturbed master.                                *)
(***************************************************************************)
\* Only masters are in a round, and a list names no task twice.
RoundSound(n) ==
    /\ poller[n].pc = "sleep" => poller[n].todo = {}
    /\ poller[n].pc # "sleep" => n \in masters
    /\ \A i, j \in poller[n].todo : i.task = j.task => i = j

Alone == Cardinality(masters) <= 1 /\ faults = 0 /\ crashes = 0

At(n, pcs, t) == poller[n].pc \in pcs /\ poller[n].cur = t

\* The task n bills has ended, or will when n has written its copy.
WillEnd(n, t) ==
    IF poller[n].next = "save" THEN poller[n].copy.full ELSE ~Unfinished(t)

\* A listed Suno task is not refunded yet and not being handled.  From its
\* refund until its row is finished, n stays with it and means to finish it.
SunoSound(n, t) ==
    /\ \A item \in poller[n].todo : item.task = t =>
           funds[t] = NoBills /\ ~At(n, {"funding", "token", "save"}, t)
    /\ At(n, {"funding", "token"}, t) => poller[n].kind = "refund" /\ WillEnd(n, t)
    /\ At(n, {"funding"}, t) => funds[t] = NoBills
    /\ At(n, {"save"}, t) => funds[t] = NoBills \/ poller[n].copy.full
    /\ funds[t] = NoBills \/ ~Unfinished(t) \/ At(n, {"token", "save"}, t)

RefundedOnce(t) == funds[t] \in {NoBills, One("refund")}

SunoInv ==
    /\ \A n \in Nodes : RoundSound(n)
    /\ Alone => \A t \in Tasks : platform[t] = "suno" =>
           RefundedOnce(t) /\ \A n \in masters : SunoSound(n, t)

\* What a step of node n keeps of SunoInv.
SunoKept(n) ==
    /\ Others(n)
    /\ masters' = masters /\ platform' = platform
    /\ n \in masters
    /\ RoundSound(n)'
    /\ Alone' => Alone /\ \A t \in Tasks :
           platform[t] = "suno" /\ RefundedOnce(t) /\ SunoSound(n, t)
               => RefundedOnce(t)' /\ SunoSound(n, t)'

LEMMA SunoListed ==
    ASSUME TypeOK, NEW n \in Nodes, n \in masters, RoundSound(n), NEW pc \in {"sweep", "poll"},
           poller[n].pc \in {"sleep", "sweep"},
           NEW S \in SUBSET Tasks, \A t \in S : Unfinished(t), Listed(n, pc, S),
           UNCHANGED <<deployment, row, world, fetcher, funds, tokens, bounds>>
    PROVE  SunoKept(n)
  <1>1. /\ poller' \in [Nodes -> Poller]
        /\ poller'[n] = [poller[n] EXCEPT !.pc = pc, !.todo = Copies(S)]
        /\ \A m \in Nodes : m # n => poller'[m] = poller[m]
    BY ListedStep
  <1>2. poller'[n].pc = pc /\ poller'[n].todo = Copies(S)
    BY <1>1, PollerTyped DEF Poller
  <1>3. \A i, j \in Copies(S) : i.task = j.task => i = j
    <2>1. \A i \in Copies(S) : i = [task |-> i.task, status |-> row[i.task].status]
      BY DEF Copies
    <2> QED
      BY <2>1
  <1>4. \A i \in Copies(S) : i.task \in S
    BY DEF Copies
  <1>5. RoundSound(n)'
    BY <1>2, <1>3 DEF RoundSound, deployment
  <1>6. ASSUME NEW t \in Tasks, RefundedOnce(t), SunoSound(n, t)
        PROVE  RefundedOnce(t)' /\ SunoSound(n, t)'
    <2>1. Unfinished(t)' = Unfinished(t) /\ funds'[t] = funds[t]
      BY DEF Unfinished
    <2>2. funds[t] = NoBills \/ ~Unfinished(t)
      BY <1>6 DEF SunoSound, At
    <2> QED
      BY <1>2, <1>4, <1>6, <2>1, <2>2 DEF SunoSound, At, RefundedOnce
  <1> QED
    BY <1>1, <1>5, <1>6 DEF SunoKept, Others, Alone, deployment, bounds

LEMMA SunoRests ==
    ASSUME TypeOK, NEW n \in Nodes, RoundSound(n), EndRound(n)
    PROVE  SunoKept(n)
  <1>0. /\ poller[n].pc = "poll" /\ poller' = [poller EXCEPT ![n] = Resting]
        /\ UNCHANGED <<deployment, row, world, fetcher, funds, tokens, bounds>>
    BY DEF EndRound
  <1>1. poller'[n] = Resting /\ Others(n)
    BY <1>0, PollerReplaced, RestingType DEF Others
  <1>2. poller'[n].pc = "sleep" /\ poller'[n].todo = {}
    BY <1>1 DEF Resting
  <1>3. RoundSound(n)' /\ n \in masters
    BY <1>0, <1>2 DEF RoundSound
  <1>4. ASSUME NEW t \in Tasks, RefundedOnce(t), SunoSound(n, t)
        PROVE  RefundedOnce(t)' /\ SunoSound(n, t)'
    <2>1. Unfinished(t)' = Unfinished(t) /\ funds'[t] = funds[t]
      BY <1>0 DEF Unfinished
    <2> QED
      BY <1>0, <1>2, <1>4, <2>1 DEF SunoSound, At, RefundedOnce
  <1> QED
    BY <1>0, <1>1, <1>3, <1>4 DEF SunoKept, Alone, deployment, bounds

\* An item is dropped, and a Suno task's row at most finished.
LEMMA SunoSkips ==
    ASSUME TypeOK, NEW n \in Nodes, RoundSound(n), NEW item, Skip(n, item),
           poller[n].pc \in {"sweep", "poll"},
           faults' = 0 => faults = 0 /\ \A t \in Tasks :
               platform[t] = "suno" => (Unfinished(t)' => Unfinished(t)),
           UNCHANGED <<deployment, world, fetcher, funds, tokens, crashes, fetches>>
    PROVE  SunoKept(n)
  <1>1. poller'[n] = [poller[n] EXCEPT !.todo = @ \ {item}] /\ Others(n)
    BY SkipStep DEF Others
  <1>2. poller'[n].pc = poller[n].pc /\ poller'[n].todo = poller[n].todo \ {item}
    BY <1>1, PollerTyped DEF Poller
  <1>3. RoundSound(n)' /\ n \in masters
    BY <1>2 DEF RoundSound, deployment
  <1>4. ASSUME NEW t \in Tasks, RefundedOnce(t), SunoSound(n, t), Unfinished(t)' => Unfinished(t)
        PROVE  RefundedOnce(t)' /\ SunoSound(n, t)'
    BY <1>2, <1>4 DEF SunoSound, At, RefundedOnce
  <1> QED
    BY <1>1, <1>3, <1>4 DEF SunoKept, Alone, deployment

\* A row is finished by whoever writes RowWith of an ending status.
LEMMA RowFinished ==
    ASSUME TypeOK, NEW u \in Tasks, NEW status \in Ended,
           row' = [row EXCEPT ![u] = RowWith(status)], NEW t \in Tasks
    PROVE  (Unfinished(t)' => Unfinished(t)) /\ (t = u => ~Unfinished(t)')
  BY DEF TypeOK, Unfinished, RowWith

LEMMA SunoTimesOut ==
    ASSUME TypeOK, PollersSound, NEW n \in Nodes, RoundSound(n), NEW item \in poller[n].todo,
           TimeOut(n, item)
    PROVE  SunoKept(n)
  <1>0. /\ poller[n].pc = "sweep" /\ item.task \in Tasks
        /\ UNCHANGED <<deployment, world, fetcher, funds, tokens, crashes, fetches>>
    BY ItemType DEF TimeOut
  <1>1. CASE UpdateWithStatus(item, RowWith("FAILURE")) /\ Won(item)
             /\ Bill(n, item, "refund", "sweep") /\ UNCHANGED faults
    <2>1. row' = [row EXCEPT ![item.task] = RowWith("FAILURE")]
      BY <1>1 DEF UpdateWithStatus
    <2>2. /\ poller'[n].pc = "funding" /\ poller'[n].todo = poller[n].todo \ {item}
          /\ poller'[n].cur = item.task /\ poller'[n].kind = "refund" /\ poller'[n].next = "sweep"
          /\ Others(n)
      BY <1>0, <1>1, BillStep DEF Kinds, Others
    <2>3. RoundSound(n)' /\ n \in masters
      BY <1>0, <2>2 DEF RoundSound, deployment
    <2>4. ASSUME NEW t \in Tasks, RefundedOnce(t), SunoSound(n, t)
          PROVE  RefundedOnce(t)' /\ SunoSound(n, t)'
      <3>1. (Unfinished(t)' => Unfinished(t)) /\ (t = item.task => ~Unfinished(t)')
        BY <1>0, <2>1, RowFinished DEF Ended
      <3>2. funds'[t] = funds[t]
        BY <1>0
      <3>3. t = item.task => funds[t] = NoBills /\ \A i \in poller'[n].todo : i.task # t
        BY <2>2, <2>4 DEF SunoSound, RoundSound
      <3>4. funds[t] = NoBills \/ ~Unfinished(t)
        BY <1>0, <2>4 DEF SunoSound, At
      <3>5. \A i \in poller'[n].todo : i.task = t => funds[t] = NoBills /\ t # item.task
        BY <2>2, <2>4, <3>3 DEF SunoSound
      <3> QED
        BY <2>2, <2>4, <3>1, <3>2, <3>3, <3>4, <3>5 DEF SunoSound, At, WillEnd, RefundedOnce
    <2> QED
      BY <1>0, <1>1, <2>2, <2>3, <2>4 DEF SunoKept, Alone, deployment
  <1>2. CASE UpdateWithStatus(item, RowWith("FAILURE")) /\ ~Won(item)
             /\ Skip(n, item) /\ UNCHANGED faults
    <2>1. \A t \in Tasks : Unfinished(t)' = Unfinished(t)
      BY <1>2 DEF UpdateWithStatus, Unfinished
    <2> QED
      BY <1>0, <1>2, <2>1, SunoSkips
  <1>3. CASE Fault /\ Skip(n, item) /\ UNCHANGED row
    <2>1. faults' # 0
      BY <1>3 DEF Fault, TypeOK
    <2> QED
      BY <1>0, <1>3, <2>1, SunoSkips
  <1> QED
    BY <1>1, <1>2, <1>3 DEF TimeOut

LEMMA SunoChannelLost ==
    ASSUME TypeOK, NEW n \in Nodes, RoundSound(n), NEW item \in poller[n].todo,
           ChannelLost(n, item)
    PROVE  SunoKept(n)
  <1>0. /\ poller[n].pc = "poll" /\ item.task \in Tasks /\ Skip(n, item)
        /\ UNCHANGED <<deployment, world, fetcher, funds, tokens, crashes, fetches>>
    BY ItemType DEF ChannelLost
  <1>1. faults' = 0 => faults = 0 /\ \A t \in Tasks : Unfinished(t)' => Unfinished(t)
    <2>1. CASE row' = [row EXCEPT ![item.task] = RowWith("FAILURE")] /\ UNCHANGED faults
      BY <1>0, <2>1, RowFinished DEF Ended
    <2>2. CASE Fault /\ UNCHANGED row
      BY <2>2 DEF Fault, TypeOK
    <2> QED
      BY <2>1, <2>2 DEF ChannelLost
  <1> QED
    BY <1>0, <1>1, SunoSkips

LEMMA SunoNoAnswer ==
    ASSUME TypeOK, NEW n \in Nodes, RoundSound(n), NEW item \in poller[n].todo,
           NoAnswer(n, item)
    PROVE  SunoKept(n)
  <1>0. /\ poller[n].pc = "poll" /\ Skip(n, item)
        /\ UNCHANGED <<deployment, row, world, fetcher, funds, tokens, bounds>>
    BY DEF NoAnswer
  <1>1. \A t \in Tasks : Unfinished(t)' => Unfinished(t)
    BY <1>0 DEF Unfinished
  <1> QED
    BY <1>0, <1>1, SunoSkips DEF bounds

\* Another platform's task is polled: neither its row nor its bill concerns t.
LEMMA SunoVideo ==
    ASSUME TypeOK, PollersSound, NEW n \in Nodes, RoundSound(n), NEW item \in poller[n].todo,
           PollVideo(n, item)
    PROVE  SunoKept(n)
  <1>0. /\ poller[n].pc = "poll" /\ item.task \in Tasks /\ platform[item.task] # "suno"
        /\ UNCHANGED <<deployment, world, fetcher, funds, tokens, crashes, fetches>>
    BY ItemType DEF PollVideo
  <1>1. PICK status \in {Answer(item.task), "FAILURE"} :
            \/ /\ UpdateWithStatus(item, RowWith(status))
               /\ \/ status = "FAILURE" /\ Won(item) /\ Bill(n, item, "refund", "poll")
                  \/ status = "SUCCESS" /\ Won(item) /\ Bill(n, item, "adjust", "poll")
                  \/ (status # "FAILURE" \/ ~Won(item)) /\ Skip(n, item)
               /\ UNCHANGED faults
            \/ Fault /\ Skip(n, item) /\ UNCHANGED row
    BY DEF PollVideo
  <1>2. faults' = 0 => faults = 0
    BY <1>1 DEF Fault, TypeOK
  <1>3. \A t \in Tasks : platform[t] = "suno" => Unfinished(t)' = Unfinished(t)
    <2>1. \A t \in Tasks : t # item.task => row'[t] = row[t]
      BY <1>0, <1>1 DEF UpdateWithStatus, TypeOK
    <2> QED
      BY <1>0, <2>1 DEF Unfinished
  <1>4. CASE Skip(n, item)
    BY <1>0, <1>2, <1>3, <1>4, SunoSkips
  <1>5. ASSUME NEW kind \in Kinds, Bill(n, item, kind, "poll") PROVE SunoKept(n)
    <2>1. /\ poller'[n].pc = "funding" /\ poller'[n].todo = poller[n].todo \ {item}
          /\ poller'[n].cur = item.task /\ Others(n)
      BY <1>0, <1>5, BillStep DEF Others
    <2>2. RoundSound(n)' /\ n \in masters
      BY <1>0, <2>1 DEF RoundSound, deployment
    <2>3. ASSUME NEW t \in Tasks, platform[t] = "suno", RefundedOnce(t), SunoSound(n, t)
          PROVE  RefundedOnce(t)' /\ SunoSound(n, t)'
      <3>1. t # item.task /\ Unfinished(t)' = Unfinished(t) /\ funds'[t] = funds[t]
        BY <1>0, <1>3, <2>3
      <3>2. funds[t] = NoBills \/ ~Unfinished(t)
        BY <1>0, <2>3 DEF SunoSound, At
      <3> QED
        BY <2>1, <2>3, <3>1, <3>2 DEF SunoSound, At, RefundedOnce
    <2> QED
      BY <1>0, <1>2, <2>1, <2>2, <2>3 DEF SunoKept, Alone, deployment
  <1>6. "refund" \in Kinds /\ "adjust" \in Kinds
    BY DEF Kinds
  <1> QED
    BY <1>1, <1>4, <1>5, <1>6

LEMMA SunoPolled ==
    ASSUME TypeOK, PollersSound, NEW n \in Nodes, RoundSound(n), NEW item \in poller[n].todo,
           PollSuno(n, item)
    PROVE  SunoKept(n)
  <1>0. /\ poller[n].pc = "poll" /\ item.task \in Tasks /\ item.status \in Status
        /\ UNCHANGED <<deployment, row, world, fetcher, funds, tokens, bounds>>
    BY ItemType DEF PollSuno
  <1>1. PICK c \in Row, pc \in {"funding", "save"} :
            /\ poller' = [poller EXCEPT ![n].todo = @ \ {item}, ![n].cur = item.task, ![n].pc = pc,
                              ![n].kind = "refund", ![n].next = "save", ![n].copy = c]
            /\ pc = "funding" => c.full
    <2>1. PICK reason \in {FALSE, upstream[item.task] = "FAILURE"} :
            LET status == IF upstream[item.task] = "FAILURE" /\ reason THEN item.status
                          ELSE Answer(item.task)
                failed == reason \/ status = "FAILURE"
            IN  poller' = [poller EXCEPT
                    ![n].todo = @ \ {item}, ![n].cur = item.task,
                    ![n].pc = IF failed THEN "funding" ELSE "save",
                    ![n].kind = "refund", ![n].next = "save",
                    ![n].copy = [status |-> status, full |-> failed \/ status = "SUCCESS"]]
      BY DEF PollSuno
    <2> DEFINE status == IF upstream[item.task] = "FAILURE" /\ reason THEN item.status
                         ELSE Answer(item.task)
               failed == reason \/ status = "FAILURE"
               pc == IF failed THEN "funding" ELSE "save"
               full == failed \/ status = "SUCCESS"
               c == [status |-> status, full |-> full]
    <2>2. status \in Status
      BY <1>0, AnswerType
    <2>3. pc \in {"funding", "save"} /\ full \in BOOLEAN /\ (pc = "funding" => full)
      OBVIOUS
    <2>4. poller' = [poller EXCEPT ![n].todo = @ \ {item}, ![n].cur = item.task, ![n].pc = pc,
                         ![n].kind = "refund", ![n].next = "save", ![n].copy = c]
      BY <2>1
    <2> HIDE DEF status, pc, full
    <2>5. c \in Row /\ (pc = "funding" => c.full)
      BY <2>2, <2>3 DEF Row
    <2> HIDE DEF c
    <2> QED
      BY <2>3, <2>4, <2>5
  <1> DEFINE q == [poller[n] EXCEPT !.todo = @ \ {item}, !.cur = item.task, !.pc = pc,
                       !.kind = "refund", !.next = "save", !.copy = c]
  <1>2. q \in Poller
    BY <1>0, PollerTyped DEF Poller
  <1>3. poller' = [poller EXCEPT ![n] = q]
    BY <1>1
  <1>4. /\ q.pc = pc /\ q.todo = poller[n].todo \ {item} /\ q.cur = item.task /\ q.next = "save"
        /\ q.kind = "refund" /\ q.copy = c
    BY PollerTyped DEF Poller
  <1> HIDE DEF q
  <1>5. poller'[n] = q /\ Others(n)
    BY <1>2, <1>3, PollerReplaced DEF Others
  <1>6. RoundSound(n)' /\ n \in masters
    BY <1>0, <1>4, <1>5 DEF RoundSound, deployment
  <1>7. ASSUME NEW t \in Tasks, RefundedOnce(t), SunoSound(n, t)
        PROVE  RefundedOnce(t)' /\ SunoSound(n, t)'
    <2>1. Unfinished(t)' = Unfinished(t) /\ funds'[t] = funds[t]
      BY <1>0 DEF Unfinished
    <2>2. t = item.task => funds[t] = NoBills /\ \A i \in poller'[n].todo : i.task # t
      BY <1>4, <1>5, <1>7 DEF SunoSound, RoundSound
    <2>3. funds[t] = NoBills \/ ~Unfinished(t)
      BY <1>0, <1>7 DEF SunoSound, At
    <2>4. \A i \in poller'[n].todo : i.task = t => funds[t] = NoBills /\ t # item.task
      BY <1>4, <1>5, <1>7, <2>2 DEF SunoSound
    <2> QED
      BY <1>1, <1>4, <1>5, <1>7, <2>1, <2>2, <2>3, <2>4 DEF SunoSound, At, WillEnd, RefundedOnce
  <1> QED
    BY <1>0, <1>5, <1>6, <1>7 DEF SunoKept, Alone, deployment, bounds

LEMMA SunoSaved ==
    ASSUME TypeOK, PollersSound, NEW n \in Nodes, RoundSound(n), SaveTask(n)
    PROVE  SunoKept(n)
  <1>0. /\ poller[n].pc = "save" /\ poller' = [poller EXCEPT ![n].pc = "poll"]
        /\ UNCHANGED <<deployment, world, fetcher, funds, tokens, crashes, fetches>>
    BY DEF SaveTask
  <1>1. poller[n].cur \in Tasks /\ poller[n].copy \in Row
    BY <1>0, PollerTyped DEF PollersSound, PollerSound, Poller
  <1>2. /\ poller'[n] = [poller[n] EXCEPT !.pc = "poll"]
        /\ \A m \in Nodes : m # n => poller'[m] = poller[m]
    BY <1>0, PcStep
  <1>3. poller'[n].pc = "poll" /\ poller'[n].todo = poller[n].todo
    BY <1>2, PollerTyped DEF Poller
  <1>4. RoundSound(n)' /\ n \in masters
    BY <1>0, <1>3 DEF RoundSound, deployment
  <1>5. faults' = 0 => faults = 0 /\ row' = [row EXCEPT ![poller[n].cur] = poller[n].copy]
    BY DEF SaveTask, Fault, TypeOK
  <1>6. ASSUME NEW t \in Tasks, RefundedOnce(t), SunoSound(n, t),
               row' = [row EXCEPT ![poller[n].cur] = poller[n].copy]
        PROVE  RefundedOnce(t)' /\ SunoSound(n, t)'
    <2>1. funds'[t] = funds[t]
      BY <1>0
    <2>2. funds[t] = NoBills \/ ~Unfinished(t)'
      <3>1. CASE t = poller[n].cur
        <4>1. row'[t] = poller[n].copy
          BY <1>1, <1>6, <3>1 DEF TypeOK
        <4> QED
          BY <1>0, <1>6, <3>1, <4>1 DEF SunoSound, At, Unfinished
      <3>2. CASE t # poller[n].cur
        <4>1. row'[t] = row[t]
          BY <1>1, <1>6, <3>2 DEF TypeOK
        <4> QED
          BY <1>6, <3>2, <4>1 DEF SunoSound, At, Unfinished
      <3> QED
        BY <3>1, <3>2
    <2> QED
      BY <1>3, <1>6, <2>1, <2>2 DEF SunoSound, At, RefundedOnce
  <1> QED
    BY <1>0, <1>2, <1>4, <1>5, <1>6 DEF SunoKept, Others, Alone, deployment

LEMMA SunoFunds ==
    ASSUME TypeOK, PollersSound, NEW n \in Nodes, RoundSound(n), AdjustFunding(n)
    PROVE  SunoKept(n)
  <1>0. /\ poller[n].pc = "funding"
        /\ UNCHANGED <<deployment, row, world, fetcher, tokens, crashes, fetches>>
    BY DEF AdjustFunding
  <1>1. poller[n].cur \in Tasks /\ poller[n].kind \in Kinds
    BY <1>0, PollerTyped DEF PollersSound, PollerSound, Poller, Kinds
  <1>2. PICK pc \in {"token", "sweep", "poll", "save"} : poller' = [poller EXCEPT ![n].pc = pc]
    <2>1. poller[n].next \in {"sweep", "poll", "save"}
      BY PollerTyped DEF Poller
    <2> QED
      BY <2>1 DEF AdjustFunding
  <1>3. /\ poller'[n] = [poller[n] EXCEPT !.pc = pc]
        /\ \A m \in Nodes : m # n => poller'[m] = poller[m]
    BY <1>2, PcStep
  <1>4. /\ poller'[n].pc = pc /\ poller'[n].todo = poller[n].todo /\ poller'[n].cur = poller[n].cur
        /\ poller'[n].next = poller[n].next /\ poller'[n].copy = poller[n].copy
        /\ poller'[n].kind = poller[n].kind
    BY <1>3, PollerTyped DEF Poller
  <1>5. RoundSound(n)' /\ n \in masters
    BY <1>0, <1>4 DEF RoundSound, deployment
  <1>6. faults' = 0 => /\ faults = 0 /\ poller' = [poller EXCEPT ![n].pc = "token"]
                       /\ funds' = [funds EXCEPT ![poller[n].cur][poller[n].kind] = More(@)]
    BY DEF AdjustFunding, Fault, TypeOK
  <1>7. ASSUME NEW t \in Tasks, RefundedOnce(t), SunoSound(n, t),
               poller' = [poller EXCEPT ![n].pc = "token"],
               funds' = [funds EXCEPT ![poller[n].cur][poller[n].kind] = More(@)]
        PROVE  RefundedOnce(t)' /\ SunoSound(n, t)'
    <2>0. poller'[n].pc = "token"
      BY <1>7 DEF TypeOK
    <2>1. Unfinished(t)' = Unfinished(t)
      BY <1>0 DEF Unfinished
    <2>2. CASE t = poller[n].cur
      <3>1. funds[t] = NoBills /\ poller[n].kind = "refund" /\ WillEnd(n, t)
        BY <1>0, <1>7, <2>2 DEF SunoSound, At
      <3>2. funds'[t] = [NoBills EXCEPT !["refund"] = More(@)]
        BY <1>7, <2>2, <3>1 DEF TypeOK
      <3>3. funds'[t] = One("refund")
        BY <3>2, OneMore DEF Kinds
      <3>4. \A item \in poller[n].todo : item.task # t
        BY <1>0, <1>7, <2>2 DEF SunoSound, At
      <3> QED
        BY <1>4, <2>0, <2>1, <2>2, <3>1, <3>3, <3>4 DEF SunoSound, At, WillEnd, RefundedOnce
    <2>3. CASE t # poller[n].cur
      <3>1. funds'[t] = funds[t]
        BY <1>1, <1>7, <2>3 DEF TypeOK
      <3> QED
        BY <1>4, <1>7, <2>0, <2>1, <2>3, <3>1 DEF SunoSound, At, RefundedOnce
    <2> QED
      BY <2>2, <2>3
  <1> QED
    BY <1>0, <1>3, <1>5, <1>6, <1>7 DEF SunoKept, Others, Alone, deployment

LEMMA SunoToken ==
    ASSUME TypeOK, PollersSound, NEW n \in Nodes, RoundSound(n), AdjustToken(n)
    PROVE  SunoKept(n)
  <1>0. /\ poller[n].pc = "token" /\ poller' = [poller EXCEPT ![n].pc = poller[n].next]
        /\ UNCHANGED <<deployment, row, world, fetcher, funds, crashes, fetches>>
    BY DEF AdjustToken
  <1>1. poller[n].next \in {"sweep", "poll", "save"}
    BY PollerTyped DEF Poller
  <1>3. /\ poller'[n] = [poller[n] EXCEPT !.pc = poller[n].next]
        /\ \A m \in Nodes : m # n => poller'[m] = poller[m]
    BY <1>0, <1>1, PcStep
  <1>4. /\ poller'[n].pc = poller[n].next /\ poller'[n].todo = poller[n].todo
        /\ poller'[n].cur = poller[n].cur /\ poller'[n].copy = poller[n].copy
    BY <1>3, PollerTyped DEF Poller
  <1>5. RoundSound(n)' /\ n \in masters
    BY <1>0, <1>1, <1>4 DEF RoundSound, deployment
  <1>6. faults' = 0 => faults = 0
    BY DEF AdjustToken, Fault, TypeOK
  <1>7. ASSUME NEW t \in Tasks, RefundedOnce(t), SunoSound(n, t)
        PROVE  RefundedOnce(t)' /\ SunoSound(n, t)'
    <2>1. Unfinished(t)' = Unfinished(t) /\ funds'[t] = funds[t]
      BY <1>0 DEF Unfinished
    <2>2. poller[n].cur = t => WillEnd(n, t) /\ \A item \in poller[n].todo : item.task # t
      BY <1>0, <1>7 DEF SunoSound, At
    <2>3. poller[n].cur # t => funds[t] = NoBills \/ ~Unfinished(t)
      BY <1>7 DEF SunoSound, At
    <2> QED
      BY <1>1, <1>4, <1>7, <2>1, <2>2, <2>3 DEF SunoSound, At, WillEnd, RefundedOnce
  <1> QED
    BY <1>0, <1>3, <1>5, <1>6, <1>7 DEF SunoKept, Others, Alone, deployment

LEMMA SunoPollerStep ==
    ASSUME TypeOK, PollersSound, NEW n \in Nodes, RoundSound(n), PollerStep(n)
    PROVE  SunoKept(n)
  <1>1. CASE ListTimedOut(n)
    <2> DEFINE S == {t \in Tasks : Unfinished(t) /\ late[t]}
    <2>1. S \in SUBSET Tasks /\ \A t \in S : Unfinished(t)
      OBVIOUS
    <2>2. /\ n \in masters /\ poller[n].pc = "sleep" /\ Listed(n, "sweep", S)
          /\ UNCHANGED <<deployment, row, world, fetcher, funds, tokens, bounds>>
      BY <1>1 DEF ListTimedOut
    <2> HIDE DEF S
    <2> QED
      BY <2>1, <2>2, SunoListed
  <1>2. CASE ListUnfinished(n)
    <2> DEFINE S == {t \in Tasks : Unfinished(t)}
    <2>1. S \in SUBSET Tasks /\ \A t \in S : Unfinished(t)
      OBVIOUS
    <2>2. /\ poller[n].pc = "sweep" /\ Listed(n, "poll", S)
          /\ UNCHANGED <<deployment, row, world, fetcher, funds, tokens, bounds>>
      BY <1>2 DEF ListUnfinished
    <2>3. n \in masters
      BY <2>2 DEF RoundSound
    <2> HIDE DEF S
    <2> QED
      BY <2>1, <2>2, <2>3, SunoListed
  <1>3. ASSUME NEW item \in poller[n].todo, HandleItem(n, item) PROVE SunoKept(n)
    BY <1>3, SunoTimesOut, SunoChannelLost, SunoNoAnswer, SunoVideo, SunoPolled DEF HandleItem
  <1> QED
    BY <1>1, <1>2, <1>3, SunoRests, SunoFunds, SunoToken, SunoSaved DEF PollerStep

\* With one master, every other node sleeps.
LEMMA SunoInvStep == TypeOK /\ PollersSound /\ FetchersSound /\ SunoInv /\ [Next]_vars => SunoInv'
  <1> SUFFICES ASSUME TypeOK, PollersSound, FetchersSound, SunoInv, [Next]_vars PROVE SunoInv'
    OBVIOUS
  <1>0. \A n \in Nodes : RoundSound(n)
    BY DEF SunoInv
  <1>1. ASSUME NEW n \in Nodes, PollerStep(n) PROVE SunoInv'
    <2>1. SunoKept(n)
      BY <1>0, <1>1, SunoPollerStep
    <2>2. \A m \in Nodes : RoundSound(m)'
      <3> SUFFICES ASSUME NEW m \in Nodes, m # n PROVE RoundSound(m)'
        BY <2>1 DEF SunoKept
      <3>1. poller'[m] = poller[m] /\ masters' = masters /\ RoundSound(m)
        BY <1>0, <2>1 DEF SunoKept, Others
      <3> QED
        BY <3>1 DEF RoundSound
    <2>3. ASSUME Alone', NEW t \in Tasks, platform'[t] = "suno"
          PROVE  RefundedOnce(t)' /\ \A m \in masters' : SunoSound(m, t)'
      <3>1. Alone /\ platform[t] = "suno" /\ n \in masters /\ masters' = masters
        BY <2>1, <2>3 DEF SunoKept
      <3>2. masters = {n}
        <4>1. IsFiniteSet(masters)
          BY FS_Subset DEF TypeOK, TaskAssumption
        <4>2. Cardinality(masters) \in Nat /\ Cardinality(masters) <= 1 /\ masters # {}
          BY <3>1, <4>1, FS_CardinalityType DEF Alone
        <4>3. Cardinality(masters) = 1
          BY <4>1, <4>2, FS_EmptySet
        <4>4. PICK x : masters = {x}
          BY <4>1, <4>3, FS_Singleton
        <4> QED
          BY <3>1, <4>4
      <3>3. RefundedOnce(t) /\ SunoSound(n, t)
        BY <3>1 DEF SunoInv
      <3>4. RefundedOnce(t)' /\ SunoSound(n, t)'
        BY <2>1, <2>3, <3>1, <3>3 DEF SunoKept
      <3> QED
        BY <3>1, <3>2, <3>4
    <2> QED
      BY <2>2, <2>3 DEF SunoInv
  <1>2. ASSUME NEW n \in Nodes, Crash(n) PROVE SunoInv'
    <2>1. poller' = [poller EXCEPT ![n] = Resting] /\ masters' = masters /\ crashes' # 0
      BY <1>2 DEF Crash, deployment, TypeOK
    <2>2. poller'[n] = Resting /\ \A m \in Nodes : m # n => poller'[m] = poller[m]
      BY <2>1, PollerReplaced, RestingType
    <2>3. poller'[n].pc = "sleep" /\ poller'[n].todo = {}
      BY <2>2 DEF Resting
    <2>4. RoundSound(n)'
      BY <2>3 DEF RoundSound
    <2>5. \A m \in Nodes : m # n => RoundSound(m)'
      BY <1>0, <2>1, <2>2 DEF RoundSound
    <2> QED
      BY <2>1, <2>4, <2>5 DEF SunoInv, Alone
  \* Nobody's list and no Suno task's row or bill is touched.
  <1>3. ASSUME UNCHANGED <<platform, masters, poller, funds, faults, crashes>>,
               \A t \in Tasks : platform[t] = "suno" => row'[t] = row[t]
        PROVE  SunoInv'
    <2>1. \A n \in Nodes : RoundSound(n)'
      BY <1>0, <1>3 DEF RoundSound
    <2>2. ASSUME Alone', NEW t \in Tasks, platform'[t] = "suno"
          PROVE  RefundedOnce(t)' /\ \A m \in masters' : SunoSound(m, t)'
      <3>1. RefundedOnce(t) /\ \A m \in masters : SunoSound(m, t)
        BY <1>3, <2>2 DEF SunoInv, Alone
      <3>2. Unfinished(t)' = Unfinished(t) /\ funds'[t] = funds[t] /\ masters' = masters /\ poller' = poller
        BY <1>3, <2>2 DEF Unfinished
      <3> QED
        BY <3>1, <3>2 DEF SunoSound, At, WillEnd, RefundedOnce
    <2> QED
      BY <2>1, <2>2 DEF SunoInv
  <1>4. ASSUME NEW f \in Fetchers, WriteAnswer(f) PROVE SunoInv'
    <2>1. /\ fetcher[f].task \in Tasks /\ platform[fetcher[f].task] = "realtime"
          /\ UpdateWithStatus(fetcher[f], RowWith(Answer(fetcher[f].task)))
          /\ UNCHANGED <<platform, masters, poller, funds, faults, crashes>>
      BY <1>4 DEF WriteAnswer, FetchersSound, deployment, bounds
    <2>2. \A t \in Tasks : platform[t] = "suno" => row'[t] = row[t]
      BY <2>1 DEF UpdateWithStatus, TypeOK
    <2> QED
      BY <1>3, <2>1, <2>2
  <1>5. ASSUME NEW f \in Fetchers, NEW t \in Tasks, ReadTask(f, t) PROVE SunoInv'
    BY <1>3, <1>5 DEF ReadTask, deployment
  <1>6. ASSUME NEW t \in Tasks, UpstreamEnds(t) \/ TimePasses(t) \/ DeleteChannel(t) PROVE SunoInv'
    BY <1>3, <1>6 DEF UpstreamEnds, TimePasses, DeleteChannel, deployment, bounds
  <1>7. CASE UNCHANGED vars
    BY <1>3, <1>7 DEF vars
  <1> QED
    BY <1>1, <1>2, <1>4, <1>5, <1>6, <1>7 DEF Next

(* SunoInv holds in every reachable state: with one master and nothing     *)
(* failing, a Suno task between its refund and the write that ends it is   *)
(* still in the hands of the node that refunded it, and on no list.        *)
THEOREM SunoInvariant == Spec => []SunoInv
  <1>1. Init => SunoInv
    <2> SUFFICES ASSUME Init PROVE SunoInv
      OBVIOUS
    <2>1. \A n \in Nodes : poller[n].pc = "sleep" /\ poller[n].todo = {}
      BY DEF Init, Resting
    <2>2. \A n \in Nodes : RoundSound(n)
      BY <2>1 DEF RoundSound
    <2>3. ASSUME NEW t \in Tasks PROVE RefundedOnce(t) /\ \A n \in masters : SunoSound(n, t)
      <3>1. funds[t] = NoBills /\ masters \subseteq Nodes
        BY DEF Init
      <3> QED
        BY <2>1, <3>1 DEF SunoSound, At, RefundedOnce
    <2> QED
      BY <2>2, <2>3 DEF SunoInv
  <1>2. TaskInv /\ SunoInv /\ [Next]_vars => SunoInv'
    BY SunoInvStep DEF TaskInv
  <1> QED
    BY <1>1, <1>2, TaskInvariant, PTL DEF Spec

(* As long as one master polls and neither a statement fails nor the node  *)
(* dies, no Suno task is refunded twice, although updateSunoTasks refunds  *)
(* it before the write that ends it.                                       *)
THEOREM SunoAlwaysRefundedOnceAlone == Spec => []SunoRefundedOnceAlone
  <1>1. SunoInv => SunoRefundedOnceAlone
    <2>1. BilledAtMostOnce(NoBills) /\ BilledAtMostOnce(One("refund"))
      BY DEF BilledAtMostOnce, One, NoBills
    <2> QED
      BY <2>1 DEF SunoInv, Alone, RefundedOnce, SunoRefundedOnceAlone
  <1> QED
    BY <1>1, SunoInvariant, PTL
=============================================================================
