--------------------------- MODULE Client_proofs ---------------------------
(***************************************************************************)
(* Proofs about the two clients: the desktop shell and, in the second      *)
(* part, the chat playground of the web client.                            *)
(*                                                                         *)
(* DesktopShell, for any number of retries, windows and requests to quit:  *)
(* the probes of start-up are bounded, the application never exits with    *)
(* its server alive, and no window gets out of the user's reach.           *)
(***************************************************************************)
EXTENDS DesktopShell, Playground, SequenceTheorems, TLAPS

(* The counters are naturals: what the arithmetic below needs of TypeOK.   *)
Counters == attempts \in Nat /\ inFlight \in Nat /\ timers \in Nat /\ killTimers \in Nat

(* Every probe has come from a timer or is the first, and a finished probe *)
(* has set at most two timers; a probe in flight has set none yet.         *)
ProbeBalance == timers + 2 * inFlight <= attempts + 1

ProbeInv == Counters /\ ProbeBalance /\ ProbesBounded

(* The variable serverProcess is cleared only once the child is reported   *)
(* closed; a child whose exit is still to be reported is dead.             *)
ChildInv ==
    /\ ~serverProcess => ~Alive
    /\ exitCode # "none" => ~Alive
    /\ NoOrphanedServer

(* Start-up begins with one probe and the balance kept.                    *)
LEMMA ProbeInit == Init => ProbeInv
  BY DesktopShellAssumption DEF Init, ProbeInv, Counters, ProbeBalance, ProbesBounded, Probes

(* The three probe steps keep the balance and the bound.                   *)
LEMMA ProbeSteps ==
  ASSUME ProbeInv, ProbeAnswered \/ (\E retries \in 1..2 : ProbeFails(retries)) \/ Retry
  PROVE  ProbeInv'
<1> USE DesktopShellAssumption DEF ProbeInv, Counters, ProbeBalance, ProbesBounded, Probes
<1>1. CASE ProbeAnswered
  BY <1>1 DEF ProbeAnswered, quitting
<1>2. ASSUME NEW retries \in 1..2, ProbeFails(retries)
      PROVE  ProbeInv'
  <2>1. CASE attempts >= MaxRetries
    BY <1>2, <2>1 DEF ProbeFails, quitting
  <2>2. CASE ~(attempts >= MaxRetries)
    <3>1. /\ timers' = timers + retries /\ inFlight' = inFlight - 1 /\ inFlight > 0
          /\ attempts' = attempts /\ killTimers' = killTimers
      BY <1>2, <2>2 DEF ProbeFails, quitting
    <3> QED  BY <2>2, <3>1
  <2> QED  BY <2>1, <2>2
<1>3. CASE Retry
  BY <1>3 DEF Retry, quitting
<1> QED  BY <1>1, <1>2, <1>3

(* No other step touches the probes.                                       *)
LEMMA ProbeNext == ProbeInv /\ [Next]_vars => ProbeInv'
<1> SUFFICES ASSUME ProbeInv, [Next]_vars
             PROVE  ProbeInv'
  OBVIOUS
<1> USE DesktopShellAssumption DEF ProbeInv, Counters, ProbeBalance, ProbesBounded, Probes, probe, quitting
<1>1. CASE ProbeAnswered \/ (\E retries \in 1..2 : ProbeFails(retries)) \/ Retry
  BY ProbeSteps, <1>1
<1>2. CASE ServerListens
  BY <1>2 DEF ServerListens
<1>3. ASSUME NEW code \in {"normal", "abnormal"}, ServerDies(code)
      PROVE  ProbeInv'
  BY <1>3 DEF ServerDies
<1>4. CASE ServerClosed
  BY <1>4 DEF ServerClosed
<1>5. CASE SpawnError
  BY <1>5 DEF SpawnError
<1>6. CASE Activate
  BY <1>6 DEF Activate
<1>7. CASE TrayShow \/ TrayHide
  BY <1>7 DEF TrayShow, TrayHide
<1>8. ASSUME NEW w \in Windows, CloseWindow(w)
      PROVE  ProbeInv'
  BY <1>8 DEF CloseWindow
<1>9. CASE TrayQuit \/ SystemQuit \/ CrashDialogDone \/ StartDialogDone
  <2>1. Quit
    BY <1>9 DEF TrayQuit, SystemQuit, CrashDialogDone, StartDialogDone
  <2> QED  BY <2>1 DEF Quit, BeforeQuit, CloseAll
<1>10. CASE KillTimer
  BY <1>10 DEF KillTimer
<1>11. CASE UNCHANGED vars
  BY <1>11 DEF vars
<1> QED
  BY <1>1, <1>2, <1>3, <1>4, <1>5, <1>6, <1>7, <1>8, <1>9, <1>10, <1>11 DEF Next

(* checkServerAvailability sends fewer than 2 * maxRetries probes, whatever *)
(* maxRetries is, although a timeout schedules two.                        *)
THEOREM ProbesAreBounded == Spec => []ProbesBounded
<1>1. ProbeInv => ProbesBounded
  BY DEF ProbeInv
<1> QED  BY ProbeInit, ProbeNext, <1>1, PTL DEF Spec

----------------------------------------------------------------------------
(* At the start the child is alive and the variable set, or, in            *)
(* development mode, there is neither.                                     *)
LEMMA ChildInit == Init => ChildInv
  BY DEF Init, ChildInv, NoOrphanedServer, Alive

(* An application exits by the timer, which kills, on the child's close    *)
(* event, or with no child: see BeforeQuit.                                *)
LEMMA ChildNext == ChildInv /\ [Next]_vars => ChildInv'
<1> SUFFICES ASSUME ChildInv, [Next]_vars
             PROVE  ChildInv'
  OBVIOUS
<1> USE DEF ChildInv, NoOrphanedServer, Alive, child, Running
<1>1. CASE ProbeAnswered
  BY <1>1 DEF ProbeAnswered
<1>2. ASSUME NEW retries \in 1..2, ProbeFails(retries)
      PROVE  ChildInv'
  BY <1>2 DEF ProbeFails, Reject
<1>3. CASE Retry
  BY <1>3 DEF Retry
<1>4. CASE ServerListens
  BY <1>4 DEF ServerListens
<1>5. ASSUME NEW code \in {"normal", "abnormal"}, ServerDies(code)
      PROVE  ChildInv'
  BY <1>5 DEF ServerDies
<1>6. CASE ServerClosed
  BY <1>6 DEF ServerClosed
<1>7. CASE SpawnError
  BY <1>7 DEF SpawnError, Reject
<1>8. CASE Activate
  BY <1>8 DEF Activate
<1>9. CASE TrayShow \/ TrayHide
  BY <1>9 DEF TrayShow, TrayHide
<1>10. ASSUME NEW w \in Windows, CloseWindow(w)
       PROVE  ChildInv'
  BY <1>10 DEF CloseWindow
<1>11. CASE TrayQuit \/ SystemQuit \/ CrashDialogDone \/ StartDialogDone
  <2>1. Quit
    BY <1>11 DEF TrayQuit, SystemQuit, CrashDialogDone, StartDialogDone
  <2> QED  BY <2>1 DEF Quit, BeforeQuit, CloseAll
<1>12. CASE KillTimer
  BY <1>12 DEF KillTimer
<1>13. CASE UNCHANGED vars
  BY <1>13 DEF vars
<1> QED
  BY <1>1, <1>2, <1>3, <1>4, <1>5, <1>6, <1>7, <1>8, <1>9, <1>10, <1>11, <1>12, <1>13 DEF Next

(* The application never exits and leaves the server it started running.   *)
THEOREM ServerIsNeverOrphaned == Spec => []NoOrphanedServer
<1>1. ChildInv => NoOrphanedServer
  BY DEF ChildInv
<1> QED  BY ChildInit, ChildNext, <1>1, PTL DEF Spec

----------------------------------------------------------------------------
(* What TypeOK says of the variables no window depends on.  Each request   *)
(* to quit sets at most one timer.                                         *)
ControlType ==
    /\ dev \in BOOLEAN /\ foreign \in BOOLEAN
    /\ app \in {"starting", "ready", "failed", "exited"}
    /\ server \in {"none", "starting", "up", "dead"}
    /\ exitCode \in {"none", "normal", "abnormal"}
    /\ serverProcess \in BOOLEAN
    /\ isQuitting \in BOOLEAN
    /\ dialogs \subseteq {"crash", "start"}
    /\ early \in BOOLEAN
    /\ attempts > 0
    /\ killTimers \in Nat /\ quits \in 0..MaxQuits /\ killTimers <= quits

(* mainWindow is open whenever it is set.  Without a window from the dock  *)
(* before start-up was through, no other is, and none before the tray.     *)
WindowInv ==
    /\ win \in [Windows -> {"none", "shown", "hidden"}]
    /\ mainWindow \in Windows \cup {NoWindow}
    /\ mainWindow # NoWindow => win[mainWindow] # "none"
    /\ Running /\ ~early => \A w \in Open : mainWindow = w /\ app = "ready"

(* Start-up begins without windows, dialogs or timers.                     *)
LEMMA ControlInit == Init => ControlType /\ WindowInv
<1> SUFFICES ASSUME Init
             PROVE  ControlType /\ WindowInv
  OBVIOUS
<1>1. serverProcess \in BOOLEAN /\ server \in {"none", "starting", "up", "dead"}
  BY DEF Init
<1>2. attempts > 0 /\ killTimers \in Nat /\ quits \in 0..MaxQuits /\ killTimers <= quits
  BY DesktopShellAssumption DEF Init
<1>3. /\ dev \in BOOLEAN /\ foreign \in BOOLEAN /\ isQuitting \in BOOLEAN /\ early \in BOOLEAN
      /\ dialogs \subseteq {"crash", "start"} /\ exitCode \in {"none", "normal", "abnormal"}
      /\ app \in {"starting", "ready", "failed", "exited"}
  BY DEF Init
<1>4. ControlType
  BY <1>1, <1>2, <1>3 DEF ControlType
<1>5. WindowInv
  BY DEF Init, WindowInv, Open
<1> QED  BY <1>4, <1>5

(* BeforeQuit sets one timer or leaves them.                               *)
LEMMA QuitControl ==
  ASSUME ControlType, Quit
  PROVE  /\ app' \in {"starting", "ready", "failed", "exited"}
         /\ killTimers' \in Nat /\ quits' \in 0..MaxQuits /\ killTimers' <= quits'
<1>1. quits < MaxQuits /\ quits' = quits + 1
  BY DEF Quit
<1>2. killTimers' = killTimers \/ killTimers' = killTimers + 1
  BY DEF Quit, BeforeQuit, CloseAll
<1>3. app' = app \/ app' = "exited"
  BY DEF Quit, BeforeQuit, CloseAll
<1> QED  BY DesktopShellAssumption, <1>1, <1>2, <1>3 DEF ControlType

\* The control part of the shell keeps its types, step by step.
LEMMA ControlNext == ProbeInv /\ ControlType /\ [Next]_vars => ControlType'
<1> SUFFICES ASSUME ProbeInv, ControlType, [Next]_vars
             PROVE  ControlType'
  OBVIOUS
<1> USE DEF ControlType, scene, child, probe, ui, quitting
<1>1. CASE ProbeAnswered
  BY <1>1 DEF ProbeAnswered
<1>2. ASSUME NEW retries \in 1..2, ProbeFails(retries)
      PROVE  ControlType'
  BY <1>2 DEF ProbeFails, Reject
<1>3. CASE Retry
  BY <1>3 DEF Retry, ProbeInv, Counters
<1>4. CASE ServerListens
  BY <1>4 DEF ServerListens
<1>5. ASSUME NEW code \in {"normal", "abnormal"}, ServerDies(code)
      PROVE  ControlType'
  BY <1>5 DEF ServerDies
<1>6. CASE ServerClosed
  BY <1>6 DEF ServerClosed
<1>7. CASE SpawnError
  BY <1>7 DEF SpawnError, Reject
<1>8. CASE Activate
  BY <1>8 DEF Activate
<1>9. CASE TrayShow \/ TrayHide
  BY <1>9 DEF TrayShow, TrayHide
<1>10. ASSUME NEW w \in Windows, CloseWindow(w)
       PROVE  ControlType'
  BY <1>10 DEF CloseWindow
<1>11. CASE TrayQuit \/ SystemQuit \/ CrashDialogDone \/ StartDialogDone
  <2>1. Quit
    BY <1>11 DEF TrayQuit, SystemQuit, CrashDialogDone, StartDialogDone
  <2>2. /\ UNCHANGED <<dev, foreign, server, exitCode, serverProcess, attempts, early>>
        /\ isQuitting' \in BOOLEAN /\ dialogs' \subseteq {"crash", "start"}
    BY <1>11 DEF TrayQuit, SystemQuit, CrashDialogDone, StartDialogDone, Quit
  <2> QED  BY <2>1, <2>2, QuitControl
<1>12. CASE KillTimer
  <2>1. /\ killTimers' = killTimers - 1 /\ killTimers > 0 /\ quits' = quits /\ app' = "exited"
        /\ server' \in {"none", "starting", "up", "dead"}
        /\ UNCHANGED <<dev, foreign, exitCode, serverProcess, attempts, early, isQuitting, dialogs>>
    BY <1>12 DEF KillTimer
  <2>2. killTimers' \in Nat /\ killTimers' <= quits'
    BY <2>1, DesktopShellAssumption
  <2> QED  BY <2>1, <2>2
<1>13. CASE UNCHANGED vars
  BY <1>13 DEF vars
<1> QED
  BY <1>1, <1>2, <1>3, <1>4, <1>5, <1>6, <1>7, <1>8, <1>9, <1>10, <1>11, <1>12, <1>13 DEF Next

(* createWindow, when no window is open or one may be out of reach.        *)
LEMMA Created ==
  ASSUME WindowInv, CreateWindow,
         ~(Running' /\ ~early') \/ (Open = {} /\ app' = "ready")
  PROVE  WindowInv'
<1>1. PICK w \in Windows \ Open : win' = [win EXCEPT ![w] = "shown"] /\ mainWindow' = w
  BY DEF CreateWindow
<1>2. Open' = Open \cup {w}
  BY <1>1 DEF Open, WindowInv
<1> QED  BY <1>1, <1>2 DEF WindowInv

(* A close event hides or forgets mainWindow.                              *)
LEMMA Closed ==
  ASSUME WindowInv, NEW w \in Windows, CloseEvent(w), win[w] # "none", early' = early,
         app' = app \/ app' = "exited"
  PROVE  WindowInv'
<1>1. CASE isQuitting
  <2>1. win' = [win EXCEPT ![w] = "none"] /\ mainWindow' = NoWindow
    BY <1>1 DEF CloseEvent
  <2>2. Open' = Open \ {w}
    BY <2>1 DEF Open, WindowInv
  <2>3. w \in Open
    BY DEF Open
  <2> QED  BY <2>1, <2>2, <2>3 DEF WindowInv, Running
<1>2. CASE ~isQuitting /\ mainWindow = NoWindow
  BY <1>2 DEF CloseEvent, WindowInv, Open, Running
<1>3. CASE ~isQuitting /\ mainWindow # NoWindow
  <2>1. win' = [win EXCEPT ![mainWindow] = "hidden"] /\ mainWindow' = mainWindow /\ mainWindow \in Windows
    BY <1>3 DEF CloseEvent, WindowInv
  <2>2. Open' = Open
    BY <1>3, <2>1 DEF Open, WindowInv
  <2> QED  BY <1>3, <2>1, <2>2 DEF WindowInv, Running
<1> QED  BY <1>1, <1>2, <1>3

(* The windows stay, and the application stays ready.                      *)
LEMMA WindowsStay ==
  ASSUME WindowInv, UNCHANGED <<win, mainWindow, early>>,
         app' = app \/ app' = "exited" \/ app = "starting"
  PROVE  WindowInv'
  BY DEF WindowInv, Open, Running

\* Windows, tray and quitting keep what tray and dock rely on.
LEMMA WindowNext == ControlType /\ WindowInv /\ [Next]_vars => WindowInv'
<1> SUFFICES ASSUME ControlType, WindowInv, [Next]_vars
             PROVE  WindowInv'
  OBVIOUS
<1> USE DEF ui
<1>1. CASE ProbeAnswered
  <2>1. CASE app = "starting"
    <3>1. CreateWindow /\ app' = "ready" /\ early' = early /\ Running
      BY <1>1, <2>1 DEF ProbeAnswered
    <3>2. ~early => Open = {}
      BY <2>1, <3>1 DEF WindowInv
    <3> QED  BY <3>1, <3>2, Created DEF ControlType
  <2>2. CASE app # "starting"
    BY <1>1, <2>2, WindowsStay DEF ProbeAnswered
  <2> QED  BY <2>1, <2>2
<1>2. ASSUME NEW retries \in 1..2, ProbeFails(retries)
      PROVE  WindowInv'
  BY <1>2, WindowsStay DEF ProbeFails, Reject
<1>3. CASE Retry \/ ServerListens \/ KillTimer
  BY <1>3, WindowsStay DEF Retry, ServerListens, KillTimer
<1>4. ASSUME NEW code \in {"normal", "abnormal"}, ServerDies(code)
      PROVE  WindowInv'
  BY <1>4, WindowsStay DEF ServerDies
<1>5. CASE ServerClosed
  <2>1. early' = early /\ (app' = app \/ app' = "exited")
    BY <1>5 DEF ServerClosed
  <2>2. CASE exitCode = "normal" /\ mainWindow # NoWindow
    BY <1>5, <2>1, <2>2, Closed DEF ServerClosed, WindowInv
  <2>3. CASE ~(exitCode = "normal" /\ mainWindow # NoWindow)
    BY <1>5, <2>1, <2>3, WindowsStay DEF ServerClosed
  <2> QED  BY <2>2, <2>3
<1>6. CASE SpawnError
  BY <1>6, WindowsStay DEF SpawnError, Reject
<1>7. CASE Activate
  BY <1>7, Created DEF Activate, ControlType
<1>8. CASE TrayShow
  <2>1. app = "ready" /\ app' = app /\ early' = early
    BY <1>8 DEF TrayShow
  <2>2. CASE mainWindow = NoWindow
    <3>1. CreateWindow
      BY <1>8, <2>2 DEF TrayShow
    <3>2. ~early => Open = {}
      BY <2>1, <2>2, DesktopShellAssumption DEF WindowInv, Open, Running
    <3> QED  BY <2>1, <3>1, <3>2, Created DEF ControlType
  <2>3. CASE mainWindow # NoWindow
    <3>1. win' = [win EXCEPT ![mainWindow] = "shown"] /\ mainWindow' = mainWindow /\ mainWindow \in Windows
      BY <1>8, <2>3 DEF TrayShow, WindowInv
    <3>2. Open' = Open
      BY <2>3, <3>1 DEF Open, WindowInv
    <3> QED  BY <2>1, <3>1, <3>2 DEF WindowInv, Running
  <2> QED  BY <2>2, <2>3
<1>9. CASE TrayHide
  <2>1. /\ win' = [win EXCEPT ![mainWindow] = "hidden"] /\ mainWindow' = mainWindow
        /\ mainWindow \in Windows /\ app' = app /\ early' = early
    BY <1>9 DEF TrayHide, WindowInv
  <2>2. Open' = Open
    BY <1>9, <2>1 DEF Open, WindowInv, TrayHide
  <2> QED  BY <2>1, <2>2 DEF WindowInv, Running
<1>10. ASSUME NEW w \in Windows, CloseWindow(w)
       PROVE  WindowInv'
  BY <1>10, Closed DEF CloseWindow
<1>11. CASE TrayQuit \/ SystemQuit \/ CrashDialogDone \/ StartDialogDone
  <2>1. Quit
    BY <1>11 DEF TrayQuit, SystemQuit, CrashDialogDone, StartDialogDone
  <2>2. early' = early
    BY <2>1 DEF Quit
  <2>3. CASE serverProcess
    BY <2>1, <2>2, <2>3, WindowsStay DEF Quit, BeforeQuit
  <2>4. CASE ~serverProcess /\ isQuitting'
    BY <2>1, <2>4, DesktopShellAssumption DEF Quit, BeforeQuit, CloseAll, WindowInv, Running
  <2>5. CASE ~serverProcess /\ ~isQuitting'
    <3>1. /\ win' = [w \in Windows |-> IF w = mainWindow THEN "hidden" ELSE win[w]]
          /\ mainWindow' = mainWindow /\ (app' = app \/ app' = "exited")
      BY <2>1, <2>5 DEF Quit, BeforeQuit, CloseAll
    <3>2. Open' = Open
      BY <3>1, DesktopShellAssumption DEF Open, WindowInv
    <3> QED  BY <2>2, <3>1, <3>2 DEF WindowInv, Running
  <2> QED  BY <2>3, <2>4, <2>5
<1>12. CASE UNCHANGED vars
  BY <1>12, WindowsStay DEF vars
<1> QED
  BY <1>1, <1>2, <1>3, <1>4, <1>5, <1>6, <1>7, <1>8, <1>9, <1>10, <1>11, <1>12 DEF Next

(* The bounds of TypeOK follow from the balance of the probes.             *)
LEMMA ShellTypes == ProbeInv /\ ControlType /\ WindowInv => WindowsSound
<1> SUFFICES ASSUME ProbeInv, ControlType, WindowInv
             PROVE  WindowsSound
  OBVIOUS
<1>1. attempts \in 1..Probes /\ inFlight \in 0..Probes /\ timers \in 0..Probes
  BY DesktopShellAssumption
  DEF ProbeInv, Counters, ProbeBalance, ProbesBounded, Probes, ControlType
<1>2. killTimers \in 0..MaxQuits
  BY DesktopShellAssumption DEF ControlType
<1>3. TypeOK
  BY <1>1, <1>2 DEF TypeOK, ControlType, WindowInv
<1>4. NoWindowIsStranded
  BY DEF NoWindowIsStranded, WindowInv
<1> QED  BY <1>3, <1>4 DEF WindowsSound

(* Tray and dock can always show the window there is again, unless the     *)
(* dock made one before start-up was through; counters and dialogs stay    *)
(* within their bounds, whatever maxRetries is.                            *)
THEOREM WindowsAlwaysSound == Spec => []WindowsSound
  BY ProbeInit, ProbeNext, ControlInit, ControlNext, WindowNext, ShellTypes, PTL DEF Spec

----------------------------------------------------------------------------
(* Playground, for any number of requests.  Callbacks update "the last     *)
(* message", so what has to be shown is that the last message is the one   *)
(* that waits for the request that calls back, on the page there is and on *)
(* every page that was left while its request was running, as long as      *)
(* nobody has changed the conversation under an answer.                    *)
(***************************************************************************)
\* Conversations that fit: each request that was sent has brought two
\* messages at most, and requests are sent in order.
Lists(rq) ==
    {L \in Seq(Messages) : /\ Len(L) <= 2 * MaxRequests
                           /\ \A r \in Requests : rq[r] = "new" => Len(L) <= 2 * (r - 1)}

OwnText(m) == m.from = "assistant" => m.by \subseteq {m.req, User}
Own(L) == \A i \in 1..Len(L) : OwnText(L[i])
OnlyLast(L) == \A i \in 1..Len(L) : Unsettled(L[i]) => i = Len(L)
Quiet(L) == \A i \in 1..Len(L) : ~Unsettled(L[i])

Keys == ({"user", "assistant"} \X Requests) \cup {NoKey}

ChatTyped ==
    /\ stream \in BOOLEAN /\ dirty \in BOOLEAN /\ isComplete \in BOOLEAN
    /\ open \in BOOLEAN /\ meddled \in BOOLEAN
    /\ requests \in [Requests -> {"new", "open", "cut", "closed", "orphan"}]
    /\ messages \in Lists(requests) /\ storage \in Lists(requests)
    /\ rendered \in [messages : Lists(requests), isGenerating : BOOLEAN]
    /\ left \in [Requests -> Lists(requests)]
    /\ sseSource \in Requests \cup {None}
    /\ editing \in Keys

\* What a click acts on is what the page holds, unless a re-render is due; a
\* page that has been left waits for nothing; without streaming nothing can be
\* stopped.
PageInv ==
    /\ open /\ ~dirty => rendered.messages = messages
    /\ ~open => \A r \in Requests : requests[r] # "open"
    /\ ~stream => sseSource = None /\ ~rendered.isGenerating

\* A request that is open is the one the last message waits for.
Awaited(r) ==
    /\ messages # <<>> /\ Unsettled(Last(messages)) /\ Last(messages).req = r
    /\ stream => sseSource = r

\* Nothing has changed the conversation under an answer: only the last message
\* of a page waits, for the one request that is open, and each has its own text.
AnswersInv ==
    ~meddled =>
        /\ Own(messages) /\ Own(storage) /\ \A r \in Requests : Own(left[r])
        /\ OnlyLast(messages) /\ OnlyLast(storage) /\ \A r \in Requests : OnlyLast(left[r])
        /\ open => \A r \in Requests : requests[r] = "open" => Awaited(r)
        /\ \A r \in Requests : requests[r] = "orphan" =>
               left[r] # <<>> /\ Last(left[r]).from = "assistant" /\ Last(left[r]).req = r
        /\ open /\ ~dirty => rendered.isGenerating = (sseSource # None)
        /\ open /\ stream /\ ~Quiet(messages) => sseSource # None

ChatInv == ChatTyped /\ PageInv /\ AnswersInv

----------------------------------------------------------------------------
(* Lists of messages.                                                      *)
(***************************************************************************)
LEMMA ListElements ==
    ASSUME NEW L \in Seq(Messages)
    PROVE  /\ Len(L) \in Nat /\ DOMAIN L = 1..Len(L)
           /\ \A i \in 1..Len(L) : L[i] \in Messages
           /\ L # <<>> <=> Len(L) # 0
           /\ L # <<>> => Len(L) \in 1..Len(L) /\ Last(L) = L[Len(L)]
  <1>1. Len(L) \in Nat /\ DOMAIN L = 1..Len(L) /\ \A i \in 1..Len(L) : L[i] \in Messages
    BY LenProperties, ElementOfSeq
  <1>2. L # <<>> <=> Len(L) # 0
    BY <1>1, EmptySeq
  <1> QED
    BY <1>1, <1>2 DEF Last

\* What a message is made of.
LEMMA MessageFields ==
    ASSUME NEW m \in Messages
    PROVE  /\ m.from \in {"user", "assistant"} /\ m.req \in Requests
           /\ m.status \in {"loading", "streaming", "complete", "error"}
           /\ m.by \in SUBSET (Requests \cup {User})
  BY DEF Messages

\* What the updaters have in common.
Updates(u) == /\ u \in [Messages -> Messages]
              /\ \A m \in Messages : u[m].from = m.from /\ u[m].req = m.req
Writes(u, r) == \A m \in Messages : u[m].by \subseteq m.by \cup {r}
Ends(u) == \A m \in Messages : ~Unsettled(u[m])

\* The four updaters keep a message's author and request and write for r
\* only; all but a chunk end the wait.
LEMMA Updaters ==
    ASSUME NEW r \in Requests
    PROVE  /\ Updates(WithChunk(r)) /\ Updates(Completed) /\ Updates(WithError)
           /\ Updates(WithAnswer(r))
           /\ Writes(WithChunk(r), r) /\ Writes(Completed, r) /\ Writes(WithError, r)
           /\ Writes(WithAnswer(r), r)
           /\ Ends(Completed) /\ Ends(WithError) /\ Ends(WithAnswer(r))
  <1>1. Updates(WithChunk(r)) /\ Writes(WithChunk(r), r)
    BY DEF Updates, Writes, WithChunk, Messages
  <1>2. Updates(Completed) /\ Writes(Completed, r) /\ Ends(Completed)
    BY DEF Updates, Writes, Ends, Completed, Messages, Unsettled
  <1>3. Updates(WithError) /\ Writes(WithError, r) /\ Ends(WithError)
    BY DEF Updates, Writes, Ends, WithError, Messages, Unsettled
  <1>4. Updates(WithAnswer(r)) /\ Writes(WithAnswer(r), r) /\ Ends(WithAnswer(r))
    BY DEF Updates, Writes, Ends, WithAnswer, Messages, Unsettled
  <1> QED
    BY <1>1, <1>2, <1>3, <1>4

\* An update changes the last message, if that is an answer.
LEMMA UpdateLast ==
    ASSUME NEW L \in Seq(Messages), NEW u, Updates(u)
    PROVE  LET M == updateLastAssistantMessage(L, u) IN
           /\ M \in Seq(Messages) /\ Len(M) = Len(L)
           /\ \A j \in 1..Len(L) :
                  M[j] = IF j = Len(L) /\ L[j].from = "assistant" THEN u[L[j]] ELSE L[j]
  <1> DEFINE M == updateLastAssistantMessage(L, u)
             k == Len(L)
  <1>1. k \in Nat /\ \A i \in 1..k : L[i] \in Messages
    BY ListElements
  <1>2. CASE L # <<>> /\ Last(L).from = "assistant"
    <2>1. k \in 1..k /\ Last(L) = L[k] /\ L[k] \in Messages /\ u[L[k]] \in Messages
      BY <1>1, <1>2, ListElements DEF Updates
    <2>2. M = [L EXCEPT ![k] = u[L[k]]]
      BY <1>2 DEF updateLastAssistantMessage
    <2> QED
      BY <1>2, <2>1, <2>2, ExceptSeq
  <1>3. CASE ~(L # <<>> /\ Last(L).from = "assistant")
    <2>1. M = L
      BY <1>3 DEF updateLastAssistantMessage
    <2>2. \A j \in 1..k : ~(j = k /\ L[j].from = "assistant")
      BY <1>1, <1>3, ListElements
    <2> QED
      BY <2>1, <2>2
  <1> QED
    BY <1>2, <1>3

\* An update makes no conversation longer.
LEMMA UpdateKeepsLists ==
    ASSUME NEW rq, NEW L \in Lists(rq), NEW u, Updates(u)
    PROVE  updateLastAssistantMessage(L, u) \in Lists(rq)
  BY UpdateLast DEF Lists

\* An update on behalf of r, where the last message is r's, mixes no texts.
LEMMA UpdateKeepsOwn ==
    ASSUME NEW L \in Seq(Messages), NEW u, Updates(u), NEW r \in Requests, Writes(u, r),
           Own(L), L # <<>> => Last(L).from = "assistant" /\ Last(L).req = r
    PROVE  Own(updateLastAssistantMessage(L, u))
  <1> DEFINE M == updateLastAssistantMessage(L, u)
  <1>1. SUFFICES ASSUME NEW j \in 1..Len(M) PROVE OwnText(M[j])
    BY DEF Own
  <1>2. /\ Len(M) = Len(L) /\ Len(L) \in Nat /\ j \in 1..Len(L) /\ L[j] \in Messages
        /\ M[j] = IF j = Len(L) /\ L[j].from = "assistant" THEN u[L[j]] ELSE L[j]
    BY UpdateLast, ListElements
  <1> HIDE DEF M
  <1>3. OwnText(L[j])
    BY <1>2 DEF Own
  <1>4. CASE j = Len(L)
    <2>1. L # <<>> /\ Last(L) = L[j]
      BY <1>2, <1>4, ListElements
    <2>2. L[j].from = "assistant" /\ L[j].req = r /\ M[j] = u[L[j]]
      BY <1>2, <1>4, <2>1
    <2>3. u[L[j]].from = "assistant" /\ u[L[j]].req = r /\ u[L[j]].by \subseteq L[j].by \cup {r}
      BY <1>2, <2>2 DEF Updates, Writes
    <2>4. L[j].by \subseteq {r, User}
      BY <1>3, <2>2 DEF OwnText
    <2> QED
      BY <2>2, <2>3, <2>4 DEF OwnText
  <1>5. CASE j # Len(L)
    BY <1>2, <1>3, <1>5
  <1> QED
    BY <1>4, <1>5

\* An update leaves the last message the only one that may wait; one that
\* ends the wait leaves none.
LEMMA UpdateKeepsOnlyLast ==
    ASSUME NEW L \in Seq(Messages), NEW u, Updates(u), OnlyLast(L)
    PROVE  /\ OnlyLast(updateLastAssistantMessage(L, u))
           /\ Ends(u) => Quiet(updateLastAssistantMessage(L, u))
  <1> DEFINE M == updateLastAssistantMessage(L, u)
  <1>1. /\ Len(M) = Len(L) /\ Len(L) \in Nat
        /\ \A j \in 1..Len(L) :
              /\ L[j] \in Messages
              /\ M[j] = IF j = Len(L) /\ L[j].from = "assistant" THEN u[L[j]] ELSE L[j]
    BY UpdateLast, ListElements
  <1> HIDE DEF M
  <1>2. OnlyLast(M)
    BY <1>1 DEF OnlyLast
  <1>3. ASSUME Ends(u) PROVE Quiet(M)
    BY <1>1, <1>3 DEF OnlyLast, Quiet, Ends, Unsettled
  <1> QED
    BY <1>2, <1>3 DEF M

\* Loading repairs one message and leaves the text alone; where only the last
\* message waits, none waits any more.
LEMMA Sanitized ==
    ASSUME NEW rq, NEW L \in Lists(rq)
    PROVE  LET M == sanitizeMessagesOnLoad(L) IN
           /\ M \in Lists(rq)
           /\ Own(L) => Own(M)
           /\ OnlyLast(L) => Quiet(M)
  <1> DEFINE stuck == {i \in DOMAIN L : Unsettled(L[i])}
             i == CHOOSE j \in stuck : \A k \in stuck : k <= j
             s == IF L[i].by = {} THEN "error" ELSE "complete"
             m == [L[i] EXCEPT !.status = s]
             M == sanitizeMessagesOnLoad(L)
  <1>0. /\ L \in Seq(Messages) /\ Len(L) \in Nat /\ DOMAIN L = 1..Len(L)
        /\ \A j \in 1..Len(L) : L[j] \in Messages
    BY ListElements DEF Lists
  <1>1. M = IF stuck = {} THEN L ELSE [L EXCEPT ![i] = m]
    BY DEF sanitizeMessagesOnLoad
  <1>2. CASE stuck = {} \/ i \notin 1..Len(L)
    <2>1. M = L
      <3>1. CASE stuck = {}
        BY <1>1, <3>1
      <3>2. CASE i \notin 1..Len(L)
        <4> HIDE DEF i, m, stuck
        <4> QED
          BY <1>0, <1>1, <3>2
      <3> QED
        BY <1>2, <3>1, <3>2
    <2>2. ASSUME OnlyLast(L) PROVE Quiet(L)
      <3>1. ASSUME NEW j \in 1..Len(L), Unsettled(L[j]) PROVE FALSE
        <4>1. j \in stuck /\ j = Len(L)
          BY <1>0, <2>2, <3>1 DEF OnlyLast
        <4>2. \A k \in stuck : k \in 1..Len(L) /\ k <= j
          BY <1>0, <4>1
        <4>3. i \in stuck
          BY <4>1, <4>2
        <4> QED
          BY <1>2, <4>1, <4>2, <4>3
      <3> QED
        BY <3>1 DEF Quiet
    <2> QED
      BY <2>1, <2>2
  <1>3. CASE stuck # {} /\ i \in 1..Len(L)
    <2>1. L[i] \in Messages
      BY <1>0, <1>3
    <2>2. /\ m \in Messages /\ m.from = L[i].from /\ m.req = L[i].req /\ m.by = L[i].by
          /\ m.status \in {"error", "complete"}
      BY <2>1 DEF Messages
    <2>3. M = [L EXCEPT ![i] = m]
      BY <1>1, <1>3
    <2>4. OnlyLast(L) => i = Len(L)
      <3>1. SUFFICES ASSUME OnlyLast(L) PROVE i = Len(L)
        OBVIOUS
      <3>2. \A j \in stuck : j = Len(L) /\ j \in 1..Len(L)
        BY <1>0, <3>1 DEF OnlyLast
      <3>3. \E j \in stuck : \A k \in stuck : k <= j
        BY <1>0, <1>3, <3>2
      <3>4. i \in stuck
        BY <3>3
      <3> QED
        BY <3>2, <3>4
    <2> HIDE DEF i, m, stuck, M
    <2>5. /\ M \in Seq(Messages) /\ Len(M) = Len(L)
          /\ \A j \in 1..Len(L) : M[j] = IF j = i THEN m ELSE L[j]
      BY <1>0, <1>3, <2>2, <2>3, ExceptSeq
    <2>6. M \in Lists(rq)
      BY <2>5 DEF Lists
    <2>7. Own(L) => Own(M)
      BY <1>3, <2>2, <2>5 DEF Own, OwnText
    <2>8. OnlyLast(L) => Quiet(M)
      BY <1>3, <2>2, <2>4, <2>5 DEF OnlyLast, Quiet, Unsettled
    <2> QED
      BY <2>6, <2>7, <2>8 DEF M
  <1> QED
    BY <1>2, <1>3

\* The messages a request begins with.
LEMMA NewMessages ==
    ASSUME NEW r \in Requests
    PROVE  /\ createUserMessage(r) \in Messages /\ ~Unsettled(createUserMessage(r))
           /\ OwnText(createUserMessage(r))
           /\ createLoadingAssistantMessage(r) \in Messages
           /\ Unsettled(createLoadingAssistantMessage(r))
           /\ createLoadingAssistantMessage(r).from = "assistant"
           /\ createLoadingAssistantMessage(r).req = r
           /\ OwnText(createLoadingAssistantMessage(r))
  BY DEF createUserMessage, createLoadingAssistantMessage, Messages, Unsettled, OwnText, User

\* A conversation that is sent: it ends in r's loading message, and if L, which
\* it is made from, is at rest, it is at rest before that.
Prepared(L, ms, r) ==
    /\ ms \in Seq(Messages)
    /\ Len(ms) \in 1..(Len(L) + 2)
    /\ ms[Len(ms)] = createLoadingAssistantMessage(r)
    /\ Own(L) /\ Quiet(L) => \A i \in 1..(Len(ms) - 1) : OwnText(ms[i]) /\ ~Unsettled(ms[i])

\* handleSendMessage prepares such a conversation.
LEMMA PreparedSend ==
    ASSUME NEW L \in Seq(Messages), NEW r \in Requests
    PROVE  Prepared(L, L \o <<createUserMessage(r), createLoadingAssistantMessage(r)>>, r)
  <1> DEFINE x == createUserMessage(r)
             y == createLoadingAssistantMessage(r)
             T == <<x, y>>
             ms == L \o T
  <1>1. x \in Messages /\ ~Unsettled(x) /\ OwnText(x) /\ y \in Messages
    BY NewMessages
  <1> HIDE DEF x, y
  <1>2. T \in Seq(Messages) /\ Len(T) = 2 /\ T[1] = x /\ T[2] = y
    BY <1>1
  <1> HIDE DEF T
  <1>3. Len(L) \in Nat
    BY ListElements
  <1>4. /\ ms \in Seq(Messages) /\ Len(ms) = Len(L) + Len(T)
        /\ \A i \in 1..(Len(L) + Len(T)) : ms[i] = IF i <= Len(L) THEN L[i] ELSE T[i - Len(L)]
    BY <1>2, ConcatProperties
  <1> HIDE DEF ms
  <1>5. Len(ms) \in 1..(Len(L) + 2)
    BY <1>2, <1>3, <1>4
  <1>6. ms[Len(L) + 2] = y /\ ms[Len(L) + 1] = x
    BY <1>2, <1>3, <1>4
  <1>7. ASSUME Own(L), Quiet(L), NEW i \in 1..(Len(ms) - 1)
        PROVE  OwnText(ms[i]) /\ ~Unsettled(ms[i])
    <2>1. CASE i <= Len(L)
      <3>1. i \in 1..Len(L) /\ ms[i] = L[i]
        BY <1>2, <1>3, <1>4, <2>1
      <3> QED
        BY <1>7, <3>1 DEF Own, Quiet
    <2>2. CASE i = Len(L) + 1
      BY <1>1, <1>6, <2>2
    <2> QED
      BY <1>2, <1>3, <1>4, <2>1, <2>2
  <1>8. Prepared(L, ms, r)
    BY <1>2, <1>4, <1>5, <1>6, <1>7 DEF Prepared, y
  <1> QED
    BY <1>8 DEF ms, T, x, y

\* So does cutting a conversation off, to regenerate or to submit an edit.
LEMMA PreparedCut ==
    ASSUME NEW L \in Seq(Messages), NEW r \in Requests, NEW n \in 0..Len(L)
    PROVE  Prepared(L, Append(SubSeq(L, 1, n), createLoadingAssistantMessage(r)), r)
  <1> DEFINE y == createLoadingAssistantMessage(r)
             H == SubSeq(L, 1, n)
             ms == Append(H, y)
  <1>1. y \in Messages
    BY NewMessages
  <1> HIDE DEF y
  <1>2. Len(L) \in Nat /\ n \in Nat /\ n <= Len(L) /\ \A i \in 1..n : i \in 1..Len(L) /\ L[i] \in Messages
    BY ListElements
  <1>3. H \in Seq(Messages) /\ Len(H) = n /\ \A i \in 1..n : H[i] = L[i]
    <2>1. H \in Seq(Messages) /\ Len(H) = (IF 1 <= n THEN n - 1 + 1 ELSE 0)
          /\ \A i \in 1..(n - 1 + 1) : H[i] = L[1 + i - 1]
      BY <1>2, SubSeqProperties
    <2> QED
      BY <1>2, <2>1
  <1> HIDE DEF H
  <1>4. /\ ms \in Seq(Messages) /\ Len(ms) = n + 1 /\ ms[n + 1] = y
        /\ \A i \in 1..n : ms[i] = H[i]
    BY <1>1, <1>2, <1>3, AppendProperties
  <1> HIDE DEF ms
  <1>5. Len(ms) \in 1..(Len(L) + 2)
    BY <1>2, <1>4
  <1>6. ASSUME Own(L), Quiet(L), NEW i \in 1..(Len(ms) - 1)
        PROVE  OwnText(ms[i]) /\ ~Unsettled(ms[i])
    <2>1. i \in 1..n /\ i \in 1..Len(L) /\ ms[i] = L[i]
      BY <1>2, <1>3, <1>4
    <2> QED
      BY <1>6, <2>1 DEF Own, Quiet
  <1>7. Prepared(L, ms, r)
    BY <1>4, <1>5, <1>6 DEF Prepared, y
  <1> QED
    BY <1>7 DEF ms, H, y

\* An edit changes the text of one message.
LEMMA EditedList ==
    ASSUME NEW L \in Seq(Messages), NEW n \in 1..Len(L)
    PROVE  LET M == [L EXCEPT ![n].by = {User}] IN
           /\ M \in Seq(Messages) /\ Len(M) = Len(L)
           /\ Own(L) => Own(M)
           /\ Quiet(L) => Quiet(M)
  <1> DEFINE m == [L[n] EXCEPT !.by = {User}]
             M == [L EXCEPT ![n] = m]
  <1>1. L[n] \in Messages
    BY ListElements
  <1>2. /\ m \in Messages /\ m.from = L[n].from /\ m.status = L[n].status /\ m.by = {User}
    BY <1>1 DEF Messages
  <1> HIDE DEF m
  <1>3. /\ M \in Seq(Messages) /\ Len(M) = Len(L)
        /\ \A j \in 1..Len(L) : M[j] = IF j = n THEN m ELSE L[j]
    BY <1>2, ExceptSeq
  <1> HIDE DEF M
  <1>4. Own(L) => Own(M)
    BY <1>2, <1>3 DEF Own, OwnText
  <1>5. Quiet(L) => Quiet(M)
    BY <1>2, <1>3 DEF Quiet, Unsettled
  <1> QED
    BY <1>3, <1>4, <1>5 DEF M, m

\* Deleting leaves the other messages.
LEMMA DeletedList ==
    ASSUME NEW L \in Seq(Messages), NEW n \in 1..Len(L)
    PROVE  LET M == RemoveAt(L, n) IN
           /\ M \in Seq(Messages) /\ Len(M) <= Len(L)
           /\ Own(L) => Own(M)
           /\ Quiet(L) => Quiet(M)
  <1> DEFINE A == SubSeq(L, 1, n - 1)
             B == SubSeq(L, n + 1, Len(L))
             M == A \o B
             a == Len(A)
             b == Len(B)
  <1>1. Len(L) \in Nat /\ n \in Nat /\ \A i \in 1..Len(L) : L[i] \in Messages
    BY ListElements
  <1>2. A \in Seq(Messages) /\ a = n - 1 /\ \A i \in 1..a : i \in 1..Len(L) /\ A[i] = L[i]
    <2>1. \A i \in 1..(n - 1) : L[i] \in Messages
      BY <1>1
    <2>2. A \in Seq(Messages) /\ a = (IF 1 <= n - 1 THEN n - 1 - 1 + 1 ELSE 0)
          /\ \A i \in 1..(n - 1 - 1 + 1) : A[i] = L[1 + i - 1]
      BY <1>1, <2>1, SubSeqProperties
    <2> QED
      BY <1>1, <2>2
  <1>3. B \in Seq(Messages) /\ b = Len(L) - n /\ \A i \in 1..b : n + i \in 1..Len(L) /\ B[i] = L[n + i]
    <2>1. \A i \in (n + 1)..Len(L) : L[i] \in Messages
      BY <1>1
    <2>2. B \in Seq(Messages) /\ b = (IF n + 1 <= Len(L) THEN Len(L) - (n + 1) + 1 ELSE 0)
          /\ \A i \in 1..(Len(L) - (n + 1) + 1) : B[i] = L[n + 1 + i - 1]
      BY <1>1, <2>1, SubSeqProperties
    <2> QED
      BY <1>1, <2>2
  <1>4. /\ M \in Seq(Messages) /\ Len(M) = a + b
        /\ \A i \in 1..(a + b) : M[i] = IF i <= a THEN A[i] ELSE B[i - a]
    BY <1>2, <1>3, ConcatProperties
  <1>5. M = RemoveAt(L, n)
    BY DEF RemoveAt
  <1> HIDE DEF A, B, M, a, b
  <1>6. Len(M) <= Len(L) /\ Len(M) \in Nat
    BY <1>1, <1>2, <1>3, <1>4
  <1>7. ASSUME NEW i \in 1..Len(M) PROVE \E j \in 1..Len(L) : M[i] = L[j]
    <2>1. CASE i <= a
      BY <1>1, <1>2, <1>4, <2>1
    <2>2. CASE ~(i <= a)
      <3>1. i - a \in 1..b
        BY <1>1, <1>2, <1>3, <1>4, <2>2
      <3> QED
        BY <1>3, <1>4, <2>2, <3>1
    <2> QED
      BY <2>1, <2>2
  <1>8. (Own(L) => Own(M)) /\ (Quiet(L) => Quiet(M))
    BY <1>7 DEF Own, Quiet
  <1> QED
    BY <1>4, <1>5, <1>6, <1>8


----------------------------------------------------------------------------
(* The steps.                                                              *)
(***************************************************************************)

\* Requests are numbered from 1.
LEMMA RequestNumbers == \A r \in Requests : r \in Nat /\ r >= 1 /\ r <= MaxRequests /\ r # None
  BY PlaygroundAssumption DEF Requests, None

\* A conversation that fits still fits when more requests have been sent.
LEMMA ListsGrow ==
    ASSUME NEW rq, NEW rp, \A r \in Requests : rp[r] = "new" => rq[r] = "new"
    PROVE  Lists(rq) \subseteq Lists(rp)
  BY DEF Lists

\* The empty conversation satisfies everything.
LEMMA EmptyList ==
    ASSUME NEW rq
    PROVE  << >> \in Lists(rq) /\ Own(<< >>) /\ OnlyLast(<< >>) /\ Quiet(<< >>)
  <1>1. << >> \in Seq(Messages) /\ Len(<< >>) = 0
    OBVIOUS
  <1>2. MaxRequests \in Nat /\ \A r \in Requests : r \in Nat /\ r >= 1
    BY PlaygroundAssumption, RequestNumbers
  <1>3. << >> \in Lists(rq)
    BY <1>1, <1>2 DEF Lists
  <1>4. 1..Len(<< >>) = {}
    BY <1>1
  <1> QED
    BY <1>3, <1>4 DEF Own, OnlyLast, Quiet

\* What a request becomes.
RequestStates == {"new", "open", "cut", "closed", "orphan"}

\* A conversation M that may be drawn where nobody has meddled.
InOrder(M) ==
    /\ Own(M) /\ OnlyLast(M)
    /\ stream /\ ~Quiet(M) => sseSource' # None
    /\ \A r \in Requests : requests'[r] = "open" =>
           /\ M # << >> /\ Unsettled(Last(M)) /\ Last(M).req = r
           /\ stream => sseSource' = r

\* A step that draws keeps the invariant if what it draws is in order.
LEMMA DrawKeeps ==
    ASSUME ChatInv, NEW M, Draw(M), M \in Lists(requests'),
           requests' \in [Requests -> RequestStates],
           \A r \in Requests : /\ requests'[r] = "new" => requests[r] = "new"
                               /\ requests'[r] = "orphan" => requests[r] = "orphan",
           stream' = stream, left' = left, open' = TRUE,
           isComplete' \in BOOLEAN, meddled' \in BOOLEAN, editing' \in Keys,
           sseSource' \in Requests \cup {None}, ~stream => sseSource' = None,
           ~meddled' => ~meddled /\ InOrder(M)
    PROVE  ChatInv'
  <1>1. /\ messages' = M /\ storage' = M /\ dirty' = FALSE
        /\ rendered' = [messages |-> M, isGenerating |-> sseSource' # None]
    BY DEF Draw
  <1>2. rendered'.messages = M /\ rendered'.isGenerating = (sseSource' # None)
    BY <1>1
  <1>3. left \in [Requests -> Lists(requests')]
    <2>1. Lists(requests) \subseteq Lists(requests')
      BY ListsGrow
    <2> QED
      BY <2>1 DEF ChatInv, ChatTyped
  <1>4. rendered' \in [messages : Lists(requests'), isGenerating : BOOLEAN]
    BY <1>1
  <1>5. ChatTyped'
    BY <1>1, <1>3, <1>4 DEF ChatInv, ChatTyped, RequestStates
  <1>6. PageInv'
    BY <1>1, <1>2 DEF PageInv
  <1>7. AnswersInv'
    <2>1. SUFFICES ASSUME ~meddled' PROVE AnswersInv'
      BY DEF AnswersInv
    <2>2. ~meddled /\ InOrder(M)
      BY <2>1
    <2>3. /\ \A r \in Requests : Own(left[r]) /\ OnlyLast(left[r])
          /\ \A r \in Requests : requests[r] = "orphan" =>
                 left[r] # << >> /\ Last(left[r]).from = "assistant" /\ Last(left[r]).req = r
      BY <2>2 DEF ChatInv, AnswersInv
    <2>4. Own(messages') /\ Own(storage') /\ OnlyLast(messages') /\ OnlyLast(storage')
      BY <1>1, <2>2 DEF InOrder
    <2>5. \A r \in Requests : requests'[r] = "open" => Awaited(r)'
      BY <1>1, <2>2 DEF InOrder, Awaited
    <2>6. stream' /\ ~Quiet(messages') => sseSource' # None
      BY <1>1, <2>2 DEF InOrder
    <2>7. \A r \in Requests : /\ Own(left'[r]) /\ OnlyLast(left'[r])
                              /\ requests'[r] = "orphan" =>
                                   left'[r] # << >> /\ Last(left'[r]).from = "assistant"
                                   /\ Last(left'[r]).req = r
      BY <2>3
    <2> QED
      BY <1>2, <2>4, <2>5, <2>6, <2>7 DEF AnswersInv, Own, OnlyLast, Quiet
  <1> QED
    BY <1>5, <1>6, <1>7 DEF ChatInv

\* What a page at rest looks like: what its user sees is what it holds.
LEMMA PageAtRest ==
    ASSUME ChatInv, open, ~Busy, ~meddled
    PROVE  /\ rendered.messages = messages /\ Own(messages) /\ Quiet(messages)
           /\ \A r \in Requests : requests[r] # "open"
  <1>1. messages \in Seq(Messages)
    BY DEF ChatInv, ChatTyped, Lists
  <1>2. DOMAIN messages = 1..Len(messages)
    BY <1>1, ListElements
  <1> QED
    BY <1>2 DEF ChatInv, PageInv, AnswersInv, Busy, Quiet

\* Sending, whether the stream starts or throws.
LEMMA SendKeeps ==
    ASSUME ChatInv, open, NEW r \in Requests, NEW ms, Prepared(rendered.messages, ms, r),
           Send(r, ms), editing' \in Keys
    PROVE  ChatInv'
  <1> DEFINE L == rendered.messages
             y == createLoadingAssistantMessage(r)
  <1>0. L \in Lists(requests) /\ L \in Seq(Messages) /\ Len(L) \in Nat
    <2>1. L \in Lists(requests)
      BY DEF ChatInv, ChatTyped
    <2> QED
      BY <2>1, ListElements DEF Lists
  <1>1. /\ requests[r] = "new" /\ \A q \in Requests : q < r => requests[q] # "new"
        /\ \E s \in {"open", "closed"} : requests' = [requests EXCEPT ![r] = s]
        /\ requests \in [Requests -> RequestStates]
    BY DEF Send, SendChat, SendFails, ChatInv, ChatTyped, RequestStates
  <1>2. /\ requests' \in [Requests -> RequestStates]
        /\ requests'[r] \in {"open", "closed"}
        /\ \A x \in Requests : x # r => requests'[x] = requests[x]
    BY <1>1 DEF RequestStates
  <1>3. \A x \in Requests : /\ requests'[x] = "new" => requests[x] = "new" /\ x > r
                            /\ requests'[x] = "orphan" => requests[x] = "orphan"
    BY <1>1, <1>2, RequestNumbers
  <1>4. ms \in Seq(Messages) /\ Len(ms) \in Nat /\ Len(ms) <= Len(L) + 2 /\ Len(ms) >= 1 /\ ms # << >>
        /\ Last(ms) = y
    <2>1. ms \in Seq(Messages) /\ Len(ms) \in 1..(Len(L) + 2) /\ ms[Len(ms)] = y
      BY DEF Prepared
    <2> QED
      BY <1>0, <2>1, ListElements
  <1>5. ms \in Lists(requests')
    <2>1. Len(L) <= 2 * (r - 1)
      BY <1>0, <1>1 DEF Lists
    <2>2. Len(ms) <= 2 * r
      BY <1>0, <1>4, <2>1, RequestNumbers
    <2>3. Len(ms) <= 2 * MaxRequests
      BY <1>4, <2>2, RequestNumbers, PlaygroundAssumption
    <2>4. \A x \in Requests : requests'[x] = "new" => Len(ms) <= 2 * (x - 1)
      BY <1>3, <1>4, <2>2, RequestNumbers
    <2> QED
      BY <1>4, <2>3, <2>4 DEF Lists
  <1>6. ASSUME ~meddled, ~Busy
        PROVE  /\ Own(ms) /\ OnlyLast(ms)
               /\ \A x \in Requests : requests'[x] = "open" => x = r
    <2>1. Own(L) /\ Quiet(L) /\ \A x \in Requests : requests[x] # "open"
      BY <1>6, PageAtRest
    <2>2. \A i \in 1..(Len(ms) - 1) : OwnText(ms[i]) /\ ~Unsettled(ms[i])
      BY <2>1 DEF Prepared
    <2>3. OwnText(ms[Len(ms)])
      BY NewMessages DEF Prepared
    <2>4. Own(ms)
      BY <1>4, <2>2, <2>3 DEF Own
    <2>5. OnlyLast(ms)
      BY <1>4, <2>2 DEF OnlyLast
    <2> QED
      BY <1>2, <2>1, <2>4, <2>5
  <1>7. /\ stream' = stream /\ left' = left /\ open' = TRUE
        /\ stream \in BOOLEAN /\ meddled \in BOOLEAN /\ meddled' = (meddled \/ Busy)
        /\ isComplete \in BOOLEAN /\ sseSource \in Requests \cup {None}
        /\ ~stream => sseSource = None
    BY DEF Send, SendChat, SendFails, ChatInv, ChatTyped, PageInv
  <1>8. Unsettled(y) /\ y.req = r /\ y.from = "assistant"
    BY NewMessages
  <1>9. meddled' \in BOOLEAN
    BY <1>7
  <1> HIDE DEF L, y
  <1>10. CASE SendChat(r, ms)
    <2>1. /\ Draw(ms) /\ IF stream THEN sseSource' = r /\ isComplete' = FALSE
                                   ELSE UNCHANGED <<sseSource, isComplete>>
      BY <1>10 DEF SendChat
    <2>2. /\ isComplete' \in BOOLEAN /\ sseSource' \in Requests \cup {None}
          /\ (~stream => sseSource' = None) /\ (stream => sseSource' = r)
      BY <1>7, <2>1
    <2>3. ~meddled' => ~meddled /\ InOrder(ms)
      BY <1>4, <1>6, <1>7, <1>8, <2>2, RequestNumbers DEF InOrder
    <2> QED
      BY <1>2, <1>3, <1>5, <1>7, <1>9, <2>1, <2>2, <2>3, DrawKeeps
  <1>11. CASE SendFails(r, ms)
    <2> DEFINE M == updateLastAssistantMessage(ms, WithError)
    <2>1. Draw(M) /\ sseSource' = None /\ isComplete' = FALSE /\ requests' = [requests EXCEPT ![r] = "closed"]
      BY <1>11 DEF SendFails
    <2>2. Updates(WithError) /\ Writes(WithError, r) /\ Ends(WithError)
      BY Updaters
    <2>3. M \in Lists(requests')
      BY <1>5, <2>2, UpdateKeepsLists
    <2>4. ASSUME ~meddled, ~Busy PROVE Own(M) /\ OnlyLast(M) /\ Quiet(M)
      BY <1>4, <1>6, <1>8, <2>2, <2>4, UpdateKeepsOwn, UpdateKeepsOnlyLast
    <2>5. \A x \in Requests : ~meddled /\ ~Busy => requests'[x] # "open"
      <3>1. requests'[r] = "closed"
        BY <1>1, <2>1
      <3> QED
        BY <1>6, <3>1
    <2> HIDE DEF M
    <2>6. ~meddled' => ~meddled /\ InOrder(M)
      BY <1>7, <2>4, <2>5 DEF InOrder
    <2>7. isComplete' \in BOOLEAN /\ sseSource' \in Requests \cup {None}
      BY <2>1
    <2> QED
      BY <1>2, <1>3, <1>7, <1>9, <2>1, <2>3, <2>6, <2>7, DrawKeeps
  <1> QED
    BY <1>10, <1>11 DEF Send

\* A save or a deletion.
LEMMA ChangeKeeps ==
    ASSUME ChatInv, open, NEW M, M \in Seq(Messages), Len(M) <= Len(rendered.messages),
           Own(rendered.messages) => Own(M), Quiet(rendered.messages) => Quiet(M),
           Change(M), editing' \in Keys
    PROVE  ChatInv'
  <1>1. /\ requests' = requests /\ stream' = stream /\ left' = left /\ open' = TRUE
        /\ isComplete' = isComplete /\ sseSource' = sseSource /\ Draw(M)
        /\ meddled' = (meddled \/ Busy)
    BY DEF Change
  <1>2. /\ requests \in [Requests -> RequestStates] /\ isComplete \in BOOLEAN
        /\ meddled \in BOOLEAN /\ sseSource \in Requests \cup {None}
        /\ ~stream => sseSource = None
        /\ rendered.messages \in Lists(requests)
    BY DEF ChatInv, ChatTyped, PageInv, RequestStates
  <1>3. meddled' \in BOOLEAN
    BY <1>1, <1>2
  <1>4. M \in Lists(requests')
    <2>1. Len(M) \in Nat /\ Len(rendered.messages) \in Nat
      BY <1>2, ListElements DEF Lists
    <2>2. MaxRequests \in Nat /\ \A r \in Requests : r \in Nat
      BY PlaygroundAssumption, RequestNumbers
    <2> QED
      BY <1>1, <1>2, <2>1, <2>2 DEF Lists
  <1>5. ~meddled' => ~meddled /\ InOrder(M)
    <2>1. SUFFICES ASSUME ~meddled' PROVE ~meddled /\ InOrder(M)
      OBVIOUS
    <2>2. ~meddled /\ ~Busy
      BY <1>1, <2>1
    <2>3. Own(M) /\ Quiet(M) /\ \A r \in Requests : requests[r] # "open"
      BY <2>2, PageAtRest
    <2>4. OnlyLast(M)
      BY <2>3 DEF OnlyLast, Quiet
    <2> QED
      BY <1>1, <2>2, <2>3, <2>4 DEF InOrder
  <1> QED
    BY <1>1, <1>2, <1>3, <1>4, <1>5, DrawKeeps

\* Something arrives for request r.
LEMMA UpdateKeeps ==
    ASSUME ChatInv, open, NEW r \in Requests, requests[r] = "open",
           NEW u, Updates(u), Writes(u, r), Update(u),
           UNCHANGED <<stream, left, editing, open, meddled>>,
           isComplete' \in BOOLEAN, sseSource' \in {sseSource, None},
           \/ /\ requests' = requests /\ sseSource' = sseSource
              /\ \A m \in Messages : Unsettled(m) => Unsettled(u[m])
           \/ requests' = [requests EXCEPT ![r] = "closed"] /\ Ends(u)
    PROVE  ChatInv'
  <1> DEFINE M == updateLastAssistantMessage(messages, u)
  <1>0. /\ requests \in [Requests -> RequestStates]
        /\ messages \in Lists(requests) /\ messages \in Seq(Messages)
        /\ storage \in Lists(requests) /\ dirty \in BOOLEAN
        /\ sseSource \in Requests \cup {None}
    BY DEF ChatInv, ChatTyped, Lists, RequestStates
  <1>1. /\ messages' = M /\ storage' \in {storage, M} /\ rendered' = rendered
        /\ dirty' = (dirty \/ (messages # << >> /\ Last(messages).from = "assistant"))
    BY DEF Update
  <1>2. /\ M \in Seq(Messages) /\ Len(M) = Len(messages) /\ Len(messages) \in Nat
        /\ \A j \in 1..Len(messages) :
              M[j] = IF j = Len(messages) /\ messages[j].from = "assistant"
                     THEN u[messages[j]] ELSE messages[j]
    BY <1>0, UpdateLast, ListElements
  <1>3. /\ requests' \in [Requests -> RequestStates]
        /\ \A x \in Requests : /\ requests'[x] = "new" => requests[x] = "new"
                               /\ requests'[x] = "orphan" => requests[x] = "orphan"
                               /\ requests'[x] = "open" => requests[x] = "open"
    BY <1>0 DEF RequestStates
  <1>4. Lists(requests) \subseteq Lists(requests')
    BY <1>3, ListsGrow
  <1>5. M \in Lists(requests)
    BY <1>0, UpdateKeepsLists
  <1>6. ~(messages # << >> /\ Last(messages).from = "assistant") => M = messages
    BY DEF updateLastAssistantMessage
  <1> HIDE DEF M
  <1>7. ChatTyped'
    <2>1. messages' \in Lists(requests') /\ storage' \in Lists(requests')
      BY <1>0, <1>1, <1>4, <1>5
    <2>2. rendered' \in [messages : Lists(requests'), isGenerating : BOOLEAN]
      BY <1>1, <1>4 DEF ChatInv, ChatTyped
    <2>3. left' \in [Requests -> Lists(requests')]
      BY <1>4 DEF ChatInv, ChatTyped
    <2>4. dirty' \in BOOLEAN
      BY <1>0, <1>1
    <2>5. /\ stream' \in BOOLEAN /\ open' \in BOOLEAN /\ meddled' \in BOOLEAN /\ editing' \in Keys
          /\ sseSource' \in Requests \cup {None}
      BY <1>0 DEF ChatInv, ChatTyped
    <2> QED
      BY <1>3, <2>1, <2>2, <2>3, <2>4, <2>5 DEF ChatTyped, RequestStates
  <1>8. PageInv'
    BY <1>1, <1>6 DEF ChatInv, PageInv
  <1>9. AnswersInv'
    <2>1. SUFFICES ASSUME ~meddled' PROVE AnswersInv'
      BY DEF AnswersInv
    <2>2. /\ Own(messages) /\ Own(storage) /\ OnlyLast(messages) /\ OnlyLast(storage)
          /\ \A x \in Requests : Own(left[x]) /\ OnlyLast(left[x])
          /\ \A x \in Requests : requests[x] = "open" => Awaited(x)
          /\ \A x \in Requests : requests[x] = "orphan" =>
                 left[x] # << >> /\ Last(left[x]).from = "assistant" /\ Last(left[x]).req = x
      BY <2>1 DEF ChatInv, AnswersInv
    <2>3. /\ messages # << >> /\ Unsettled(Last(messages)) /\ Last(messages).req = r
          /\ Last(messages).from = "assistant" /\ (stream => sseSource = r)
      BY <2>2 DEF Awaited, Unsettled
    <2>4. \A x \in Requests : requests[x] = "open" => x = r
      BY <2>2, <2>3 DEF Awaited
    <2>5. dirty' = TRUE
      BY <1>1, <2>3
    <2>6. Own(M) /\ OnlyLast(M) /\ (Ends(u) => Quiet(M))
      BY <1>0, <2>2, <2>3, UpdateKeepsOwn, UpdateKeepsOnlyLast DEF M
    <2>7. Own(messages') /\ Own(storage') /\ OnlyLast(messages') /\ OnlyLast(storage')
      BY <1>1, <2>2, <2>6
    <2>8. \A x \in Requests : requests'[x] = "open" => Awaited(x)'
      <3>1. SUFFICES ASSUME NEW x \in Requests, requests'[x] = "open" PROVE Awaited(x)'
        OBVIOUS
      <3>2. x = r
        BY <1>3, <2>4, <3>1
      <3>3. /\ requests' = requests /\ sseSource' = sseSource
            /\ \A m \in Messages : Unsettled(m) => Unsettled(u[m])
        BY <1>0, <3>1, <3>2
      <3>4. Len(messages) \in 1..Len(messages) /\ Last(messages) = messages[Len(messages)]
            /\ messages[Len(messages)] \in Messages /\ Len(messages) # 0
        BY <1>0, <2>3, ListElements
      <3>5. M # << >> /\ Last(M) = u[Last(messages)]
        <4>1. M # << >> /\ Last(M) = M[Len(messages)]
          BY <1>2, <3>4, ListElements
        <4> QED
          BY <1>2, <2>3, <3>4, <4>1
      <3>6. Unsettled(Last(M)) /\ Last(M).req = r
        BY <2>3, <3>3, <3>4, <3>5 DEF Updates
      <3> QED
        BY <1>1, <2>3, <3>2, <3>3, <3>5, <3>6 DEF Awaited
    <2>9. stream' /\ ~Quiet(messages') => sseSource' # None
      BY <1>1, <2>3, <2>6, RequestNumbers
    <2>10. \A x \in Requests : /\ Own(left'[x]) /\ OnlyLast(left'[x])
                               /\ requests'[x] = "orphan" =>
                                    left'[x] # << >> /\ Last(left'[x]).from = "assistant"
                                    /\ Last(left'[x]).req = x
      BY <1>3, <2>2
    <2> QED
      BY <2>5, <2>7, <2>8, <2>9, <2>10 DEF AnswersInv, Own, OnlyLast, Quiet
  <1> QED
    BY <1>7, <1>8, <1>9 DEF ChatInv

\* A request ends, and no callback is run.
LEMMA EndKeeps ==
    ASSUME ChatInv, open, NEW r \in Requests, requests[r] = "open", NEW s \in {"cut", "closed"},
           requests' = [requests EXCEPT ![r] = s],
           UNCHANGED <<stream, left, messages, rendered, dirty, storage, sseSource, isComplete,
                       editing, open, meddled>>
    PROVE  ChatInv'
  <1>1. requests \in [Requests -> RequestStates]
    BY DEF ChatInv, ChatTyped, RequestStates
  <1>2. /\ requests' \in [Requests -> RequestStates]
        /\ \A x \in Requests : /\ requests'[x] = "new" => requests[x] = "new"
                               /\ requests'[x] = "orphan" => requests[x] = "orphan"
                               /\ requests'[x] = "open" => requests[x] = "open"
    BY <1>1 DEF RequestStates
  <1>3. Lists(requests) \subseteq Lists(requests')
    BY <1>2, ListsGrow
  <1>4. ChatTyped'
    <2>1. messages' \in Lists(requests') /\ storage' \in Lists(requests')
      BY <1>3 DEF ChatInv, ChatTyped
    <2>2. rendered' \in [messages : Lists(requests'), isGenerating : BOOLEAN]
      BY <1>3 DEF ChatInv, ChatTyped
    <2>3. left' \in [Requests -> Lists(requests')]
      BY <1>3 DEF ChatInv, ChatTyped
    <2> QED
      BY <1>2, <2>1, <2>2, <2>3 DEF ChatInv, ChatTyped, RequestStates
  <1>5. PageInv'
    BY <1>2 DEF ChatInv, PageInv
  <1>6. AnswersInv'
    BY <1>2 DEF ChatInv, AnswersInv, Own, OnlyLast, Quiet, Awaited
  <1> QED
    BY <1>4, <1>5, <1>6 DEF ChatInv

\* Each callback of a stream or of a plain request.
LEMMA NetworkKeeps ==
    ASSUME ChatInv, NEW r \in Requests, Network(r)
    PROVE  ChatInv'
  <1>0. /\ isComplete \in BOOLEAN /\ requests \in [Requests -> RequestStates]
        /\ sseSource \in Requests \cup {None}
    BY DEF ChatInv, ChatTyped, RequestStates
  <1>1. CASE Chunk(r)
    <2>1. /\ open /\ requests[r] = "open" /\ Update(WithChunk(r))
          /\ UNCHANGED <<stream, left, requests, sseSource, isComplete, editing, open, meddled>>
      BY <1>1 DEF Chunk
    <2>2. \A m \in Messages : Unsettled(m) => Unsettled(WithChunk(r)[m])
      BY DEF WithChunk, Unsettled, Messages
    <2>3. Updates(WithChunk(r)) /\ Writes(WithChunk(r), r)
      BY Updaters
    <2> QED
      BY <1>0, <2>1, <2>2, <2>3, UpdateKeeps
  <1>2. CASE Done(r)
    <2>1. /\ open /\ requests[r] = "open" /\ Update(Completed)
          /\ requests' = [requests EXCEPT ![r] = "closed"]
          /\ isComplete' = TRUE /\ sseSource' = None
          /\ UNCHANGED <<stream, left, editing, open, meddled>>
      BY <1>2 DEF Done
    <2>2. Updates(Completed) /\ Writes(Completed, r) /\ Ends(Completed)
      BY Updaters
    <2> QED
      BY <2>1, <2>2, UpdateKeeps
  <1>3. CASE StreamError(r)
    <2>1. /\ open /\ requests[r] = "open"
          /\ UNCHANGED <<stream, left, isComplete, editing, open, meddled>>
      BY <1>3 DEF StreamError
    <2>2. CASE isComplete
      <3>1. /\ UNCHANGED <<sseSource, messages, rendered, storage, dirty>>
            /\ requests' = requests \/ requests' = [requests EXCEPT ![r] = "closed"]
        BY <1>3, <2>2 DEF StreamError
      <3>2. CASE requests' = requests
        BY <2>1, <3>1, <3>2 DEF ChatInv, ChatTyped, PageInv, AnswersInv, Quiet, Awaited
      <3>3. CASE requests' = [requests EXCEPT ![r] = "closed"]
        BY <2>1, <3>1, <3>3, EndKeeps
      <3> QED
        BY <3>1, <3>2, <3>3
    <2>3. CASE ~isComplete
      <3>1. /\ requests' = [requests EXCEPT ![r] = "closed"]
            /\ sseSource' = None /\ Update(WithError)
        BY <1>3, <2>3 DEF StreamError
      <3>2. Updates(WithError) /\ Writes(WithError, r) /\ Ends(WithError)
        BY Updaters
      <3> QED
        BY <1>0, <2>1, <3>1, <3>2, UpdateKeeps
    <2> QED
      BY <1>0, <2>2, <2>3
  <1>4. CASE StreamCut(r)
    BY <1>4, EndKeeps DEF StreamCut
  <1>5. CASE PlainAnswer(r)
    <2>1. /\ open /\ requests[r] = "open" /\ requests' = [requests EXCEPT ![r] = "closed"]
          /\ UNCHANGED <<stream, left, sseSource, isComplete, editing, open, meddled>>
      BY <1>5 DEF PlainAnswer
    <2>2. /\ Updates(WithError) /\ Writes(WithError, r) /\ Ends(WithError)
          /\ Updates(WithAnswer(r)) /\ Writes(WithAnswer(r), r) /\ Ends(WithAnswer(r))
      BY Updaters
    <2>3. CASE Update(WithAnswer(r))
      BY <1>0, <2>1, <2>2, <2>3, UpdateKeeps
    <2>4. CASE Update(WithError)
      BY <1>0, <2>1, <2>2, <2>4, UpdateKeeps
    <2>5. CASE UNCHANGED <<messages, rendered, storage, dirty>>
      BY <2>1, <2>5, EndKeeps
    <2> QED
      BY <1>5, <2>3, <2>4, <2>5 DEF PlainAnswer
  <1> QED
    BY <1>1, <1>2, <1>3, <1>4, <1>5 DEF Network

\* What is on the screen.
LEMMA RenderedList ==
    ASSUME ChatInv
    PROVE  /\ rendered.messages \in Seq(Messages) /\ Len(rendered.messages) \in Nat
           /\ DOMAIN rendered.messages = 1..Len(rendered.messages)
           /\ \A i \in 1..Len(rendered.messages) :
                 rendered.messages[i] \in Messages /\ Key(rendered.messages[i]) \in Keys
           /\ NoKey \in Keys /\ editing \in Keys
  <1>1. rendered.messages \in Seq(Messages) /\ editing \in Keys
    BY DEF ChatInv, ChatTyped, Lists
  <1>2. \A m \in Messages : Key(m) \in Keys
    BY MessageFields DEF Key, Keys
  <1> QED
    BY <1>1, <1>2, ListElements DEF Keys

\* The input box, or a suggestion.
LEMMA handleSendKeeps ==
    ASSUME ChatInv, NEW r \in Requests, handleSendMessage(r)
    PROVE  ChatInv'
  <1>1. /\ open /\ editing' = editing
        /\ Send(r, rendered.messages \o <<createUserMessage(r), createLoadingAssistantMessage(r)>>)
    BY DEF handleSendMessage
  <1>2. Prepared(rendered.messages,
                 rendered.messages \o <<createUserMessage(r), createLoadingAssistantMessage(r)>>, r)
    BY RenderedList, PreparedSend
  <1> QED
    BY <1>1, <1>2, RenderedList, SendKeeps

\* The answer is cut off and asked for again.
LEMMA handleRegenerateKeeps ==
    ASSUME ChatInv, NEW r \in Requests, handleRegenerateMessage(r)
    PROVE  ChatInv'
  <1> DEFINE L == rendered.messages
             ms(i) == Append(SubSeq(L, 1, i - 1), createLoadingAssistantMessage(r))
  <1>1. PICK i \in 1..Len(L) : Send(r, ms(i))
    BY RenderedList DEF handleRegenerateMessage
  <1>2. open /\ editing' = editing
    BY DEF handleRegenerateMessage, Idle
  <1>3. i - 1 \in 0..Len(L)
    BY RenderedList
  <1>4. Prepared(L, ms(i), r)
    BY <1>3, RenderedList, PreparedCut
  <1> HIDE DEF ms
  <1> QED
    BY <1>1, <1>2, <1>4, RenderedList, SendKeeps

\* The editor only remembers a key.
LEMMA handleEditKeeps ==
    ASSUME ChatInv, handleEditMessage
    PROVE  ChatInv'
  <1>1. UNCHANGED <<stream, left, messages, rendered, dirty, storage, requests, sseSource, isComplete,
                    open, meddled>>
    BY DEF handleEditMessage
  <1>2. editing' \in Keys
    BY RenderedList DEF handleEditMessage
  <1>3. ChatTyped'
    BY <1>1, <1>2 DEF ChatInv, ChatTyped
  <1>4. PageInv'
    BY <1>1 DEF ChatInv, PageInv
  <1>5. AnswersInv'
    BY <1>1 DEF ChatInv, AnswersInv, Own, OnlyLast, Quiet, Awaited
  <1> QED
    BY <1>3, <1>4, <1>5 DEF ChatInv

\* Save, or Save & Submit.
LEMMA applyEditKeeps ==
    ASSUME ChatInv, NEW i \in DOMAIN rendered.messages, NEW submit \in BOOLEAN,
           NEW r \in Requests, applyEdit(i, submit, r)
    PROVE  ChatInv'
  <1> DEFINE L == rendered.messages
             updated == [L EXCEPT ![i].by = {User}]
             ms == Append(SubSeq(updated, 1, i), createLoadingAssistantMessage(r))
  <1>1. /\ open /\ editing' = NoKey
        /\ Send(r, ms) \/ Change(updated)
    BY DEF applyEdit
  <1>2. L \in Seq(Messages) /\ Len(L) \in Nat /\ i \in 1..Len(L) /\ NoKey \in Keys
    BY RenderedList
  <1>3. /\ updated \in Seq(Messages) /\ Len(updated) = Len(L)
        /\ Own(L) => Own(updated)
        /\ Quiet(L) => Quiet(updated)
    BY <1>2, EditedList
  <1> HIDE DEF updated
  <1>4. Prepared(L, ms, r)
    <2>1. i \in 0..Len(updated)
      BY <1>2, <1>3
    <2>2. Prepared(updated, ms, r)
      BY <1>3, <2>1, PreparedCut
    <2> HIDE DEF ms
    <2> QED
      BY <1>3, <2>2 DEF Prepared
  <1> HIDE DEF ms
  <1>5. CASE Send(r, ms)
    BY <1>1, <1>2, <1>4, <1>5, SendKeeps
  <1>6. CASE Change(updated)
    <2>1. Len(updated) <= Len(rendered.messages)
      BY <1>2, <1>3
    <2> QED
      BY <1>1, <1>2, <1>3, <1>6, <2>1, ChangeKeeps
  <1> QED
    BY <1>1, <1>5, <1>6

\* One message less.
LEMMA handleDeleteKeeps ==
    ASSUME ChatInv, NEW i \in DOMAIN rendered.messages, handleDeleteMessage(i)
    PROVE  ChatInv'
  <1> DEFINE L == rendered.messages
             M == RemoveAt(L, i)
  <1>1. open /\ editing' = editing /\ Change(M)
    BY DEF handleDeleteMessage, Idle
  <1>2. L \in Seq(Messages) /\ i \in 1..Len(L) /\ editing \in Keys
    BY RenderedList
  <1>3. /\ M \in Seq(Messages) /\ Len(M) <= Len(L)
        /\ Own(L) => Own(M)
        /\ Quiet(L) => Quiet(M)
    BY <1>2, DeletedList
  <1> HIDE DEF M
  <1> QED
    BY <1>1, <1>2, <1>3, ChangeKeeps

\* Completing a message leaves its text alone, whosever it is.
LEMMA CompletedKeepsOwn ==
    ASSUME NEW L \in Seq(Messages), Own(L)
    PROVE  Own(updateLastAssistantMessage(L, Completed))
  <1> DEFINE M == updateLastAssistantMessage(L, Completed)
  <1>1. Updates(Completed) /\ \A m \in Messages : Completed[m].by = m.by
    BY DEF Updates, Completed, Messages
  <1>2. /\ Len(M) = Len(L)
        /\ \A j \in 1..Len(L) :
              /\ L[j] \in Messages
              /\ M[j] = IF j = Len(L) /\ L[j].from = "assistant" THEN Completed[L[j]] ELSE L[j]
    BY <1>1, UpdateLast, ListElements
  <1> HIDE DEF M
  <1>3. Own(M)
    BY <1>1, <1>2 DEF Own, OwnText, Updates
  <1> QED
    BY <1>3 DEF M

\* Stop closes the one source there is, and with it the only open request.
LEMMA stopKeeps ==
    ASSUME ChatInv, stopGeneration
    PROVE  ChatInv'
  <1> DEFINE M == updateLastAssistantMessage(messages, Completed)
  <1>1. /\ open /\ rendered.isGenerating /\ sseSource' = None /\ Draw(M)
        /\ requests' = [r \in Requests |-> IF r = sseSource THEN "closed" ELSE requests[r]]
        /\ UNCHANGED <<stream, left, isComplete, editing, open, meddled>>
    BY DEF stopGeneration
  <1>2. /\ requests \in [Requests -> RequestStates] /\ stream \in BOOLEAN
        /\ isComplete \in BOOLEAN /\ meddled \in BOOLEAN /\ editing \in Keys
        /\ messages \in Lists(requests) /\ messages \in Seq(Messages)
        /\ stream
    BY <1>1 DEF ChatInv, ChatTyped, PageInv, RequestStates, Lists
  <1>3. /\ requests' \in [Requests -> RequestStates]
        /\ \A x \in Requests : /\ requests'[x] = "new" => requests[x] = "new"
                               /\ requests'[x] = "orphan" => requests[x] = "orphan"
                               /\ requests'[x] = "open" => requests[x] = "open" /\ x # sseSource
    BY <1>1, <1>2 DEF RequestStates
  <1>4. Updates(Completed) /\ Ends(Completed)
    BY DEF Updates, Ends, Completed, Messages, Unsettled
  <1>5. M \in Lists(requests')
    <2>1. M \in Lists(requests)
      BY <1>2, <1>4, UpdateKeepsLists
    <2> QED
      BY <1>3, <2>1, ListsGrow
  <1>6. ~meddled' => ~meddled /\ InOrder(M)
    <2>1. SUFFICES ASSUME ~meddled PROVE InOrder(M)
      BY <1>1
    <2>2. Own(messages) /\ OnlyLast(messages)
          /\ \A r \in Requests : requests[r] = "open" => Awaited(r)
      BY <1>1, <2>1 DEF ChatInv, AnswersInv
    <2>3. \A r \in Requests : requests'[r] # "open"
      BY <1>2, <1>3, <2>2 DEF Awaited
    <2>4. Own(M)
      BY <1>2, <2>2, CompletedKeepsOwn
    <2>5. OnlyLast(M) /\ Quiet(M)
      BY <1>2, <1>4, <2>2, UpdateKeepsOnlyLast
    <2> HIDE DEF M
    <2> QED
      BY <2>3, <2>4, <2>5 DEF InOrder
  <1> HIDE DEF M
  <1> QED
    BY <1>1, <1>2, <1>3, <1>5, <1>6, DrawKeeps

\* A re-render draws what the page holds.
LEMMA RenderKeeps ==
    ASSUME ChatInv, Render
    PROVE  ChatInv'
  <1>1. /\ open /\ Draw(messages)
        /\ UNCHANGED <<stream, left, requests, sseSource, isComplete, editing, open, meddled>>
    BY DEF Render
  <1>2. /\ requests \in [Requests -> RequestStates]
        /\ isComplete \in BOOLEAN /\ meddled \in BOOLEAN /\ editing \in Keys
        /\ messages \in Lists(requests) /\ sseSource \in Requests \cup {None}
        /\ ~stream => sseSource = None
    BY DEF ChatInv, ChatTyped, PageInv, RequestStates
  <1>3. ~meddled => InOrder(messages)
    <2>1. SUFFICES ASSUME ~meddled PROVE InOrder(messages)
      OBVIOUS
    <2>2. /\ Own(messages) /\ OnlyLast(messages) /\ (stream /\ ~Quiet(messages) => sseSource # None)
          /\ \A r \in Requests : requests[r] = "open" => Awaited(r)
      BY <1>1, <2>1 DEF ChatInv, AnswersInv
    <2> QED
      BY <1>1, <2>2 DEF InOrder, Awaited
  <1> QED
    BY <1>1, <1>2, <1>3, DrawKeeps

\* A fresh page holds the repaired conversation, and nothing of it waits.
LEMMA LoadKeeps ==
    ASSUME ChatInv, Load
    PROVE  ChatInv' /\ (~meddled => Quiet(messages'))
  <1> DEFINE M == sanitizeMessagesOnLoad(storage)
  <1>1. /\ ~open /\ open' = TRUE /\ sseSource' = None /\ isComplete' = FALSE /\ editing' = NoKey
        /\ Draw(M) /\ UNCHANGED <<stream, left, requests, meddled>>
    BY DEF Load
  <1>2. /\ requests \in [Requests -> RequestStates] /\ meddled \in BOOLEAN
        /\ storage \in Lists(requests) /\ NoKey \in Keys
        /\ \A r \in Requests : requests[r] # "open"
    BY <1>1 DEF ChatInv, ChatTyped, PageInv, RequestStates, Keys
  <1>3. M \in Lists(requests) /\ (Own(storage) => Own(M)) /\ (OnlyLast(storage) => Quiet(M))
    BY <1>2, Sanitized
  <1> HIDE DEF M
  <1>4. ~meddled => Own(M) /\ Quiet(M) /\ InOrder(M)
    <2>1. SUFFICES ASSUME ~meddled PROVE Own(M) /\ Quiet(M) /\ InOrder(M)
      OBVIOUS
    <2>2. Own(M) /\ Quiet(M)
      BY <1>3, <2>1 DEF ChatInv, AnswersInv
    <2>3. OnlyLast(M)
      BY <2>2 DEF OnlyLast, Quiet
    <2> QED
      BY <1>1, <1>2, <2>2, <2>3 DEF InOrder
  <1>5. ~meddled => Quiet(messages')
    BY <1>1, <1>4 DEF Draw
  <1>6. isComplete' \in BOOLEAN
    BY <1>1
  <1> QED
    BY <1>1, <1>2, <1>3, <1>4, <1>5, <1>6, DrawKeeps

\* The requests of the page are kept apart with the conversation they belong to.
LEMMA LeaveKeeps ==
    ASSUME ChatInv, Leave
    PROVE  ChatInv'
  <1> DEFINE running == {r \in Requests : requests[r] = "open"}
  <1>1. PICK after \in {"closed", "orphan"} :
          /\ requests' = [r \in Requests |-> IF r \in running THEN after
                                             ELSE IF requests[r] = "cut" THEN "closed"
                                             ELSE requests[r]]
          /\ left' = IF after = "orphan"
                     THEN [r \in Requests |-> IF r \in running THEN messages ELSE left[r]]
                     ELSE left
    BY DEF Leave
  <1>2. /\ open /\ open' = FALSE /\ dirty' = FALSE
        /\ UNCHANGED <<stream, messages, rendered, storage, sseSource, isComplete, editing, meddled>>
    BY DEF Leave
  <1>3. /\ requests \in [Requests -> RequestStates] /\ left \in [Requests -> Lists(requests)]
        /\ messages \in Lists(requests)
    BY DEF ChatInv, ChatTyped, RequestStates
  <1>4. /\ requests' \in [Requests -> RequestStates]
        /\ \A x \in Requests :
              /\ requests'[x] = "new" => requests[x] = "new"
              /\ requests'[x] # "open"
              /\ requests'[x] = "orphan" =>
                    \/ requests[x] = "open" /\ left'[x] = messages
                    \/ requests[x] = "orphan" /\ left'[x] = left[x]
    BY <1>1, <1>3 DEF RequestStates
  <1>5. left' \in [Requests -> Lists(requests)] /\ \A x \in Requests : left'[x] \in {messages, left[x]}
    BY <1>1, <1>3
  <1>6. Lists(requests) \subseteq Lists(requests')
    BY <1>4, ListsGrow
  <1>7. ChatTyped'
    <2>1. messages' \in Lists(requests') /\ storage' \in Lists(requests')
      BY <1>2, <1>6 DEF ChatInv, ChatTyped
    <2>2. rendered' \in [messages : Lists(requests'), isGenerating : BOOLEAN]
      BY <1>2, <1>6 DEF ChatInv, ChatTyped
    <2>3. left' \in [Requests -> Lists(requests')]
      BY <1>5, <1>6
    <2> QED
      BY <1>2, <1>4, <2>1, <2>2, <2>3 DEF ChatInv, ChatTyped, RequestStates
  <1>8. PageInv'
    BY <1>2, <1>4 DEF ChatInv, PageInv
  <1>9. AnswersInv'
    <2>1. SUFFICES ASSUME ~meddled' PROVE AnswersInv'
      BY DEF AnswersInv
    <2>2. /\ Own(messages) /\ Own(storage) /\ OnlyLast(messages) /\ OnlyLast(storage)
          /\ \A x \in Requests : Own(left[x]) /\ OnlyLast(left[x])
          /\ \A x \in Requests : requests[x] = "open" => Awaited(x)
          /\ \A x \in Requests : requests[x] = "orphan" =>
                 left[x] # << >> /\ Last(left[x]).from = "assistant" /\ Last(left[x]).req = x
      BY <1>2, <2>1 DEF ChatInv, AnswersInv
    <2>3. \A x \in Requests : Own(left'[x]) /\ OnlyLast(left'[x])
      BY <1>5, <2>2
    <2>4. \A x \in Requests : requests'[x] = "orphan" =>
              left'[x] # << >> /\ Last(left'[x]).from = "assistant" /\ Last(left'[x]).req = x
      BY <1>4, <2>2 DEF Awaited, Unsettled
    <2> QED
      BY <1>2, <2>2, <2>3, <2>4 DEF AnswersInv, Own, OnlyLast, Quiet
  <1> QED
    BY <1>7, <1>8, <1>9 DEF ChatInv

\* A late callback writes the conversation of its own page, where its own
\* message is the last.
LEMMA LateUpdateKeeps ==
    ASSUME ChatInv, NEW r \in Requests, LateUpdate(r)
    PROVE  ChatInv'
  <1> DEFINE old == left[r]
  <1>1. /\ requests[r] = "orphan" /\ requests' = [requests EXCEPT ![r] = "closed"]
        /\ left' = [left EXCEPT ![r] = << >>]
        /\ UNCHANGED <<stream, messages, rendered, dirty, sseSource, isComplete, editing, open, meddled>>
    BY DEF LateUpdate
  <1>2. storage' = storage \/ \E u : /\ Updates(u) /\ Writes(u, r)
                                     /\ storage' = updateLastAssistantMessage(old, u)
    <2>1. /\ Updates(WithChunk(r)) /\ Updates(Completed) /\ Updates(WithError) /\ Updates(WithAnswer(r))
          /\ Writes(WithChunk(r), r) /\ Writes(Completed, r) /\ Writes(WithError, r)
          /\ Writes(WithAnswer(r), r)
      BY Updaters
    <2>2. \/ storage' = storage
          \/ storage' = updateLastAssistantMessage(old, Completed)
          \/ storage' = updateLastAssistantMessage(old, WithError)
          \/ storage' = updateLastAssistantMessage(old, IF stream THEN WithChunk(r) ELSE WithAnswer(r))
      BY DEF LateUpdate
    <2>3. CASE storage' = updateLastAssistantMessage(old, Completed)
      BY <2>1, <2>3
    <2>4. CASE storage' = updateLastAssistantMessage(old, WithError)
      BY <2>1, <2>4
    <2>5. CASE storage' = updateLastAssistantMessage(old, IF stream THEN WithChunk(r) ELSE WithAnswer(r))
      <3>1. CASE stream
        BY <2>1, <2>5, <3>1
      <3>2. CASE ~stream
        BY <2>1, <2>5, <3>2
      <3> QED
        BY <3>1, <3>2
    <2> QED
      BY <2>2, <2>3, <2>4, <2>5
  <1>3. /\ requests \in [Requests -> RequestStates] /\ left \in [Requests -> Lists(requests)]
        /\ old \in Lists(requests) /\ old \in Seq(Messages) /\ storage \in Lists(requests)
    BY DEF ChatInv, ChatTyped, RequestStates, Lists
  <1>4. /\ requests' \in [Requests -> RequestStates]
        /\ \A x \in Requests : /\ requests'[x] = "new" => requests[x] = "new"
                               /\ requests'[x] = "open" => requests[x] = "open"
                               /\ requests'[x] = "orphan" => requests[x] = "orphan" /\ x # r
                               /\ left'[x] = IF x = r THEN << >> ELSE left[x]
    BY <1>1, <1>3 DEF RequestStates
  <1>5. Lists(requests) \subseteq Lists(requests')
    BY <1>4, ListsGrow
  <1>6. storage' \in Lists(requests)
    BY <1>2, <1>3, UpdateKeepsLists
  <1>7. left' \in [Requests -> Lists(requests)]
    <2>1. << >> \in Lists(requests)
      BY EmptyList
    <2> QED
      BY <1>1, <1>3, <2>1
  <1>8. ChatTyped'
    <2>1. messages' \in Lists(requests') /\ storage' \in Lists(requests')
      BY <1>1, <1>5, <1>6 DEF ChatInv, ChatTyped
    <2>2. rendered' \in [messages : Lists(requests'), isGenerating : BOOLEAN]
      BY <1>1, <1>5 DEF ChatInv, ChatTyped
    <2>3. left' \in [Requests -> Lists(requests')]
      BY <1>5, <1>7
    <2> QED
      BY <1>1, <1>4, <2>1, <2>2, <2>3 DEF ChatInv, ChatTyped, RequestStates
  <1>9. PageInv'
    BY <1>1, <1>4 DEF ChatInv, PageInv
  <1>10. AnswersInv'
    <2>1. SUFFICES ASSUME ~meddled' PROVE AnswersInv'
      BY DEF AnswersInv
    <2>2. /\ Own(messages) /\ Own(storage) /\ OnlyLast(messages) /\ OnlyLast(storage)
          /\ \A x \in Requests : Own(left[x]) /\ OnlyLast(left[x])
          /\ open => \A x \in Requests : requests[x] = "open" => Awaited(x)
          /\ \A x \in Requests : requests[x] = "orphan" =>
                 left[x] # << >> /\ Last(left[x]).from = "assistant" /\ Last(left[x]).req = x
          /\ open /\ ~dirty => rendered.isGenerating = (sseSource # None)
          /\ open /\ stream /\ ~Quiet(messages) => sseSource # None
      BY <1>1, <2>1 DEF ChatInv, AnswersInv
    <2>3. Own(storage') /\ OnlyLast(storage')
      <3>1. CASE storage' = storage
        BY <2>2, <3>1
      <3>2. CASE storage' # storage
        <4>1. PICK u : Updates(u) /\ Writes(u, r) /\ storage' = updateLastAssistantMessage(old, u)
          BY <1>2, <3>2
        <4>2. Own(old) /\ OnlyLast(old) /\ Last(old).from = "assistant" /\ Last(old).req = r
          BY <1>1, <2>2
        <4> QED
          BY <1>3, <4>1, <4>2, UpdateKeepsOwn, UpdateKeepsOnlyLast
      <3> QED
        BY <3>1, <3>2
    <2>4. \A x \in Requests : Own(left'[x]) /\ OnlyLast(left'[x])
      BY <1>4, <2>2, EmptyList
    <2>5. \A x \in Requests : requests'[x] = "orphan" =>
              left'[x] # << >> /\ Last(left'[x]).from = "assistant" /\ Last(left'[x]).req = x
      BY <1>4, <2>2
    <2>6. open' => \A x \in Requests : requests'[x] = "open" => Awaited(x)'
      BY <1>1, <1>4, <2>2 DEF Awaited
    <2> QED
      BY <1>1, <2>2, <2>3, <2>4, <2>5, <2>6 DEF AnswersInv, Own, OnlyLast, Quiet
  <1> QED
    BY <1>8, <1>9, <1>10 DEF ChatInv

----------------------------------------------------------------------------
\* An empty page.
LEMMA ChatStarts == ChatInit => ChatInv
  <1>1. SUFFICES ASSUME ChatInit PROVE ChatInv
    OBVIOUS
  <1>2. /\ << >> \in Lists(requests) /\ Own(<< >>) /\ OnlyLast(<< >>) /\ Quiet(<< >>)
    BY EmptyList
  <1>3. ChatTyped
    BY <1>1, <1>2 DEF ChatInit, ChatTyped, Keys
  <1>4. PageInv
    BY <1>1 DEF ChatInit, PageInv
  <1>5. AnswersInv
    BY <1>1, <1>2 DEF ChatInit, AnswersInv
  <1> QED
    BY <1>3, <1>4, <1>5 DEF ChatInv

\* Every step keeps the invariant.
LEMMA ChatSteps == ChatInv /\ [ChatNext]_chatVars => ChatInv'
  <1>1. SUFFICES ASSUME ChatInv, [ChatNext]_chatVars PROVE ChatInv'
    OBVIOUS
  <1>2. ASSUME NEW r \in Requests, handleSendMessage(r) PROVE ChatInv'
    BY <1>1, <1>2, handleSendKeeps
  <1>3. ASSUME NEW r \in Requests, handleRegenerateMessage(r) PROVE ChatInv'
    BY <1>1, <1>3, handleRegenerateKeeps
  <1>4. ASSUME NEW r \in Requests, Network(r) PROVE ChatInv'
    BY <1>1, <1>4, NetworkKeeps
  <1>5. CASE handleEditMessage
    BY <1>1, <1>5, handleEditKeeps
  <1>6. ASSUME NEW i \in DOMAIN rendered.messages, handleDeleteMessage(i) PROVE ChatInv'
    BY <1>1, <1>6, handleDeleteKeeps
  <1>7. ASSUME NEW i \in DOMAIN rendered.messages, NEW submit \in BOOLEAN, NEW r \in Requests,
               applyEdit(i, submit, r)
        PROVE  ChatInv'
    BY <1>1, <1>7, applyEditKeeps
  <1>8. CASE stopGeneration
    BY <1>1, <1>8, stopKeeps
  <1>9. CASE Render
    BY <1>1, <1>9, RenderKeeps
  <1>10. CASE Leave
    BY <1>1, <1>10, LeaveKeeps
  <1>11. ASSUME NEW r \in Requests, LateUpdate(r) PROVE ChatInv'
    BY <1>1, <1>11, LateUpdateKeeps
  <1>12. CASE Load
    BY <1>1, <1>12, LoadKeeps
  <1>13. CASE UNCHANGED chatVars
    <2>1. UNCHANGED <<stream, messages, rendered, dirty, storage, requests, left, sseSource, isComplete,
                      editing, open, meddled>>
      BY <1>13 DEF chatVars
    <2>2. ChatTyped'
      BY <1>1, <2>1 DEF ChatInv, ChatTyped
    <2>3. PageInv'
      BY <1>1, <2>1 DEF ChatInv, PageInv
    <2>4. AnswersInv'
      BY <1>1, <2>1 DEF ChatInv, AnswersInv, Own, OnlyLast, Quiet, Awaited
    <2> QED
      BY <2>2, <2>3, <2>4 DEF ChatInv
  <1> QED
    BY <1>1, <1>2, <1>3, <1>4, <1>5, <1>6, <1>7, <1>8, <1>9, <1>10, <1>11, <1>12, <1>13 DEF ChatNext

(* While nobody changes the conversation under an answer, the request that *)
(* is open is the one the last message waits for, on the page and on every *)
(* page that was left.                                                     *)
THEOREM ChatInvariant == ChatSpec => []ChatInv
  <1>1. ChatInit => ChatInv
    BY ChatStarts
  <1>2. ChatInv /\ [ChatNext]_chatVars => ChatInv'
    BY ChatSteps
  <1> QED
    BY <1>1, <1>2, PTL DEF ChatSpec

(* The answers that callbacks put under "the last message" of the playground *)
(* are those of the request it waits for, and a streamed message that waits  *)
(* can be stopped.                                                           *)
THEOREM ChatSound == ChatSpec => []ConversationSound
  <1>1. ASSUME ChatInv PROVE ConversationSound
    <2>1. \A L \in Seq(Messages) : Range(L) \subseteq Messages
      BY ListElements DEF Range
    <2>2. /\ messages \in Seq(Messages) /\ Len(messages) <= 2 * MaxRequests
          /\ storage \in Seq(Messages) /\ Len(storage) <= 2 * MaxRequests
          /\ rendered.messages \in Seq(Messages) /\ Len(rendered.messages) <= 2 * MaxRequests
          /\ \A r \in Requests : left[r] \in Seq(Messages) /\ Len(left[r]) <= 2 * MaxRequests
      BY <1>1 DEF ChatInv, ChatTyped, Lists
    <2>3. ChatTypeOK
      BY <1>1, <2>1, <2>2 DEF ChatInv, ChatTyped, ChatTypeOK, Keys
    <2>4. DOMAIN messages = 1..Len(messages)
      BY <2>2, ListElements
    <2>5. AnswersAreOwn
      BY <1>1, <2>4 DEF ChatInv, AnswersInv, AnswersAreOwn, Own, OwnText
    <2>6. StopIsOffered
      BY <1>1, <2>4 DEF ChatInv, AnswersInv, StopIsOffered, Quiet
    <2> QED
      BY <2>3, <2>5, <2>6 DEF ConversationSound
  <1> QED
    BY <1>1, ChatInvariant, PTL

(* An answer that was completed, stopped or failed is not written to by a  *)
(* stream callback any more.                                               *)
THEOREM ChatSettled == ChatSpec => SettledStaysSettled
  <1>1. ASSUME ChatInv, NEW r \in Requests, Network(r), ~meddled,
               NEW i \in DOMAIN messages, ~Unsettled(messages[i])
        PROVE  messages'[i] = messages[i]
    <2>1. /\ messages \in Seq(Messages) /\ DOMAIN messages = 1..Len(messages)
          /\ messages # << >> => Last(messages) = messages[Len(messages)]
      <3>1. messages \in Seq(Messages)
        BY <1>1 DEF ChatInv, ChatTyped, Lists
      <3> QED
        BY <3>1, ListElements
    <2>2. Unsettled(messages[Len(messages)])
      BY <1>1, <2>1 DEF Network, Chunk, Done, StreamError, StreamCut, PlainAnswer, ChatInv, AnswersInv,
                        Awaited
    <2>3. i # Len(messages) /\ i \in 1..Len(messages)
      BY <1>1, <2>1, <2>2
    <2>4. \/ messages' = messages
          \/ \E u : Updates(u) /\ messages' = updateLastAssistantMessage(messages, u)
      BY <1>1, Updaters DEF Network, Chunk, Done, StreamError, StreamCut, PlainAnswer, Update
    <2>5. CASE messages' = messages
      BY <2>5
    <2>6. ASSUME NEW u, Updates(u), messages' = updateLastAssistantMessage(messages, u)
          PROVE  messages'[i] = messages[i]
      BY <2>1, <2>3, <2>6, UpdateLast
    <2> QED
      BY <2>4, <2>5, <2>6
  <1>2. ChatInv => ((\E r \in Requests : Network(r)) /\ ~meddled
                    => \A i \in DOMAIN messages : ~Unsettled(messages[i]) => messages'[i] = messages[i])
    BY <1>1
  <1> QED
    BY <1>2, ChatInvariant, PTL DEF SettledStaysSettled

(* sanitizeMessagesOnLoad repairs one message only, and that is enough.    *)
THEOREM ChatLoads == ChatSpec => LoadSettles
  <1>1. ChatInv => (Load /\ ~meddled => \A i \in DOMAIN messages' : ~Unsettled(messages'[i]))
    <2>1. SUFFICES ASSUME ChatInv, Load, ~meddled
                   PROVE  \A i \in DOMAIN messages' : ~Unsettled(messages'[i])
      OBVIOUS
    <2>2. ChatInv' /\ Quiet(messages')
      BY <2>1, LoadKeeps
    <2>3. messages' \in Seq(Messages)
      BY <2>2 DEF ChatInv, ChatTyped, Lists
    <2>4. DOMAIN messages' = 1..Len(messages')
      BY <2>3, ListElements
    <2> QED
      BY <2>2, <2>4 DEF Quiet
  <1> QED
    BY <1>1, ChatInvariant, PTL DEF LoadSettles
=============================================================================
