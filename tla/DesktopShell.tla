---------------------------- MODULE DesktopShell ----------------------------
(***************************************************************************)
(* The desktop application, electron/main.js: it starts the gateway's      *)
(* server as a child process, probes its port until it answers, keeps a    *)
(* window that closes to the tray, and takes the server down when the      *)
(* application quits.                                                      *)
(*                                                                         *)
(* The code runs on one event loop: an action is one callback.  What       *)
(* happens around it is external: the child process, the port (which       *)
(* another program may hold), the user, and Electron's order of events on  *)
(* app.quit: before-quit, which may be prevented, then the windows' close  *)
(* events, any of which may call the quit off, then the exit.              *)
(***************************************************************************)
EXTENDS Naturals, FiniteSets

CONSTANTS
    Windows,      \* window objects
    NoWindow,     \* mainWindow is null or undefined
    MaxRetries,   \* probes of the port before start-up is given up
    MaxQuits      \* bound: times the application is asked to quit

ASSUME DesktopShellAssumption ==
    /\ NoWindow \notin Windows
    /\ MaxRetries \in Nat \ {0} /\ MaxQuits \in Nat \ {0}

VARIABLES
    dev,          \* development mode: the developer runs the servers
    foreign,      \* does another program answer on the port?
    app,          \* "starting", "ready", "failed", "exited"
    server,       \* the child process: "none", "starting", "up", "dead"
    exitCode,     \* of a dead child whose close event is still to come
    serverProcess,\* is the variable set?
    attempts, inFlight, timers,      \* currentAttempt, requests, scheduled retries
    win,          \* per window: "none", "shown", "hidden"
    mainWindow,
    isQuitting,
    dialogs,      \* message boxes on the screen: "crash", "start"
    killTimers,   \* 5 s timers of before-quit, each with a close listener
    quits,        \* how often app.quit was called
    early         \* history: was a window made before start-up was through?

vars == <<dev, foreign, app, server, exitCode, serverProcess, attempts, inFlight, timers,
          win, mainWindow, isQuitting, dialogs, killTimers, quits, early>>
scene == <<dev, foreign>>
child == <<server, exitCode, serverProcess>>
probe == <<attempts, inFlight, timers>>
ui == <<win, mainWindow, early>>
quitting == <<isQuitting, killTimers, quits>>

Probes == 2 * MaxRetries - 1

TypeOK ==
    /\ dev \in BOOLEAN /\ foreign \in BOOLEAN
    /\ app \in {"starting", "ready", "failed", "exited"}
    /\ server \in {"none", "starting", "up", "dead"}
    /\ exitCode \in {"none", "normal", "abnormal"}
    /\ serverProcess \in BOOLEAN
    /\ attempts \in 1..Probes /\ inFlight \in 0..Probes /\ timers \in 0..Probes
    /\ win \in [Windows -> {"none", "shown", "hidden"}]
    /\ mainWindow \in Windows \cup {NoWindow}
    /\ isQuitting \in BOOLEAN
    /\ dialogs \subseteq {"crash", "start"}
    /\ killTimers \in 0..MaxQuits /\ quits \in 0..MaxQuits
    /\ early \in BOOLEAN

\* whenReady has called startServer, which has spawned the server and sent the
\* first probe.  (An exception on the way, of mkdirSync or spawn, or later of
\* createTray, is left out.)
Init ==
    /\ dev \in BOOLEAN /\ foreign \in BOOLEAN
    /\ app = "starting"
    /\ server = IF dev THEN "none" ELSE "starting"
    /\ exitCode = "none"
    /\ serverProcess = ~dev
    /\ attempts = 1 /\ inFlight = 1 /\ timers = 0
    /\ win = [w \in Windows |-> "none"]
    /\ mainWindow = NoWindow
    /\ isQuitting = FALSE
    /\ dialogs = {}
    /\ killTimers = 0 /\ quits = 0
    /\ early = FALSE

Running == app # "exited"
Alive == server \in {"starting", "up"}
Open == {w \in Windows : win[w] # "none"}

----------------------------------------------------------------------------
(* The child process and the user.                                         *)
(***************************************************************************)
ServerListens ==
    /\ server = "starting" /\ ~foreign
    /\ server' = "up"
    /\ UNCHANGED <<scene, app, exitCode, serverProcess, probe, ui, dialogs, quitting>>

\* It ends by itself, of its own fault or on a signal.
ServerDies(code) ==
    /\ Alive
    /\ server' = "dead"
    /\ exitCode' = code
    /\ UNCHANGED <<scene, app, serverProcess, probe, ui, dialogs, quitting>>

----------------------------------------------------------------------------
(* createWindow, and Electron's windows.                                   *)
(***************************************************************************)
CreateWindow ==
    \E w \in Windows \ Open :
        /\ win' = [win EXCEPT ![w] = "shown"]
        /\ mainWindow' = w

\* The close event of window w.  Whichever window it is, the handlers hide or
\* forget mainWindow.
CloseEvent(w) ==
    IF isQuitting
    THEN /\ win' = [win EXCEPT ![w] = "none"]
         /\ mainWindow' = NoWindow
    ELSE /\ win' = IF mainWindow = NoWindow THEN win ELSE [win EXCEPT ![mainWindow] = "hidden"]
         /\ UNCHANGED mainWindow

CloseWindow(w) ==
    /\ Running /\ win[w] = "shown"
    /\ CloseEvent(w)
    /\ UNCHANGED <<scene, app, child, probe, early, dialogs, quitting>>

----------------------------------------------------------------------------
(* checkServerAvailability and the end of startServer.                     *)
(***************************************************************************)
Answers == foreign \/ dev \/ server = "up"

Reject ==
    /\ app' = IF app = "starting" THEN "failed" ELSE app
    /\ dialogs' = IF app = "starting" THEN dialogs \cup {"start"} ELSE dialogs

\* The probe is answered: the promise resolves, and tray and window are made.
ProbeAnswered ==
    /\ Running /\ inFlight > 0 /\ Answers
    /\ inFlight' = inFlight - 1
    /\ IF app = "starting" THEN app' = "ready" /\ CreateWindow
                           ELSE UNCHANGED <<app, win, mainWindow>>
    /\ UNCHANGED <<scene, child, attempts, timers, early, dialogs, quitting>>

\* Mutated ProbeFails: the last failure is not reported.
ProbeFailsSilently(retries) ==
    /\ Running /\ inFlight > 0
    /\ inFlight' = inFlight - 1
    /\ timers' = IF attempts >= MaxRetries THEN timers ELSE timers + retries
    /\ UNCHANGED <<scene, app, child, attempts, ui, dialogs, quitting>>

\* A refused connection fires 'error'; a timeout also destroys the request,
\* which fires 'error' too: each of the two schedules a retry.
ProbeFails(retries) ==
    /\ Running /\ inFlight > 0
    /\ inFlight' = inFlight - 1
    /\ IF attempts >= MaxRetries THEN Reject /\ UNCHANGED timers
       ELSE timers' = timers + retries /\ UNCHANGED <<app, dialogs>>
    /\ UNCHANGED <<scene, child, attempts, ui, quitting>>

\* Mutated Retry: the attempts are counted one per probe chain, not in all.
RetryUncounted ==
    /\ Running /\ timers > 0
    /\ timers' = timers - 1
    /\ attempts' = IF inFlight = 0 /\ timers = 1 THEN attempts + 1 ELSE attempts
    /\ inFlight' = inFlight + 1
    /\ UNCHANGED <<scene, app, child, ui, dialogs, quitting>>

\* tryConnect
Retry ==
    /\ Running /\ timers > 0
    /\ timers' = timers - 1
    /\ attempts' = attempts + 1
    /\ inFlight' = inFlight + 1
    /\ UNCHANGED <<scene, app, child, ui, dialogs, quitting>>

\* The binary cannot be run: no process, and the variable stays set.  Node may
\* report a close with a negative code after the error, or not.
SpawnError ==
    /\ Running /\ server = "starting"
    /\ server' = "none"
    /\ exitCode' \in {"none", "abnormal"}
    /\ Reject
    /\ UNCHANGED <<scene, serverProcess, probe, ui, quitting>>

----------------------------------------------------------------------------
(* Tray and dock.                                                          *)
(***************************************************************************)
\* The tray's menu entry, and what a click on it does to a hidden window.
TrayShow ==
    /\ app = "ready"
    /\ IF mainWindow = NoWindow THEN CreateWindow
       ELSE win' = [win EXCEPT ![mainWindow] = "shown"] /\ UNCHANGED mainWindow
    /\ UNCHANGED <<scene, app, child, probe, early, dialogs, quitting>>

TrayHide ==
    /\ app = "ready" /\ mainWindow # NoWindow
    /\ win[mainWindow] = "shown"
    /\ win' = [win EXCEPT ![mainWindow] = "hidden"]
    /\ UNCHANGED <<scene, app, child, probe, mainWindow, early, dialogs, quitting>>

\* Mutated Activate: the windows there are are not counted.
ActivateAlways ==
    /\ Running
    /\ CreateWindow
    /\ early' = (early \/ app # "ready")
    /\ UNCHANGED <<scene, app, child, probe, dialogs, quitting>>

Activate ==
    /\ Running /\ Open = {}
    /\ CreateWindow
    /\ early' = (early \/ app # "ready")
    /\ UNCHANGED <<scene, app, child, probe, dialogs, quitting>>

----------------------------------------------------------------------------
(* Quitting.                                                               *)
(***************************************************************************)
\* Every window gets its close event; one that is only hidden calls the quit
\* off.
CloseAll ==
    /\ app' = IF isQuitting' \/ Open = {} THEN "exited" ELSE app
    /\ win' = IF isQuitting' THEN [w \in Windows |-> "none"]
              ELSE [w \in Windows |-> IF w = mainWindow THEN "hidden" ELSE win[w]]
    /\ mainWindow' = IF isQuitting' THEN NoWindow ELSE mainWindow
    /\ UNCHANGED killTimers

\* Mutated BeforeQuit: no timer, in the trust that the signal is obeyed.
BeforeQuitPatient ==
    IF serverProcess THEN UNCHANGED <<app, win, mainWindow, killTimers>>
                     ELSE CloseAll

\* With a server the quit is put off, SIGTERM sent and a timer set.
BeforeQuit ==
    IF serverProcess THEN killTimers' = killTimers + 1 /\ UNCHANGED <<app, win, mainWindow>>
                     ELSE CloseAll

Quit ==
    /\ Running /\ quits < MaxQuits
    /\ quits' = quits + 1
    /\ BeforeQuit
    /\ UNCHANGED <<scene, child, probe, early>>

\* The tray's Quit.
TrayQuit ==
    /\ app = "ready"
    /\ isQuitting' = TRUE
    /\ Quit
    /\ UNCHANGED dialogs

\* The system's way to quit an application does not set isQuitting.
SystemQuit ==
    /\ UNCHANGED isQuitting
    /\ Quit
    /\ UNCHANGED dialogs

\* A message box is dismissed, with or without a look at the log.
CrashDialogDone ==
    /\ "crash" \in dialogs
    /\ dialogs' = dialogs \ {"crash"}
    /\ isQuitting' = TRUE
    /\ Quit

StartDialogDone ==
    /\ "start" \in dialogs
    /\ dialogs' = dialogs \ {"start"}
    /\ UNCHANGED isQuitting
    /\ Quit

\* The child's close event: startServer's listener, then those of before-quit.
ServerClosed ==
    /\ Running /\ exitCode # "none"
    /\ exitCode' = "none"
    /\ dialogs' = IF exitCode = "abnormal" THEN dialogs \cup {"crash"} ELSE dialogs
    /\ IF exitCode = "normal" /\ mainWindow # NoWindow THEN CloseEvent(mainWindow)
                                                       ELSE UNCHANGED <<win, mainWindow>>
    /\ serverProcess' = (killTimers = 0 /\ serverProcess)
    /\ app' = IF killTimers > 0 THEN "exited" ELSE app
    /\ UNCHANGED <<scene, server, probe, early, quitting>>

\* Mutated KillTimer: the application exits without the SIGKILL.
KillTimerGentle ==
    /\ Running /\ killTimers > 0
    /\ killTimers' = killTimers - 1
    /\ app' = "exited"
    /\ UNCHANGED <<scene, child, probe, ui, dialogs, isQuitting, quits>>

\* Five seconds later: SIGKILL, and exit whatever the server does.
KillTimer ==
    /\ Running /\ killTimers > 0
    /\ killTimers' = killTimers - 1
    /\ server' = IF serverProcess /\ Alive THEN "dead" ELSE server
    /\ app' = "exited"
    /\ UNCHANGED <<scene, exitCode, serverProcess, probe, ui, dialogs, isQuitting, quits>>

Next ==
    \/ ServerListens
    \/ \E code \in {"normal", "abnormal"} : ServerDies(code)
    \/ ServerClosed
    \/ SpawnError
    \/ ProbeAnswered
    \/ \E retries \in 1..2 : ProbeFails(retries)
    \/ Retry
    \/ Activate
    \/ TrayShow
    \/ TrayHide
    \/ \E w \in Windows : CloseWindow(w)
    \/ TrayQuit
    \/ SystemQuit
    \/ CrashDialogDone
    \/ StartDialogDone
    \/ KillTimer

Spec == Init /\ [][Next]_vars

\* Timers fire, a request is answered, refused or times out, and the exit of a
\* child is reported.  Neither the server nor the user is trusted to act.
FairSpec ==
    /\ Spec
    /\ WF_vars(Retry) /\ WF_vars(KillTimer) /\ WF_vars(ServerClosed)
    /\ WF_vars(ProbeAnswered \/ \E retries \in 1..2 : ProbeFails(retries))

----------------------------------------------------------------------------
(* Once the application has quit, the server it started is gone: whatever  *)
(* the order of kill timer, exits and quits, it is not left behind with    *)
(* the port and the database file.  (That the Electron process is itself   *)
(* killed is left out; nothing in the code could act on it.)               *)
NoOrphanedServer == app = "exited" => ~Alive

(* Although a probe that times out schedules two retries, start-up sends   *)
(* fewer than twice the probes it is meant to, and its probes die out.     *)
ProbesBounded == attempts + timers <= Probes

(* Every window is the one tray and dock can show again, unless the dock   *)
(* made one before start-up was through; a hidden one has a tray.          *)
NoWindowIsStranded ==
    Running /\ ~early =>
        \A w \in Open : mainWindow = w /\ (win[w] = "hidden" => app = "ready")

(* Windows, dialogs and timers stay within their bounds, and no window is  *)
(* out of the user's reach.                                                *)
WindowsSound == TypeOK /\ NoWindowIsStranded

(* An application told to quit exits, though its server may ignore the     *)
(* signal; without a server of its own (development mode) it may have to   *)
(* be told by the tray or by a dialog that sets isQuitting.                *)
QuitEventuallyExits ==
    quits > 0 /\ (~dev \/ isQuitting) ~> app = "exited"

(* Start-up does not hang: it succeeds, fails or is ended.                 *)
StartEventuallySettles == app = "starting" ~> app # "starting"
=============================================================================
