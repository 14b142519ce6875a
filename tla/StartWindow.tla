---------------------------- MODULE StartWindow ------------------------------
(***************************************************************************)
(* The window the program starts with: MainWindow, its MainApp, which      *)
(* listens to the device loop, and InstallAppWindow, which runs the        *)
(* installer of the Ledger application as a process.                       *)
(*                                                                         *)
(* MainApp lives until MainWindow is hidden, that is until the console is  *)
(* opened; installer windows, their processes and the questions put to the *)
(* device on the io thread outlive it, and their callbacks read            *)
(* MainWindow::app.                                                        *)
(***************************************************************************)
EXTENDS Naturals, Sequences

CONSTANTS
  DevStates,    \* dev_state values the device goes through
  Installers,   \* bound: the installer windows that get opened
  MaxInstalls,  \* bound on clicks on their Install buttons
  MaxLists      \* bound on requests for the device's applications and boxes about them

ASSUME StartAssumption ==
  /\ DevStates \subseteq {"DISCONNECTED", "APP_NOT_OPENED", "PERMISSION_ERROR", "APP_OPENED"}
  /\ MaxInstalls \in Nat /\ MaxLists \in Nat

VARIABLES
  hidden,      \* MainWindow was hidden: app is nullptr
  published,   \* the device loop's last state
  infinite,    \* its flag infiniteEmitting
  skipCheck,   \* its flag skipCheck
  notice,      \* deviceStateChanged on its way to MainApp, at most one
  buttons,     \* enabled buttons of MainWindow
  listing,     \* checkMinterAppInstalled requests not yet answered
  questions,   \* "Open Minter app" boxes on the screen
  clickable,   \* installer windows whose Install button is enabled
  opened,      \* installer windows there are
  sleeping,    \* the window whose onClickedInstall sleeps on the UI thread
  procs,       \* per installer window, running installers
  installs,    \* Install clicks so far
  overlapped,  \* history: two installers ran at once
  leftOver,    \* history: what was under way when MainWindow was hidden
  nullUses     \* history: callbacks that read app when it was nullptr

startVars == <<hidden, published, infinite, skipCheck, notice, buttons, listing, questions,
               clickable, opened, sleeping, procs, installs, overlapped, leftOver, nullUses>>
loopVars == <<published, infinite, skipCheck, notice>>
installVars == <<clickable, opened, sleeping, procs, installs, overlapped>>
listVars == <<listing, questions>>
history == <<leftOver, nullUses>>

StartInit ==
  /\ hidden = FALSE
  /\ published = "DISCONNECTED" /\ infinite = TRUE /\ skipCheck = FALSE /\ notice = <<>>
  /\ buttons = {}
  /\ listing = 0 /\ questions = 0
  /\ clickable = {} /\ opened = {} /\ sleeping = {} /\ procs = [w \in Installers |-> 0]
  /\ installs = 0
  /\ overlapped = FALSE /\ leftOver = {} /\ nullUses = {}

-----------------------------------------------------------------------------
\* The device loop, as StateNotifier promises; it does nothing while skipCheck is on.
LoopPublishes(s) ==
  /\ ~hidden /\ ~skipCheck /\ notice = <<>>
  /\ s # published \/ infinite
  /\ published' = s
  /\ notice' = <<s>>
  /\ UNCHANGED <<hidden, infinite, skipCheck, buttons, listVars, installVars, history>>

\* The state in which each button of MainWindow can be pressed.
EnabledIn == [console |-> "APP_OPENED", install |-> "APP_NOT_OPENED"]

\* MainApp::onDeviceStateChanged and, by appNotOpened, MainWindow::onAppNotOpened.
\* setBtn... then ...Changed enable the buttons.
OnDeviceState ==
  /\ notice # <<>> /\ sleeping = {}
  /\ LET s == Head(notice) IN
       /\ buttons' = {b \in {"console", "install"} : EnabledIn[b] = s}
       /\ infinite' = (infinite /\ s # "APP_NOT_OPENED")
       /\ s = "APP_NOT_OPENED" => listing + questions < MaxLists
       /\ listing' = listing + (IF s = "APP_NOT_OPENED" THEN 1 ELSE 0)
  /\ notice' = <<>>
  /\ UNCHANGED <<hidden, published, skipCheck, questions, installVars, history>>

\* The answer of checkMinterAppInstalled, on the UI thread.  Without the
\* application, or with an error, only the pid or a box follows.
OnListed(hasApp) ==
  /\ listing > 0 /\ sleeping = {}
  /\ listing' = listing - 1
  /\ questions' = questions + (IF hasApp THEN 1 ELSE 0)
  /\ UNCHANGED <<hidden, loopVars, buttons, installVars, history>>

\* The user answers QMessageBox::question; Open goes to app->getDeviceLooper().
OnAnswered(open) ==
  /\ questions > 0 /\ sleeping = {}
  /\ questions' = questions - 1
  /\ nullUses' = nullUses \cup (IF open /\ hidden THEN {"openApp"} ELSE {})
  /\ UNCHANGED <<hidden, loopVars, buttons, listing, installVars, leftOver>>

-----------------------------------------------------------------------------
UiFree == sleeping = {} /\ questions = 0

\* The slip of a window that is not remembered.
OnClickedInstallUnkept(w) ==
  /\ UiFree /\ ~hidden /\ "install" \in buttons /\ w \notin opened
  /\ clickable' = clickable \cup {w}
  /\ UNCHANGED <<hidden, loopVars, buttons, listVars, opened, sleeping, procs, installs, overlapped, history>>

\* MainWindow::onClickedInstall: every click makes a window.
OnClickedInstall(w) ==
  /\ UiFree /\ ~hidden /\ "install" \in buttons /\ w \notin opened
  /\ opened' = opened \cup {w}
  /\ clickable' = clickable \cup {w}
  /\ UNCHANGED <<hidden, loopVars, buttons, listVars, sleeping, procs, installs, overlapped, history>>

\* The slip of pausing the loop for the first installation only (no action uses
\* it; it is what SkipHeld is tried against).
OnInstallOnce(w) ==
  /\ UiFree /\ w \in clickable /\ installs < MaxInstalls
  /\ installs' = installs + 1
  /\ skipCheck' = (skipCheck \/ installs = 0)
  /\ sleeping' = {w}
  /\ UNCHANGED <<hidden, published, infinite, notice, buttons, listVars, clickable, opened, procs,
                 overlapped, history>>

\* InstallAppWindow::onClickedInstall, to its sleep_for: installStarted has
\* MainWindow set skipCheck.
OnInstall(w) ==
  /\ UiFree /\ w \in clickable /\ installs < MaxInstalls
  /\ installs' = installs + 1
  /\ skipCheck' = (skipCheck \/ ~hidden)
  /\ nullUses' = nullUses \cup (IF hidden THEN {"installStarted"} ELSE {})
  /\ sleeping' = {w}
  /\ UNCHANGED <<hidden, published, infinite, notice, buttons, listVars, clickable, opened, procs,
                 overlapped, leftOver>>

\* The rest of it: the process starts, or does not and will never finish.
OnInstallStarts(w, ok) ==
  /\ w \in sleeping
  /\ sleeping' = {}
  /\ procs' = [procs EXCEPT ![w] = @ + (IF ok THEN 1 ELSE 0)]
  /\ overlapped' = (overlapped \/ (ok /\ \E v \in Installers : procs[v] > 0))
  /\ UNCHANGED <<hidden, loopVars, buttons, listVars, clickable, opened, installs, history>>

\* onProcessFinished; installFinished has MainWindow resume the loop.
OnProcessFinished(w, normal) ==
  /\ procs[w] > 0 /\ sleeping = {}
  /\ procs' = [procs EXCEPT ![w] = @ - 1]
  /\ clickable' = IF normal THEN clickable \ {w} ELSE clickable
  /\ IF hidden THEN UNCHANGED <<skipCheck, infinite>> ELSE skipCheck' = FALSE /\ infinite' = TRUE
  /\ nullUses' = nullUses \cup (IF hidden THEN {"installFinished"} ELSE {})
  /\ UNCHANGED <<hidden, published, notice, buttons, listVars, opened, sleeping, installs,
                 overlapped, leftOver>>

\* MainWindow::hide() and hideEvent, which deletes MainApp: its destructor stops
\* the loop and waits for it, its flags are gone.
Hide ==
  /\ UiFree /\ ~hidden
  /\ hidden' = TRUE
  /\ published' = "DISCONNECTED" /\ infinite' = FALSE /\ skipCheck' = FALSE /\ notice' = <<>>
  /\ buttons' = {}
  /\ leftOver' = (IF listing > 0 THEN {"openApp"} ELSE {})
                   \cup (IF opened # {} THEN {"installStarted"} ELSE {})
                   \cup (IF \E w \in Installers : procs[w] > 0 THEN {"installFinished"} ELSE {})
  /\ UNCHANGED <<listVars, installVars, nullUses>>

OpenConsole == "console" \in buttons /\ Hide

-----------------------------------------------------------------------------
StartStep ==
  \/ \E s \in DevStates : LoopPublishes(s)
  \/ OnDeviceState
  \/ \E b \in BOOLEAN : OnListed(b) \/ OnAnswered(b)
  \/ \E w \in Installers :
       OnClickedInstall(w) \/ OnInstall(w)
         \/ \E b \in BOOLEAN : OnInstallStarts(w, b) \/ OnProcessFinished(w, b)

StartTypeOK ==
  /\ hidden \in BOOLEAN /\ infinite \in BOOLEAN /\ skipCheck \in BOOLEAN
  /\ published \in DevStates \cup {"DISCONNECTED"}
  /\ notice \in Seq(DevStates) /\ Len(notice) =< 1
  /\ buttons \subseteq {"install", "console"}
  /\ listing \in 0..MaxLists /\ questions \in 0..MaxLists
  /\ clickable \subseteq opened /\ opened \subseteq Installers /\ sleeping \subseteq opened
  /\ procs \in [Installers -> 0..MaxInstalls]
  /\ installs \in 0..MaxInstalls
  /\ overlapped \in BOOLEAN
  /\ leftOver \subseteq {"openApp", "installStarted", "installFinished"}
  /\ nullUses \subseteq {"openApp", "installStarted", "installFinished"}
==============================================================================
