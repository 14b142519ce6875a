------------------------------ MODULE Desktop --------------------------------
(***************************************************************************)
(* The program's windows as main() composes them: MainWindow first, then   *)
(* the console with its server.  They share the UI thread: while one of    *)
(* their handlers has not returned no other begins.                        *)
(***************************************************************************)
EXTENDS StartWindow, ServerLifecycle

vars == <<startVars, consoleVars>>

Init == StartInit /\ ConsoleInit

Alive == crash = "no" /\ nullUses = {} /\ ui # "exited"

\* onClickedConsole emits openedConsole: MainWindow::hide, then the console is made.
OnOpenedConsole == OpenConsole /\ MakeConsole

Next ==
  /\ Alive
  /\ \/ OnOpenedConsole
     \/ StartStep /\ ui = "idle" /\ UNCHANGED consoleVars
     \/ UserStep /\ UiFree /\ UNCHANGED startVars
     \/ UiStep /\ UNCHANGED startVars
     \/ (\E s \in Servers : ServerStep(s)) /\ UNCHANGED startVars

\* A handler that has begun goes on, and threads are scheduled.
Spec ==
  /\ Init /\ [][Next]_vars
  /\ WF_vars(Alive /\ UiStep /\ UNCHANGED startVars)
  /\ \A s \in Servers : WF_vars(Alive /\ ServerStep(s) /\ UNCHANGED startVars)

-----------------------------------------------------------------------------
TypeOK == StartTypeOK /\ ConsoleTypeOK

\* An installer has the device for itself: the loop is paused while one runs,
\* unless two ran at once (the button stays enabled) and the first one ended.
SkipHeld ==
  (\E w \in Installers : procs[w] > 0) => skipCheck \/ overlapped \/ hidden

\* When the button says "Run" no server of the console runs or listens, unless
\* the button was pressed twice before the first server was up.
StoppedMeansStopped ==
  button = "Run" /\ ui = "idle" /\ ~early =>
    \A s \in Servers : thread[s] \in {"none", "finished"} /\ http[s] = "null"

\* A console that is out of sight can be reached: its tray icon is visible.
NeverStranded == window = "hidden" /\ ui = "idle" => tray

\* The program touches what it has deleted, or ends before its time, in these
\* cases only: callbacks of installers and questions left over from the start
\* window; a device state after a server was stopped; a server that was on, or
\* forgotten by an early click, when the window is destroyed; a stop that comes
\* between m_isRunning and open_sync.
UsesExplained ==
  /\ nullUses \subseteq leftOver
  /\ "signal" \in misuse => stops
  /\ "ownThread" \in misuse => upAtQuit
  /\ "app" \in misuse => upAtQuit \/ early
  /\ crash = "nullServer" => stops \/ upAtQuit

\* The UI thread comes back from stopping a server and from the destruction of
\* the window, unless the window was destroyed before its server was running.
UiReturns ==
  /\ ui \in {"closeServer", "stopContext", "join", "closeWindow"} ~> (ui \in {"idle", "quit"} \/ ~Alive)
  /\ ui = "quit" ~> (ui = "exited" \/ crash # "no" \/ \E s \in Servers : obj[s] = "deleted" /\ s \notin stopped)
==============================================================================
