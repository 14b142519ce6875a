-------------------------- MODULE ServerLifecycle ----------------------------
(***************************************************************************)
(* How ConsoleWindow starts, stops and destroys the WebSocket server:      *)
(* onServerClicked, closeEvent, the tray and ~ConsoleWindow on the UI      *)
(* thread, WsServer::run on a QThread per server, WsServer::stop from the  *)
(* UI thread beside it.  What a running server does is WsServer.           *)
(*                                                                         *)
(* Memory that was deleted is used as if it were intact, and the use is    *)
(* recorded in misuse; an exception that leaves run() and a call through   *)
(* a null m_server end the program (crash).                                *)
(***************************************************************************)
EXTENDS Naturals, FiniteSets

CONSTANT MaxServers  \* bound on WsServer objects made

ASSUME ServersAssumption == MaxServers \in Nat

VARIABLES
  made,       \* number of WsServer objects made so far
  obj,        \* per server, whether the object is "none", "live" or "deleted"
  thread,     \* per server, where its thread is in run() or after it
  running,    \* servers with m_isRunning
  http,       \* per server, m_server: "null", "made" or "open"
  stopped,    \* servers whose io_context was stopped
  quitted,    \* servers whose QThread was told to quit
  slots,      \* servers whose lambda is connected to ConsoleApp::deviceStateChanged
  server,     \* ConsoleWindow::server, 0 is nullptr
  ui,         \* where the UI thread is in a handler that takes several steps
  button,     \* the text of btnServer; the tabs and the settings follow it
  tray,       \* the tray icon is visible
  trayAction, \* "Stop server and close" is enabled
  closeTray,  \* KEY_SERVER_CLOSE_TRAY
  window,     \* the console window
  app,        \* the ConsoleApp object
  thenClose,  \* the handler under way is the tray action's, close() follows
  early,      \* history: the button was pressed before its server was running
  stops,      \* history: a server was stopped with the button or the tray
  upAtQuit,   \* history: there was a server when the window was destroyed
  misuse,     \* history: uses of deleted objects
  crash       \* how the program ended before its time

serverVars == <<made, obj, thread, running, http, stopped, quitted, slots>>
windowVars == <<button, tray, trayAction, closeTray, window, app, thenClose>>
marks == <<early, stops, upAtQuit, misuse>>
consoleVars == <<serverVars, server, ui, windowVars, marks, crash>>

Servers == 1..MaxServers

ConsoleInit ==
  /\ made = 0
  /\ obj = [s \in Servers |-> "none"] /\ thread = [s \in Servers |-> "none"]
  /\ http = [s \in Servers |-> "null"]
  /\ running = {} /\ stopped = {} /\ quitted = {} /\ slots = {}
  /\ server = 0 /\ ui = "idle"
  /\ button = "Run" /\ tray = FALSE /\ trayAction = FALSE /\ closeTray \in BOOLEAN
  /\ window = "none" /\ app = "none" /\ thenClose = FALSE
  /\ early = FALSE /\ stops = FALSE /\ upAtQuit = FALSE /\ misuse = {} /\ crash = "no"

\* The console is opened: its window and ConsoleApp are made and shown.
MakeConsole ==
  /\ window = "none"
  /\ window' = "shown" /\ app' = "live"
  /\ UNCHANGED <<serverVars, server, ui, button, tray, trayAction, closeTray, thenClose, marks, crash>>

-----------------------------------------------------------------------------
Uses(what, bad) == misuse' = misuse \cup (IF bad THEN {what} ELSE {})
Moves(s, from, to) == thread[s] = from /\ thread' = [thread EXCEPT ![s] = to]

\* run(): the flags are looked at and m_server is made.  isStarting is only ever
\* set by this thread, so the early returns are not taken.
RunMakes(s) ==
  /\ Moves(s, "born", "made")
  /\ http' = [http EXCEPT ![s] = "made"]
  /\ Uses("ownThread", obj[s] = "deleted")
  /\ UNCHANGED <<made, obj, running, stopped, quitted, slots, server, ui, windowVars,
                 early, stops, upAtQuit, crash>>

\* open_sync is posted; the lambda is connected without a context object.
RunConnects(s) ==
  /\ Moves(s, "made", "connected")
  /\ slots' = IF app = "live" THEN slots \cup {s} ELSE slots
  /\ misuse' = misuse \cup (IF obj[s] = "deleted" THEN {"ownThread"} ELSE {})
                      \cup (IF app # "live" THEN {"app"} ELSE {})
  /\ UNCHANGED <<made, obj, running, http, stopped, quitted, server, ui, windowVars,
                 early, stops, upAtQuit, crash>>

RunFlags(s) ==
  /\ Moves(s, "connected", "context")
  /\ running' = running \cup {s}
  /\ Uses("ownThread", obj[s] = "deleted")
  /\ UNCHANGED <<made, obj, http, stopped, quitted, slots, server, ui, windowVars,
                 early, stops, upAtQuit, crash>>

\* m_ctx.run: a stopped context returns at once, else open_sync is called on
\* m_server; a taken port throws out of run() and ends the program.
RunOpens(s, free) ==
  /\ thread[s] = "context" /\ s \notin stopped
  /\ Uses("ownThread", obj[s] = "deleted")
  /\ IF http[s] = "null"
       THEN crash' = "nullServer" /\ UNCHANGED <<thread, http>>
       ELSE IF free /\ \A t \in Servers : http[t] # "open"
         THEN Moves(s, "context", "serving") /\ http' = [http EXCEPT ![s] = "open"] /\ UNCHANGED crash
         ELSE crash' = "portTaken" /\ UNCHANGED <<thread, http>>
  /\ UNCHANGED <<made, obj, running, stopped, quitted, slots, server, ui, windowVars,
                 early, stops, upAtQuit>>

\* A request is served: its handler asks ConsoleApp.
Serve(s) ==
  /\ thread[s] = "serving" /\ http[s] = "open" /\ app # "live"
  /\ Uses("app", TRUE)
  /\ UNCHANGED <<serverVars, server, ui, windowVars, early, stops, upAtQuit, crash>>

\* m_ctx.run returns once the context was stopped; m_isRunning = false.
RunReturns(s) ==
  /\ thread[s] \in {"context", "serving"} /\ s \in stopped
  /\ thread' = [thread EXCEPT ![s] = "events"]
  /\ running' = running \ {s}
  /\ Uses("ownThread", obj[s] = "deleted")
  /\ UNCHANGED <<made, obj, http, stopped, quitted, slots, server, ui, windowVars,
                 early, stops, upAtQuit, crash>>

\* The thread's event loop, which ends if quit() was or is called.
ThreadEnds(s) ==
  /\ s \in quitted /\ Moves(s, "events", "finished")
  /\ UNCHANGED <<made, obj, running, http, stopped, quitted, slots, server, ui, windowVars, marks, crash>>

-----------------------------------------------------------------------------
UiIdle == ui = "idle" /\ crash = "no" /\ window \notin {"none", "closed"}

\* The slip (no action uses the definitions called so) of asking whether there is a
\* server, not whether it runs.
ClickStopsAny ==
  /\ server # 0
  /\ ui' = "closeServer"
  /\ stops' = TRUE
  /\ UNCHANGED <<serverVars, server, button, tray, trayAction, early>>

\* onServerClicked while isRunning(): it will stop the server, in steps.
ClickStops ==
  /\ server \in running
  /\ ui' = "closeServer"
  /\ stops' = TRUE
  /\ UNCHANGED <<serverVars, server, button, tray, trayAction, early>>

\* onServerClicked otherwise: also when the server there is is not up yet.
ClickStarts ==
  /\ server \notin running /\ made < MaxServers
  /\ made' = made + 1
  /\ server' = made + 1
  /\ obj' = [obj EXCEPT ![made + 1] = "live"]
  /\ thread' = [thread EXCEPT ![made + 1] = "born"]
  /\ button' = "Stop"
  /\ tray' = (tray \/ closeTray)
  /\ trayAction' = (trayAction \/ closeTray)
  /\ early' = (early \/ server # 0)
  /\ ui' = IF thenClose' THEN "closeWindow" ELSE "idle"
  /\ UNCHANGED <<running, http, stopped, quitted, slots, stops>>

Click ==
  /\ UiIdle /\ window = "shown"
  /\ thenClose' = FALSE
  /\ ClickStops \/ ClickStarts
  /\ UNCHANGED <<closeTray, window, app, upAtQuit, misuse, crash>>

\* "Stop server and close" in the tray menu: onServerClicked, then close().
TrayStopsAndCloses ==
  /\ UiIdle /\ tray /\ trayAction
  /\ thenClose' = TRUE
  /\ ClickStops \/ ClickStarts
  /\ UNCHANGED <<closeTray, window, app, upAtQuit, misuse, crash>>

\* WsServer::stop, first half: m_server is closed and deleted.
StopCloses ==
  /\ ui = "closeServer"
  /\ IF server \in running
       THEN http' = [http EXCEPT ![server] = "null"] /\ ui' = "stopContext"
       ELSE ui' = "join" /\ UNCHANGED http
  /\ UNCHANGED <<made, obj, thread, running, stopped, quitted, slots, server, windowVars, marks, crash>>

\* Second half: m_ctx.stop().  Back in onServerClicked: onServerStopped, quit().
StopStopsContext ==
  /\ ui = "stopContext"
  /\ stopped' = stopped \cup {server}
  /\ quitted' = quitted \cup {server}
  /\ button' = "Run"
  /\ ui' = "join"
  /\ UNCHANGED <<made, obj, thread, running, http, slots, server, tray, trayAction, closeTray, window, app,
                 thenClose, marks, crash>>

\* The slip of not waiting for the thread.
JoinedUnwaited ==
  /\ ui = "join"
  /\ obj' = [obj EXCEPT ![server] = "deleted"]
  /\ server' = 0
  /\ tray' = (tray /\ ~closeTray)
  /\ ui' = IF thenClose THEN "closeWindow" ELSE "idle"
  /\ UNCHANGED <<made, thread, running, http, stopped, quitted, slots, button, trayAction, closeTray, window,
                 app, thenClose, marks, crash>>

\* wait() returned: the server and its thread are deleted, not the connection.
Joined ==
  /\ ui = "join" /\ thread[server] = "finished"
  /\ obj' = [obj EXCEPT ![server] = "deleted"]
  /\ server' = 0
  /\ tray' = (tray /\ ~closeTray)
  /\ ui' = IF thenClose THEN "closeWindow" ELSE "idle"
  /\ UNCHANGED <<made, thread, running, http, stopped, quitted, slots, button, trayAction, closeTray, window,
                 app, thenClose, marks, crash>>

\* The slip of going to the tray without an icon there.
CloseHidingAlways ==
  /\ (UiIdle /\ window = "shown") \/ ui = "closeWindow"
  /\ ui' = IF closeTray THEN "idle" ELSE "quit"
  /\ window' = IF closeTray THEN "hidden" ELSE "closed"
  /\ UNCHANGED <<serverVars, server, button, tray, trayAction, closeTray, app, thenClose, marks, crash>>

\* closeEvent, from the title bar or the tray action: to the tray if there is an
\* icon, else closed() quits the application.
Close ==
  /\ (UiIdle /\ window = "shown") \/ ui = "closeWindow"
  /\ ui' = IF closeTray /\ tray THEN "idle" ELSE "quit"
  /\ window' = IF closeTray /\ tray THEN "hidden" ELSE "closed"
  /\ UNCHANGED <<serverVars, server, button, tray, trayAction, closeTray, app, thenClose, marks, crash>>

\* The tray icon shows the window, its Minimize action hides it.
TrayShows(shown) ==
  /\ UiIdle /\ tray
  /\ window' = IF shown THEN "shown" ELSE "hidden"
  /\ window' # window
  /\ UNCHANGED <<serverVars, server, ui, button, tray, trayAction, closeTray, app, thenClose, marks, crash>>

\* The settings dialog saves with every valid change; its button is disabled
\* while the server button says "Stop".
SaveSettings ==
  /\ UiIdle /\ window = "shown" /\ button = "Run"
  /\ closeTray' = ~closeTray
  /\ UNCHANGED <<serverVars, server, ui, button, tray, trayAction, window, app, thenClose, marks, crash>>

\* ConsoleApp emits deviceStateChanged on the UI thread: the lambdas walk m_registry.
DeviceState ==
  /\ UiIdle /\ app = "live"
  /\ \E s \in slots : obj[s] = "deleted"
  /\ Uses("signal", TRUE)
  /\ UNCHANGED <<serverVars, server, ui, windowVars, early, stops, upAtQuit, crash>>

-----------------------------------------------------------------------------
\* ~ConsoleWindow, once the event loop ended: delete app ...
QuitDeletesApp ==
  /\ ui = "quit" /\ app = "live"
  /\ app' = "deleted"
  /\ slots' = {}
  /\ upAtQuit' = (server # 0)
  /\ UNCHANGED <<made, obj, thread, running, http, stopped, quitted, server, ui, button, tray, trayAction,
                 closeTray, window, thenClose, early, stops, misuse, crash>>

\* ... delete server, whose destructor stops it if it runs, before its thread ends ...
QuitDeletesServer ==
  /\ ui = "quit" /\ app = "deleted"
  /\ ui' = "quitThread"
  /\ IF server = 0 THEN UNCHANGED <<obj, http, stopped>>
     ELSE /\ obj' = [obj EXCEPT ![server] = "deleted"]
          /\ http' = [http EXCEPT ![server] = "null"]
          /\ stopped' = IF server \in running THEN stopped \cup {server} ELSE stopped
  /\ UNCHANGED <<made, thread, running, quitted, slots, server, windowVars, marks, crash>>

\* ... and the thread quits.
QuitThread ==
  /\ ui = "quitThread"
  /\ ui' = "quitJoin"
  /\ quitted' = IF server = 0 THEN quitted ELSE quitted \cup {server}
  /\ UNCHANGED <<made, obj, thread, running, http, stopped, slots, server, windowVars, marks, crash>>

\* main returns; threads of forgotten servers die with the process.
Exit ==
  /\ ui = "quitJoin"
  /\ server # 0 => thread[server] = "finished"
  /\ ui' = "exited"
  /\ UNCHANGED <<serverVars, server, windowVars, marks, crash>>

-----------------------------------------------------------------------------
ServerStep(s) ==
  \/ RunMakes(s) \/ RunConnects(s) \/ RunFlags(s) \/ Serve(s) \/ RunReturns(s) \/ ThreadEnds(s)
  \/ \E free \in BOOLEAN : RunOpens(s, free)

\* What the UI thread does on its own once it is in a handler ...
UiStep ==
  \/ StopCloses \/ StopStopsContext \/ Joined
  \/ ui = "closeWindow" /\ Close
  \/ QuitDeletesApp \/ QuitDeletesServer \/ QuitThread \/ Exit

\* ... and what the user and the device make it do.
UserStep ==
  \/ Click \/ TrayStopsAndCloses \/ SaveSettings \/ DeviceState
  \/ ui = "idle" /\ Close
  \/ \E b \in BOOLEAN : TrayShows(b)

ConsoleTypeOK ==
  /\ made \in 0..MaxServers /\ server \in 0..made
  /\ obj \in [Servers -> {"none", "live", "deleted"}]
  /\ thread \in [Servers -> {"none", "born", "made", "connected", "context", "serving", "events", "finished"}]
  /\ http \in [Servers -> {"null", "made", "open"}]
  /\ running \cup stopped \cup quitted \cup slots \subseteq Servers
  /\ ui \in {"idle", "closeServer", "stopContext", "join", "closeWindow",
             "quit", "quitThread", "quitJoin", "exited"}
  /\ button \in {"Run", "Stop"}
  /\ {tray, trayAction, closeTray, thenClose, early, stops, upAtQuit} \subseteq BOOLEAN
  /\ window \in {"none", "shown", "hidden", "closed"}
  /\ app \in {"none", "live", "deleted"}
  /\ misuse \subseteq {"ownThread", "app", "signal"}
  /\ crash \in {"no", "nullServer", "portTaken"}
==============================================================================
