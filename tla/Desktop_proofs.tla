--------------------------- MODULE Desktop_proofs ----------------------------
(***************************************************************************)
(* Every safety invariant of Desktop, for any number of installers,        *)
(* installations, requests and servers.                                    *)
(*                                                                         *)
(* The start window and the console share no variable, so the inductive    *)
(* invariant is a conjunction of StartInv, kept by StartStep and Hide, and *)
(* ConsoleInv, kept by everything else.                                    *)
(***************************************************************************)
EXTENDS Desktop, TLAPS

\* What a process, a click or an answer still adds is within the bounds.
Counted ==
  /\ listing + questions =< MaxLists
  /\ \A w \in Installers :
       procs[w] =< installs /\ (w \in sleeping => procs[w] < installs)

\* The loop is paused from the click on: no installer ends while another click
\* is being handled, and without an overlap the one that ends is the last.
Paused ==
  /\ sleeping # {} => skipCheck \/ hidden
  /\ ~overlapped => \A v, w \in Installers :
       procs[v] > 0 /\ procs[w] > 0 => v = w /\ procs[v] = 1
  /\ SkipHeld

\* Once MainWindow is hidden its guests only go, until the first of them calls back.
Explained ==
  /\ nullUses \subseteq leftOver
  /\ hidden => notice = <<>>
  /\ hidden /\ nullUses = {} =>
       /\ listing + questions > 0 => "openApp" \in leftOver
       /\ opened # {} => "installStarted" \in leftOver
       /\ (\E w \in Installers : procs[w] > 0) => "installFinished" \in leftOver
       /\ sleeping = {}

StartInv == StartTypeOK /\ Counted /\ Paused /\ Explained

LEMMA StartInvInit == StartInit => StartInv
<1> SUFFICES ASSUME StartInit PROVE StartInv
  OBVIOUS
<1>1. StartTypeOK
  <2>1. procs \in [Installers -> 0..MaxInstalls] /\ installs \in 0..MaxInstalls
    BY StartAssumption DEF StartInit
  <2>2. notice \in Seq(DevStates) /\ Len(notice) =< 1
    BY DEF StartInit
  <2>3. listing \in 0..MaxLists /\ questions \in 0..MaxLists
    BY StartAssumption DEF StartInit
  <2>4. QED BY <2>1, <2>2, <2>3 DEF StartInit, StartTypeOK
<1>2. Counted /\ Paused /\ Explained
  BY StartAssumption DEF StartInit, Counted, Paused, Explained, SkipHeld
<1> QED BY <1>1, <1>2 DEF StartInv

\* The device loop, MainApp and the questions about the application.
LEMMA StartInvDevice ==
  ASSUME StartInv, Alive,
         \/ \E s \in DevStates : LoopPublishes(s)
         \/ OnDeviceState
         \/ \E b \in BOOLEAN : OnListed(b) \/ OnAnswered(b)
         \/ Hide
  PROVE  StartInv'
<1> USE StartAssumption
<1>1. ASSUME NEW s \in DevStates, LoopPublishes(s) PROVE StartInv'
  BY <1>1 DEF LoopPublishes, StartInv, StartTypeOK, Counted, Paused, Explained, SkipHeld,
              installVars, listVars, history
<1>2. CASE OnDeviceState
  BY <1>2 DEF OnDeviceState, EnabledIn, StartInv, StartTypeOK, Counted, Paused, Explained, SkipHeld,
              installVars, history
<1>3. ASSUME NEW b \in BOOLEAN, OnListed(b) PROVE StartInv'
  BY <1>3 DEF OnListed, StartInv, StartTypeOK, Counted, Paused, Explained, SkipHeld,
              installVars, loopVars, history
<1>4. ASSUME NEW b \in BOOLEAN, OnAnswered(b) PROVE StartInv'
  BY <1>4 DEF OnAnswered, Alive, StartInv, StartTypeOK, Counted, Paused, Explained, SkipHeld,
              installVars, loopVars
<1>5. CASE Hide
  <2> USE <1>5 DEF Hide, UiFree, StartInv, installVars, listVars
  <2>1. StartTypeOK'
    <3>1. leftOver' \subseteq {"openApp", "installStarted", "installFinished"}
      OBVIOUS
    <3>2. notice' \in Seq(DevStates) /\ Len(notice') =< 1
      OBVIOUS
    <3>3. QED BY <3>1, <3>2 DEF StartTypeOK
  <2>2. Counted' /\ Paused'
    BY DEF Counted, Paused, SkipHeld
  <2>3. Explained'
    BY DEF Explained, Alive, StartTypeOK
  <2>4. QED BY <2>1, <2>2, <2>3
<1> QED BY <1>1, <1>2, <1>3, <1>4, <1>5

\* The installer windows and their processes.
LEMMA StartInvInstall ==
  ASSUME StartInv, Alive, NEW w \in Installers,
         \/ OnClickedInstall(w) \/ OnInstall(w)
         \/ \E b \in BOOLEAN : OnInstallStarts(w, b) \/ OnProcessFinished(w, b)
  PROVE  StartInv'
<1> USE StartAssumption
<1>1. CASE OnClickedInstall(w)
  <2> USE <1>1 DEF OnClickedInstall, UiFree, StartInv, loopVars, listVars, history
  <2>1. StartTypeOK'
    BY DEF StartTypeOK
  <2>2. Counted' /\ Paused' /\ Explained'
    BY DEF Counted, Paused, Explained, SkipHeld
  <2>3. QED BY <2>1, <2>2
<1>2. CASE OnInstall(w)
  <2> USE <1>2 DEF OnInstall, UiFree, StartInv, listVars
  <2>1. StartTypeOK'
    BY DEF StartTypeOK
  <2>2. Counted'
    BY DEF Counted, StartTypeOK
  <2>3. Paused'
    BY DEF Paused, SkipHeld, StartTypeOK
  <2>4. Explained'
    BY DEF Explained, Alive, StartTypeOK
  <2>5. QED BY <2>1, <2>2, <2>3, <2>4
<1>3. ASSUME NEW b \in BOOLEAN, OnInstallStarts(w, b) PROVE StartInv'
  BY <1>3 DEF OnInstallStarts, Alive, StartInv, StartTypeOK, Counted, Paused, Explained, SkipHeld,
              loopVars, listVars, history
<1>4. ASSUME NEW b \in BOOLEAN, OnProcessFinished(w, b) PROVE StartInv'
  <2> USE <1>4 DEF OnProcessFinished, StartInv, listVars
  <2>1. procs'[w] = procs[w] - 1 /\ \A v \in Installers \ {w} : procs'[v] = procs[v]
    BY DEF StartTypeOK
  <2>2. StartTypeOK'
    <3>1. procs' \in [Installers -> 0..MaxInstalls]
      BY <2>1 DEF StartTypeOK
    <3>2. nullUses' \subseteq {"openApp", "installStarted", "installFinished"}
      BY DEF StartTypeOK
    <3>3. clickable' \subseteq opened
      BY DEF StartTypeOK
    <3>4. QED BY <3>1, <3>2, <3>3 DEF StartTypeOK
  <2>3. Counted'
    <3>1. procs'[w] =< installs
      BY <2>1 DEF Counted, StartTypeOK
    <3>2. \A v \in Installers : procs'[v] =< installs /\ v \notin sleeping
      BY <2>1, <3>1 DEF Counted
    <3>3. QED BY <3>2 DEF Counted
  <2>4. Paused'
    <3>1. ~overlapped => \A v \in Installers : procs'[v] = 0
      <4> SUFFICES ASSUME ~overlapped, NEW v \in Installers PROVE procs'[v] = 0
        OBVIOUS
      <4>1. procs[w] = 1 /\ (v # w => ~(procs[v] > 0))
        BY DEF Paused
      <4>2. procs[v] \in Nat
        BY DEF StartTypeOK
      <4>3. QED BY <2>1, <4>1, <4>2
    <3>2. QED
      BY <3>1 DEF Paused, SkipHeld, StartTypeOK
  <2>5. Explained'
    BY <2>1 DEF Explained, Alive, StartTypeOK
  <2>6. QED BY <2>2, <2>3, <2>4, <2>5
<1> QED BY <1>1, <1>2, <1>3, <1>4

-----------------------------------------------------------------------------
(* The console and its servers. *)

\* Servers that were not made yet, and what flags and threads say of each other.
Placed ==
  /\ \A s \in Servers : s > made => obj[s] = "none" /\ thread[s] = "none" /\ http[s] = "null"
  /\ \A s \in stopped : s =< made
  /\ \A s \in running : thread[s] \in {"context", "serving"}

\* There is one server at a time unless the button was pressed early, and the
\* handler that stops it finds it as onServerClicked left it.
OneServer ==
  /\ ~early => \A s \in Servers \ {server} : thread[s] \in {"none", "finished"} /\ http[s] = "null"
  /\ button = "Run" /\ ui \in {"idle", "closeWindow"} => server = 0
  /\ ui = "closeServer" => server \in running
  /\ ui \in {"idle", "closeWindow", "closeServer", "stopContext"} => server \notin stopped
  /\ ui \in {"stopContext", "join"} =>
       /\ server # 0
       /\ http[server] = "null"
       /\ thread[server] \in {"context", "serving", "events", "finished"}

\* Only the tray's action stops the server of a window that is not shown.
Reachable ==
  /\ NeverStranded
  /\ ui \in {"closeServer", "stopContext", "join"} /\ ~thenClose => window = "shown"

\* The marks are set before what they explain can happen.
Marked ==
  /\ ui \in {"closeServer", "stopContext", "join"} => stops
  /\ app = "deleted" => ui \in {"quit", "quitThread", "quitJoin", "exited"} /\ (server # 0 => upAtQuit)
  /\ app # "deleted" => ~upAtQuit
  /\ window = "none" <=> app = "none"
  /\ window = "none" => ui = "idle" /\ made = 0
  /\ \A s \in Servers :
       /\ obj[s] = "deleted" => stops \/ app = "deleted"
       /\ obj[s] = "deleted" => thread[s] = "finished" \/ upAtQuit
       /\ thread[s] \in {"made", "connected", "context", "serving"} /\ http[s] = "null" =>
            stops \/ upAtQuit

UsesMarked ==
  /\ "signal" \in misuse => stops
  /\ "ownThread" \in misuse => upAtQuit
  /\ "app" \in misuse => upAtQuit \/ early
  /\ crash = "nullServer" => stops \/ upAtQuit

ConsoleInv == ConsoleTypeOK /\ Placed /\ OneServer /\ Reachable /\ Marked /\ UsesMarked

LEMMA ConsoleInvInit == ConsoleInit => ConsoleInv
<1> SUFFICES ASSUME ConsoleInit PROVE ConsoleInv
  OBVIOUS
<1> USE ServersAssumption DEF ConsoleInit, Servers
<1>1. made \in 0..MaxServers /\ server \in 0..made
  OBVIOUS
<1>2. ConsoleTypeOK
  BY <1>1 DEF ConsoleTypeOK
<1>3. Placed /\ OneServer
  BY DEF Placed, OneServer
<1>4. Reachable /\ Marked /\ UsesMarked
  BY DEF Reachable, NeverStranded, Marked, UsesMarked
<1> QED BY <1>2, <1>3, <1>4 DEF ConsoleInv

\* The thread of a server.
LEMMA ConsoleInvServer ==
  ASSUME ConsoleInv, NEW s \in Servers, ServerStep(s)
  PROVE  ConsoleInv'
<1> USE ServersAssumption
    DEF ConsoleInv, ConsoleTypeOK, Placed, OneServer, Reachable, Marked, UsesMarked, NeverStranded,
           Servers, serverVars, windowVars, marks
<1>1. CASE RunMakes(s)
  BY <1>1 DEF RunMakes, Moves, Uses
<1>2. CASE RunConnects(s)
  BY <1>2 DEF RunConnects, Moves, Uses
<1>3. CASE RunFlags(s)
  BY <1>3 DEF RunFlags, Moves, Uses
<1>4. CASE Serve(s)
  BY <1>4 DEF Serve, Uses
<1>5. CASE RunReturns(s)
  BY <1>5 DEF RunReturns, Uses
<1>6. CASE ThreadEnds(s)
  BY <1>6 DEF ThreadEnds, Moves
<1>7. ASSUME NEW free \in BOOLEAN, RunOpens(s, free) PROVE ConsoleInv'
  <2> USE <1>7 DEF RunOpens, Moves, Uses
  <2>1. CASE http[s] = "null"
    BY <2>1
  <2>2. CASE http[s] # "null" /\ UNCHANGED <<thread, http>> /\ crash' = "portTaken"
    BY <2>2
  <2>3. CASE /\ thread' = [thread EXCEPT ![s] = "serving"]
             /\ http' = [http EXCEPT ![s] = "open"]
             /\ UNCHANGED crash
    <3>1. ConsoleTypeOK' /\ Placed'
      BY <2>3
    <3>2. OneServer' /\ Reachable'
      BY <2>3
    <3>3. Marked' /\ UsesMarked'
      BY <2>3
    <3> QED BY <3>1, <3>2, <3>3
  <2> QED BY <2>1, <2>2, <2>3
<1> QED BY <1>1, <1>2, <1>3, <1>4, <1>5, <1>6, <1>7 DEF ServerStep

\* The UI thread in a handler of several steps.
LEMMA ConsoleInvUi ==
  ASSUME ConsoleInv, UiStep \/ Close
  PROVE  ConsoleInv'
<1> USE ServersAssumption
    DEF ConsoleInv, ConsoleTypeOK, Placed, OneServer, Reachable, Marked, UsesMarked, NeverStranded,
           Servers, serverVars, windowVars, marks
<1>1. CASE StopCloses
  BY <1>1 DEF StopCloses
<1>2. CASE StopStopsContext
  BY <1>2 DEF StopStopsContext
<1>3. CASE Joined
  BY <1>3 DEF Joined
<1>4. CASE QuitDeletesApp
  <2> USE <1>4 DEF QuitDeletesApp
  <2>1. ConsoleTypeOK' /\ Placed' /\ OneServer' /\ Reachable'
    OBVIOUS
  <2>2. Marked' /\ UsesMarked'
    OBVIOUS
  <2> QED BY <2>1, <2>2
<1>5. CASE QuitDeletesServer
  BY <1>5 DEF QuitDeletesServer
<1>6. CASE QuitThread
  BY <1>6 DEF QuitThread
<1>7. CASE Exit
  BY <1>7 DEF Exit
<1>8. CASE Close
  BY <1>8 DEF Close, UiIdle
<1> QED BY <1>1, <1>2, <1>3, <1>4, <1>5, <1>6, <1>7, <1>8 DEF UiStep

\* onServerClicked, from the shown window or from the tray.
LEMMA ConsoleInvClick ==
  ASSUME ConsoleInv, UiIdle,
         \/ window = "shown" /\ thenClose' = FALSE
         \/ tray /\ thenClose' = TRUE,
         ClickStops \/ ClickStarts,
         UNCHANGED <<closeTray, window, app, upAtQuit, misuse, crash>>
  PROVE  ConsoleInv'
<1> USE ServersAssumption
    DEF ConsoleInv, ConsoleTypeOK, Placed, OneServer, Reachable, Marked, UsesMarked, NeverStranded,
           Servers, serverVars, windowVars, marks
<1>1. CASE ClickStops
  BY <1>1 DEF ClickStops, UiIdle
<1>2. CASE ClickStarts
  <2> USE <1>2 DEF ClickStarts, UiIdle
  <2>1. made + 1 \in Servers /\ made' \in 0..MaxServers /\ server' \in 0..made'
    OBVIOUS
  <2>2. /\ \A t \in Servers \ {made + 1} : thread'[t] = thread[t] /\ obj'[t] = obj[t]
        /\ thread'[made + 1] = "born" /\ obj'[made + 1] = "live"
    BY <2>1
  <2>3. ConsoleTypeOK'
    BY <2>1
  <2>4. Placed'
    BY <2>1, <2>2
  <2>5. OneServer'
    <3>1. made + 1 \notin stopped /\ server' # 0 /\ ui' \in {"idle", "closeWindow"}
      BY <2>1
    <3>2. ~early' => server = 0
      OBVIOUS
    <3>3. ~early' => \A t \in Servers \ {server'} :
                       thread'[t] \in {"none", "finished"} /\ http'[t] = "null"
      BY <2>2, <3>2
    <3> QED BY <3>1, <3>3
  <2>6. Reachable'
    OBVIOUS
  <2>7. Marked' /\ UsesMarked'
    <3>1. app = "live" /\ window # "none" /\ UNCHANGED <<app, window, stops, upAtQuit, misuse, crash, http>>
      OBVIOUS
    <3>2. \A t \in Servers \ {made + 1} :
            /\ obj'[t] = "deleted" => stops'
            /\ obj'[t] = "deleted" => thread'[t] = "finished" \/ upAtQuit'
            /\ thread'[t] \in {"made", "connected", "context", "serving"} /\ http'[t] = "null" =>
                 stops' \/ upAtQuit'
      BY <2>2, <3>1
    <3>3. Marked'
      BY <2>1, <2>2, <3>1, <3>2
    <3>4. UsesMarked'
      BY <3>1
    <3> QED BY <3>3, <3>4
  <2> QED BY <2>3, <2>4, <2>5, <2>6, <2>7
<1> QED BY <1>1, <1>2

\* What the user and the device do.
LEMMA ConsoleInvUser ==
  ASSUME ConsoleInv, UserStep \/ MakeConsole
  PROVE  ConsoleInv'
<1> USE ServersAssumption
    DEF ConsoleInv, ConsoleTypeOK, Placed, OneServer, Reachable, Marked, UsesMarked, NeverStranded,
           Servers, serverVars, windowVars, marks
<1>1. CASE Click
  BY <1>1, ConsoleInvClick DEF Click
<1>2. CASE TrayStopsAndCloses
  BY <1>2, ConsoleInvClick DEF TrayStopsAndCloses
<1>3. CASE SaveSettings
  BY <1>3 DEF SaveSettings, UiIdle
<1>4. CASE DeviceState
  BY <1>4 DEF DeviceState, Uses, UiIdle
<1>5. ASSUME NEW b \in BOOLEAN, TrayShows(b) PROVE ConsoleInv'
  BY <1>5 DEF TrayShows, UiIdle
<1>6. CASE MakeConsole
  BY <1>6 DEF MakeConsole
<1> QED BY <1>1, <1>2, <1>3, <1>4, <1>5, <1>6, ConsoleInvUi DEF UserStep

-----------------------------------------------------------------------------
(* Both of them. *)

IInv == StartInv /\ ConsoleInv

\* Each side leaves the other's variables alone; OnOpenedConsole moves both.
LEMMA IInvStep == IInv /\ [Next]_vars => IInv'
<1> SUFFICES ASSUME IInv, [Next]_vars PROVE IInv'
  OBVIOUS
<1>1. UNCHANGED startVars => StartInv'
  BY DEF IInv, StartInv, StartTypeOK, Counted, Paused, Explained, SkipHeld, startVars
<1>2. UNCHANGED consoleVars => ConsoleInv'
  BY DEF IInv, ConsoleInv, ConsoleTypeOK, Placed, OneServer, Reachable, Marked, UsesMarked,
         NeverStranded, consoleVars, serverVars, windowVars, marks
<1>3. CASE Alive /\ OnOpenedConsole
  BY <1>3, StartInvDevice, ConsoleInvUser DEF OnOpenedConsole, OpenConsole, IInv
<1>4. CASE Alive /\ StartStep /\ UNCHANGED consoleVars
  BY <1>2, <1>4, StartInvDevice, StartInvInstall DEF StartStep, IInv
<1>5. CASE (UserStep \/ UiStep \/ \E s \in Servers : ServerStep(s)) /\ UNCHANGED startVars
  BY <1>1, <1>5, ConsoleInvUser, ConsoleInvUi, ConsoleInvServer DEF IInv
<1>6. CASE UNCHANGED vars
  BY <1>1, <1>2, <1>6 DEF vars, IInv
<1> QED BY <1>3, <1>4, <1>5, <1>6 DEF Next

LEMMA Invariance == Spec => []IInv
<1>1. Init => IInv
  BY StartInvInit, ConsoleInvInit DEF Init, IInv
<1>2. QED
  BY <1>1, IInvStep, PTL DEF Spec

\* Every variable of the windows keeps its type, whatever the bounds are.
THEOREM TypeCorrect == Spec => []TypeOK
<1>1. IInv => TypeOK
  BY DEF IInv, StartInv, ConsoleInv, TypeOK
<1>2. QED
  BY <1>1, Invariance, PTL

\* The device loop stays paused while an installer runs, for any number of
\* installer windows and installations (InstallAppWindow, MainWindow).
THEOREM InstallerHasDevice == Spec => []SkipHeld
<1>1. IInv => SkipHeld
  BY DEF IInv, StartInv, Paused
<1>2. QED
  BY <1>1, Invariance, PTL

\* "Run" on the button means that nothing of an earlier server runs or listens,
\* for any number of servers started and stopped (ConsoleWindow::onServerClicked).
THEOREM RunMeansStopped == Spec => []StoppedMeansStopped
<1>1. IInv => StoppedMeansStopped
  BY DEF IInv, ConsoleInv, ConsoleTypeOK, OneServer, StoppedMeansStopped, Servers
<1>2. QED
  BY <1>1, Invariance, PTL

\* A hidden console has its tray icon (ConsoleWindow::closeEvent, onServerClicked).
THEOREM HiddenHasTray == Spec => []NeverStranded
<1>1. IInv => NeverStranded
  BY DEF IInv, ConsoleInv, Reachable
<1>2. QED
  BY <1>1, Invariance, PTL

\* Nothing deleted is used, and no call goes through a null pointer, but in the
\* cases UsesExplained names, for any number of windows, processes and servers.
THEOREM OnlyExplainedUses == Spec => []UsesExplained
<1>1. IInv => UsesExplained
  BY DEF IInv, StartInv, Explained, ConsoleInv, UsesMarked, UsesExplained
<1>2. QED
  BY <1>1, Invariance, PTL
==============================================================================
