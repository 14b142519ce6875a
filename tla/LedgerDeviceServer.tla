------------------------- MODULE LedgerDeviceServer --------------------------
(***************************************************************************)
(* The device loop: LedgerDeviceServer::run on its own QThread, the flags  *)
(* of BaseDeviceServer that other threads set, and the queued              *)
(* deviceStateChanged signal through the DeviceServer wrapper to the       *)
(* thread of the listener (the UI thread).                                 *)
(*                                                                         *)
(* One turn of the loop is cut where another thread can be seen: the two   *)
(* reads of isRunning(), the reads of the device, the assignment of        *)
(* lastState and the emission are separate steps.  The listener is the     *)
(* most general one: it may set any flag, or stop the server, at any time. *)
(***************************************************************************)
EXTENDS Naturals, Sequences

CONSTANTS
  Apps,       \* applications of the Ledger, each known by its USB pid
  Minter,     \* the Minter application
  Unusable,   \* how the device may be out of reach: "absent", "denied" (no USB
              \* permission)
  Mismatch,   \* what the wallet library may answer when it is asked for an
              \* application that is not the one running (external, any answer)
  MaxEvents   \* bound on undelivered notifications: the loop starts no turn
              \* beyond it (in the code it sleeps a second per turn)

\* minter::dev_connection_type, the values of state_string_map.
DevState == {"DISCONNECTED", "APP_NOT_OPENED", "PERMISSION_ERROR", "APP_OPENED"}

NoApp == "no app"   \* pid 0: nothing running that has a pid of its own
NoKey == "no key"   \* KEY_MINTER_PID is not in the settings
NoState == "none"   \* run()'s local `state` out of its scope

Device == Unusable \union {"dashboard"} \union Apps
Pid == Apps \union {NoApp}

ASSUME UnusableAssumption == Unusable \subseteq {"absent", "denied"}
ASSUME AppsAssumption ==
  /\ Minter \in Apps
  /\ Apps \intersect (Unusable \union {"dashboard", NoApp, NoKey}) = {}
ASSUME MismatchAssumption == Mismatch \subseteq DevState /\ Mismatch # {}
ASSUME MaxEventsAssumption == MaxEvents \in Nat \ {0}

VARIABLES
  device,         \* what is plugged in and what runs on it (external)
  walletOpen,     \* m_wallet may hold the HID handle
  savedPid,       \* Settings: KEY_MINTER_PID
  running, skipConnectionCheck, infiniteEmitting,  \* atomics of BaseDeviceServer
  lastState,      \* BaseDeviceServer::lastState
  pc,             \* where run() is
  appPid, state,  \* run()'s locals
  events,         \* deviceStateChanged signals queued for the listener's thread
  shown           \* the last state the listener's slot was called with

flags == <<running, skipConnectionCheck, infiniteEmitting>>
loopVars == <<lastState, pc, appPid, state>>
vars == <<device, walletOpen, savedPid, flags, loopVars, events, shown>>

Init ==
  /\ device \in Device
  /\ walletOpen = FALSE
  /\ savedPid \in {NoKey, Minter}
  /\ running = TRUE
  /\ skipConnectionCheck = FALSE
  /\ infiniteEmitting = TRUE
  /\ lastState = "DISCONNECTED"
  /\ pc = "idle"
  /\ appPid = NoApp
  /\ state = NoState
  /\ events = <<>>
  /\ shown = "DISCONNECTED"

-----------------------------------------------------------------------------
(* The wallet library, as run() uses it. *)

\* get_opened_app_pid()
OpenedAppPid == IF device \in Apps THEN device ELSE NoApp

\* The answers of init_ext_root(): the Ledger is there, no application asked for.
OpenRoot ==
  CASE device = "absent" -> {"DISCONNECTED"}
    [] device = "denied" -> {"PERMISSION_ERROR"}
    [] OTHER -> {"APP_NOT_OPENED"}

\* The answers of init_ext(pid) and reopen_with_app(pid).
OpenApp(pid) ==
  CASE device = "absent" -> {"DISCONNECTED"}
    [] device = "denied" -> {"PERMISSION_ERROR"}
    [] device \notin Unusable /\ device = pid -> {"APP_OPENED"}
    [] OTHER -> Mismatch

-----------------------------------------------------------------------------
(* Plausible slips: each replaces the definition named after it, to see a     *)
(* property fail.                                                             *)

\* ReadAppPid: a branch that leaves `state` unassigned when no app is running.
ReadAppPidUnassigned ==
  /\ pc = "turn"
  /\ ~skipConnectionCheck
  /\ appPid' = OpenedAppPid
  /\ pc' = IF appPid' = NoApp THEN "compare" ELSE "open"
  /\ UNCHANGED <<device, walletOpen, savedPid, flags, lastState, state, events, shown>>

\* MustTell: every turn tells, whatever the flag says.
MustTellAlways == TRUE

\* MustTell: the flag is not looked at.
MustTellChanges == state # lastState

\* Signalled: an event already waiting swallows the new one.
SignalledIfIdle(s) == IF events = <<>> THEN <<s>> ELSE events

\* SkipTurn: spins on isSkipCheck() without looking at isRunning().
SkipTurnSpins ==
  /\ pc = "turn"
  /\ skipConnectionCheck
  /\ walletOpen' = FALSE
  /\ UNCHANGED <<device, savedPid, flags, loopVars, events, shown>>

\* SkipTurn: does not close the wallet.
SkipTurnKeepsWallet ==
  /\ pc = "turn"
  /\ skipConnectionCheck
  /\ pc' = "pause"
  /\ UNCHANGED <<device, walletOpen, savedPid, flags, lastState, appPid, state, events, shown>>

-----------------------------------------------------------------------------
(* The device thread. *)

\* devThread.start(): run() is called on the new thread.
Start ==
  /\ pc = "idle"
  /\ pc' = "test"
  /\ UNCHANGED <<device, walletOpen, savedPid, flags, lastState, appPid, state, events, shown>>

\* while (isRunning()): leave the loop, or begin a turn.
TestRunning ==
  /\ pc = "test"
  /\ \/ /\ running
        /\ Len(events) < MaxEvents
        /\ pc' = "turn"
     \/ /\ ~running
        /\ pc' = "done"
  /\ UNCHANGED <<device, walletOpen, savedPid, flags, lastState, appPid, state, events, shown>>

\* isSkipCheck() and the wallet is released for whoever asked for it.
SkipTurn ==
  /\ pc = "turn"
  /\ skipConnectionCheck
  /\ walletOpen' = FALSE
  /\ pc' = "pause"
  /\ UNCHANGED <<device, savedPid, flags, lastState, appPid, state, events, shown>>

\* !isSkipCheck(): the first look at the device.
ReadAppPid ==
  /\ pc = "turn"
  /\ ~skipConnectionCheck
  /\ appPid' = OpenedAppPid
  /\ pc' = "open"
  /\ UNCHANGED <<device, walletOpen, savedPid, flags, lastState, state, events, shown>>

\* The second look, at a device that may have changed meanwhile: open the root
\* HID when no application was running, else ask for the saved pid, which
\* getUint16 reads as 0 when there is none.
OpenDevice ==
  /\ pc = "open"
  /\ state' \in IF appPid = NoApp THEN OpenRoot
                ELSE OpenApp(IF savedPid = NoKey THEN NoApp ELSE savedPid)
  /\ walletOpen' = TRUE
  /\ appPid' = NoApp
  /\ pc' = "compare"
  /\ UNCHANGED <<device, savedPid, flags, lastState, events, shown>>

\* state != getState() || isInfiniteEmitting()
MustTell == state # lastState \/ infiniteEmitting

\* The branch on it: setState(state).
CompareState ==
  /\ pc = "compare"
  /\ \/ /\ MustTell
        /\ lastState' = state
        /\ pc' = "emit"
     \/ /\ ~MustTell
        /\ pc' = "pause"
        /\ UNCHANGED lastState
  /\ state' = NoState
  /\ UNCHANGED <<device, walletOpen, savedPid, flags, appPid, events, shown>>

\* A signal to an object of another thread is queued for that thread.
Signalled(s) == Append(events, s)

\* emit deviceStateChanged(getState())
EmitState ==
  /\ pc = "emit"
  /\ events' = Signalled(lastState)
  /\ pc' = "pause"
  /\ UNCHANGED <<device, walletOpen, savedPid, flags, lastState, appPid, state, shown>>

\* Sleep and go round, or break out; after the loop, emit finished().
Pause ==
  /\ pc = "pause"
  /\ pc' = IF running THEN "test" ELSE "done"
  /\ UNCHANGED <<device, walletOpen, savedPid, flags, lastState, appPid, state, events, shown>>

Loop ==
  TestRunning \/ SkipTurn \/ ReadAppPid \/ OpenDevice \/ CompareState \/ EmitState \/ Pause

-----------------------------------------------------------------------------
(* The listener's thread and the other users of the server. *)

\* The event loop calls the slot connected to deviceStateChanged.
Deliver ==
  /\ events # <<>>
  /\ shown' = Head(events)
  /\ events' = Tail(events)
  /\ UNCHANGED <<device, walletOpen, savedPid, flags, loopVars>>

SetInfiniteEmitting(on) ==
  /\ infiniteEmitting' = on
  /\ UNCHANGED <<device, walletOpen, savedPid, running, skipConnectionCheck, loopVars, events, shown>>

SetSkipCheck(skip) ==
  /\ skipConnectionCheck' = skip
  /\ UNCHANGED <<device, walletOpen, savedPid, running, infiniteEmitting, loopVars, events, shown>>

Stop ==
  /\ running' = FALSE
  /\ UNCHANGED <<device, walletOpen, savedPid, skipConnectionCheck, infiniteEmitting, loopVars, events, shown>>

\* getAddress and openMinterApp save a pid; MainWindow removes it when it finds
\* the Minter application is not installed.
SetSavedPid(pid) ==
  /\ savedPid' = pid
  /\ UNCHANGED <<device, walletOpen, flags, loopVars, events, shown>>

\* The user plugs, unplugs, opens or leaves an application.
DeviceChanges ==
  /\ device' \in Device
  /\ UNCHANGED <<walletOpen, savedPid, flags, loopVars, events, shown>>

Listener ==
  \/ Deliver
  \/ \E on \in BOOLEAN : SetInfiniteEmitting(on)
  \/ \E skip \in BOOLEAN : SetSkipCheck(skip)
  \/ Stop
  \/ DeviceChanges

Next ==
  \/ Start
  \/ Loop
  \/ Listener
  \/ \E pid \in Pid \union {NoKey} : SetSavedPid(pid)

SafeSpec == Init /\ [][Next]_vars

\* run() never waits for another thread and the listener's event loop runs.
Spec == SafeSpec /\ WF_vars(Loop) /\ WF_vars(Deliver)

-----------------------------------------------------------------------------
(* Properties. *)

\* Every variable keeps its type, and run()'s locals are in scope only where
\* the code has them.
TypeOK ==
  /\ device \in Device
  /\ walletOpen \in BOOLEAN
  /\ savedPid \in Pid \union {NoKey}
  /\ running \in BOOLEAN
  /\ skipConnectionCheck \in BOOLEAN
  /\ infiniteEmitting \in BOOLEAN
  /\ lastState \in DevState
  /\ pc \in {"idle", "test", "turn", "open", "compare", "emit", "pause", "done"}
  /\ appPid \in Pid
  /\ state \in DevState \union {NoState}
  /\ pc = "compare" => state \in DevState
  /\ events \in Seq(DevState)
  /\ shown \in DevState

\* The server promises what a state notifier does.  Between setState and emit
\* the notification counts as queued.
queued == IF pc = "emit" THEN Append(events, lastState) ELSE events

Notifier == INSTANCE StateNotifier WITH
  published <- lastState, inbox <- queued, seen <- shown

\* run() implements the notifier, with its fairness: every change of lastState
\* is one notification, none is sent without a change unless infinite emission
\* was on when the state was compared, and the listener receives all of them.
ImplementsNotifier == Notifier!Spec

\* A listener that has handled every event holds the state getState() answers,
\* unless the loop stands between setState and emit: a client that polls
\* getState() and one that listens to the signal can then not disagree for good.
ListenerNotMisled ==
  pc # "emit" => Notifier!LastKnown(shown, events) = lastState

\* After stop() the loop ends, so the destructors of ConsoleApp and MainApp,
\* which stop the server and wait for its thread, do not wait for ever.
StopEndsLoop == (pc # "idle" /\ ~running) ~> (pc = "done")

\* Switching infinite emission on is how the console, and the main window after
\* an installation, ask to be told the state again even if it did not change:
\* while it stays on the listener is called again and again.
InfiniteEmittingRepeats ==
  <>[](pc # "idle" /\ running /\ infiniteEmitting /\ ~skipConnectionCheck)
    => []<><<Deliver>>_vars

\* The installer asks for the device with setSkipCheck(true) and starts an
\* external process: if nobody takes the request back or stops the server, the
\* loop closes the wallet and does not open it again.
SkipReleasesDevice ==
  <>[](pc # "idle" /\ running /\ skipConnectionCheck) => <>[]~walletOpen
==============================================================================
