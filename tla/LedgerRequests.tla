--------------------------- MODULE LedgerRequests ----------------------------
(***************************************************************************)
(* The device loop together with the requests made of the same server from *)
(* other threads: LedgerDeviceServer::getAddress on the rx io thread and   *)
(* openMinterApp on another one.  They share the device, lastState and the *)
(* saved pid of the Minter application with run().                         *)
(***************************************************************************)
EXTENDS LedgerDeviceServer

CONSTANT Requests  \* the getAddress observables that are subscribed to

VARIABLES
  req,    \* each request: where its function is, its tries, what its observer got
  opener  \* openMinterApp: where it is

reqVars == <<req, opener>>
allVars == <<vars, reqVars>>

max_tries == 3

\* "new", before the subscription; "query", at get_address; "cache" and "save",
\* at the saved pid; "again", at the condition of the loop; "ended".
ReqPC == {"new", "query", "cache", "save", "again", "ended"}
Verdict == {"none", "address", "error"}

ReqInit ==
  /\ Init
  /\ req = [r \in Requests |-> [pc |-> "new", tries |-> 0, seen |-> "none"]]
  /\ opener = "idle"

\* A plausible slip for Observe: a source without the rx contract, where the last
\* event wins.
ObserveLast(r, event) == event

\* An rxcpp subscriber ignores what is emitted after on_completed or on_error
\* (external).
Observe(r, event) == IF req[r].seen = "none" THEN event ELSE req[r].seen

\* The request moves to p, having made t tries, its observer having got v.
Move(r, p, t, v) == req' = [req EXCEPT ![r] = [pc |-> p, tries |-> t, seen |-> v]]

-----------------------------------------------------------------------------
(* Plausible slips: each replaces the definition named after it. *)

\* QueryAnswered: a garbled answer is not counted as a try.
QueryAnsweredUncounted(r) ==
  /\ req[r].pc = "query"
  /\ \/ device = Minter /\ Move(r, "cache", req[r].tries + 1, req[r].seen)
     \/ device \in Apps /\ Move(r, "again", req[r].tries, req[r].seen)
  /\ UNCHANGED <<vars, opener>>

\* LoopAgain: the condition is turned round.
LoopAgainClosed(r) == lastState # "APP_OPENED" /\ req[r].tries < max_tries

\* LoopAgain: the tries are not part of the condition.
LoopAgainForever(r) == lastState = "APP_OPENED"

\* GiveUp: off by one.
GiveUpLate(r) == req[r].tries > max_tries

-----------------------------------------------------------------------------
(* getAddress. *)

Subscribe(r) ==
  /\ req[r].pc = "new"
  /\ Move(r, "query", 0, req[r].seen)
  /\ UNCHANGED <<vars, opener>>

\* tries++ and m_wallet.get_address: only the Minter application answers with an
\* address; the answer may be an inconsistent buffer (std::out_of_range).
QueryAnswered(r) ==
  /\ req[r].pc = "query"
  /\ \/ device = Minter /\ Move(r, "cache", req[r].tries + 1, req[r].seen)
     \/ device \in Apps /\ Move(r, "again", req[r].tries + 1, req[r].seen)
  /\ UNCHANGED <<vars, opener>>

\* Any other exception goes to the observer and ends the function.
QueryFails(r) ==
  /\ req[r].pc = "query"
  /\ Move(r, "ended", req[r].tries + 1, Observe(r, "error"))
  /\ UNCHANGED <<vars, opener>>

\* Settings::has(KEY_MINTER_PID); with the key there, on_next and on_completed.
CachePid(r) ==
  /\ req[r].pc = "cache"
  /\ \/ savedPid = NoKey /\ Move(r, "save", req[r].tries, req[r].seen)
     \/ savedPid # NoKey /\ Move(r, "again", req[r].tries, Observe(r, "address"))
  /\ UNCHANGED <<vars, opener>>

\* get_opened_app_pid, asked after the address was, is saved; then on_next and
\* on_completed.
SavePid(r) ==
  /\ req[r].pc = "save"
  /\ SetSavedPid(OpenedAppPid)
  /\ Move(r, "again", req[r].tries, Observe(r, "address"))
  /\ UNCHANGED opener

\* while (getState() == APP_OPENED && tries < max_tries), whether or not an
\* address was delivered.
LoopAgain(r) == lastState = "APP_OPENED" /\ req[r].tries < max_tries

\* if (tries == max_tries) on_error
GiveUp(r) == req[r].tries = max_tries

Again(r) ==
  /\ req[r].pc = "again"
  /\ \/ /\ LoopAgain(r)
        /\ Move(r, "query", req[r].tries, req[r].seen)
     \/ /\ ~LoopAgain(r)
        /\ Move(r, "ended", req[r].tries,
                IF GiveUp(r) THEN Observe(r, "error") ELSE req[r].seen)
  /\ UNCHANGED <<vars, opener>>

Request(r) ==
  QueryAnswered(r) \/ QueryFails(r) \/ CachePid(r) \/ SavePid(r) \/ Again(r)

-----------------------------------------------------------------------------
(* openMinterApp and its caller. *)

\* m_wallet.run_app("Minter"): the user accepts and the application runs.
RunMinterApp ==
  /\ opener = "idle"
  /\ device = "dashboard"
  /\ device' = Minter
  /\ opener' = "save"
  /\ UNCHANGED <<walletOpen, savedPid, flags, loopVars, events, shown, req>>

\* Settings::set(KEY_MINTER_PID, appPid), when run_app returned a pid.
SaveMinterPid ==
  /\ opener = "save"
  /\ opener' = "idle"
  /\ \/ SetSavedPid(Minter)
     \/ UNCHANGED vars
  /\ UNCHANGED req

\* MainWindow::onAppNotOpened finds the application is not installed.
RemovePid ==
  /\ device = "dashboard"
  /\ SetSavedPid(NoKey)
  /\ UNCHANGED reqVars

ReqNext ==
  \/ (Start \/ Loop \/ Listener) /\ UNCHANGED reqVars
  \/ \E r \in Requests : Subscribe(r) \/ Request(r)
  \/ RunMinterApp
  \/ SaveMinterPid
  \/ RemovePid

ReqSafeSpec == ReqInit /\ [][ReqNext]_allVars

\* Fairness of the loop and of the listener as before; a wallet call returns,
\* so the io thread that runs a request goes on.
ReqSpec ==
  /\ ReqSafeSpec
  /\ WF_allVars(Loop /\ UNCHANGED reqVars)
  /\ WF_allVars(Deliver /\ UNCHANGED reqVars)
  /\ \A r \in Requests : WF_allVars(Request(r))

-----------------------------------------------------------------------------
(* Properties. *)

\* Every variable keeps its type; no request asks the device a fourth time, and
\* a request that has caught an address still counts it as a try.
ReqTypeOK ==
  /\ TypeOK
  /\ req \in [Requests -> [pc : ReqPC, tries : 0..max_tries, seen : Verdict]]
  /\ \A r \in Requests :
       /\ req[r].pc = "query" => req[r].tries < max_tries
       /\ req[r].pc \in {"cache", "save", "again"} => req[r].tries > 0
  /\ opener \in {"idle", "save"}

\* Seen from the loop, the requests only set the saved pid and the users only
\* change the device: whatever holds of the loop alone holds beside them.
ImplementsLoop == SafeSpec

\* The function calls on_next and on_completed, goes on, and may call on_error
\* on its third try: an observer that was given the address is not given an
\* error afterwards, nor the other way round.
VerdictStands ==
  [][\A r \in Requests : req[r].seen # "none" => req'[r].seen = req[r].seen]_allVars

\* A request may end without a word to its observer.  That happens only when
\* the loop had seen the application closed, before the third try.
SilentOnlyWhenClosed ==
  [][\A r \in Requests :
       (req[r].pc # "ended" /\ req'[r].pc = "ended" /\ req'[r].seen = "none")
         => lastState # "APP_OPENED" /\ req'[r].tries < max_tries]_allVars

\* Every request ends, however the device misbehaves: the retries are bounded
\* even while the loop sees the application opened.
RequestEnds ==
  \A r \in Requests : (req[r].pc = "query") ~> (req[r].pc = "ended")

\* A request under way while the application is seen opened gets an answer, an
\* address or an error, unless the loop sees the application closed first.
AnsweredWhileOpened ==
  \A r \in Requests :
    (req[r].pc \notin {"new", "ended"} /\ lastState = "APP_OPENED")
      ~> (req[r].seen # "none" \/ lastState # "APP_OPENED")

\* "cache app pid only if it's really minter app": the saved pid is that of the
\* Minter application.
SavedPidIsMinter == savedPid \in {NoKey, Minter}
==============================================================================
