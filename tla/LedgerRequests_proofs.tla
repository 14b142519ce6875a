------------------------ MODULE LedgerRequests_proofs ------------------------
(***************************************************************************)
(* Proofs about the requests made of the device server beside its loop,    *)
(* for any number of requests and any applications on the device.          *)
(***************************************************************************)
EXTENDS LedgerRequests, LedgerDeviceServer_proofs, TLAPS

-----------------------------------------------------------------------------
(* The loop beside the requests is the loop alone. *)

\* Each step of the composition is a step of the loop and its users or leaves
\* all their variables unchanged.
LEMMA LoopStep == [ReqNext]_allVars => [Next]_vars
<1> SUFFICES ASSUME [ReqNext]_allVars PROVE Next \/ UNCHANGED vars
  OBVIOUS
<1> USE DEF vars, flags, loopVars
<1>1. CASE (Start \/ Loop \/ Listener) /\ UNCHANGED reqVars
  BY <1>1 DEF Next
<1>2. ASSUME NEW r \in Requests, Subscribe(r) \/ Request(r)
      PROVE  Next \/ UNCHANGED vars
  <2>1. CASE SavePid(r)
    <3>1. OpenedAppPid \in Pid \union {NoKey}
      BY DEF OpenedAppPid, Pid
    <3>2. QED
      BY <2>1, <3>1 DEF SavePid, Next
  <2>2. CASE ~SavePid(r)
    BY <1>2, <2>2 DEF Subscribe, Request, QueryAnswered, QueryFails, CachePid, Again
  <2>3. QED
    BY <2>1, <2>2
<1>3. CASE RunMinterApp
  <2>1. Minter \in Device
    BY AppsAssumption DEF Device
  <2>2. DeviceChanges
    BY <1>3, <2>1 DEF RunMinterApp, DeviceChanges
  <2>3. QED
    BY <2>2 DEF Next, Listener
<1>4. CASE SaveMinterPid
  <2>1. Minter \in Pid \union {NoKey}
    BY AppsAssumption DEF Pid
  <2>2. QED
    BY <1>4, <2>1 DEF SaveMinterPid, Next
<1>5. CASE RemovePid
  <2>1. SetSavedPid(NoKey)
    BY <1>5 DEF RemovePid
  <2>2. QED
    BY <2>1 DEF Next
<1>6. CASE UNCHANGED allVars
  BY <1>6 DEF allVars
<1>7. QED
  BY <1>1, <1>2, <1>3, <1>4, <1>5, <1>6 DEF ReqNext

\* The device loop with its requests is a device loop: what is proved of the
\* loop for any user of it holds beside getAddress and openMinterApp.
THEOREM RequestsKeepLoop == ReqSpec => SafeSpec
<1>1. ReqInit => Init
  BY DEF ReqInit
<1>2. QED
  BY <1>1, LoopStep, PTL DEF ReqSpec, ReqSafeSpec, SafeSpec

-----------------------------------------------------------------------------
(* The requests. *)

ReqOK ==
  /\ req \in [Requests -> [pc : ReqPC, tries : 0..max_tries, seen : Verdict]]
  /\ \A r \in Requests :
       /\ req[r].pc = "query" => req[r].tries < max_tries
       /\ req[r].pc \in {"cache", "save", "again"} => req[r].tries > 0

\* What a step may do to the requests: nothing, or to one of them what one of
\* its steps does.
LEMMA OneRequestMoves ==
  [ReqNext]_allVars =>
    \/ UNCHANGED req
    \/ \E r \in Requests : Subscribe(r) \/ Request(r)
  BY DEF ReqNext, allVars, reqVars, RunMinterApp, SaveMinterPid, RemovePid

\* What every step of request r does, given that its record is well formed.
WellMoved(r) ==
  \E p \in ReqPC \ {"new"}, t \in 0..max_tries, v \in Verdict :
    /\ Move(r, p, t, v)
    /\ p = "query" => t < max_tries
    /\ p \in {"cache", "save", "again"} => t > 0
    /\ req[r].seen # "none" => v = req[r].seen
    /\ p = "ended" /\ v = "none" => lastState # "APP_OPENED" /\ t < max_tries

\* Each step of a request, from a well formed record, is one of those.
LEMMA RequestMoves ==
  ASSUME ReqOK, NEW r \in Requests, Subscribe(r) \/ Request(r)
  PROVE  WellMoved(r)
<1>1. /\ req[r].tries \in 0..max_tries /\ req[r].seen \in Verdict
      /\ req[r].pc = "query" => req[r].tries < max_tries
      /\ req[r].pc \in {"cache", "save", "again"} => req[r].tries > 0
  BY DEF ReqOK
<1>2. \A v \in {"address", "error"} :
        Observe(r, v) \in Verdict \ {"none"}
        /\ (req[r].seen # "none" => Observe(r, v) = req[r].seen)
  BY <1>1 DEF Observe, Verdict
<1>3. CASE Subscribe(r)
  <2>1. Move(r, "query", 0, req[r].seen)
    BY <1>3 DEF Subscribe
  <2>2. QED
    BY <1>1, <2>1 DEF WellMoved, ReqPC, max_tries
<1>4. CASE QueryAnswered(r)
  <2>1. \/ Move(r, "cache", req[r].tries + 1, req[r].seen)
        \/ Move(r, "again", req[r].tries + 1, req[r].seen)
    BY <1>4 DEF QueryAnswered
  <2>2. req[r].tries + 1 \in 0..max_tries /\ req[r].tries + 1 > 0
    BY <1>1, <1>4 DEF QueryAnswered, max_tries
  <2>3. QED
    BY <1>1, <2>1, <2>2 DEF WellMoved, ReqPC
<1>5. CASE QueryFails(r)
  <2>1. Move(r, "ended", req[r].tries + 1, Observe(r, "error"))
    BY <1>5 DEF QueryFails
  <2>2. req[r].tries + 1 \in 0..max_tries
    BY <1>1, <1>5 DEF QueryFails, max_tries
  <2>3. QED
    BY <1>2, <2>1, <2>2 DEF WellMoved, ReqPC
<1>6. CASE CachePid(r)
  <2>1. \/ Move(r, "save", req[r].tries, req[r].seen)
        \/ Move(r, "again", req[r].tries, Observe(r, "address"))
    BY <1>6 DEF CachePid
  <2>2. req[r].tries > 0
    BY <1>1, <1>6 DEF CachePid
  <2>3. QED
    BY <1>1, <1>2, <2>1, <2>2 DEF WellMoved, ReqPC
<1>7. CASE SavePid(r)
  <2>1. Move(r, "again", req[r].tries, Observe(r, "address"))
    BY <1>7 DEF SavePid
  <2>2. req[r].tries > 0
    BY <1>1, <1>7 DEF SavePid
  <2>3. QED
    BY <1>1, <1>2, <2>1, <2>2 DEF WellMoved, ReqPC
<1>8. CASE Again(r)
  <2>1. CASE LoopAgain(r)
    <3>1. Move(r, "query", req[r].tries, req[r].seen)
      BY <1>8, <2>1 DEF Again
    <3>2. QED
      BY <1>1, <2>1, <3>1 DEF LoopAgain, WellMoved, ReqPC
  <2>2. CASE ~LoopAgain(r) /\ GiveUp(r)
    <3>1. Move(r, "ended", req[r].tries, Observe(r, "error"))
      BY <1>8, <2>2 DEF Again
    <3>2. QED
      BY <1>1, <1>2, <3>1 DEF WellMoved, ReqPC
  <2>3. CASE ~LoopAgain(r) /\ ~GiveUp(r)
    <3>1. Move(r, "ended", req[r].tries, req[r].seen)
      BY <1>8, <2>3 DEF Again
    <3>2. req[r].tries < max_tries /\ lastState # "APP_OPENED"
      BY <1>1, <2>3 DEF GiveUp, LoopAgain, max_tries
    <3>3. QED
      BY <1>1, <3>1, <3>2 DEF WellMoved, ReqPC
  <2>4. QED
    BY <2>1, <2>2, <2>3
<1>9. QED
  BY <1>3, <1>4, <1>5, <1>6, <1>7, <1>8 DEF Request

\* The requests keep their invariant.
LEMMA ReqOKStep == ReqOK /\ [ReqNext]_allVars => ReqOK'
<1> SUFFICES ASSUME ReqOK, [ReqNext]_allVars PROVE ReqOK'
  OBVIOUS
<1>1. CASE UNCHANGED req
  BY <1>1 DEF ReqOK
<1>2. ASSUME NEW r \in Requests, Subscribe(r) \/ Request(r)
      PROVE  ReqOK'
  <2>1. WellMoved(r)
    BY <1>2, RequestMoves
  <2>2. QED
    BY <2>1 DEF WellMoved, Move, ReqOK
<1>3. QED
  BY <1>1, <1>2, OneRequestMoves

\* New requests satisfy the invariant.
LEMMA ReqOKInit == ReqInit => ReqOK
  BY DEF ReqInit, ReqOK, ReqPC, Verdict, max_tries

\* So the requests satisfy it in every behaviour.
LEMMA ReqOKAlways == ReqSafeSpec => []ReqOK
<1>1. QED
  BY ReqOKInit, ReqOKStep, PTL DEF ReqSafeSpec

\* The state of the requests keeps its type beside that of the loop, and no
\* request asks the device a fourth time.
THEOREM RequestsTypeCorrect == ReqSpec => []ReqTypeOK
<1> DEFINE OpenerOK == opener \in {"idle", "save"}
<1>1. ReqInit => OpenerOK
  BY DEF ReqInit
<1>2. OpenerOK /\ [ReqNext]_allVars => OpenerOK'
  BY DEF ReqNext, allVars, reqVars, Subscribe, Request, QueryAnswered, QueryFails,
         CachePid, SavePid, Again, RunMinterApp, SaveMinterPid, RemovePid
<1>3. TypeOK /\ ReqOK /\ OpenerOK => ReqTypeOK
  BY DEF ReqTypeOK, ReqOK
<1>4. SafeSpec => []TypeOK
  BY TypeCorrect
<1>5. QED
  BY <1>1, <1>2, <1>3, <1>4, RequestsKeepLoop, ReqOKAlways, PTL DEF ReqSpec, ReqSafeSpec

\* The observer of a request that has its verdict keeps it, although the code
\* goes on querying the device after it delivered the address.
THEOREM VerdictStandsAlways == ReqSpec => VerdictStands
<1>1. ReqOK /\ [ReqNext]_allVars =>
        [\A r \in Requests : req[r].seen # "none" => req'[r].seen = req[r].seen]_allVars
  <2> SUFFICES ASSUME ReqOK, [ReqNext]_allVars, NEW q \in Requests, req[q].seen # "none"
               PROVE  req'[q].seen = req[q].seen
    OBVIOUS
  <2>1. ASSUME NEW r \in Requests, Subscribe(r) \/ Request(r)
        PROVE  req'[q].seen = req[q].seen
    <3>1. WellMoved(r)
      BY <2>1, RequestMoves
    <3>2. QED
      BY <3>1 DEF WellMoved, Move, ReqOK
  <2>2. QED
    BY <2>1, OneRequestMoves
<1>2. QED
  BY <1>1, ReqOKAlways, PTL DEF ReqSpec, ReqSafeSpec, VerdictStands

\* A request ends without a word to its observer only when the application was
\* seen closed before the third try.
THEOREM SilentOnlyWhenClosedAlways == ReqSpec => SilentOnlyWhenClosed
<1>1. ReqOK /\ [ReqNext]_allVars =>
        [\A r \in Requests :
           (req[r].pc # "ended" /\ req'[r].pc = "ended" /\ req'[r].seen = "none")
             => lastState # "APP_OPENED" /\ req'[r].tries < max_tries]_allVars
  <2> SUFFICES ASSUME ReqOK, [ReqNext]_allVars, NEW q \in Requests,
                      req[q].pc # "ended", req'[q].pc = "ended", req'[q].seen = "none"
               PROVE  lastState # "APP_OPENED" /\ req'[q].tries < max_tries
    OBVIOUS
  <2>1. ASSUME NEW r \in Requests, Subscribe(r) \/ Request(r)
        PROVE  lastState # "APP_OPENED" /\ req'[q].tries < max_tries
    <3>1. WellMoved(r)
      BY <2>1, RequestMoves
    <3>2. QED
      BY <3>1 DEF WellMoved, Move, ReqOK
  <2>2. QED
    BY <2>1, OneRequestMoves
<1>2. QED
  BY <1>1, ReqOKAlways, PTL DEF ReqSpec, ReqSafeSpec, SilentOnlyWhenClosed
==============================================================================
