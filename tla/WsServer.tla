------------------------------ MODULE WsServer -------------------------------
(***************************************************************************)
(* The local HTTP and WebSocket server, WsServer, while it runs: its       *)
(* clients, the one io_context thread that handles every request, the rx   *)
(* pool on which WebSocket get_address requests run, and the UI thread     *)
(* that sends the device state to the registered clients.                  *)
(*                                                                         *)
(* The device server behind it is a StateNotifier: `published` is what     *)
(* getState() answers, `inbox` the signals queued for the UI thread,       *)
(* `seen` the state the UI thread was last told.                           *)
(*                                                                         *)
(* m_registry has no lock.  While the io thread inserts or erases ("insert",*)
(* "erase") a reader on another thread may miss an entry, and an iteration *)
(* under way may skip or repeat entries; a crash is not modelled.          *)
(***************************************************************************)
EXTENDS Naturals, Sequences, FiniteSets, SequencesExt

CONSTANTS
  WsClients,    \* WebSocket connections; a reconnection is another one
  HttpClients,  \* HTTP clients, which wait for each response
  Kinds,        \* the kinds of requests they send
  States,       \* the states the device goes through
  MaxRequests,  \* bound on the requests of all clients together
  MaxEvents     \* bound on the notifications queued for the UI thread

VARIABLES
  published, infiniteEmitting, inbox, seen,  \* of the device server
  asked,     \* the requests each client has sent, in order
  taken,     \* how many of them the io thread has taken
  log,       \* what each client was sent in reply to each of its requests
  told,      \* the last event_device_state_changed each client was sent
  registry,  \* m_registry
  io,        \* what the io thread is doing, for which request
  tasks,     \* get_address observables under way on the rx pool
  toTell,    \* the clients the UI thread's iteration has still to visit
  due        \* history: the clients registered when the last iteration began,
             \* none once the registry was changed under it

deviceVars == <<published, infiniteEmitting, inbox, seen>>
uiVars == <<told, toTell, due>>
vars == <<deviceVars, asked, taken, log, registry, io, tasks, uiVars>>

Notifier == INSTANCE StateNotifier

Clients == WsClients \union HttpClients

\* "bad_tx" is a sign_tx whose value is not 64 characters; "unparsed" is not a
\* message, or not wholly; "ignored" has a type that is not an action; "close" is
\* the close frame.
Kind == {"get_device_state", "get_address", "sign_tx", "bad_tx", "unparsed", "ignored"}
HttpKind == {"get_device_state", "get_address", "sign_tx", "bad_tx"}

ASSUME ClientsAssumption == WsClients \intersect HttpClients = {} /\ IsFiniteSet(Clients)
ASSUME KindsAssumption == Kinds \subseteq Kind
ASSUME StatesAssumption == States \subseteq Notifier!DevState
ASSUME BoundsAssumption == MaxRequests \in Nat /\ MaxEvents \in Nat \ {0}

\* The requests of a client are numbered.
Numbers == 1..MaxRequests

Message(type, value) == [type |-> type, value |-> value]
Error == Message("event_error", "text")
EchoedType == Message("action", "text")
Address == Message("result_get_address", "address")
Required == Message("event_user_action_required", "none")
Success == Message("event_user_action_result", "success")
Rejected == Message("event_user_action_result", "user_rejected")
Signature == Message("result_sign_tx", "signature")
StateReply(s) == Message("result_get_device_state", s)
Refusal(s) == Message("event_error", s)

Work(pc, c, n) == [pc |-> pc, c |-> c, n |-> n]
Idle == Work("idle", "nobody", 0)

Init ==
  /\ Notifier!Init
  /\ asked = [c \in Clients |-> <<>>]
  /\ taken = [c \in Clients |-> 0]
  /\ log = [c \in Clients |-> [n \in Numbers |-> <<>>]]
  /\ told = [c \in WsClients |-> "nothing"]
  /\ registry = {}
  /\ io = Idle
  /\ tasks = {}
  /\ toTell = {}
  /\ due = {}

\* Request n of client c is being worked on.
Pending(c, n) == (io.c = c /\ io.n = n) \/ [c |-> c, n |-> n] \in tasks

\* DeviceServer::canInteract
CanInteract == published = "APP_OPENED"

Mutating == io.pc \in {"insert", "erase"}

\* The outcomes of m_registry.count(c) on a thread other than the io thread.
Found(c) == {c \in registry} \union (IF Mutating THEN {FALSE} ELSE {})

\* The log once c was sent m in reply to its request n.
Delivered(c, n, m) == [log EXCEPT ![c][n] = Append(@, m)]

\* sendMessage on the io thread, to a registered client only, or the response
\* to an HTTP request.
Send(c, n, m) ==
  log' = IF c \in registry \union HttpClients THEN Delivered(c, n, m) ELSE log

-----------------------------------------------------------------------------
(* Plausible slips: each replaces the definition named after it.              *)

\* StartAddress: an HTTP request is made asynchronous like a WebSocket one.
StartAddressAsync(c) ==
  /\ CanInteract
  /\ tasks' = tasks \union {[c |-> c, n |-> taken[c] + 1]}
  /\ UNCHANGED <<io, log, due>>

\* StartSign: signTx does not block the io thread.
StartSignAsync(c) ==
  /\ CanInteract
  /\ Send(c, taken[c] + 1, Required)
  /\ UNCHANGED <<io, tasks, due>>

\* SendRefusal: the handler does not return after it.
SendRefusalAndGoOn ==
  /\ io.pc = "refuse"
  /\ Send(io.c, io.n, Refusal(published))
  /\ io' = Work("sign", io.c, io.n)
  /\ UNCHANGED <<tasks, due, registry, toTell>>

\* PoolSends: the connection is captured, the registry not asked.
PoolSendsAlways(c, n, m) == log' = Delivered(c, n, m)

\* PoolTask: the result is kept until its client is there to get it.
PoolTaskWaits(t) ==
  /\ t.c \in registry
  /\ tasks' = tasks \ {t}
  /\ log' = Delivered(t.c, t.n, Address)
  /\ UNCHANGED <<deviceVars, asked, taken, registry, io, uiVars>>

\* Tell: the state is read again instead of the one the signal carries.
TellNow(c) ==
  /\ c \in toTell
  /\ toTell' = toTell \ {c}
  /\ told' = IF c \in registry THEN [told EXCEPT ![c] = published] ELSE told
  /\ UNCHANGED <<deviceVars, asked, taken, log, registry, io, tasks, due>>

-----------------------------------------------------------------------------
(* Clients. *)

\* The requests sent so far.
Requests == {r \in Clients \X Numbers :
               r[2] <= Len(asked[r[1]]) /\ asked[r[1]][r[2]] # "close"}

ClientSends(c, k) ==
  /\ c \in registry \union HttpClients
  /\ c \in HttpClients => /\ k \in HttpKind
                          /\ taken[c] = Len(asked[c]) /\ ~Pending(c, taken[c])
  /\ Cardinality(Requests) < MaxRequests
  /\ ~Contains(asked[c], "close")
  /\ asked' = [asked EXCEPT ![c] = Append(@, k)]
  /\ UNCHANGED <<deviceVars, taken, log, registry, io, tasks, uiVars>>

\* The client closes, or the connection breaks and restinio hands the close
\* frame to the handler itself (external).
ClientCloses(c) ==
  /\ c \in registry
  /\ ~Contains(asked[c], "close")
  /\ asked' = [asked EXCEPT ![c] = Append(@, "close")]
  /\ UNCHANGED <<deviceVars, taken, log, registry, io, tasks, uiVars>>

-----------------------------------------------------------------------------
(* The io thread takes the next request of a client. *)

\* The io thread begins to change the registry.
BeginMutation(pc, c) ==
  /\ io' = Work(pc, c, 0)
  /\ due' = IF toTell = {} THEN due ELSE {}

\* GET /app with an upgrade.
Accept(c) ==
  /\ io = Idle
  /\ c \notin registry
  /\ asked[c] = <<>>
  /\ BeginMutation("insert", c)
  /\ UNCHANGED <<deviceVars, asked, taken, log, registry, tasks, told, toTell>>

\* The request the io thread takes is number Number(c) of c, of kind k.
Number(c) == taken[c] + 1
Taking(c, k) ==
  /\ io = Idle
  /\ taken[c] < Len(asked[c])
  /\ asked[c][Number(c)] = k
  /\ taken' = [taken EXCEPT ![c] = @ + 1]
  /\ UNCHANGED <<deviceVars, asked, registry, told, toTell>>

TakeClose(c) ==
  /\ Taking(c, "close")
  /\ BeginMutation("erase", c)
  /\ UNCHANGED <<log, tasks>>

TakeGetState(c) ==
  /\ Taking(c, "get_device_state")
  /\ Send(c, Number(c), StateReply(published))
  /\ UNCHANGED <<io, tasks, due>>

\* The handlers of get_address and sign_tx first ask canInteract().
Refuse(c) == ~CanInteract /\ io' = Work("refuse", c, Number(c)) /\ UNCHANGED <<log, tasks, due>>

\* A WebSocket request is subscribed on the rx pool and the io thread is free;
\* an HTTP request blocks it.
StartAddress(c) ==
  /\ CanInteract
  /\ IF c \in WsClients
       THEN /\ tasks' = tasks \union {[c |-> c, n |-> Number(c)]}
            /\ UNCHANGED io
       ELSE /\ io' = Work("address", c, Number(c))
            /\ UNCHANGED tasks
  /\ UNCHANGED <<log, due>>

TakeGetAddress(c) == Taking(c, "get_address") /\ (Refuse(c) \/ StartAddress(c))

\* The user is asked, then signTx blocks the io thread.
StartSign(c) ==
  /\ CanInteract
  /\ IF c \in WsClients THEN Send(c, Number(c), Required) ELSE UNCHANGED log
  /\ io' = Work("sign", c, Number(c))
  /\ UNCHANGED <<tasks, due>>

TakeSign(c) == Taking(c, "sign_tx") /\ (Refuse(c) \/ StartSign(c))

TakeBadTx(c) ==
  /\ Taking(c, "bad_tx")
  /\ \/ Refuse(c)
     \/ CanInteract /\ Send(c, Number(c), Error) /\ UNCHANGED <<io, tasks, due>>

\* parse_message fails: the answer is sent on the connection itself, as an error,
\* or with the type of the request when it was read before the failure.
TakeUnparsed(c) ==
  /\ Taking(c, "unparsed")
  /\ \E m \in {Error, EchoedType} : log' = Delivered(c, Number(c), m)
  /\ UNCHANGED <<io, tasks, due>>

TakeIgnored(c) == Taking(c, "ignored") /\ UNCHANGED <<log, io, tasks, due>>

Take(c) ==
  \/ TakeClose(c) \/ TakeGetState(c) \/ TakeGetAddress(c) \/ TakeSign(c)
  \/ TakeBadTx(c) \/ TakeUnparsed(c) \/ TakeIgnored(c)

-----------------------------------------------------------------------------
(* The io thread goes on with what it has begun. *)

\* The registry is changed; an iteration under way goes on from any entries.
EndMutation(r) ==
  /\ registry' = r
  /\ toTell' \in IF toTell = {} THEN {{}} ELSE SUBSET r
  /\ due' = IF toTell = {} THEN due \intersect r ELSE {}
  /\ io' = Idle
  /\ UNCHANGED <<log, tasks>>

Insert == io.pc = "insert" /\ EndMutation(registry \union {io.c})
Erase == io.pc = "erase" /\ EndMutation(registry \ {io.c})

\* The refusal names the state as it is when it is written.
SendRefusal ==
  /\ io.pc = "refuse"
  /\ Send(io.c, io.n, Refusal(published))
  /\ io' = Idle
  /\ UNCHANGED <<tasks, due, registry, toTell>>

\* A WebSocket client is sent its signature in a message of its own.
SendSignature ==
  /\ io.pc = "signed"
  /\ Send(io.c, io.n, Signature)
  /\ io' = Idle
  /\ UNCHANGED <<tasks, due, registry, toTell>>

\* as_blocking().first(): the io thread waits for an event of the observable,
\* for ever when getAddress ends without one, as it may once the application is
\* seen closed (LedgerRequests, SilentOnlyWhenClosed).
AddressEnds ==
  /\ io.pc = "address"
  /\ \/ \E m \in {Address, Error} : Send(io.c, io.n, m) /\ io' = Idle
     \/ ~CanInteract /\ io' = Work("hung", io.c, io.n) /\ UNCHANGED log
  /\ UNCHANGED <<tasks, due, registry, toTell>>

\* signTx returns when the user has accepted, or throws: exchange_error with
\* the user's answer, or any other exception.
SignEnds ==
  /\ io.pc = "sign"
  /\ \/ /\ io.c \in WsClients
        /\ Send(io.c, io.n, Success)
        /\ io' = Work("signed", io.c, io.n)
     \/ /\ io.c \in HttpClients
        /\ Send(io.c, io.n, Signature)
        /\ io' = Idle
     \/ \E m \in {Rejected, Error} : Send(io.c, io.n, m) /\ io' = Idle
  /\ UNCHANGED <<tasks, due, registry, toTell, deviceVars, asked, taken, told>>

Continue ==
  /\ Insert \/ Erase \/ SendRefusal \/ SendSignature \/ AddressEnds
  /\ UNCHANGED <<deviceVars, asked, taken, told>>

-----------------------------------------------------------------------------
(* The rx pool, the UI thread, the device server. *)

\* sendMessage on a thread of the pool.
PoolSends(c, n, m) ==
  \E found \in Found(c) : log' = IF found THEN Delivered(c, n, m) ELSE log

\* getAddress ends, with an address, an error or nothing.
PoolTask(t) ==
  /\ tasks' = tasks \ {t}
  /\ \/ \E m \in {Address, Error} : PoolSends(t.c, t.n, m)
     \/ ~CanInteract /\ UNCHANGED log
  /\ UNCHANGED <<deviceVars, asked, taken, registry, io, uiVars>>

FinishTask(t) == t \in tasks /\ PoolTask(t)

\* ConsoleApp::onDeviceStateChanged re-emits the state to the lambda connected
\* in run(), which begins to iterate over the registry.
Notify ==
  /\ toTell = {}
  /\ Notifier!Deliver
  /\ IF Mutating THEN toTell' \in SUBSET registry /\ due' = {}
                 ELSE toTell' = registry /\ due' = registry
  /\ UNCHANGED <<asked, taken, log, registry, io, tasks, told>>

Tell(c) ==
  /\ c \in toTell
  /\ toTell' = toTell \ {c}
  /\ \E found \in Found(c) : told' = IF found THEN [told EXCEPT ![c] = seen] ELSE told
  /\ UNCHANGED <<deviceVars, asked, taken, log, registry, io, tasks, due>>

Publish(s) ==
  /\ Notifier!Publish(s)
  /\ UNCHANGED <<asked, taken, log, registry, io, tasks, uiVars>>

\* ConsoleWindow::onDeviceStateChanged, told that the application is opened.
ConsoleSatisfied ==
  /\ infiniteEmitting
  /\ seen = "APP_OPENED"
  /\ Notifier!SetInfiniteEmitting(FALSE)
  /\ UNCHANGED <<asked, taken, log, registry, io, tasks, uiVars>>

Next ==
  \/ \E c \in Clients, k \in Kinds : ClientSends(c, k)
  \/ \E c \in WsClients : ClientCloses(c) \/ Accept(c) \/ Tell(c)
  \/ \E c \in Clients : Take(c)
  \/ Continue
  \/ SignEnds
  \/ \E t \in tasks : FinishTask(t)
  \/ Notify
  \/ \E s \in States : Publish(s)
  \/ ConsoleSatisfied

SafeSpec == Init /\ [][Next]_vars

\* asio handles what is ready in turn, so each client is served again and again;
\* a thread of the pool and the UI thread go on; a state is published again and
\* again under infinite emission (LedgerDeviceServer, InfiniteEmittingRepeats).
\* Nothing makes the user answer, a client send, or the device change.
Spec ==
  /\ SafeSpec
  /\ WF_vars(Continue)
  /\ \A c \in Clients : SF_vars(Take(c))
  /\ \A c \in WsClients, n \in Numbers : WF_vars(FinishTask([c |-> c, n |-> n]))
  /\ WF_vars(Notify) /\ WF_vars(ConsoleSatisfied)
  /\ \A c \in WsClients : WF_vars(Tell(c))
  /\ WF_vars(infiniteEmitting /\ \E s \in States : Publish(s))

-----------------------------------------------------------------------------
(* Properties. *)

\* Every variable keeps its type; only WebSocket requests run on the pool, and
\* no request is worked on in two places.
TypeOK ==
  /\ Notifier!TypeOK
  /\ asked \in [Clients -> Seq(Kind \union {"close"})]
  /\ \A c \in Clients : taken[c] \in 0..Len(asked[c])
  /\ told \in [WsClients -> Notifier!DevState \union {"nothing"}]
  /\ registry \subseteq WsClients
  /\ io.pc \in {"idle", "insert", "erase", "refuse", "address", "sign", "signed", "hung"}
  /\ io.pc # "idle" => io.c \in Clients /\ io.n \in 0..taken[io.c]
  /\ tasks \subseteq [c : WsClients, n : Numbers]
  /\ [c |-> io.c, n |-> io.n] \notin tasks
  /\ toTell \subseteq WsClients /\ due \subseteq WsClients

\* The complete conversations with a client, for each kind of request.  A
\* WebSocket get_address may get nothing: getAddress ended silently, or the
\* client was not found.
Conversations(c) ==
  LET states   == Notifier!DevState
      refusals == {<<Refusal(s)>> : s \in states}
      silence  == IF c \in WsClients THEN {<<>>} ELSE {}
      signing  == IF c \in WsClients
                    THEN {<<Required, Success, Signature>>, <<Required, Rejected>>, <<Required, Error>>}
                    ELSE {<<Signature>>, <<Rejected>>, <<Error>>}
  IN  [get_device_state |-> {<<StateReply(s)>> : s \in states},
       get_address      |-> refusals \union {<<Address>>, <<Error>>} \union silence,
       sign_tx          |-> refusals \union signing,
       bad_tx           |-> refusals \union {<<Error>>},
       unparsed         |-> {<<Error>>, <<EchoedType>>},
       ignored          |-> {<<>>}]

\* Whatever runs at the same time, a client is sent about each of its requests
\* one of the conversations the protocol has for it, begun while the request is
\* worked on and complete afterwards: the user's refusal is never followed by a
\* signature, no reply comes twice or is about the request of another.
ConversationKept ==
  \A c \in Clients : \A n \in 1..taken[c] : asked[c][n] # "close" =>
    \E full \in Conversations(c)[asked[c][n]] :
      IF Pending(c, n) THEN IsPrefix(log[c][n], full) ELSE log[c][n] = full

\* Requests whose clients were asked for the user's action, and not told the outcome.
Awaiting == {r \in Clients \X Numbers :
               LET got == log[r[1]][r[2]] IN got # <<>> /\ Last(got) = Required}

\* The Ledger shows one transaction at a time: no client is asked for the user's
\* action while another has been and has not had its outcome.
OneDialogue == \A r, s \in Awaiting : r = s

\* A client that was removed from the registry is sent nothing any more, by no
\* thread, though its get_address may end and its state event be due later.
NothingAfterClose ==
  [][\A c \in WsClients : c \notin registry => log'[c] = log[c] /\ told'[c] = told[c]]_vars

\* An iteration that the io thread did not disturb tells every client that was
\* registered when it began, and tells it the state the signal carries.
BroadcastHeard == \A c \in due \ toTell : told[c] = seen

\* As long as the io thread comes back from what it does, every request is taken
\* and then done with, those of a client that has gone too.
ServedWhileIoReturns ==
  []<>(io.pc = "idle")
    => \A c \in Clients : \A n \in Numbers :
         (Len(asked[c]) >= n) ~> (taken[c] >= n /\ ~Pending(c, n))

\* "Client receive it when device state has been changed or just new client
\* connected": a new client is told the state.
NewClientTold ==
  \A c \in WsClients : (c \in registry) ~> (told[c] # "nothing" \/ c \notin registry)

HasResult(replies) == Contains(replies, Address) \/ Contains(replies, Signature)

\* "results will back sequentially": a client gets the results from the Ledger in
\* the order of its requests, none once a later request has had its own.
ResultsSequential ==
  [][\A c \in Clients : \A i, j \in Numbers :
       i < j /\ HasResult(log[c][j]) => HasResult(log'[c][i]) = HasResult(log[c][i])]_vars

\* "device is in invalid state": a refusal does not name APP_OPENED, in which
\* "you can send all requests".
RefusalNamesState ==
  \A c \in WsClients : \A n \in Numbers : ~Contains(log[c][n], Refusal("APP_OPENED"))
==============================================================================
