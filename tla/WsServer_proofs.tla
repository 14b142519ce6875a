--------------------------- MODULE WsServer_proofs ---------------------------
(***************************************************************************)
(* The safety properties of WsServer, for any finite set of clients, any   *)
(* number of requests and any states of the device.                        *)
(***************************************************************************)
EXTENDS WsServer, FiniteSetTheorems, SequenceTheorems, TLAPS

\* The messages a log holds.
Messages ==
  {Error, EchoedType, Address, Required, Success, Rejected, Signature}
    \union {StateReply(s) : s \in Notifier!DevState} \union {Refusal(s) : s \in Notifier!DevState}

Typed ==
  /\ Notifier!TypeOK
  /\ asked \in [Clients -> Seq(Kind \union {"close"})]
  /\ taken \in [Clients -> Nat] /\ \A c \in Clients : taken[c] =< Len(asked[c])
  /\ log \in [Clients -> [Numbers -> Seq(Messages)]]
  /\ told \in [WsClients -> Notifier!DevState \union {"nothing"}]
  /\ registry \subseteq WsClients /\ toTell \subseteq WsClients /\ due \subseteq registry
  /\ tasks \subseteq [c : WsClients, n : Numbers]

\* A close frame is the last thing a WebSocket client sends; the requests are
\* numbered within the bound.
Sent ==
  \A c \in Clients : \A i \in 1..Len(asked[c]) :
    IF asked[c][i] = "close" THEN i = Len(asked[c]) /\ c \in WsClients ELSE i \in Numbers

\* A client that is not registered has nothing left for the io thread to take.
Present == \A c \in WsClients \ registry : taken[c] = Len(asked[c])

Hears(c) == c \in registry \union HttpClients

\* What the io thread is doing fits the request it is doing it for.
Working ==
  /\ io \in [pc : {"idle", "insert", "erase", "refuse", "address", "sign", "signed", "hung"},
             c : Clients \union {"nobody"}, n : Nat]
  /\ io.pc = "idle" => io = Idle
  /\ io.pc # "idle" => io.c \in Clients /\ io.n =< taken[io.c]
  /\ io.pc \in {"insert", "erase"} => io.c \in WsClients /\ io.n = 0
  /\ io.pc = "insert" => asked[io.c] = <<>> /\ io.c \notin registry
  /\ io.pc = "erase" => taken[io.c] = Len(asked[io.c]) /\ Contains(asked[io.c], "close")
  /\ io.pc \in {"refuse", "address", "sign", "signed", "hung"} => io.n \in Numbers

\* How far the conversation is about the request the io thread works on.
Talking ==
  LET k == asked[io.c][io.n]
      got == log[io.c][io.n]
  IN  /\ io.pc = "refuse" => k \in {"get_address", "sign_tx", "bad_tx"} /\ got = <<>> /\ Hears(io.c)
      /\ io.pc \in {"address", "hung"} => k = "get_address" /\ got = <<>> /\ io.c \in HttpClients
      /\ io.pc = "sign" => /\ k = "sign_tx" /\ Hears(io.c)
                           /\ got = IF io.c \in WsClients THEN <<Required>> ELSE <<>>
      /\ io.pc = "signed" => k = "sign_tx" /\ io.c \in registry /\ got = <<Required, Success>>

\* A request on the pool is a get_address that nothing was said about.
Pooled ==
  \A t \in tasks :
    /\ t.n =< taken[t.c] /\ asked[t.c][t.n] = "get_address" /\ log[t.c][t.n] = <<>>
    /\ ~(io.c = t.c /\ io.n = t.n)

\* Nothing is said about a request before it is taken, all of it once nobody
\* works on it any more.
Said ==
  \A c \in Clients : \A n \in Numbers :
    /\ n > taken[c] => log[c][n] = <<>>
    /\ n =< taken[c] => 
         IF asked[c][n] = "close" THEN log[c][n] = <<>>
         ELSE Pending(c, n) \/ log[c][n] \in Conversations(c)[asked[c][n]]

\* No iteration counts that the io thread disturbs.
Heard == BroadcastHeard /\ (Mutating => due = {} \/ toTell = {})

IInv == Typed /\ Sent /\ Present /\ Working /\ Talking /\ Pooled /\ Said /\ Heard

-----------------------------------------------------------------------------
\* A client that may send a request has a number left for it: those it has sent,
\* none of them a close frame, are among the requests counted.
LEMMA NumberLeft ==
  ASSUME Typed, Sent, NEW c \in Clients, Cardinality(Requests) < MaxRequests,
         ~Contains(asked[c], "close")
  PROVE  Len(asked[c]) + 1 \in Numbers
<1> USE BoundsAssumption DEF Typed, Numbers
<1>1. \A i \in 1..Len(asked[c]) : asked[c][i] # "close"
  BY DEF Contains
<1>2. SUFFICES ASSUME Len(asked[c]) >= MaxRequests PROVE FALSE
  OBVIOUS
<1>3. {c} \X Numbers \subseteq Requests
  BY <1>1, <1>2 DEF Requests
<1>4. IsFiniteSet(Numbers) /\ Cardinality(Numbers) = MaxRequests
  BY FS_Interval
<1>5. IsFiniteSet({c}) /\ Cardinality({c}) = 1
  BY FS_Singleton
<1>6. IsFiniteSet(Clients \X Numbers)
  BY <1>4, ClientsAssumption, FS_Product
<1>7. IsFiniteSet(Requests)
  BY <1>6, FS_Subset DEF Requests
<1>8. Cardinality({c} \X Numbers) = MaxRequests
  <2>1. Cardinality({c} \X Numbers) = Cardinality({c}) * Cardinality(Numbers)
    BY <1>4, <1>5, FS_Product
  <2>2. QED BY <2>1, <1>4, <1>5
<1>9. Cardinality({c} \X Numbers) =< Cardinality(Requests)
  BY <1>3, <1>7, FS_Subset
<1>10. Cardinality(Requests) \in Nat
  BY <1>7, FS_CardinalityType
<1> QED BY <1>8, <1>9, <1>10

LEMMA InitIInv == Init => IInv
<1> SUFFICES ASSUME Init PROVE IInv
  OBVIOUS
<1> USE DEF Init, Idle, Work
<1>1. Typed
  BY DEF Typed, Notifier!Init, Notifier!TypeOK, Notifier!DevState
<1>2. Sent /\ Present
  BY DEF Sent, Present, Clients
<1>3. Working /\ Talking /\ Pooled
  BY DEF Working, Talking, Pooled
<1>4. Said
  BY BoundsAssumption DEF Said, Numbers
<1>5. Heard
  BY DEF Heard, BroadcastHeard, Mutating
<1> QED BY <1>1, <1>2, <1>3, <1>4, <1>5 DEF IInv

-----------------------------------------------------------------------------
(* What is said. *)

\* The conversations of each kind of request.
LEMMA ConversationsOf ==
  ASSUME NEW c
  PROVE  /\ \A s \in Notifier!DevState :
              /\ <<StateReply(s)>> \in Conversations(c)["get_device_state"]
              /\ \A k \in {"get_address", "sign_tx", "bad_tx"} : <<Refusal(s)>> \in Conversations(c)[k]
         /\ \A m \in {Address, Error} : <<m>> \in Conversations(c)["get_address"]
         /\ c \in WsClients => <<>> \in Conversations(c)["get_address"]
         /\ c \in WsClients => /\ <<Required, Success, Signature>> \in Conversations(c)["sign_tx"]
                               /\ \A m \in {Rejected, Error} : <<Required, m>> \in Conversations(c)["sign_tx"]
         /\ c \notin WsClients => \A m \in {Signature, Rejected, Error} : <<m>> \in Conversations(c)["sign_tx"]
         /\ <<Error>> \in Conversations(c)["bad_tx"]
         /\ \A m \in {Error, EchoedType} : <<m>> \in Conversations(c)["unparsed"]
         /\ <<>> \in Conversations(c)["ignored"]
BY DEF Conversations

\* No conversation ends with the user being asked.
LEMMA NobodyLeftAsked ==
  ASSUME NEW c, NEW k \in Kind, NEW full \in Conversations(c)[k], full # <<>>
  PROVE  Last(full) # Required
<1> USE DEF Last, Message, Required, Error, EchoedType, Address, Success, Rejected, Signature,
            StateReply, Refusal
<1>1. CASE k \in {"get_device_state", "unparsed", "ignored"}
  BY <1>1 DEF Conversations
<1>2. CASE k = "get_address"
  BY <1>2 DEF Conversations
<1>3. CASE k = "sign_tx"
  BY <1>3 DEF Conversations
<1>4. CASE k = "bad_tx"
  BY <1>4 DEF Conversations
<1> QED BY <1>1, <1>2, <1>3, <1>4 DEF Kind

LEMMA AppendToEmpty == \A m : Append(<<>>, m) = <<m>>
OBVIOUS

LEMMA AppendToOne ==
  ASSUME NEW a \in Messages, NEW m \in Messages
  PROVE  Append(<<a>>, m) = <<a, m>>
<1>1. <<a>> \in Seq(Messages) /\ <<a, m>> \in Seq(Messages) /\ Append(<<a>>, m) \in Seq(Messages)
  OBVIOUS
<1>2. Len(Append(<<a>>, m)) = 2 /\ Len(<<a, m>>) = 2
  OBVIOUS
<1>3. \A i \in 1..2 : Append(<<a>>, m)[i] = <<a, m>>[i]
  OBVIOUS
<1> QED BY <1>1, <1>2, <1>3, SeqEqual

LEMMA AppendToTwo ==
  ASSUME NEW a \in Messages, NEW b \in Messages, NEW m \in Messages
  PROVE  Append(<<a, b>>, m) = <<a, b, m>>
<1>1. /\ <<a, b>> \in Seq(Messages) /\ <<a, b, m>> \in Seq(Messages)
      /\ Append(<<a, b>>, m) \in Seq(Messages)
  OBVIOUS
<1>2. Len(Append(<<a, b>>, m)) = 3 /\ Len(<<a, b, m>>) = 3
  OBVIOUS
<1>3. \A i \in 1..3 : Append(<<a, b>>, m)[i] = <<a, b, m>>[i]
  OBVIOUS
<1> QED BY <1>1, <1>2, <1>3, SeqEqual

\* One entry of the log grows by a message.
LEMMA DeliveredOne ==
  ASSUME Typed, NEW c \in Clients, NEW n \in Numbers, NEW m \in Messages, log' = Delivered(c, n, m)
  PROVE  /\ log' \in [Clients -> [Numbers -> Seq(Messages)]]
         /\ log'[c][n] = Append(log[c][n], m)
         /\ \A d \in Clients, i \in Numbers : d # c \/ i # n => log'[d][i] = log[d][i]
BY DEF Typed, Delivered

\* The next request of a client: somebody hears its reply, nothing was said yet.
LEMMA NextRequest ==
  ASSUME IInv, NEW c \in Clients, NEW k \in Kind, Taking(c, k)
  PROVE  /\ Number(c) \in Numbers /\ Number(c) \in 1..Len(asked[c])
         /\ asked[c][Number(c)] = k /\ k # "close"
         /\ log[c][Number(c)] = <<>>
         /\ Hears(c)
         /\ taken' \in [Clients -> Nat] /\ taken'[c] = Number(c) /\ taken'[c] =< Len(asked[c])
         /\ \A d \in Clients : taken'[d] =< Len(asked[d]) /\ (d # c => taken'[d] = taken[d])
<1> USE DEF Taking, Number, IInv, Typed
<1>1. Number(c) \in 1..Len(asked[c]) /\ asked[c][Number(c)] = k /\ k # "close"
  BY DEF Kind
<1>2. Number(c) \in Numbers
  BY <1>1 DEF Sent
<1>3. Hears(c)
  BY DEF Present, Hears, Clients
<1>4. log[c][Number(c)] = <<>>
  BY <1>2 DEF Said
<1> QED BY <1>1, <1>2, <1>3, <1>4

\* A step that takes a request, or goes on with it, leaves the others alone.
LEMMA SaidKept ==
  ASSUME Typed, Said, asked' = asked, NEW c \in Clients, NEW n \in Numbers,
         \/ taken' = taken /\ n =< taken[c]
         \/ n = taken[c] + 1 /\ taken' = [taken EXCEPT ![c] = @ + 1],
         asked[c][n] # "close",
         Pending(c, n)' \/ log'[c][n] \in Conversations(c)[asked[c][n]],
         \A d \in Clients, i \in Numbers : d # c \/ i # n =>
           log'[d][i] = log[d][i] /\ (Pending(d, i) => Pending(d, i)')
  PROVE  Said'
<1> SUFFICES ASSUME NEW d \in Clients, NEW i \in Numbers
             PROVE  /\ i > taken'[d] => log'[d][i] = <<>>
                    /\ i =< taken'[d] =>
                         IF asked[d][i] = "close" THEN log'[d][i] = <<>>
                         ELSE Pending(d, i)' \/ log'[d][i] \in Conversations(d)[asked[d][i]]
  BY DEF Said
<1>1. CASE d = c /\ i = n
  BY <1>1 DEF Typed, Numbers
<1>2. CASE d # c \/ i # n
  BY <1>2 DEF Typed, Said, Numbers
<1> QED BY <1>1, <1>2

-----------------------------------------------------------------------------
(* The device, the UI thread and the clients. *)

\* What the requests and the io thread are about is left as it is.
LEMMA RequestsUntouched ==
  ASSUME IInv, UNCHANGED <<asked, taken, log, registry, io, tasks>>,
         Notifier!TypeOK', told' \in [WsClients -> Notifier!DevState \union {"nothing"}],
         toTell' \subseteq WsClients, due' \subseteq registry, Heard'
  PROVE  IInv'
<1>1. Typed' /\ Sent' /\ Present'
  BY DEF IInv, Typed, Sent, Present
<1>2. Working' /\ Talking' /\ Pooled'
  BY DEF IInv, Working, Talking, Hears, Pooled
<1>3. Said'
  BY DEF IInv, Said, Pending
<1> QED BY <1>1, <1>2, <1>3 DEF IInv

LEMMA DeviceStep ==
  ASSUME IInv, ConsoleSatisfied \/ \E s \in States : Publish(s)
  PROVE  IInv'
<1>1. Notifier!TypeOK'
  <2> USE DEF IInv, Typed, Notifier!TypeOK
  <2>1. CASE ConsoleSatisfied
    BY <2>1 DEF ConsoleSatisfied, Notifier!SetInfiniteEmitting
  <2>2. ASSUME NEW s \in States, Publish(s) PROVE Notifier!TypeOK'
    BY <2>2, StatesAssumption DEF Publish, Notifier!Publish
  <2>3. QED BY <2>1, <2>2
<1>2. UNCHANGED <<asked, taken, log, registry, io, tasks, told, toTell, due, seen>>
  BY DEF ConsoleSatisfied, Publish, Notifier!SetInfiniteEmitting, Notifier!Publish, uiVars
<1>3. Heard'
  BY <1>2 DEF IInv, Heard, BroadcastHeard, Mutating
<1> QED BY <1>1, <1>2, <1>3, RequestsUntouched DEF IInv, Typed

LEMMA NotifyStep ==
  ASSUME IInv, Notify
  PROVE  IInv'
<1> USE DEF IInv, Typed, Notify
<1>1. Notifier!TypeOK'
  BY DEF Notifier!TypeOK, Notifier!Deliver
<1>2. toTell' \subseteq WsClients /\ due' \subseteq registry
  OBVIOUS
<1>3. Heard'
  BY DEF Heard, BroadcastHeard, Mutating
<1> QED BY <1>1, <1>2, <1>3, RequestsUntouched

LEMMA TellStep ==
  ASSUME IInv, NEW c \in WsClients, Tell(c)
  PROVE  IInv'
<1> USE DEF IInv, Typed, Tell
<1>1. Notifier!TypeOK' /\ told' \in [WsClients -> Notifier!DevState \union {"nothing"}]
  BY DEF deviceVars, Notifier!TypeOK
<1>2. Heard'
  BY DEF Heard, BroadcastHeard, Mutating, Found, deviceVars
<1> QED BY <1>1, <1>2, RequestsUntouched

\* A client sends a request or closes.
LEMMA ClientStep ==
  ASSUME IInv, NEW c \in Clients, NEW k \in Kind \union {"close"},
         asked' = [asked EXCEPT ![c] = Append(@, k)],
         ~Contains(asked[c], "close"), Hears(c),
         IF k = "close" THEN c \in WsClients ELSE Len(asked[c]) + 1 \in Numbers,
         UNCHANGED <<deviceVars, taken, log, registry, io, tasks, uiVars>>
  PROVE  IInv'
<1> USE DEF IInv, uiVars, deviceVars
<1>1. /\ asked' \in [Clients -> Seq(Kind \union {"close"})]
      /\ Len(asked'[c]) = Len(asked[c]) + 1 /\ asked'[c][Len(asked[c]) + 1] = k
      /\ \A i \in 1..Len(asked[c]) : asked'[c][i] = asked[c][i] /\ asked[c][i] # "close"
      /\ \A d \in Clients : d # c => asked'[d] = asked[d]
  BY DEF Typed, Contains
<1>2. \A d \in Clients : \A i \in 1..taken[d] : asked'[d][i] = asked[d][i]
  BY <1>1 DEF Typed
<1>3. Typed'
  BY <1>1 DEF Typed, Notifier!TypeOK
<1>4. Sent'
  BY <1>1 DEF Sent, Typed
<1>5. Present'
  BY <1>1, ClientsAssumption DEF Present, Hears
<1>6. Working'
  <2>1. io.pc \in {"insert", "erase"} => io.c # c
    <3>1. io.pc = "insert" => io.c # c
      BY ClientsAssumption DEF Working, Hears
    <3>2. io.pc = "erase" => io.c # c
      BY DEF Working
    <3>3. QED BY <3>1, <3>2
  <2>2. QED BY <2>1, <1>1 DEF Working, Typed
<1>7. Talking' /\ Pooled'
  BY <1>2 DEF Talking, Hears, Pooled, Working, Typed, Numbers, Clients
<1>8. Said'
  <2>1. \A d \in Clients, i \in Numbers : i =< taken[d] => asked'[d][i] = asked[d][i]
    BY <1>2 DEF Numbers, Typed
  <2>2. \A d \in Clients, i \in Numbers : Pending(d, i)' = Pending(d, i)
    BY DEF Pending
  <2>3. QED BY <2>1, <2>2 DEF Said
<1>9. Heard'
  BY DEF Heard, BroadcastHeard, Mutating
<1> QED BY <1>3, <1>4, <1>5, <1>6, <1>7, <1>8, <1>9

LEMMA ClientSendsStep ==
  ASSUME IInv, NEW c \in Clients, NEW k \in Kinds, ClientSends(c, k)
  PROVE  IInv'
<1>1. Len(asked[c]) + 1 \in Numbers
  BY NumberLeft DEF ClientSends, IInv
<1> QED BY <1>1, ClientStep, KindsAssumption DEF ClientSends, Hears, Kind

LEMMA ClientClosesStep ==
  ASSUME IInv, NEW c \in WsClients, ClientCloses(c)
  PROVE  IInv'
BY ClientStep DEF ClientCloses, Hears, Clients

-----------------------------------------------------------------------------
(* The registry. *)

LEMMA AcceptStep ==
  ASSUME IInv, NEW c \in WsClients, Accept(c)
  PROVE  IInv'
<1> USE DEF IInv, Accept, BeginMutation, deviceVars
<1>1. io' = [pc |-> "insert", c |-> c, n |-> 0] /\ io.n = 0
  BY DEF Work, Idle
<1>2. Typed' /\ Sent' /\ Present'
  BY DEF Typed, Sent, Present, Notifier!TypeOK
<1>3. Working' /\ Talking'
  BY <1>1 DEF Working, Talking, Typed, Clients
<1>4. Pooled'
  BY <1>1 DEF Pooled, Typed, Numbers
<1>5. Said'
  <2>1. \A d \in Clients, i \in Numbers : Pending(d, i) <=> Pending(d, i)'
    BY <1>1 DEF Pending, Numbers
  <2>2. QED BY <2>1 DEF Said
<1>6. Heard'
  BY <1>1 DEF Heard, BroadcastHeard, Mutating
<1> QED BY <1>2, <1>3, <1>4, <1>5, <1>6

LEMMA TakeCloseStep ==
  ASSUME IInv, NEW c \in Clients, TakeClose(c)
  PROVE  IInv'
<1> USE DEF IInv, TakeClose, Taking, Number, BeginMutation, deviceVars
<1>1. io' = [pc |-> "erase", c |-> c, n |-> 0] /\ io.n = 0
  BY DEF Work, Idle
<1>2. taken[c] + 1 \in 1..Len(asked[c]) /\ asked[c][taken[c] + 1] = "close"
  BY DEF Typed
<1>3. taken[c] + 1 = Len(asked[c]) /\ c \in WsClients /\ Contains(asked[c], "close")
  BY <1>2 DEF Sent, Contains
<1>4. /\ taken' \in [Clients -> Nat] /\ taken'[c] = taken[c] + 1
      /\ \A d \in Clients : d # c => taken'[d] = taken[d]
  BY DEF Typed
<1>5. Typed' /\ Sent' /\ Present'
  BY <1>3, <1>4 DEF Typed, Sent, Present, Notifier!TypeOK, Clients
<1>6. Working' /\ Talking'
  BY <1>1, <1>3, <1>4 DEF Working, Talking, Typed, Clients
<1>7. Pooled'
  BY <1>1, <1>4 DEF Pooled, Typed, Numbers, Clients
<1>8. Said'
  <2>1. \A d \in Clients, i \in Numbers : Pending(d, i) <=> Pending(d, i)'
    BY <1>1 DEF Pending, Numbers
  <2>2. \A i \in Numbers : i =< taken'[c] => i =< taken[c] \/ asked[c][i] = "close"
    BY <1>2, <1>4 DEF Typed, Numbers
  <2>3. \A i \in Numbers : i > taken'[c] => i > taken[c]
    BY <1>4 DEF Typed, Numbers
  <2>4. \A i \in Numbers : i =< taken'[c] /\ ~(i =< taken[c]) => i > taken[c]
    BY <1>4 DEF Typed, Numbers
  <2>5. QED BY <2>1, <2>2, <2>3, <2>4, <1>4 DEF Said
<1>9. Heard'
  BY <1>1 DEF Heard, BroadcastHeard, Mutating
<1> QED BY <1>5, <1>6, <1>7, <1>8, <1>9

LEMMA RegistryStep ==
  ASSUME IInv, Insert \/ Erase, UNCHANGED <<deviceVars, asked, taken, told>>
  PROVE  IInv'
<1> USE DEF IInv, deviceVars
<1>1. PICK r \in {registry \union {io.c}, registry \ {io.c}} :
        /\ EndMutation(r)
        /\ r \subseteq WsClients
        /\ io.pc \in {"insert", "erase"}
        /\ \A d \in WsClients \ r : taken[d] = Len(asked[d])
  BY DEF Insert, Erase, Working, Typed, Present
<1>2. io' = [pc |-> "idle", c |-> "nobody", n |-> 0] /\ io.n = 0 /\ registry' = r /\ UNCHANGED <<log, tasks>>
  BY <1>1 DEF EndMutation, Idle, Work, Working
<1>3. toTell' \subseteq WsClients /\ due' \subseteq due \intersect r /\ toTell' \subseteq r
  BY <1>1 DEF EndMutation
<1>4. Typed' /\ Sent' /\ Present'
  BY <1>1, <1>2, <1>3 DEF Typed, Sent, Present, Notifier!TypeOK
<1>5. Working' /\ Talking'
  BY <1>2 DEF Working, Talking, Idle, Work
<1>6. Pooled'
  BY <1>2 DEF Pooled, Typed, Numbers
<1>7. Said'
  <2>1. \A d \in Clients, i \in Numbers : Pending(d, i) <=> Pending(d, i)'
    BY <1>2 DEF Pending, Numbers
  <2>2. QED BY <2>1, <1>2 DEF Said
<1>8. Heard'
  <2>1. \A c \in due' : c \in due /\ c \notin toTell
    BY <1>1, <1>3 DEF EndMutation, Heard, Mutating
  <2>2. QED BY <2>1, <1>2 DEF Heard, BroadcastHeard, Mutating
<1> QED BY <1>4, <1>5, <1>6, <1>7, <1>8

-----------------------------------------------------------------------------
(* The requests. *)

\* A step about request n of client c, which is taken by it or was before.
LEMMA RequestStep ==
  ASSUME IInv, NEW c \in Clients, NEW n \in Numbers,
         UNCHANGED <<deviceVars, asked, registry, told, toTell, due>>,
         \/ taken' = taken /\ n =< taken[c]
         \/ n = taken[c] + 1 /\ taken' = [taken EXCEPT ![c] = @ + 1] /\ n =< Len(asked[c]),
         asked[c][n] # "close",
         Pending(c, n)' \/ log'[c][n] \in Conversations(c)[asked[c][n]],
         \A d \in Clients, i \in Numbers : d # c \/ i # n =>
           log'[d][i] = log[d][i] /\ (Pending(d, i) => Pending(d, i)'),
         log' \in [Clients -> [Numbers -> Seq(Messages)]],
         tasks' \subseteq [c : WsClients, n : Numbers],
         Mutating' => Mutating,
         Working', Talking', Pooled'
  PROVE  IInv'
<1> USE DEF IInv, deviceVars
<1>1. /\ taken' \in [Clients -> Nat]
      /\ \A d \in Clients : taken'[d] =< Len(asked[d]) /\ (taken'[d] = taken[d] \/ taken[d] < Len(asked[d]))
  <2>1. taken \in [Clients -> Nat] /\ \A d \in Clients : taken[d] =< Len(asked[d])
    BY DEF Typed
  <2>2. CASE taken' = taken
    BY <2>1, <2>2
  <2>3. CASE n = taken[c] + 1 /\ taken' = [taken EXCEPT ![c] = @ + 1] /\ n =< Len(asked[c])
    <3>1. Len(asked[c]) \in Nat /\ taken[c] < Len(asked[c])
      BY <2>1, <2>3 DEF Typed
    <3>2. \A d \in Clients : taken'[d] = IF d = c THEN n ELSE taken[d]
      BY <2>1, <2>3
    <3>3. QED BY <2>1, <2>3, <3>1, <3>2
  <2>4. QED BY <2>2, <2>3
<1>2. Typed'
  BY <1>1 DEF Typed, Notifier!TypeOK
<1>3. Sent' /\ Present'
  <2>1. Sent'
    BY DEF Sent
  <2>2. Present'
    BY <1>1 DEF Present, Typed, Clients
  <2>3. QED BY <2>1, <2>2
<1>4. Said'
  BY SaidKept
<1>5. Heard'
  BY DEF Heard, BroadcastHeard
<1> QED BY <1>2, <1>3, <1>4, <1>5

\* The io thread takes a request and is done with it.
LEMMA AnsweredAtOnce ==
  ASSUME IInv, NEW c \in Clients, NEW k \in Kind, Taking(c, k), UNCHANGED <<io, tasks, due>>,
         log' \in [Clients -> [Numbers -> Seq(Messages)]],
         log'[c][Number(c)] \in Conversations(c)[k],
         \A d \in Clients, i \in Numbers : d # c \/ i # Number(c) => log'[d][i] = log[d][i]
  PROVE  IInv'
<1> USE DEF IInv
<1>1. /\ Number(c) \in Numbers /\ Number(c) =< Len(asked[c])
      /\ asked[c][Number(c)] = k /\ asked[c][Number(c)] # "close"
  <2>1. Number(c) \in Numbers /\ Number(c) \in 1..Len(asked[c]) /\ asked[c][Number(c)] = k /\ k # "close"
    BY NextRequest
  <2>2. QED BY <2>1 DEF Typed
<1>2. io.pc = "idle" /\ io.n = 0
  BY DEF Taking, Idle, Work
<1>3. Working' /\ Talking'
  BY <1>2 DEF Working, Talking, Taking, Idle, Work
<1>4. Number(c) = taken[c] + 1 /\ taken' = [taken EXCEPT ![c] = @ + 1]
  BY DEF Taking, Number
<1>5. Pooled'
  <2>1. \A t \in tasks : t.c \in Clients /\ t.n \in Numbers /\ t.n =< taken[t.c]
    BY DEF Pooled, Typed, Clients
  <2>2. \A t \in tasks : t.n =< taken'[t.c] /\ (t.c # c \/ t.n # Number(c))
    BY <2>1, <1>4 DEF Typed, Numbers
  <2>3. QED BY <2>1, <2>2 DEF Pooled, Taking
<1>6. \A d \in Clients, i \in Numbers : Pending(d, i) <=> Pending(d, i)'
  BY DEF Pending
<1>7. UNCHANGED <<deviceVars, asked, registry, told, toTell>>
  BY DEF Taking
<1>8. Mutating' => Mutating
  BY DEF Mutating
<1>9. tasks' \subseteq [c : WsClients, n : Numbers]
  BY DEF Typed
<1>10. Pending(c, Number(c))' \/ log'[c][Number(c)] \in Conversations(c)[asked[c][Number(c)]]
  BY <1>1
<1>11. \A d \in Clients, i \in Numbers : d # c \/ i # Number(c) =>
          log'[d][i] = log[d][i] /\ (Pending(d, i) => Pending(d, i)')
  BY <1>6
<1> HIDE DEF IInv
<1> QED BY <1>1, <1>3, <1>4, <1>5, <1>7, <1>8, <1>9, <1>10, <1>11, RequestStep

LEMMA AnsweredStep ==
  ASSUME IInv, NEW c \in Clients,
         TakeGetState(c) \/ TakeUnparsed(c) \/ TakeIgnored(c)
  PROVE  IInv'
<1>1. CASE TakeGetState(c)
  <2>1. Number(c) \in Numbers /\ log[c][Number(c)] = <<>> /\ Hears(c)
    BY <1>1, NextRequest DEF TakeGetState, Kind
  <2>2. published \in Notifier!DevState
    BY DEF IInv, Typed, Notifier!TypeOK
  <2>3. StateReply(published) \in Messages /\ log' = Delivered(c, Number(c), StateReply(published))
    BY <1>1, <2>1, <2>2 DEF TakeGetState, Send, Hears, Messages
  <2>4. /\ log' \in [Clients -> [Numbers -> Seq(Messages)]]
        /\ log'[c][Number(c)] = <<StateReply(published)>>
        /\ \A d \in Clients, i \in Numbers : d # c \/ i # Number(c) => log'[d][i] = log[d][i]
    BY <2>1, <2>3, DeliveredOne, AppendToEmpty DEF IInv
  <2>5. log'[c][Number(c)] \in Conversations(c)["get_device_state"]
    BY <2>2, <2>4, ConversationsOf
  <2>6. QED BY <1>1, <2>4, <2>5, AnsweredAtOnce DEF TakeGetState, Kind
<1>2. CASE TakeUnparsed(c)
  <2>1. Number(c) \in Numbers /\ log[c][Number(c)] = <<>>
    BY <1>2, NextRequest DEF TakeUnparsed, Kind
  <2>2. PICK m \in {Error, EchoedType} : log' = Delivered(c, Number(c), m)
    BY <1>2 DEF TakeUnparsed
  <2>3. /\ log' \in [Clients -> [Numbers -> Seq(Messages)]]
        /\ log'[c][Number(c)] = <<m>>
        /\ \A d \in Clients, i \in Numbers : d # c \/ i # Number(c) => log'[d][i] = log[d][i]
    BY <2>1, <2>2, DeliveredOne, AppendToEmpty DEF IInv, Messages
  <2>4. log'[c][Number(c)] \in Conversations(c)["unparsed"]
    BY <2>2, <2>3, ConversationsOf
  <2>5. QED BY <1>2, <2>3, <2>4, AnsweredAtOnce DEF TakeUnparsed, Kind
<1>3. CASE TakeIgnored(c)
  <2>1. log[c][Number(c)] = <<>>
    BY <1>3, NextRequest DEF TakeIgnored, Kind
  <2>2. log' = log /\ log'[c][Number(c)] \in Conversations(c)["ignored"]
    BY <1>3, <2>1, ConversationsOf DEF TakeIgnored
  <2>3. QED BY <1>3, <2>2, AnsweredAtOnce DEF TakeIgnored, Kind, IInv, Typed
<1> QED BY <1>1, <1>2, <1>3

\* The io thread takes a request and keeps it in hand.
LEMMA TakenInHand ==
  ASSUME IInv, NEW c \in Clients, NEW k \in Kind, Taking(c, k), NEW n, n = Number(c), UNCHANGED <<tasks, due>>,
         NEW pc \in {"refuse", "address", "sign"}, io' = Work(pc, c, n),
         log' \in [Clients -> [Numbers -> Seq(Messages)]],
         \A d \in Clients, i \in Numbers : d # c \/ i # n => log'[d][i] = log[d][i],
         Talking'
  PROVE  IInv'
<1> USE DEF IInv
<1>1. /\ n \in Numbers /\ n =< Len(asked[c])
      /\ asked[c][n] # "close" /\ taken'[c] = n
  <2>1. /\ n \in Numbers /\ n \in 1..Len(asked[c]) /\ asked[c][n] = k
        /\ k # "close" /\ taken'[c] = n
    BY NextRequest
  <2>2. QED BY <2>1 DEF Typed
<1>2. io' = [pc |-> pc, c |-> c, n |-> n] /\ io.n = 0
  BY DEF Taking, Idle, Work
<1>3. Working'
  BY <1>1, <1>2 DEF Working, Numbers
<1>4. n = taken[c] + 1 /\ taken' = [taken EXCEPT ![c] = @ + 1]
  BY DEF Taking, Number
<1>5. Pooled'
  <2>1. \A t \in tasks : t.c \in Clients /\ t.n \in Numbers /\ t.n =< taken[t.c]
    BY DEF Pooled, Typed, Clients
  <2>2. \A t \in tasks : t.n =< taken'[t.c] /\ (t.c # c \/ t.n # n)
    BY <2>1, <1>4 DEF Typed, Numbers
  <2>3. \A t \in tasks : log'[t.c][t.n] = log[t.c][t.n]
    BY <2>1, <2>2
  <2>4. \A t \in tasks : ~(io'.c = t.c /\ io'.n = t.n)
    BY <2>2, <1>2
  <2>5. tasks' = tasks /\ asked' = asked
    BY DEF Taking
  <2>6. QED BY <2>2, <2>3, <2>4, <2>5 DEF Pooled
<1>6. Pending(c, n)'
  BY <1>2 DEF Pending
<1>7. \A d \in Clients, i \in Numbers : Pending(d, i) => Pending(d, i)'
  BY <1>2 DEF Pending, Numbers
<1>8. UNCHANGED <<deviceVars, asked, registry, told, toTell>>
  BY DEF Taking
<1>9. (Mutating' => Mutating) /\ tasks' \subseteq [c : WsClients, n : Numbers]
  BY <1>2 DEF Mutating, Typed
<1>10. \A d \in Clients, i \in Numbers : d # c \/ i # n =>
          log'[d][i] = log[d][i] /\ (Pending(d, i) => Pending(d, i)')
  BY <1>7
<1> HIDE DEF IInv
<1> QED BY <1>1, <1>3, <1>4, <1>5, <1>6, <1>8, <1>9, <1>10, RequestStep

\* The io thread gives a get_address of a WebSocket client to the pool.
LEMMA GivenToPool ==
  ASSUME IInv, NEW c \in WsClients, Taking(c, "get_address"), NEW n, n = Number(c), UNCHANGED <<io, log, due>>,
         tasks' = tasks \union {[c |-> c, n |-> n]}
  PROVE  IInv'
<1> USE DEF IInv
<1>0. c \in Clients
  BY DEF Clients
<1>1. /\ n \in Numbers /\ n =< Len(asked[c]) /\ log[c][n] = <<>>
      /\ asked[c][n] = "get_address" /\ taken'[c] = n
  <2>1. /\ n \in Numbers /\ n \in 1..Len(asked[c]) /\ log[c][n] = <<>>
        /\ asked[c][n] = "get_address" /\ taken'[c] = n
    BY <1>0, NextRequest DEF Kind
  <2>2. QED BY <2>1 DEF Typed
<1>2. io.pc = "idle" /\ io.n = 0
  BY DEF Taking, Idle, Work
<1>3. Working' /\ Talking'
  BY <1>2 DEF Working, Talking, Taking, Idle, Work
<1>4. n = taken[c] + 1 /\ taken' = [taken EXCEPT ![c] = @ + 1]
  BY DEF Taking, Number
<1>5. Pooled'
  <2>1. \A t \in tasks : t.c \in Clients /\ t.n \in Numbers /\ t.n =< taken[t.c]
    BY DEF Pooled, Typed, Clients
  <2>2. \A t \in tasks : t.n =< taken'[t.c]
    BY <2>1, <1>4 DEF Typed, Numbers
  <2>3. \A t \in tasks' : t \in tasks \/ (t.c = c /\ t.n = n)
    OBVIOUS
  <2>4. n # 0
    BY <1>1 DEF Numbers
  <2>5. QED BY <2>2, <2>3, <2>4, <1>1, <1>2 DEF Pooled, Taking, Numbers
<1>6. Pending(c, n)'
  BY DEF Pending
<1>7. UNCHANGED <<deviceVars, asked, registry, told, toTell>>
  BY DEF Taking
<1>8. (Mutating' => Mutating) /\ tasks' \subseteq [c : WsClients, n : Numbers]
  BY <1>1 DEF Mutating, Typed
<1>9. \A d \in Clients, i \in Numbers : d # c \/ i # n =>
          log'[d][i] = log[d][i] /\ (Pending(d, i) => Pending(d, i)')
  BY DEF Pending
<1>10. log' \in [Clients -> [Numbers -> Seq(Messages)]] /\ asked[c][n] # "close"
  BY <1>1 DEF Typed
<1> HIDE DEF IInv
<1> QED BY <1>0, <1>1, <1>3, <1>4, <1>5, <1>6, <1>7, <1>8, <1>9, <1>10, RequestStep

\* The request is kept in hand to be refused.
LEMMA RefuseStep ==
  ASSUME IInv, NEW c \in Clients, NEW k \in {"get_address", "sign_tx", "bad_tx"}, Taking(c, k), Refuse(c)
  PROVE  IInv'
<1>1. asked[c][Number(c)] = k /\ log[c][Number(c)] = <<>> /\ Hears(c)
  BY NextRequest DEF Kind
<1>2. io' = Work("refuse", c, Number(c)) /\ UNCHANGED <<log, tasks, due, asked, registry>>
  BY DEF Refuse, Taking
<1>3. Talking'
  BY <1>1, <1>2 DEF Talking, Work, Hears
<1> QED BY <1>2, <1>3, TakenInHand DEF Kind, IInv, Typed

LEMMA TakeGetAddressStep ==
  ASSUME IInv, NEW c \in Clients, TakeGetAddress(c)
  PROVE  IInv'
<1>1. Taking(c, "get_address")
  BY DEF TakeGetAddress
<1>2. CASE Refuse(c)
  BY <1>1, <1>2, RefuseStep
<1>3. CASE StartAddress(c) /\ c \in WsClients
  BY <1>1, <1>3, GivenToPool DEF StartAddress
<1>4. CASE StartAddress(c) /\ c \notin WsClients
  <2>1. asked[c][Number(c)] = "get_address" /\ log[c][Number(c)] = <<>>
    BY <1>1, NextRequest DEF Kind
  <2>2. io' = Work("address", c, Number(c)) /\ UNCHANGED <<log, tasks, due, asked, registry>>
    BY <1>1, <1>4 DEF StartAddress, Taking
  <2>3. Talking'
    BY <1>4, <2>1, <2>2 DEF Talking, Work, Clients
  <2>4. QED BY <1>1, <2>2, <2>3, TakenInHand DEF Kind, IInv, Typed
<1> QED BY <1>2, <1>3, <1>4 DEF TakeGetAddress

LEMMA TakeSignStep ==
  ASSUME IInv, NEW c \in Clients, TakeSign(c)
  PROVE  IInv'
<1>1. Taking(c, "sign_tx")
  BY DEF TakeSign
<1>2. CASE Refuse(c)
  BY <1>1, <1>2, RefuseStep
<1>3. CASE StartSign(c)
  <2>1. /\ Number(c) \in Numbers /\ asked[c][Number(c)] = "sign_tx" /\ log[c][Number(c)] = <<>>
        /\ Hears(c)
    BY <1>1, NextRequest DEF Kind
  <2>2. io' = Work("sign", c, Number(c)) /\ UNCHANGED <<tasks, due, asked, registry>>
    BY <1>1, <1>3 DEF StartSign, Taking
  <2>3. log' = IF c \in WsClients THEN Delivered(c, Number(c), Required) ELSE log
    BY <1>3, <2>1 DEF StartSign, Send, Hears
  <2>4. /\ log' \in [Clients -> [Numbers -> Seq(Messages)]]
        /\ log'[c][Number(c)] = IF c \in WsClients THEN <<Required>> ELSE <<>>
        /\ \A d \in Clients, i \in Numbers : d # c \/ i # Number(c) => log'[d][i] = log[d][i]
    <3>1. CASE c \in WsClients
      BY <3>1, <2>1, <2>3, DeliveredOne, AppendToEmpty DEF IInv, Messages
    <3>2. CASE c \notin WsClients
      BY <3>2, <2>1, <2>3 DEF IInv, Typed
    <3>3. QED BY <3>1, <3>2
  <2>5. Talking'
    BY <2>1, <2>2, <2>4 DEF Talking, Work, Hears
  <2>6. QED BY <1>1, <2>2, <2>4, <2>5, TakenInHand DEF Kind
<1> QED BY <1>2, <1>3 DEF TakeSign

LEMMA TakeBadTxStep ==
  ASSUME IInv, NEW c \in Clients, TakeBadTx(c)
  PROVE  IInv'
<1>1. Taking(c, "bad_tx")
  BY DEF TakeBadTx
<1>2. CASE Refuse(c)
  BY <1>1, <1>2, RefuseStep
<1>3. CASE ~Refuse(c)
  <2>1. Number(c) \in Numbers /\ log[c][Number(c)] = <<>> /\ Hears(c)
    BY <1>1, NextRequest DEF Kind
  <2>2. log' = Delivered(c, Number(c), Error) /\ UNCHANGED <<io, tasks, due>>
    BY <1>3, <2>1 DEF TakeBadTx, Send, Hears
  <2>3. /\ log' \in [Clients -> [Numbers -> Seq(Messages)]]
        /\ log'[c][Number(c)] = <<Error>>
        /\ \A d \in Clients, i \in Numbers : d # c \/ i # Number(c) => log'[d][i] = log[d][i]
    <3>1. Error \in Messages
      BY DEF Messages
    <3>2. QED BY <2>1, <2>2, <3>1, DeliveredOne, AppendToEmpty DEF IInv
  <2>4. log'[c][Number(c)] \in Conversations(c)["bad_tx"]
    BY <2>3, ConversationsOf
  <2>5. QED BY <1>1, <2>2, <2>3, <2>4, AnsweredAtOnce DEF Kind
<1> QED BY <1>2, <1>3

\* The io thread goes on with the request it has in hand.
LEMMA GoesOn ==
  ASSUME IInv, io.pc \in {"refuse", "address", "sign", "signed"},
         NEW c, NEW n, c = io.c, n = io.n,
         UNCHANGED <<deviceVars, asked, taken, registry, told, toTell, due, tasks>>,
         log' \in [Clients -> [Numbers -> Seq(Messages)]],
         \A d \in Clients, i \in Numbers : d # c \/ i # n => log'[d][i] = log[d][i],
         \/ io' = Idle /\ log'[c][n] \in Conversations(c)[asked[c][n]]
         \/ io' \in {Work("signed", c, n), Work("hung", c, n)} /\ Talking'
  PROVE  IInv'
<1> USE DEF IInv
<1>1. c \in Clients /\ n \in Numbers /\ n =< taken[c] /\ asked[c][n] # "close"
  BY DEF Working, Talking
<1>2. Working' /\ Talking'
  <2>1. CASE io' = Idle
    BY <2>1 DEF Working, Talking, Idle, Work
  <2>2. CASE io' \in {Work("signed", c, n), Work("hung", c, n)} /\ Talking'
    BY <2>2, <1>1 DEF Working, Work, Numbers
  <2>3. QED BY <2>1, <2>2
<1>3. Pooled'
  <2>1. \A t \in tasks : t.c \in Clients /\ t.n \in Numbers /\ (t.c # c \/ t.n # n)
    BY DEF Pooled, Typed, Clients
  <2>2. \A t \in tasks : log'[t.c][t.n] = log[t.c][t.n]
    BY <2>1
  <2>3. \A t \in tasks : ~(io'.c = t.c /\ io'.n = t.n)
    BY <2>1 DEF Idle, Work, Numbers
  <2>4. QED BY <2>2, <2>3 DEF Pooled
<1>4. \A d \in Clients, i \in Numbers : d # c \/ i # n =>
          log'[d][i] = log[d][i] /\ (Pending(d, i) => Pending(d, i)')
  BY DEF Pending
<1>5. Pending(c, n)' \/ log'[c][n] \in Conversations(c)[asked[c][n]]
  BY DEF Pending, Work
<1>6. (Mutating' => Mutating) /\ tasks' \subseteq [c : WsClients, n : Numbers]
  BY <1>2 DEF Mutating, Idle, Work, Typed
<1>7. UNCHANGED <<deviceVars, asked, registry, told, toTell, due>> /\ taken' = taken
  OBVIOUS
<1> HIDE DEF IInv
<1> QED BY <1>1, <1>2, <1>3, <1>4, <1>5, <1>6, <1>7, RequestStep

\* What it says reaches the client, which is registered or waits for its response.
LEMMA SaidInHand ==
  ASSUME IInv, NEW c \in Clients, NEW n \in Numbers, NEW m \in Messages, Hears(c), Send(c, n, m)
  PROVE  /\ log' \in [Clients -> [Numbers -> Seq(Messages)]]
         /\ log'[c][n] = Append(log[c][n], m)
         /\ \A d \in Clients, i \in Numbers : d # c \/ i # n => log'[d][i] = log[d][i]
BY DeliveredOne DEF Send, Hears, IInv

LEMMA InHand ==
  ASSUME IInv, io.pc \in {"refuse", "address", "sign", "signed", "hung"}
  PROVE  io.c \in Clients /\ io.n \in Numbers /\ Hears(io.c)
BY DEF IInv, Working, Talking, Hears

LEMMA SendRefusalStep ==
  ASSUME IInv, SendRefusal, UNCHANGED <<deviceVars, asked, taken, told>>
  PROVE  IInv'
<1> DEFINE c == io.c
           n == io.n
<1>1. c \in Clients /\ n \in Numbers /\ Hears(c)
  BY InHand DEF SendRefusal
<1>2. log[c][n] = <<>> /\ asked[c][n] \in {"get_address", "sign_tx", "bad_tx"}
  BY DEF IInv, Talking, SendRefusal
<1>3. published \in Notifier!DevState /\ Refusal(published) \in Messages
  BY DEF IInv, Typed, Notifier!TypeOK, Messages
<1>4. /\ log' \in [Clients -> [Numbers -> Seq(Messages)]]
      /\ log'[c][n] = <<Refusal(published)>>
      /\ \A d \in Clients, i \in Numbers : d # c \/ i # n => log'[d][i] = log[d][i]
  BY <1>1, <1>2, <1>3, SaidInHand, AppendToEmpty DEF SendRefusal
<1>5. log'[c][n] \in Conversations(c)[asked[c][n]]
  <2>1. \A k \in {"get_address", "sign_tx", "bad_tx"} : <<Refusal(published)>> \in Conversations(c)[k]
    BY <1>3, ConversationsOf
  <2>2. QED BY <2>1, <1>2, <1>4
<1> QED BY <1>4, <1>5, GoesOn DEF SendRefusal

LEMMA SendSignatureStep ==
  ASSUME IInv, SendSignature, UNCHANGED <<deviceVars, asked, taken, told>>
  PROVE  IInv'
<1> DEFINE c == io.c
           n == io.n
<1>1. c \in Clients /\ n \in Numbers /\ Hears(c)
  BY InHand DEF SendSignature
<1>2. log[c][n] = <<Required, Success>> /\ asked[c][n] = "sign_tx" /\ c \in WsClients
  BY DEF IInv, Talking, Typed, SendSignature
<1>3. Append(<<Required, Success>>, Signature) = <<Required, Success, Signature>>
  BY AppendToTwo DEF Messages
<1>4. /\ log' \in [Clients -> [Numbers -> Seq(Messages)]]
      /\ log'[c][n] = Append(log[c][n], Signature)
      /\ \A d \in Clients, i \in Numbers : d # c \/ i # n => log'[d][i] = log[d][i]
  <2>1. Signature \in Messages /\ Send(c, n, Signature)
    BY DEF Messages, SendSignature
  <2>2. QED BY <1>1, <2>1, SaidInHand
<1>5. log'[c][n] \in Conversations(c)[asked[c][n]]
  <2>1. <<Required, Success, Signature>> \in Conversations(c)["sign_tx"]
    BY <1>2, ConversationsOf
  <2>2. QED BY <2>1, <1>2, <1>3, <1>4
<1>6. /\ log' \in [Clients -> [Numbers -> Seq(Messages)]]
      /\ \A d \in Clients, i \in Numbers : d # c \/ i # n => log'[d][i] = log[d][i]
  BY <1>4
<1>7. /\ io.pc \in {"refuse", "address", "sign", "signed"} /\ io' = Idle
      /\ UNCHANGED <<deviceVars, asked, taken, registry, told, toTell, due, tasks>>
  BY DEF SendSignature
<1> QED BY <1>5, <1>6, <1>7, GoesOn

LEMMA AddressEndsStep ==
  ASSUME IInv, AddressEnds, UNCHANGED <<deviceVars, asked, taken, told>>
  PROVE  IInv'
<1> DEFINE c == io.c
           n == io.n
<1>1. c \in Clients /\ n \in Numbers /\ Hears(c)
  BY InHand DEF AddressEnds
<1>2. log[c][n] = <<>> /\ asked[c][n] = "get_address" /\ c \in HttpClients
  BY DEF IInv, Talking, AddressEnds
<1>3. ASSUME NEW m \in {Address, Error}, Send(c, n, m), io' = Idle
      PROVE  IInv'
  <2>1. m \in Messages
    BY DEF Messages
  <2>2. /\ log' \in [Clients -> [Numbers -> Seq(Messages)]]
        /\ log'[c][n] = <<m>>
        /\ \A d \in Clients, i \in Numbers : d # c \/ i # n => log'[d][i] = log[d][i]
    BY <1>1, <1>2, <1>3, <2>1, SaidInHand, AppendToEmpty
  <2>3. log'[c][n] \in Conversations(c)[asked[c][n]]
    BY <1>2, <2>2, ConversationsOf
  <2>4. QED BY <1>3, <2>2, <2>3, GoesOn DEF AddressEnds
<1>4. CASE io' = Work("hung", c, n) /\ UNCHANGED log
  <2>1. Talking'
    BY <1>2, <1>4 DEF Talking, Work
  <2>2. QED BY <1>4, <2>1, GoesOn DEF AddressEnds, IInv, Typed
<1> QED BY <1>3, <1>4 DEF AddressEnds

LEMMA SignEndsStep ==
  ASSUME IInv, SignEnds
  PROVE  IInv'
<1> DEFINE c == io.c
           n == io.n
<1>1. c \in Clients /\ n \in Numbers /\ Hears(c)
  BY InHand DEF SignEnds
<1>2. asked[c][n] = "sign_tx" /\ log[c][n] = IF c \in WsClients THEN <<Required>> ELSE <<>>
  BY DEF IInv, Talking, SignEnds
<1>3. \A m \in {Success, Signature, Rejected, Error} : m \in Messages
  BY DEF Messages
<1>4. ASSUME NEW m \in {Success, Signature, Rejected, Error}, Send(c, n, m)
      PROVE  /\ log' \in [Clients -> [Numbers -> Seq(Messages)]]
             /\ log'[c][n] = IF c \in WsClients THEN <<Required, m>> ELSE <<m>>
             /\ \A d \in Clients, i \in Numbers : d # c \/ i # n => log'[d][i] = log[d][i]
  <2>1. Append(<<Required>>, m) = <<Required, m>>
    BY <1>3, AppendToOne DEF Messages
  <2>2. /\ log' \in [Clients -> [Numbers -> Seq(Messages)]]
        /\ log'[c][n] = Append(log[c][n], m)
        /\ \A d \in Clients, i \in Numbers : d # c \/ i # n => log'[d][i] = log[d][i]
    BY <1>1, <1>3, <1>4, SaidInHand
  <2>3. log'[c][n] = IF c \in WsClients THEN <<Required, m>> ELSE <<m>>
    <3>1. CASE c \in WsClients
      BY <3>1, <1>2, <2>1, <2>2
    <3>2. CASE c \notin WsClients
      BY <3>2, <1>2, <2>2, AppendToEmpty
    <3>3. QED BY <3>1, <3>2
  <2>4. QED BY <2>2, <2>3
<1>5. CASE c \in WsClients /\ Send(c, n, Success) /\ io' = Work("signed", c, n)
  <2>1. log'[c][n] = <<Required, Success>> /\ c \in registry
    BY <1>1, <1>4, <1>5, ClientsAssumption DEF Hears
  <2>2. Talking'
    BY <1>2, <1>5, <2>1 DEF Talking, Work, SignEnds
  <2>3. QED BY <1>4, <1>5, <2>2, GoesOn DEF SignEnds
<1>6. CASE c \in HttpClients /\ Send(c, n, Signature) /\ io' = Idle
  <2>1. log'[c][n] \in Conversations(c)[asked[c][n]]
    BY <1>2, <1>4, <1>6, ConversationsOf, ClientsAssumption
  <2>2. QED BY <1>4, <1>6, <2>1, GoesOn DEF SignEnds
<1>7. ASSUME NEW m \in {Rejected, Error}, Send(c, n, m), io' = Idle
      PROVE  IInv'
  <2>1. log'[c][n] \in Conversations(c)[asked[c][n]]
    BY <1>2, <1>4, <1>7, ConversationsOf
  <2>2. QED BY <1>4, <1>7, <2>1, GoesOn DEF SignEnds
<1> QED BY <1>5, <1>6, <1>7 DEF SignEnds

\* A get_address on the pool ends; it is not the request the io thread has in hand.
LEMMA FinishTaskStep ==
  ASSUME IInv, NEW t \in tasks, FinishTask(t)
  PROVE  IInv'
<1> DEFINE c == t.c
           n == t.n
<1>1. /\ c \in WsClients /\ c \in Clients /\ n \in Numbers /\ n =< taken[c]
      /\ asked[c][n] = "get_address" /\ log[c][n] = <<>> /\ t = [c |-> c, n |-> n]
      /\ ~(io.c = c /\ io.n = n)
  BY DEF IInv, Typed, Pooled, Clients
<1>2. UNCHANGED <<deviceVars, asked, taken, registry, io, told, toTell, due>> /\ tasks' = tasks \ {t}
  BY DEF FinishTask, PoolTask, uiVars
<1>3. \/ log' = log
      \/ \E m \in {Address, Error} : log' = Delivered(c, n, m)
  BY DEF FinishTask, PoolTask, PoolSends
<1>4. /\ log' \in [Clients -> [Numbers -> Seq(Messages)]]
      /\ log'[c][n] \in {<<>>, <<Address>>, <<Error>>}
      /\ \A d \in Clients, i \in Numbers : d # c \/ i # n => log'[d][i] = log[d][i]
  <2>1. CASE log' = log
    BY <1>1, <2>1 DEF IInv, Typed
  <2>2. CASE log' # log
    <3>1. PICK m \in {Address, Error} : log' = Delivered(c, n, m)
      BY <1>3, <2>2
    <3>2. m \in Messages
      BY DEF Messages
    <3>3. /\ log' \in [Clients -> [Numbers -> Seq(Messages)]]
          /\ log'[c][n] = Append(log[c][n], m)
          /\ \A d \in Clients, i \in Numbers : d # c \/ i # n => log'[d][i] = log[d][i]
      BY <1>1, <3>1, <3>2, DeliveredOne DEF IInv
    <3>4. log'[c][n] = <<m>>
      BY <1>1, <3>3, AppendToEmpty
    <3>5. QED BY <3>3, <3>4
  <2>3. QED BY <2>1, <2>2
<1>5. log'[c][n] \in Conversations(c)[asked[c][n]]
  BY <1>1, <1>4, ConversationsOf
<1>6. Working'
  BY <1>2 DEF IInv, Working
<1>7. Talking'
  <2>1. io.pc \in {"refuse", "address", "sign", "signed", "hung"} =>
          log'[io.c][io.n] = log[io.c][io.n]
    BY <1>1, <1>4, InHand
  <2>2. QED BY <1>2, <2>1 DEF IInv, Talking, Hears
<1>8. Pooled'
  <2>1. \A u \in tasks' : u \in tasks /\ (u.c # c \/ u.n # n) /\ u.c \in Clients /\ u.n \in Numbers
    BY <1>1, <1>2 DEF IInv, Typed, Clients
  <2>2. \A u \in tasks' : log'[u.c][u.n] = log[u.c][u.n]
    BY <1>4, <2>1
  <2>3. QED BY <1>2, <2>1, <2>2 DEF IInv, Pooled
<1>9. \A d \in Clients, i \in Numbers : d # c \/ i # n => (Pending(d, i) => Pending(d, i)')
  BY <1>1, <1>2 DEF Pending
<1>10. (Mutating' => Mutating) /\ tasks' \subseteq [c : WsClients, n : Numbers]
  BY <1>2 DEF IInv, Typed, Mutating
<1>11. \A d \in Clients, i \in Numbers : d # c \/ i # n =>
         log'[d][i] = log[d][i] /\ (Pending(d, i) => Pending(d, i)')
  BY <1>4, <1>9
<1>12. asked[c][n] # "close"
  BY <1>1
<1> QED BY <1>1, <1>2, <1>4, <1>5, <1>6, <1>7, <1>8, <1>10, <1>11, <1>12, RequestStep

-----------------------------------------------------------------------------
(* The theorems. *)

LEMMA IInvStep == IInv /\ [Next]_vars => IInv'
<1> SUFFICES ASSUME IInv, [Next]_vars PROVE IInv'
  OBVIOUS
<1>1. ASSUME NEW c \in Clients, NEW k \in Kinds, ClientSends(c, k) PROVE IInv'
  BY <1>1, ClientSendsStep
<1>2. ASSUME NEW c \in WsClients, ClientCloses(c) \/ Accept(c) \/ Tell(c) PROVE IInv'
  BY <1>2, ClientClosesStep, AcceptStep, TellStep
<1>3. ASSUME NEW c \in Clients, Take(c) PROVE IInv'
  BY <1>3, TakeCloseStep, AnsweredStep, TakeGetAddressStep, TakeSignStep, TakeBadTxStep DEF Take
<1>4. CASE Continue
  BY <1>4, RegistryStep, SendRefusalStep, SendSignatureStep, AddressEndsStep DEF Continue
<1>5. CASE SignEnds
  BY <1>5, SignEndsStep
<1>6. ASSUME NEW t \in tasks, FinishTask(t) PROVE IInv'
  BY <1>6, FinishTaskStep
<1>7. CASE Notify
  BY <1>7, NotifyStep
<1>8. CASE ConsoleSatisfied \/ \E s \in States : Publish(s)
  BY <1>8, DeviceStep
<1>9. CASE UNCHANGED vars
  <2>1. Notifier!TypeOK' /\ Heard'
    BY <1>9 DEF IInv, Typed, Notifier!TypeOK, Heard, BroadcastHeard, Mutating, vars, deviceVars, uiVars
  <2>2. QED BY <1>9, <2>1, RequestsUntouched DEF IInv, Typed, vars, uiVars
<1> QED BY <1>1, <1>2, <1>3, <1>4, <1>5, <1>6, <1>7, <1>8, <1>9 DEF Next

LEMMA Invariance == SafeSpec => []IInv
BY InitIInv, IInvStep, PTL DEF SafeSpec

\* Every variable keeps its type, only WebSocket requests run on the pool and no
\* request is worked on in two places (handleGetAddress, the io thread's handlers).
THEOREM TypeCorrect == SafeSpec => []TypeOK
<1>1. IInv => TypeOK
  <2> SUFFICES ASSUME IInv PROVE TypeOK
    OBVIOUS
  <2> USE DEF IInv
  <2>1. \A c \in Clients : taken[c] \in 0..Len(asked[c])
    BY DEF Typed
  <2>2. io.pc # "idle" => io.c \in Clients /\ io.n \in 0..taken[io.c]
    BY DEF Working, Typed
  <2>3. [c |-> io.c, n |-> io.n] \notin tasks
    BY DEF Pooled
  <2>4. io.pc \in {"idle", "insert", "erase", "refuse", "address", "sign", "signed", "hung"}
    BY DEF Working
  <2>5. QED BY <2>1, <2>2, <2>3, <2>4 DEF TypeOK, Typed
<1> QED BY <1>1, Invariance, PTL

\* Whatever the pool, the UI thread and the other clients do, each request gets
\* one of its conversations (handleGetAddress, handleSignTx, sendMessage).
THEOREM ConversationsKept == SafeSpec => []ConversationKept
<1>1. IInv => ConversationKept
  <2> SUFFICES ASSUME IInv, NEW c \in Clients, NEW n \in 1..taken[c], asked[c][n] # "close"
               PROVE  \E full \in Conversations(c)[asked[c][n]] :
                        IF Pending(c, n) THEN IsPrefix(log[c][n], full) ELSE log[c][n] = full
    BY DEF ConversationKept
  <2> USE DEF IInv
  <2>1. n \in Numbers /\ n =< taken[c]
    BY DEF Typed, Sent
  <2>2. CASE ~Pending(c, n)
    BY <2>1, <2>2 DEF Said
  <2>3. CASE [c |-> c, n |-> n] \in tasks
    <3>1. asked[c][n] = "get_address" /\ log[c][n] = <<>>
      BY <2>3 DEF Pooled
    <3>2. <<Address>> \in Conversations(c)["get_address"] /\ IsPrefix(<<>>, <<Address>>)
      BY ConversationsOf DEF IsPrefix
    <3>3. QED BY <2>3, <3>1, <3>2 DEF Pending
  <2>4. CASE io.c = c /\ io.n = n
    <3>1. io.pc \in {"refuse", "address", "hung", "sign", "signed"}
      BY <2>1, <2>4 DEF Working, Idle, Work, Numbers
    <3>2. CASE io.pc = "refuse"
      <4>1. "APP_OPENED" \in Notifier!DevState
        BY DEF Notifier!DevState
      <4>2. \A k \in {"get_address", "sign_tx", "bad_tx"} : <<Refusal("APP_OPENED")>> \in Conversations(c)[k]
        BY <4>1, ConversationsOf
      <4>3. IsPrefix(<<>>, <<Refusal("APP_OPENED")>>)
        BY DEF IsPrefix
      <4>4. QED BY <2>4, <3>2, <4>2, <4>3 DEF Talking, Pending
    <3>3. CASE io.pc \in {"address", "hung"}
      <4>1. <<Address>> \in Conversations(c)["get_address"] /\ IsPrefix(<<>>, <<Address>>)
        BY ConversationsOf DEF IsPrefix
      <4>2. QED BY <2>4, <3>3, <4>1 DEF Talking, Pending
    <3>4. CASE io.pc \in {"sign", "signed"} /\ c \in WsClients
      <4>1. <<Required, Success, Signature>> \in Conversations(c)["sign_tx"]
        BY <3>4, ConversationsOf
      <4>2. /\ IsPrefix(<<Required>>, <<Required, Success, Signature>>)
            /\ IsPrefix(<<Required, Success>>, <<Required, Success, Signature>>)
        BY DEF IsPrefix
      <4>3. QED BY <2>4, <3>4, <4>1, <4>2 DEF Talking, Pending
    <3>5. CASE io.pc \in {"sign", "signed"} /\ c \notin WsClients
      <4>1. <<Signature>> \in Conversations(c)["sign_tx"] /\ IsPrefix(<<>>, <<Signature>>)
        BY <3>5, ConversationsOf DEF IsPrefix
      <4>2. QED BY <2>4, <3>5, <4>1 DEF Talking, Typed, Pending
    <3>6. QED BY <3>1, <3>2, <3>3, <3>4, <3>5
  <2>5. QED BY <2>2, <2>3, <2>4 DEF Pending
<1> QED BY <1>1, Invariance, PTL

\* One transaction is on the Ledger at a time: signTx holds the io thread.
THEOREM OneTransaction == SafeSpec => []OneDialogue
<1>1. IInv => OneDialogue
  <2> SUFFICES ASSUME IInv, NEW r \in Awaiting PROVE r = <<io.c, io.n>>
    BY DEF OneDialogue
  <2> USE DEF IInv
  <2>1. PICK c \in Clients, n \in Numbers :
          r = <<c, n>> /\ log[c][n] # <<>> /\ Last(log[c][n]) = Required
    BY DEF Awaiting
  <2>2. n =< taken[c] /\ asked[c][n] # "close"
    BY <2>1 DEF Said, Typed, Numbers
  <2>3. asked[c][n] \in Kind
    BY <2>2 DEF Typed, Numbers
  <2>4. Pending(c, n)
    BY <2>1, <2>2, <2>3, NobodyLeftAsked DEF Said
  <2>5. [c |-> c, n |-> n] \notin tasks
    BY <2>1 DEF Pooled
  <2>6. QED BY <2>1, <2>4, <2>5 DEF Pending
<1> QED BY <1>1, Invariance, PTL

\* An iteration of run()'s lambda over m_registry that nobody disturbs reaches
\* everybody with the state of its signal.
THEOREM BroadcastsHeard == SafeSpec => []BroadcastHeard
<1>1. IInv => BroadcastHeard
  BY DEF IInv, Heard
<1> QED BY <1>1, Invariance, PTL

\* What is sent to others leaves a client's log alone; so does what is sent to
\* itself when it is not registered.
LEMMA NotSent ==
  ASSUME Typed, NEW c \in WsClients, c \notin registry, NEW d \in Clients, NEW n, NEW m,
         \/ Send(d, n, m)
         \/ d # c /\ log' = Delivered(d, n, m)
         \/ PoolSends(d, n, m)
  PROVE  log'[c] = log[c]
<1>1. d # c => Delivered(d, n, m)[c] = log[c]
  BY DEF Delivered, Typed, Clients
<1>2. c \notin HttpClients
  BY ClientsAssumption
<1> QED BY <1>1, <1>2 DEF Send, PoolSends, Found

\* Nothing is sent to a client that closeHandler has erased, by no thread.
THEOREM SilentAfterClose == SafeSpec => NothingAfterClose
<1>1. ASSUME IInv, [Next]_vars, NEW c \in WsClients, c \notin registry
      PROVE  log'[c] = log[c] /\ told'[c] = told[c]
  <2> USE <1>1 DEF IInv
  <2>1. CASE UNCHANGED vars
    BY <2>1 DEF vars, uiVars
  <2>2. ASSUME NEW d \in Clients, NEW k \in Kinds, ClientSends(d, k)
        PROVE  log'[c] = log[c] /\ told'[c] = told[c]
    BY <2>2 DEF ClientSends, uiVars
  <2>3. ASSUME NEW d \in WsClients, ClientCloses(d) \/ Accept(d) \/ Tell(d)
        PROVE  log'[c] = log[c] /\ told'[c] = told[c]
    BY <2>3 DEF ClientCloses, Accept, Tell, Found, Typed, uiVars
  <2>4. ASSUME NEW d \in Clients, Take(d)
        PROVE  log'[c] = log[c] /\ told'[c] = told[c]
    <3>1. PICK k : Taking(d, k)
      BY <2>4 DEF Take, TakeClose, TakeGetState, TakeGetAddress, TakeSign, TakeBadTx, TakeUnparsed,
                  TakeIgnored
    <3>2. told' = told /\ d # c
      BY <3>1 DEF Taking, Present, Typed
    <3>3. CASE UNCHANGED log
      BY <3>2, <3>3
    <3>4. ASSUME NEW n, NEW m, Send(d, n, m) \/ log' = Delivered(d, n, m)
          PROVE  log'[c] = log[c]
      BY <3>2, <3>4, NotSent
    <3>5. UNCHANGED log \/ \E n, m : Send(d, n, m) \/ log' = Delivered(d, n, m)
      BY <2>4 DEF Take, TakeClose, TakeGetState, TakeGetAddress, TakeSign, TakeBadTx, TakeUnparsed,
                  TakeIgnored, Refuse, StartAddress, StartSign
    <3>6. QED BY <3>2, <3>3, <3>4, <3>5
  <2>5. CASE Continue \/ SignEnds
    <3>1. told' = told
      BY <2>5 DEF Continue, SignEnds
    <3>2. UNCHANGED log \/ (io.c \in Clients /\ \E n, m : Send(io.c, n, m))
      BY <2>5 DEF Continue, SignEnds, Insert, Erase, EndMutation, SendRefusal, SendSignature, AddressEnds,
                  Working
    <3>3. QED BY <3>1, <3>2, NotSent
  <2>6. ASSUME NEW t \in tasks, FinishTask(t)
        PROVE  log'[c] = log[c] /\ told'[c] = told[c]
    <3>1. told' = told /\ t.c \in Clients
      BY <2>6 DEF FinishTask, PoolTask, uiVars, Typed, Clients
    <3>2. UNCHANGED log \/ \E m : PoolSends(t.c, t.n, m)
      BY <2>6 DEF FinishTask, PoolTask
    <3>3. QED BY <3>1, <3>2, NotSent
  <2>7. CASE Notify \/ ConsoleSatisfied \/ \E s \in States : Publish(s)
    BY <2>7 DEF Notify, ConsoleSatisfied, Publish, uiVars
  <2>8. QED BY <2>1, <2>2, <2>3, <2>4, <2>5, <2>6, <2>7 DEF Next
<1>2. IInv /\ [Next]_vars =>
        \A c \in WsClients : c \notin registry => log'[c] = log[c] /\ told'[c] = told[c]
  BY <1>1
<1> QED BY <1>2, Invariance, PTL DEF SafeSpec, NothingAfterClose
==============================================================================
