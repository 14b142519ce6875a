---------------------------- MODULE Transactions -----------------------------
(***************************************************************************)
(* ConsoleApp with one of the tabs a transaction is made in: TabSend, or a *)
(* form of TabExchange.  The answers of ConsoleApp are handled by the tab  *)
(* in the same step, its slots being connected directly.  Dialogs are      *)
(* modal: while one is open the user does nothing else, the answers come.  *)
(***************************************************************************)
EXTENDS TabSend, ExchangeForm

vars == <<appVars, tabVars, send, exchangeVars>>

Init ==
  /\ AppInit /\ TabInit
  /\ IF tab = "send" THEN SendInit /\ form = None /\ asked = EmptyBag /\ crashed = "no"
                     ELSE ExchangeInit /\ send = None

\* The calls are not counted: an answer of the explorer or the gate may come at
\* any time.
AppStep ==
  \/ \E a \in Addresses : AddressResolved(a)
  \/ \E list \in CoinLists : CoinListUpdated(list)

Next ==
  /\ crashed = "no"
  /\ \/ AppStep /\ UNCHANGED <<tabVars, send, exchangeVars>>
     \/ tab = "send" /\ SendStep /\ UNCHANGED exchangeVars
     \/ tab # "send" /\ ExchangeStep /\ UNCHANGED send

\* Calls end, with an answer or an error, and so does signTx.
Progress ==
  IF tab = "send" THEN SendProgress /\ UNCHANGED exchangeVars
  ELSE crashed = "no" /\ ExchangeProgress /\ UNCHANGED send

Spec == Init /\ [][Next]_vars /\ WF_vars(Progress)

-----------------------------------------------------------------------------
StagesOK ==
  /\ stage \in Stages /\ since \subseteq {"balance", "initData", "estimate"}
  /\ (stage = "edit") = (shown = Absent)
  /\ stage \in {"sign", "send", "sent", "refused"} => tx # Absent
  /\ stage \in {"edit", "dialog", "initData"} => tx = Absent

SendOK ==
  /\ send.data \in [SendFields -> UNION {SendTexts[f] : f \in SendFields}]
  /\ send.submit = AllValid(send)
  /\ \A f \in SendFields : send.valid[f] /\ Required(f) => send.data[f] = send.text[f] /\ send.text[f] # Part

ExchangeOK == form.submit = AllValid(form) /\ crashed \in {"no", "no coin", "no route"}

TypeOK == AppTypeOK /\ StagesOK /\ (tab = "send" => SendOK) /\ (tab # "send" => ExchangeOK)

\* What is signed is what the user confirmed.  The answers that may change it
\* while the dialog is open or the gate is asked: a balance resets the coin that
\* is sent and the amount of "sell all", an estimate the way of an exchange.
SignedAsConfirmed ==
  tx # Absent =>
    IF tx.type = "send"
      THEN /\ tx.amount = shown.amount /\ tx.to = shown.to /\ tx.payload = shown.payload
           /\ "balance" \notin since => tx.coin = shown.coin
           /\ shown.fee \in {shown.payload, "", "loading"}
      ELSE /\ tx.amount = shown.amount \/ (tx.type = "sellAll" /\ "balance" \in since)
           /\ tx.type # "sellAll" => tx.limit = (IF shown.limit = "" THEN Limit ELSE shown.limit)
           /\ "estimate" \notin since =>
                tx.via = shown.via /\ (tx.via = "pool" => tx.route = shown.ends)

\* An exchange goes from the coin to the coin the user confirmed, unless it was
\* submitted when the last estimate asked for had not come, or an older one had
\* come after it: then it goes through the pools of another pair.
RouteExplained ==
  tx # Absent /\ tx.type # "send" /\ shown.sure /\ "estimate" \notin since =>
    tx.route = <<shown.from, shown.to>>

\* The fee is paid in the coin the gas list showed, if it was chosen there since
\* the last balance came; in TabSend not for its first entry, and not when a
\* pool token stands before the coin in the balance.
GasExplained ==
  tx # Absent /\ "balance" \notin since =>
    IF tx.type = "send"
      THEN send.gasIdx > 0 /\ (\A i \in 1..send.gasIdx + 1 : ~balances.items[i].pool) => tx.gas = shown.gas
      ELSE form.picked => tx.gas = shown.gas

\* The exception that ends the program when a form becomes valid has one cause: a
\* coin that was typed before it was loaded, and is then chosen in the completer.
CrashExplained ==
  crashed = "no coin" =>
    \E f \in {"coin_to_buy", "coin_to_sell"} : form.data[f] = "" /\ HasCoin(form.text[f])

\* A confirmed transaction ends with a result on the screen.
SendingEnds == stage \in Sending ~> stage \in Results
==============================================================================
