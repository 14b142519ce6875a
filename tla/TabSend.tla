------------------------------ MODULE TabSend --------------------------------
(***************************************************************************)
(* TabSend: sends an amount of one of the owned coins to an address.  The  *)
(* two drop-downs are filled from the balance, the second without the pool *)
(* tokens, and both are read by their index.                               *)
(***************************************************************************)
EXTENDS TabBase

VARIABLE send  \* the tab's form, the accounts chosen and the fee label

Share == "share"  \* 25%, 50% or 75% of an amount

SendFields == {"recipient", "amount", "payload"}
SendTexts == [recipient |-> {"", Part, "Mx"}, amount |-> {"", Part, Share} \cup Amounts,
              payload |-> {"", "text"}]

SendInit ==
  send = [text |-> Blank(SendFields), data |-> Blank(SendFields), valid |-> OptionalValid(SendFields),
          submit |-> FALSE, accountIdx |-> 0, account |-> None, amount |-> "0",
          gasCoin |-> Default, gasIdx |-> 0, fee |-> "loading"]

\* onFormValidated.
OnFormValidated(form) == [form EXCEPT !.submit = AllValid(form)]

\* A text changes: the group first, then onPayloadChanged, which shows the fee of
\* what is in the field, valid or not.
SetText(form, field, text) ==
  LET after == OnFormValidated(Changed(form, field, text)) IN
  IF form.text[field] = text THEN form
  ELSE [after EXCEPT !.fee = IF field = "payload" THEN text ELSE @]

\* The second list: where in the balance its entries stand, and the one it shows.
Plain == {p \in DOMAIN balances.items : ~balances.items[p].pool}
GasPlace(i) == CHOOSE p \in Plain : Cardinality({q \in Plain : q < p}) = i
GasShown == IF Plain = {} THEN None ELSE balances.items[GasPlace(send.gasIdx)].coin

Edits(form) == stage = "edit" /\ send' = form /\ UNCHANGED <<tabVars, appVars>>

TypeText(field, text) == send.text[field] # text /\ Edits(SetText(send, field, text))

\* onUsePercentClicked, without currentAccountIdx < 0.
UsePercent(text) ==
  /\ send.account # None /\ text \in {send.amount, Share}
  /\ Edits(SetText(send, "amount", text))

\* onCoinSelected.
CoinSelected(i) ==
  /\ i \in 1..Len(balances.items) /\ i # send.accountIdx
  /\ Edits([send EXCEPT !.accountIdx = i, !.account = balances.items[i].coin,
                        !.amount = balances.items[i].amount])

\* onGasCoinSelected: the first entry is not taken; the index is one of the
\* second list and is used on the balances.
GasCoinSelected(i) ==
  /\ i \in 0..Cardinality(Plain) - 1 /\ i # send.gasIdx
  /\ Edits([send EXCEPT !.gasIdx = i,
                        !.gasCoin = IF i <= 0 THEN @ ELSE balances.items[i + 1].coin])

\* The slip of a gas list that is not filled again.
OnBalanceUpdatedKeepingGas(items) ==
  send' = [send EXCEPT !.accountIdx = 1, !.account = items[1].coin, !.amount = items[1].amount,
                       !.gasIdx = IF @ < Cardinality({i \in DOMAIN items : ~items[i].pool}) THEN @ ELSE 0]

\* onBalanceUpdated: both lists are filled again and the first entries selected.
OnBalanceUpdated(items) ==
  send' = [send EXCEPT !.accountIdx = 1, !.account = items[1].coin, !.amount = items[1].amount,
                       !.gasIdx = 0, !.gasCoin = Default]

\* onInitDataUpdated: calculateFee(0), whatever the payload.
OnInitDataUpdated == send' = [send EXCEPT !.fee = ""]

\* The slip of a confirmation that shows the first account, whatever is selected.
SendShownFirst ==
  [type |-> "send", coin |-> IF balances.items = <<>> THEN None ELSE balances.items[1].coin, amount |-> send.data["amount"],
   to |-> send.data["recipient"], fee |-> send.fee, gas |-> GasShown, payload |-> send.data["payload"]]

\* onSubmit's dialog; gas and payload are what the window behind it shows.
SendShown ==
  [type |-> "send", coin |-> send.account, amount |-> send.data["amount"],
   to |-> send.data["recipient"], fee |-> send.fee, gas |-> GasShown, payload |-> send.data["payload"]]

SendSubmit ==
  /\ send.submit /\ AllValid(send)
  /\ OpenDialog(SendShown) /\ UNCHANGED send

\* What sendTx makes of the form when the gate has answered.
SendTx ==
  [type |-> "send", coin |-> send.account, amount |-> send.data["amount"],
   to |-> send.data["recipient"], payload |-> send.data["payload"], gas |-> send.gasCoin]

\* After a transaction was taken the fields are cleared.
SendCleared ==
  LET noRecipient == SetText(send, "recipient", "")
      noAmount == SetText(noRecipient, "amount", "")
  IN Unvalidated(SetText(noAmount, "payload", ""))

SendSent ==
  \/ \E how \in {"refused", "failed"} : Sent(how) /\ UNCHANGED send
  \/ Sent("sent") /\ send' = SendCleared

SendAnswer ==
  \/ \E a \in Addresses, items \in Balances :
       /\ address # None /\ BalanceUpdated(a, items) /\ OnBalanceUpdated(items) /\ Noted("balance")
       /\ UNCHANGED <<tab, stage, shown, tx>>
  \/ \E a \in Addresses :
       /\ address # None /\ InitDataUpdated(a) /\ OnInitDataUpdated /\ Noted("initData")
       /\ UNCHANGED <<tab, stage, shown, tx>>

SendEdit ==
  \/ \E field \in SendFields : \E text \in SendTexts[field] \ {Share} : TypeText(field, text)
  \/ \E text \in SendTexts["amount"] : UsePercent(text)
  \/ \E i \in 0..Len(balances.items) : CoinSelected(i) \/ GasCoinSelected(i)

SendProgress ==
  \/ (PrepareFails \/ Prepare(SendTx) \/ Sign) /\ UNCHANGED send
  \/ SendSent

SendStep == SendEdit \/ SendSubmit \/ SendAnswer \/ SendProgress \/ (DialogStep /\ UNCHANGED send)
==============================================================================
