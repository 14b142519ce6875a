------------------------------ MODULE TabBase --------------------------------
(***************************************************************************)
(* What the two tabs share: the dialog that asks for confirmation, then    *)
(* sendTx / createTxSender on an io thread while a progress dialog blocks  *)
(* the window, then a dialog with the result.  The transaction is put      *)
(* together from the form when the gate has answered, not when the user    *)
(* has confirmed: the UI thread goes on handling answers in between.       *)
(***************************************************************************)
EXTENDS InputGroup

CONSTANT
  Default  \* the network's own coin, def_coin_id

\* What the tabs read of a balance's items; a symbol has at least a letter.
ASSUME TabAssumption ==
  /\ Balances \subseteq Seq([coin : STRING, amount : STRING, pool : BOOLEAN])
  /\ "" \notin Coins

VARIABLES
  tab,    \* where the user is, and stays: "send", "buy", "sell" or "sellAll"
  stage,  \* which of the dialogs is open and how far the sending is
  shown,  \* what the confirmation dialog showed
  tx,     \* the transaction whose hash is signed
  since   \* history: answers that came between the dialog and the transaction

tabVars == <<tab, stage, shown, tx, since>>

\* No dialog, no transaction.
Absent == <<>>

Sending == {"initData", "sign", "send"}
Results == {"sent", "refused", "failed"}
Stages == {"edit", "dialog"} \cup Sending \cup Results

\* The answer is taken note of while the transaction is still to be made.
Noted(what) == since' = IF stage \in {"dialog", "initData"} THEN since \cup {what} ELSE since

TabInit == tab \in {"send", "buy", "sell", "sellAll"} /\ stage = "edit" /\ shown = Absent /\ tx = Absent /\ since = {}

\* createSendDialog with the fields its caller adds.
OpenDialog(what) ==
  /\ stage = "edit" /\ stage' = "dialog"
  /\ shown' = what
  /\ UNCHANGED <<tab, tx, since, appVars>>

Cancel ==
  /\ stage = "dialog" /\ stage' = "edit"
  /\ shown' = Absent /\ since' = {}
  /\ UNCHANGED <<tab, tx, appVars>>

\* accepted: the dialog is deleted, the progress dialog is shown and the sender
\* is subscribed to.
Confirm ==
  /\ stage = "dialog" /\ stage' = "initData"
  /\ UNCHANGED <<tab, shown, tx, since, appVars>>

\* getInitDataUpdater errors without an address; get_tx_init_data may fail.
PrepareFails ==
  /\ stage = "initData" /\ stage' = "failed"
  /\ UNCHANGED <<tab, shown, tx, since, appVars>>

\* The gate has answered: the transaction is made and signTx called.
Prepare(made) ==
  /\ stage = "initData" /\ address # None
  /\ stage' = "sign" /\ tx' = made
  /\ UNCHANGED <<tab, shown, since, appVars>>

\* The slip of a sender that starts again when signTx throws.
SignRetried ==
  /\ stage = "sign" /\ stage' \in {"initData", "send"}
  /\ UNCHANGED <<tab, shown, tx, since, appVars>>

\* signTx returns or throws.
Sign ==
  /\ stage = "sign" /\ stage' \in {"send", "failed"}
  /\ UNCHANGED <<tab, shown, tx, since, appVars>>

\* send_tx: the gate takes or refuses the transaction, or the call fails.
Sent(how) ==
  /\ stage = "send" /\ stage' = how
  /\ UNCHANGED <<tab, shown, tx, since, appVars>>

\* The result dialog is closed.  updateBalance and updateInitData then ask for
\* answers that may come at any time.
CloseResult ==
  /\ stage \in Results /\ stage' = "edit"
  /\ shown' = Absent /\ tx' = Absent /\ since' = {}
  /\ UNCHANGED <<tab, appVars>>

DialogStep == Cancel \/ Confirm \/ CloseResult
==============================================================================
