---------------------------- MODULE ExchangeForm -----------------------------
(***************************************************************************)
(* ExchangeBuyForm, ExchangeSellForm and ExchangeSellAllForm, and what     *)
(* TabExchange does when one of them is submitted.  A form that becomes    *)
(* valid asks for an estimate of what it holds; estimates come back in any *)
(* order and the last one to come is kept, with its route.                 *)
(*                                                                         *)
(* An answer is taken over in one step although the route of a bancor      *)
(* exchange is read from the form on the io thread a moment before.        *)
(***************************************************************************)
EXTENDS TabBase, Bags

CONSTANTS
  Typed,      \* per form and field, the texts of interest
  GasForms,   \* the forms in which the gas list is used
  Prefixes,   \* per form, pairs <<text, coin>>: the completer offers the coin for the text
  MaxAsked    \* bound: the user edits while fewer estimates are under way

VARIABLES
  form,    \* the form's fields and what was read from them
  asked,   \* the estimates under way, a bag of inputs
  crashed  \* how the program ended, if it did

exchangeVars == <<form, asked, crashed>>

Limit == IF tab = "buy" THEN "max" ELSE "0"  \* the default of the optional limit
Fields == {"coin_to_buy", "coin_to_sell", "limit"} \cup (IF tab = "sellAll" THEN {} ELSE {"amount"})

\* estimateResult is not initialized before the first estimate.
ExchangeInit ==
  /\ \E via \in {"pool", "bancor"} :
       form = [text |-> Blank(Fields), data |-> Blank(Fields), valid |-> OptionalValid(Fields),
               submit |-> FALSE, coinToBuy |-> None, coinToSell |-> None, amount |-> "0",
               limit |-> Limit, gasCoin |-> Default, gasIdx |-> 0, picked |-> FALSE, held |-> <<>>,
               estimate |-> [via |-> via, ends |-> <<>>],
               last |-> <<>>, state |-> "none"]
  /\ asked = EmptyBag
  /\ crashed = "no"

\* What exchangeCalculator points to.
Input(f) == <<f.coinToSell, f.coinToBuy, f.amount>>

Owned(f, coin) == {i \in DOMAIN f.held : f.held[i].coin = coin}
HeldAmount(f, coin) == f.held[CHOOSE i \in Owned(f, coin) : TRUE].amount

\* A handler takes and leaves the form, the estimates it asks for and whether an
\* exception left it.
Now == [f |-> form, asks |-> EmptyBag, threw |-> FALSE]

\* The valid form is read.  findCoinBySymbol(..).value() throws when the data of
\* a coin field is empty; SellAll never reads its limit, and takes the amount
\* from the balance it has.
Reading(f) ==
  LET sell == Found(f.data["coin_to_sell"])
      buy == Found(f.data["coin_to_buy"])
      limit == IF f.data["limit"] = "" THEN Limit ELSE f.data["limit"]
  IN [f EXCEPT !.coinToSell = sell, !.coinToBuy = buy,
               !.limit = IF tab = "sellAll" THEN @ ELSE limit,
               !.amount = IF tab # "sellAll" THEN f.data["amount"]
                          ELSE IF Owned(f, sell) = {} THEN @ ELSE HeldAmount(f, sell)]

\* The slip of a form that asks before it has read its fields.
OnFormValidAsksFirst(s) ==
  LET f == [s.f EXCEPT !.submit = AllValid(s.f)] IN
  IF s.threw \/ ~f.submit THEN [s EXCEPT !.f = f]
  ELSE IF ~HasCoin(f.data["coin_to_sell"]) \/ ~HasCoin(f.data["coin_to_buy"])
  THEN [s EXCEPT !.f = f, !.threw = TRUE]
  ELSE [s EXCEPT !.f = [Reading(f) EXCEPT !.last = Input(f), !.state = "asked"],
                 !.asks = @ (+) SetToBag({Input(f)})]

\* onFormValid: the button first; a valid form is read and an estimate asked for.
OnFormValid(s) ==
  LET f == [s.f EXCEPT !.submit = AllValid(s.f)]
      read == Reading(f)
  IN IF s.threw \/ ~f.submit THEN [s EXCEPT !.f = f]
     ELSE IF ~HasCoin(f.data["coin_to_sell"]) \/ ~HasCoin(f.data["coin_to_buy"])
     THEN [s EXCEPT !.f = f, !.threw = TRUE]
     ELSE [s EXCEPT !.f = [read EXCEPT !.last = Input(read), !.state = "asked"],
                    !.asks = @ (+) SetToBag({Input(read)})]

\* A text is put into a field: inputChanged and formValid.
Put(s, field, text) ==
  IF s.threw \/ s.f.text[field] = text THEN s
  ELSE OnFormValid([s EXCEPT !.f = Changed(@, field, text)])

\* onCoinToBuySelected, onCoinToSellSelected: the completer's row is looked up.
RowSelected(s, field, coin) ==
  IF s.threw THEN s
  ELSE LET found == IF HasCoin(coin) THEN Found(coin) ELSE None
           f == IF field = "coin_to_buy" THEN [s.f EXCEPT !.coinToBuy = found]
                                         ELSE [s.f EXCEPT !.coinToSell = found]
       IN OnFormValid([s EXCEPT !.f = Validated(f, field)])

\* The handler's outcome becomes the state.
Ends(s) ==
  /\ form' = s.f
  /\ asked' = asked (+) s.asks
  /\ crashed' = IF s.threw THEN "no coin" ELSE "no"
  /\ UNCHANGED <<tabVars, appVars>>

MayEdit == stage = "edit" /\ BagCardinality(asked) < MaxAsked[tab]

TypeInto(field, text) == MayEdit /\ form.text[field] # text /\ Ends(Put(Now, field, text))

\* The completer emits activated(index), which is connected twice, and then sets
\* the text.
Complete(field, coin) ==
  /\ MayEdit /\ coin \in Listed(coins) /\ <<form.text[field], coin>> \in Prefixes[tab]
  /\ Ends(Put(RowSelected(RowSelected(Now, field, coin), field, coin), field, coin))

\* onGasItemSelected, with the data of the entry.
GasItemSelected(i) ==
  /\ stage = "edit" /\ tab \in GasForms /\ i \in DOMAIN form.held
  /\ form' = [form EXCEPT !.gasIdx = i, !.gasCoin = form.held[i].coin, !.picked = TRUE]
  /\ UNCHANGED <<asked, crashed, tabVars, appVars>>

\* setBalance: the drop-down is filled again, gasCoin is kept; SellAll takes over
\* the amount of the coin it sells.
SetBalance(items) ==
  LET f == [form EXCEPT !.held = items, !.gasIdx = 1, !.picked = FALSE] IN
  /\ form' = IF tab = "sellAll" /\ form.coinToSell # None
             THEN [f EXCEPT !.amount = IF Owned(f, f.coinToSell) = {} THEN "0" ELSE HeldAmount(f, f.coinToSell)]
             ELSE f
  /\ UNCHANGED <<asked, crashed>>

\* calculate() delivers: the route of a pool is the one asked for, that of a
\* bancor exchange is made of the coins the form has now.
Estimated(by, via) ==
  /\ BagIn(by, asked) /\ asked' = asked (-) SetToBag({by})
  /\ form' = [form EXCEPT
       !.estimate = [via |-> via,
                     ends |-> IF via = "pool" THEN <<by[1], by[2]>> ELSE <<form.coinToSell, form.coinToBuy>>],
       !.state = IF by = form.last THEN "settled" ELSE "overtaken"]
  /\ UNCHANGED crashed

\* An error is shown nowhere ("estimate" is no field of the group); the button
\* stays as it is.
EstimateFails(by) ==
  /\ BagIn(by, asked) /\ asked' = asked (-) SetToBag({by})
  /\ UNCHANGED <<form, crashed>>

-----------------------------------------------------------------------------
\* The dialog: coins, amount, estimate and route; formatSwapType takes the first
\* coin of a bancor route, whatever its length.  sure is history: the estimate is
\* the last one asked for.
GasItem == IF form.gasIdx = 0 THEN None ELSE form.held[form.gasIdx].coin
ExchangeShown ==
  [type |-> tab, from |-> form.coinToSell, to |-> form.coinToBuy, amount |-> form.amount,
   via |-> form.estimate.via, ends |-> form.estimate.ends, gas |-> GasItem,
   limit |-> form.data["limit"], sure |-> form.state = "settled"]

ExchangeSubmit ==
  /\ form.submit /\ AllValid(form)
  /\ IF form.estimate.via = "bancor" /\ form.estimate.ends = <<>>
       THEN crashed' = "no route" /\ UNCHANGED <<form, asked, tabVars, appVars>>
       ELSE OpenDialog(ExchangeShown) /\ UNCHANGED exchangeVars

\* createBuyTx, createSellTx, createSellAllTx: through the pools of the estimate's
\* route, or from coin to coin.
ExchangeTx ==
  [type |-> tab, via |-> form.estimate.via, amount |-> form.amount, limit |-> form.limit, gas |-> form.gasCoin,
   route |-> IF form.estimate.via = "pool" THEN form.estimate.ends ELSE <<form.coinToSell, form.coinToBuy>>]

\* reset(): amount, coins and limit are cleared in turn, then the group.
Cleared ==
  LET noAmount == IF tab = "sellAll" THEN Now ELSE Put(Now, "amount", "")
      noCoins == Put(Put(noAmount, "coin_to_sell", ""), "coin_to_buy", "")
  IN Unvalidated(Put(noCoins, "limit", "").f)

ExchangeSent ==
  \/ \E how \in {"refused", "failed"} : Sent(how) /\ UNCHANGED exchangeVars
  \/ Sent("sent") /\ form' = Cleared /\ UNCHANGED <<asked, crashed>>

ExchangeAnswer ==
  \/ \E a \in Addresses, items \in Balances :
       /\ address # None /\ BalanceUpdated(a, items) /\ SetBalance(items) /\ Noted("balance")
       /\ UNCHANGED <<tab, stage, shown, tx>>
  \/ \E by \in BagToSet(asked) :
       \/ \E via \in {"pool", "bancor"} :
            Estimated(by, via) /\ Noted("estimate") /\ UNCHANGED <<tab, stage, shown, tx, appVars>>
       \/ EstimateFails(by) /\ UNCHANGED <<tabVars, appVars>>

ExchangeEdit ==
  \/ \E field \in Fields : \E text \in Typed[tab][field] : TypeInto(field, text)
  \/ \E field \in {"coin_to_buy", "coin_to_sell"}, coin \in Coins : Complete(field, coin)
  \/ \E i \in 1..Len(form.held) : GasItemSelected(i)

ExchangeProgress ==
  \/ (PrepareFails \/ Prepare(ExchangeTx) \/ Sign) /\ UNCHANGED exchangeVars
  \/ ExchangeSent

ExchangeStep ==
  crashed = "no" /\ (ExchangeEdit \/ ExchangeSubmit \/ ExchangeAnswer \/ ExchangeProgress
                     \/ (DialogStep /\ UNCHANGED exchangeVars))
==============================================================================
