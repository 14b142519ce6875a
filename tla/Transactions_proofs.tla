------------------------- MODULE Transactions_proofs -------------------------
(***************************************************************************)
(* What is signed against what was confirmed, the route of an exchange and *)
(* the exception of a form, for any coins, lists, balances, texts and      *)
(* completions, and any number of estimates under way.                     *)
(***************************************************************************)
EXTENDS Transactions, ConsoleApp_proofs

CoinFields == {"coin_to_buy", "coin_to_sell"}
FormFields ==
  {"text", "data", "valid", "submit", "coinToBuy", "coinToSell", "amount", "limit", "gasCoin", "gasIdx",
   "picked", "held", "estimate", "last", "state"}

Shaped(f) ==
  DOMAIN f = FormFields /\ DOMAIN f.text = Fields /\ DOMAIN f.data = Fields /\ DOMAIN f.valid = Fields

\* A coin field that is valid has a loaded coin; a field's data is its text or none.
Checked(f) == \A x \in CoinFields : (f.valid[x] => HasCoin(f.text[x])) /\ f.data[x] \in {"", f.text[x]}

\* A settled estimate through pools is for the coins asked for last.
Settled(f) == f.state = "settled" /\ f.estimate.via = "pool" => f.estimate.ends = <<f.last[1], f.last[2]>>

LimitOf(text) == IF text = "" THEN Limit ELSE text

\* A valid form was read, and what was read was asked for.
HasRead(f) ==
  AllValid(f) =>
    /\ tab # "sellAll" => f.limit = LimitOf(f.data["limit"])
    /\ f.last[1] = f.coinToSell /\ f.last[2] = f.coinToBuy

\* The cause of the exception: a field without data whose text has become a coin.
Unread(f) == \E x \in CoinFields : f.data[x] = "" /\ HasCoin(f.text[x])

Whole(f) == Shaped(f) /\ Checked(f) /\ Settled(f)

\* What the handlers of a form keep.
Handled(s) ==
  /\ DOMAIN s = {"f", "asks", "threw"} /\ s.threw \in BOOLEAN
  /\ Whole(s.f) /\ (IF s.threw THEN Unread(s.f) ELSE HasRead(s.f))

-----------------------------------------------------------------------------
\* The two ways to judge a field agree in this: a coin that passes is loaded.
LEMMA CoinIsLoaded ==
  ASSUME NEW field \in CoinFields, NEW text
  PROVE  /\ ~Skipped(field, text)
         /\ "Invalid" \notin Verdicts(field, text) => HasCoin(text)
         /\ Verdicts(field, text) \subseteq {"Acceptable"} => HasCoin(text)
BY DEF CoinFields, Skipped, Required, Verdicts, Loaded

LEMMA ChangedIsWhole ==
  ASSUME NEW f, Whole(f), NEW field \in Fields, NEW text
  PROVE  Whole(Changed(f, field, text))
<1> DEFINE ok == Skipped(field, text) \/ Verdicts(field, text) \subseteq {"Acceptable"}
           g == Changed(f, field, text)
<1> SUFFICES Whole(g)
  OBVIOUS
<1>1. /\ g = [f EXCEPT !.text[field] = text, !.valid[field] = ok, !.data[field] = IF ok THEN text ELSE ""]
  BY DEF Changed
<1>2. /\ Shaped(g) /\ g.estimate = f.estimate /\ g.last = f.last /\ g.state = f.state
      /\ \A x \in Fields \ {field} : g.text[x] = f.text[x] /\ g.valid[x] = f.valid[x] /\ g.data[x] = f.data[x]
      /\ g.text[field] = text /\ (g.valid[field] => ok) /\ g.data[field] \in {"", text}
  <2> HIDE DEF g, ok
  <2> QED BY <1>1 DEF Whole, Shaped, FormFields
<1>3. CoinFields \subseteq Fields
  BY DEF CoinFields, Fields
<1>4. field \in CoinFields => (ok => HasCoin(text))
  BY CoinIsLoaded
<1> HIDE DEF g, ok
<1>5. ASSUME NEW x \in CoinFields
      PROVE  (g.valid[x] => HasCoin(g.text[x])) /\ g.data[x] \in {"", g.text[x]}
  <2>1. CASE x = field
    BY <1>2, <1>3, <1>4, <2>1 DEF Whole, Checked
  <2>2. CASE x # field
    BY <1>2, <1>3, <2>2 DEF Whole, Checked
  <2> QED BY <2>1, <2>2
<1> QED BY <1>2, <1>5 DEF Whole, Checked, Settled

LEMMA ValidatedIsWhole ==
  ASSUME NEW f, Whole(f), NEW field \in CoinFields
  PROVE  Whole(Validated(f, field))
<1> DEFINE ok == Skipped(field, f.text[field]) \/ "Invalid" \notin Verdicts(field, f.text[field])
           g == Validated(f, field)
<1> SUFFICES Whole(g)
  OBVIOUS
<1>1. g = [f EXCEPT !.valid[field] = ok]
  BY DEF Validated
<1>2. CoinFields \subseteq Fields
  BY DEF CoinFields, Fields
<1>3. ok => HasCoin(f.text[field])
  BY CoinIsLoaded
<1>4. /\ Shaped(g) /\ g.text = f.text /\ g.data = f.data
      /\ g.estimate = f.estimate /\ g.last = f.last /\ g.state = f.state
      /\ \A x \in Fields \ {field} : g.valid[x] = f.valid[x]
      /\ g.valid[field] => ok
  <2> HIDE DEF g, ok
  <2> QED BY <1>1, <1>2 DEF Whole, Shaped, FormFields
<1> HIDE DEF g, ok
<1>5. ASSUME NEW x \in CoinFields
      PROVE  (g.valid[x] => HasCoin(g.text[x])) /\ g.data[x] \in {"", g.text[x]}
  <2>1. CASE x = field
    BY <1>3, <1>4, <2>1 DEF Whole, Checked
  <2>2. CASE x # field
    BY <1>2, <1>4, <2>2 DEF Whole, Checked
  <2> QED BY <2>1, <2>2
<1> QED BY <1>4, <1>5 DEF Whole, Checked, Settled

\* A handler on its way, before formValid.
OnTheWay(s) ==
  DOMAIN s = {"f", "asks", "threw"} /\ s.threw \in BOOLEAN /\ Whole(s.f) /\ (s.threw => Unread(s.f))

\* Reading a form leaves its fields alone.
LEMMA ReadingIsWhole ==
  ASSUME NEW f, Whole(f)
  PROVE  LET read == Reading(f)
             g == [read EXCEPT !.last = Input(read), !.state = "asked"]
         IN  Whole(g) /\ HasRead(g)
<1> DEFINE read == Reading(f)
           g == [read EXCEPT !.last = Input(read), !.state = "asked"]
<1>1. /\ DOMAIN read = FormFields /\ read.text = f.text /\ read.data = f.data /\ read.valid = f.valid
      /\ tab # "sellAll" => read.limit = LimitOf(read.data["limit"])
  BY DEF Reading, Whole, Shaped, FormFields, LimitOf
<1>2. /\ DOMAIN g = FormFields /\ g.text = f.text /\ g.data = f.data /\ g.valid = f.valid
      /\ g.limit = read.limit /\ g.coinToSell = read.coinToSell /\ g.coinToBuy = read.coinToBuy
      /\ g.last = Input(read) /\ g.state = "asked"
  <2> HIDE DEF read
  <2> QED BY <1>1 DEF FormFields
<1>3. g.last[1] = g.coinToSell /\ g.last[2] = g.coinToBuy
  <2> HIDE DEF read
  <2> QED BY <1>2 DEF Input
<1> HIDE DEF read, g
<1>4. Whole(g) /\ HasRead(g)
  BY <1>1, <1>2, <1>3 DEF Whole, Shaped, Checked, Settled, HasRead
<1> QED BY <1>4 DEF g, read

LEMMA OnFormValidHandles ==
  ASSUME NEW s, OnTheWay(s)
  PROVE  Handled(OnFormValid(s))
<1> DEFINE f == [s.f EXCEPT !.submit = AllValid(s.f)]
           read == Reading(f)
           asks == [read EXCEPT !.last = Input(read), !.state = "asked"]
<1>1. /\ Whole(f) /\ f.text = s.f.text /\ f.data = s.f.data
      /\ f.valid = s.f.valid /\ (f.submit <=> AllValid(f))
  BY DEF OnTheWay, Whole, Shaped, Checked, Settled, FormFields, AllValid
<1>2. Whole(asks) /\ HasRead(asks)
  <2> HIDE DEF f
  <2> QED BY <1>1, ReadingIsWhole
<1> HIDE DEF f, asks
<1>3. CASE s.threw \/ ~f.submit
  <2>1. OnFormValid(s) = [s EXCEPT !.f = f]
    BY <1>3 DEF OnFormValid, f
  <2>2. s.threw => Unread(f)
    BY <1>1 DEF OnTheWay, Unread
  <2>3. ~s.threw => HasRead(f)
    BY <1>1, <1>3 DEF HasRead
  <2> QED BY <1>1, <2>1, <2>2, <2>3 DEF OnTheWay, Handled
<1>4. CASE /\ ~s.threw /\ f.submit
           /\ ~HasCoin(f.data["coin_to_sell"]) \/ ~HasCoin(f.data["coin_to_buy"])
  <2>1. OnFormValid(s) = [s EXCEPT !.f = f, !.threw = TRUE]
    BY <1>4 DEF OnFormValid, f
  <2>2. \A x \in CoinFields : f.valid[x]
    BY <1>1, <1>4 DEF Whole, Shaped, AllValid, Fields, CoinFields
  <2>3. Unread(f)
    BY <1>1, <1>4, <2>2 DEF Whole, Checked, Unread, CoinFields
  <2> QED BY <1>1, <2>1, <2>3 DEF OnTheWay, Handled
<1>5. CASE ~s.threw /\ f.submit /\ HasCoin(f.data["coin_to_sell"]) /\ HasCoin(f.data["coin_to_buy"])
  <2>1. OnFormValid(s) = [s EXCEPT !.f = asks, !.asks = @ (+) SetToBag({Input(read)})]
    BY <1>5 DEF OnFormValid, f, asks
  <2> QED BY <1>2, <1>5, <2>1 DEF OnTheWay, Handled
<1>6. s.threw \in BOOLEAN
  BY DEF OnTheWay
<1> QED BY <1>3, <1>4, <1>5, <1>6

LEMMA HandledIsOnTheWay ==
  ASSUME NEW s, Handled(s)
  PROVE  OnTheWay(s)
BY DEF Handled, OnTheWay

LEMMA PutHandles ==
  ASSUME NEW s, Handled(s), NEW field \in Fields, NEW text
  PROVE  Handled(Put(s, field, text))
<1>1. CASE s.threw \/ s.f.text[field] = text
  BY <1>1 DEF Put
<1>2. CASE ~(s.threw \/ s.f.text[field] = text)
  <2> DEFINE t == [s EXCEPT !.f = Changed(@, field, text)]
  <2>1. t.f = Changed(s.f, field, text) /\ DOMAIN t = DOMAIN s /\ t.threw = s.threw
    BY DEF Handled
  <2>2. Whole(t.f)
    BY <2>1, ChangedIsWhole DEF Handled
  <2>3. OnTheWay(t)
    <3> HIDE DEF t
    <3> QED BY <1>2, <2>1, <2>2 DEF Handled, OnTheWay
  <2>4. Put(s, field, text) = OnFormValid(t)
    BY <1>2 DEF Put
  <2> HIDE DEF t
  <2> QED BY <2>3, <2>4, OnFormValidHandles
<1> QED BY <1>1, <1>2

LEMMA RowSelectedHandles ==
  ASSUME NEW s, Handled(s), NEW field \in CoinFields, NEW coin
  PROVE  Handled(RowSelected(s, field, coin))
<1>1. CASE s.threw
  BY <1>1 DEF RowSelected
<1>2. CASE ~s.threw
  <2> DEFINE found == IF HasCoin(coin) THEN Found(coin) ELSE None
             f == IF field = "coin_to_buy" THEN [s.f EXCEPT !.coinToBuy = found]
                                           ELSE [s.f EXCEPT !.coinToSell = found]
             t == [s EXCEPT !.f = Validated(f, field)]
  <2>1. Whole(f)
    <3> HIDE DEF found
    <3> QED BY DEF Handled, Whole, Shaped, Checked, Settled, FormFields
  <2>2. Whole(Validated(f, field))
    <3> HIDE DEF f
    <3> QED BY <2>1, ValidatedIsWhole
  <2>3. t.f = Validated(f, field) /\ DOMAIN t = DOMAIN s /\ t.threw = s.threw
    <3> HIDE DEF f
    <3> QED BY DEF Handled
  <2>4. OnTheWay(t)
    <3> HIDE DEF f, t
    <3> QED BY <1>2, <2>2, <2>3 DEF Handled, OnTheWay
  <2>5. RowSelected(s, field, coin) = OnFormValid(t)
    BY <1>2 DEF RowSelected
  <2> HIDE DEF t
  <2> QED BY <2>4, <2>5, OnFormValidHandles
<1> QED BY <1>1, <1>2 DEF Handled

\* reset: a required field is no longer valid, so the form is not.
LEMMA ClearedIsWhole ==
  ASSUME Whole(form), HasRead(form)
  PROVE  Whole(Cleared) /\ HasRead(Cleared)
<1> DEFINE noAmount == IF tab = "sellAll" THEN Now ELSE Put(Now, "amount", "")
           noSell == Put(noAmount, "coin_to_sell", "")
           noCoins == Put(noSell, "coin_to_buy", "")
           last == Put(noCoins, "limit", "")
           g == Unvalidated(last.f)
<1>1. Handled(Now)
  BY DEF Handled, Now
<1>2. {"coin_to_sell", "coin_to_buy", "limit"} \subseteq Fields /\ (tab # "sellAll" => "amount" \in Fields)
  BY DEF Fields
<1>3. Handled(noAmount)
  BY <1>1, <1>2, PutHandles
<1>4. Handled(noSell)
  <2> HIDE DEF noAmount
  <2> QED BY <1>2, <1>3, PutHandles
<1>5. Handled(noCoins)
  <2> HIDE DEF noSell
  <2> QED BY <1>2, <1>4, PutHandles
<1>6. Whole(last.f)
  <2> HIDE DEF noCoins
  <2> QED BY <1>2, <1>5, PutHandles DEF Handled
<1> HIDE DEF last
<1>7. /\ Shaped(g) /\ g.text = last.f.text /\ g.data = last.f.data
      /\ g.estimate = last.f.estimate /\ g.last = last.f.last /\ g.state = last.f.state
      /\ \A x \in CoinFields : ~g.valid[x]
  BY <1>2, <1>6 DEF Whole, Shaped, FormFields, Unvalidated, CoinFields, Required
<1>8. ~AllValid(g)
  BY <1>2, <1>7 DEF AllValid, Shaped, CoinFields
<1>9. Cleared = g
  BY DEF Cleared, last
<1> HIDE DEF g
<1> QED BY <1>6, <1>7, <1>8, <1>9 DEF Whole, Checked, Settled, HasRead

-----------------------------------------------------------------------------
\* TabSend's form: the fee shown is for the text of the payload, or for none.
SendFormFields ==
  {"text", "data", "valid", "submit", "accountIdx", "account", "amount", "gasCoin", "gasIdx", "fee"}

SendWhole(f) ==
  /\ DOMAIN f = SendFormFields
  /\ DOMAIN f.text = SendFields /\ DOMAIN f.data = SendFields
  /\ f.fee \in {f.text["payload"], "", "loading"} /\ f.data["payload"] = f.text["payload"]

LEMMA SetTextIsWhole ==
  ASSUME NEW f, SendWhole(f), NEW field \in SendFields, NEW text
  PROVE  SendWhole(SetText(f, field, text))
<1> DEFINE ok == Skipped(field, text) \/ Verdicts(field, text) \subseteq {"Acceptable"}
           g == Changed(f, field, text)
           after == OnFormValidated(g)
           h == [after EXCEPT !.fee = IF field = "payload" THEN text ELSE @]
<1>1. /\ DOMAIN g = SendFormFields /\ g.fee = f.fee
      /\ g.text = [f.text EXCEPT ![field] = text]
      /\ g.data = [f.data EXCEPT ![field] = IF ok THEN text ELSE ""]
  <2>1. g = [f EXCEPT !.text[field] = text, !.valid[field] = ok, !.data[field] = IF ok THEN text ELSE ""]
    BY DEF Changed
  <2> HIDE DEF g, ok
  <2> QED BY <2>1 DEF SendWhole, SendFormFields
<1>2. field = "payload" => ok
  BY DEF Verdicts
<1> HIDE DEF g, ok
<1>3. /\ DOMAIN h = SendFormFields /\ h.text = g.text /\ h.data = g.data
      /\ h.fee = IF field = "payload" THEN text ELSE g.fee
  BY <1>1 DEF OnFormValidated, SendFormFields
<1> HIDE DEF h
<1>4. "payload" \in SendFields
  BY DEF SendFields
<1>5. SendWhole(h)
  <2>1. CASE field = "payload"
    BY <1>1, <1>2, <1>3, <1>4, <2>1 DEF SendWhole
  <2>2. CASE field # "payload"
    BY <1>1, <1>3, <1>4, <2>2 DEF SendWhole
  <2> QED BY <2>1, <2>2
<1>6. SetText(f, field, text) = IF f.text[field] = text THEN f ELSE h
  BY DEF SetText, h, g
<1> QED BY <1>5, <1>6

-----------------------------------------------------------------------------
\* While the dialog is open or the gate is asked, what it showed is what the form
\* holds, but for what an answer noted in since has changed.
InDialog == stage \in {"dialog", "initData"}

SendShows ==
  /\ shown.amount = send.data["amount"] /\ shown.to = send.data["recipient"]
  /\ shown.payload = send.data["payload"] /\ shown.fee \in {shown.payload, "", "loading"}
  /\ "balance" \notin since => shown.coin = send.account

ExchangeShows ==
  /\ shown.amount = form.amount \/ (tab = "sellAll" /\ "balance" \in since)
  /\ tab # "sellAll" => form.limit = LimitOf(shown.limit)
  /\ shown.from = form.coinToSell /\ shown.to = form.coinToBuy
  /\ "estimate" \notin since => shown.via = form.estimate.via /\ shown.ends = form.estimate.ends
  /\ shown.sure /\ shown.via = "pool" => shown.ends = <<shown.from, shown.to>>

SendInv ==
  /\ crashed = "no" /\ SendWhole(send)
  /\ InDialog => SendShows

ExchangeInv ==
  /\ Whole(form)
  /\ crashed = "no" => HasRead(form)
  /\ crashed = "no coin" => Unread(form)
  /\ InDialog => ExchangeShows

\* The transaction is made once, when the gate has answered.
TxInv ==
  /\ stage \in {"edit", "dialog", "initData"} => tx = Absent
  /\ tx # Absent => tx.type = tab
  /\ SignedAsConfirmed /\ RouteExplained

IInv ==
  /\ IndexOK /\ TxInv
  /\ tab = "send" => SendInv
  /\ tab # "send" => ExchangeInv

LEMMA InitIInv == Init => IInv
<1> SUFFICES ASSUME Init
             PROVE  IInv
  OBVIOUS
<1>1. IndexOK
  BY DEF Init, AppInit, IndexOK
<1>2. stage = "edit" /\ tx = Absent /\ crashed = "no"
  BY DEF Init, TabInit, ExchangeInit
<1>3. TxInv
  BY <1>2 DEF TxInv, SignedAsConfirmed, RouteExplained
<1>4. CASE tab = "send"
  <2>1. send = [text |-> Blank(SendFields), data |-> Blank(SendFields), valid |-> OptionalValid(SendFields),
                submit |-> FALSE, accountIdx |-> 0, account |-> None, amount |-> "0",
                gasCoin |-> Default, gasIdx |-> 0, fee |-> "loading"]
    BY <1>4 DEF Init, SendInit
  <2>2. SendWhole(send)
    BY <2>1 DEF SendWhole, SendFormFields, Blank, SendFields
  <2> QED BY <1>1, <1>2, <1>3, <1>4, <2>2 DEF IInv, SendInv, InDialog
<1>5. CASE tab # "send"
  <2>1. PICK via \in {"pool", "bancor"} :
          form = [text |-> Blank(Fields), data |-> Blank(Fields), valid |-> OptionalValid(Fields),
                  submit |-> FALSE, coinToBuy |-> None, coinToSell |-> None, amount |-> "0",
                  limit |-> Limit, gasCoin |-> Default, gasIdx |-> 0, picked |-> FALSE, held |-> <<>>,
                  estimate |-> [via |-> via, ends |-> <<>>],
                  last |-> <<>>, state |-> "none"]
    BY <1>5 DEF Init, ExchangeInit
  <2>2. CoinFields \subseteq Fields
    BY DEF CoinFields, Fields
  <2>3. Whole(form)
    BY <2>1, <2>2 DEF Whole, Shaped, Checked, Settled, FormFields, Blank, OptionalValid, CoinFields, Required
  <2>4. ~AllValid(form)
    BY <2>1, <2>2 DEF AllValid, OptionalValid, CoinFields, Required
  <2> QED BY <1>1, <1>2, <1>3, <1>5, <2>3, <2>4 DEF IInv, ExchangeInv, HasRead, InDialog
<1> QED BY <1>4, <1>5

-----------------------------------------------------------------------------
\* Steps that make no transaction.
LEMMA TxKept ==
  ASSUME TxInv, UNCHANGED <<tab, shown, tx>>, since' = since \/ tx = Absent,
         stage' \in {"edit", "dialog", "initData"} => tx = Absent
  PROVE  TxInv'
<1>1. CASE tx = Absent
  BY <1>1 DEF TxInv, SignedAsConfirmed, RouteExplained
<1>2. CASE tx # Absent
  BY <1>2 DEF TxInv, SignedAsConfirmed, RouteExplained, Limit
<1> QED BY <1>1, <1>2

LEMMA NoTx ==
  ASSUME tx' = Absent
  PROVE  TxInv'
BY DEF TxInv, SignedAsConfirmed, RouteExplained

\* What a form holds may be read after any step that does not touch it.
LEMMA FormKept ==
  ASSUME UNCHANGED <<tab, form>>, \A c : HasCoin(c) => HasCoin(c)', Whole(form)
  PROVE  Whole(form)' /\ (HasRead(form) => HasRead(form)')
<1>1. Whole(form)'
  BY DEF Whole, Shaped, Fields, Checked, CoinFields, Settled
<1> QED BY <1>1 DEF HasRead, AllValid, LimitOf, Limit

\* A form that a handler left, in a step that changes nothing else it reads.
LEMMA FormHandled ==
  ASSUME NEW f, UNCHANGED <<tab, coins, index>>, form' = f, Whole(f)
  PROVE  /\ Whole(form)'
         /\ HasRead(f) => HasRead(form)'
         /\ Unread(f) => Unread(form)'
<1>1. Whole(form)'
  BY DEF Whole, Shaped, Fields, Checked, CoinFields, Settled, HasCoin
<1>2. HasRead(f) => HasRead(form)'
  BY DEF HasRead, AllValid, LimitOf, Limit
<1>3. Unread(f) => Unread(form)'
  BY DEF Unread, CoinFields, HasCoin
<1> QED BY <1>1, <1>2, <1>3

\* Answers that ConsoleApp handles and the tab does not.
LEMMA AppStepKeeps ==
  ASSUME IInv, crashed = "no", AppStep, UNCHANGED <<tabVars, send, exchangeVars>>
  PROVE  IInv'
<1>1. IndexOK' /\ \A c : HasCoin(c) => HasCoin(c)'
  <2>1. ASSUME NEW a \in Addresses, AddressResolved(a)
        PROVE  IndexOK' /\ \A c : HasCoin(c) => HasCoin(c)'
    BY <2>1 DEF AddressResolved, listVars, IInv, IndexOK, HasCoin
  <2>2. ASSUME NEW list \in CoinLists, CoinListUpdated(list)
        PROVE  IndexOK' /\ \A c : HasCoin(c) => HasCoin(c)'
    BY <2>2, ListKeepsEntries DEF IInv
  <2> QED BY <2>1, <2>2 DEF AppStep
<1>2. UNCHANGED <<tab, stage, shown, tx, since, send, form, crashed>>
  BY DEF tabVars, exchangeVars
<1>3. TxInv'
  BY <1>2, TxKept DEF IInv, TxInv
<1>4. tab = "send" => SendInv'
  BY <1>2 DEF IInv, SendInv, SendWhole, SendFields, InDialog, SendShows
<1>5. tab # "send" => ExchangeInv'
  <2> SUFFICES ASSUME tab # "send"
               PROVE  ExchangeInv'
    OBVIOUS
  <2>1. Whole(form)' /\ HasRead(form)'
    BY <1>1, <1>2, FormKept DEF IInv, ExchangeInv
  <2>2. InDialog' => ExchangeShows'
    BY <1>2 DEF IInv, ExchangeInv, InDialog, ExchangeShows, LimitOf, Limit
  <2> QED BY <1>2, <2>1, <2>2 DEF ExchangeInv
<1> QED BY <1>1, <1>2, <1>3, <1>4, <1>5 DEF IInv

-----------------------------------------------------------------------------
\* The dialogs and the sending, whichever tab it is: no handler of a form runs.
LEMMA StageMoves ==
  ASSUME DialogStep \/ PrepareFails \/ Sign \/ \E how \in Results : Sent(how)
  PROVE  /\ UNCHANGED <<tab, coins, index>>
         /\ InDialog' => InDialog /\ UNCHANGED <<shown, since>>
         /\ TxInv => TxInv'
<1> USE DEF appVars, listVars, InDialog, Results
<1>1. CASE Cancel
  BY <1>1, TxKept, NoTx DEF Cancel, TxInv
<1>2. CASE Confirm
  BY <1>2, TxKept DEF Confirm, TxInv
<1>3. CASE CloseResult
  BY <1>3, NoTx DEF CloseResult
<1>4. CASE PrepareFails
  BY <1>4, TxKept DEF PrepareFails
<1>5. CASE Sign
  BY <1>5, TxKept DEF Sign
<1>6. CASE \E how \in Results : Sent(how)
  BY <1>6, TxKept DEF Sent
<1> QED BY <1>1, <1>2, <1>3, <1>4, <1>5, <1>6 DEF DialogStep

LEMMA IndexKept ==
  ASSUME IndexOK, UNCHANGED <<coins, index>>
  PROVE  IndexOK'
BY DEF IndexOK

LEMMA SendEditKeeps ==
  ASSUME IInv, tab = "send", SendEdit, UNCHANGED exchangeVars
  PROVE  IInv'
<1> SUFFICES ASSUME NEW f, Edits(f), SendWhole(f)
             PROVE  IInv'
  <2>1. SendWhole(send)
    BY DEF IInv, SendInv
  <2>2. ASSUME NEW field \in SendFields, NEW text, TypeText(field, text)
        PROVE  \E f : Edits(f) /\ SendWhole(f)
    BY <2>1, <2>2, SetTextIsWhole DEF TypeText
  <2>3. ASSUME NEW text, UsePercent(text)
        PROVE  \E f : Edits(f) /\ SendWhole(f)
    <3>1. "amount" \in SendFields
      BY DEF SendFields
    <3> QED BY <2>1, <2>3, <3>1, SetTextIsWhole DEF UsePercent
  <2>4. ASSUME NEW i, CoinSelected(i)
        PROVE  \E f : Edits(f) /\ SendWhole(f)
    <3> DEFINE f == [send EXCEPT !.accountIdx = i, !.account = balances.items[i].coin,
                                 !.amount = balances.items[i].amount]
    <3>1. Edits(f)
      BY <2>4 DEF CoinSelected
    <3>2. SendWhole(f)
      BY <2>1 DEF SendWhole, SendFormFields
    <3> QED BY <3>1, <3>2
  <2>5. ASSUME NEW i, GasCoinSelected(i)
        PROVE  \E f : Edits(f) /\ SendWhole(f)
    <3> DEFINE f == [send EXCEPT !.gasIdx = i,
                                 !.gasCoin = IF i <= 0 THEN @ ELSE balances.items[i + 1].coin]
    <3>1. Edits(f)
      BY <2>5 DEF GasCoinSelected
    <3>2. SendWhole(f)
      BY <2>1 DEF SendWhole, SendFormFields
    <3> QED BY <3>1, <3>2
  <2> QED BY <2>2, <2>3, <2>4, <2>5 DEF SendEdit
<1>1. /\ stage = "edit" /\ send' = f
      /\ UNCHANGED <<tab, stage, shown, tx, since, crashed, coins, index>>
  BY DEF Edits, tabVars, appVars, listVars, exchangeVars
<1>2. IndexOK' /\ TxInv'
  BY <1>1, IndexKept, TxKept DEF IInv, TxInv
<1>3. SendInv'
  BY <1>1 DEF IInv, SendInv, SendWhole, SendFields, InDialog
<1> QED BY <1>1, <1>2, <1>3 DEF IInv

LEMMA SendAnswerKeeps ==
  ASSUME IInv, tab = "send", SendAnswer, UNCHANGED exchangeVars
  PROVE  IInv'
<1>1. PICK what \in {"balance", "initData"} :
        /\ Noted(what) /\ UNCHANGED <<tab, stage, shown, tx, crashed, coins, index>>
        /\ what = "balance" => \E items : OnBalanceUpdated(items)
        /\ what = "initData" => OnInitDataUpdated
  <2>1. ASSUME NEW items, NEW a, BalanceUpdated(a, items), OnBalanceUpdated(items), Noted("balance"),
               UNCHANGED <<tab, stage, shown, tx>>
        PROVE  /\ Noted("balance") /\ UNCHANGED <<tab, stage, shown, tx, crashed, coins, index>>
               /\ \E i : OnBalanceUpdated(i)
    BY <2>1 DEF BalanceUpdated, listVars, exchangeVars
  <2>2. ASSUME NEW a, InitDataUpdated(a), OnInitDataUpdated, Noted("initData"), UNCHANGED <<tab, stage, shown, tx>>
        PROVE  /\ Noted("initData") /\ UNCHANGED <<tab, stage, shown, tx, crashed, coins, index>>
               /\ OnInitDataUpdated
    BY <2>2 DEF InitDataUpdated, listVars, exchangeVars
  <2> QED BY <2>1, <2>2 DEF SendAnswer
<1>2. IndexOK' /\ TxInv'
  BY <1>1, IndexKept, TxKept DEF IInv, TxInv, Noted
<1>3. /\ SendWhole(send') /\ send'.data = send.data
      /\ what = "initData" => send'.account = send.account
  BY <1>1 DEF IInv, SendInv, SendWhole, SendFormFields, OnBalanceUpdated, OnInitDataUpdated
<1>4. InDialog' => SendShows'
  BY <1>1, <1>3 DEF IInv, SendInv, InDialog, SendShows, Noted
<1>5. SendWhole(send)'
  BY <1>1, <1>3 DEF SendWhole, SendFields
<1> QED BY <1>1, <1>2, <1>4, <1>5 DEF IInv, SendInv

LEMMA SendStepKeeps ==
  ASSUME IInv, tab = "send", SendStep, UNCHANGED exchangeVars
  PROVE  IInv'
<1> USE DEF exchangeVars
<1>1. CASE SendSubmit
  <2>1. /\ stage = "edit" /\ shown' = SendShown
        /\ UNCHANGED <<tab, tx, since, send, crashed, coins, index>>
    BY <1>1 DEF SendSubmit, OpenDialog, appVars, listVars
  <2>2. IndexOK' /\ TxInv'
    BY <2>1, IndexKept, NoTx DEF IInv, TxInv
  <2>3. SendWhole(send)' /\ SendShows'
    BY <2>1 DEF IInv, SendInv, SendWhole, SendFields, SendShows, SendShown
  <2> QED BY <2>1, <2>2, <2>3 DEF IInv, SendInv
<1>2. CASE Prepare(SendTx) /\ UNCHANGED send
  <2>1. /\ stage = "initData" /\ stage' = "sign" /\ tx' = SendTx
        /\ UNCHANGED <<tab, shown, since, send, crashed, coins, index>>
    BY <1>2 DEF Prepare, appVars, listVars
  <2>2. SendShows
    BY <2>1 DEF IInv, SendInv, InDialog
  <2>3. TxInv'
    BY <2>1, <2>2 DEF TxInv, SignedAsConfirmed, RouteExplained, SendTx, SendShows
  <2>4. SendWhole(send)' /\ ~InDialog'
    BY <2>1 DEF IInv, SendInv, SendWhole, SendFields, InDialog
  <2> QED BY <2>1, <2>3, <2>4, IndexKept DEF IInv, SendInv
<1>3. CASE (PrepareFails \/ Sign \/ DialogStep) /\ UNCHANGED send
  <2>1. SendInv' /\ UNCHANGED tab
    BY <1>3, StageMoves DEF IInv, SendInv, SendWhole, SendFields, SendShows
  <2> QED BY <1>3, <2>1, StageMoves, IndexKept DEF IInv
<1>4. CASE SendSent
  <2>1. PICK how \in Results : Sent(how)
    BY <1>4 DEF SendSent, Results
  <2>2. send' = send \/ send' = SendCleared
    BY <1>4 DEF SendSent
  <2>3. SendWhole(SendCleared)
    <3> DEFINE noRecipient == SetText(send, "recipient", "")
               noAmount == SetText(noRecipient, "amount", "")
               nothing == SetText(noAmount, "payload", "")
    <3>1. {"recipient", "amount", "payload"} \subseteq SendFields /\ SendWhole(send)
      BY DEF SendFields, IInv, SendInv
    <3>2. SendWhole(noRecipient)
      BY <3>1, SetTextIsWhole
    <3>3. SendWhole(noAmount)
      <4> HIDE DEF noRecipient
      <4> QED BY <3>1, <3>2, SetTextIsWhole
    <3>4. SendWhole(nothing)
      <4> HIDE DEF noAmount
      <4> QED BY <3>1, <3>3, SetTextIsWhole
    <3>5. SendCleared = Unvalidated(nothing)
      BY DEF SendCleared
    <3> HIDE DEF nothing
    <3> QED BY <3>4, <3>5 DEF SendWhole, SendFormFields, Unvalidated
  <2>4. UNCHANGED tab /\ ~InDialog'
    BY <2>1 DEF Sent, InDialog, Results
  <2>5. SendInv'
    BY <2>2, <2>3, <2>4 DEF IInv, SendInv, SendWhole, SendFields
  <2> QED BY <2>1, <2>4, <2>5, StageMoves, IndexKept DEF IInv
<1> QED BY <1>1, <1>2, <1>3, <1>4, SendEditKeeps, SendAnswerKeeps DEF SendStep, SendProgress, exchangeVars

-----------------------------------------------------------------------------
\* The exchange forms.
LEMMA ExchangeEditKeeps ==
  ASSUME IInv, tab # "send", crashed = "no", ExchangeEdit, UNCHANGED send
  PROVE  IInv'
<1>1. Whole(form) /\ HasRead(form) /\ Handled(Now)
  BY DEF IInv, ExchangeInv, Handled, Now
<1>2. CoinFields \subseteq Fields
  BY DEF CoinFields, Fields
<1>3. ASSUME NEW s, Handled(s), Ends(s), stage = "edit"
      PROVE  IInv'
  <2>1. /\ form' = s.f /\ (crashed' = IF s.threw THEN "no coin" ELSE "no")
        /\ UNCHANGED <<tab, stage, shown, tx, since, coins, index>>
    BY <1>3 DEF Ends, tabVars, appVars, listVars
  <2>2. IndexOK' /\ TxInv'
    BY <2>1, IndexKept, TxKept DEF IInv, TxInv
  <2>3. Whole(form)' /\ (crashed' = "no" => HasRead(form)') /\ (crashed' = "no coin" => Unread(form)')
    BY <1>3, <2>1, FormHandled DEF Handled
  <2> QED BY <1>3, <2>1, <2>2, <2>3 DEF IInv, ExchangeInv, InDialog
<1>4. ASSUME NEW field \in Fields, NEW text, TypeInto(field, text)
      PROVE  IInv'
  BY <1>1, <1>3, <1>4, PutHandles DEF TypeInto, MayEdit
<1>5. ASSUME NEW field \in CoinFields, NEW coin, Complete(field, coin)
      PROVE  IInv'
  <2> DEFINE once == RowSelected(Now, field, coin)
             twice == RowSelected(once, field, coin)
  <2>1. Handled(once)
    BY <1>1, RowSelectedHandles
  <2>2. Handled(twice)
    <3> HIDE DEF once
    <3> QED BY <2>1, RowSelectedHandles
  <2>3. Handled(Put(twice, field, coin))
    <3> HIDE DEF twice
    <3> QED BY <1>2, <2>2, PutHandles
  <2>4. Ends(Put(twice, field, coin)) /\ stage = "edit"
    BY <1>5 DEF Complete, MayEdit
  <2> QED BY <1>3, <2>3, <2>4
<1>6. ASSUME NEW i, GasItemSelected(i)
      PROVE  IInv'
  <2> DEFINE f == [form EXCEPT !.gasIdx = i, !.gasCoin = form.held[i].coin, !.picked = TRUE]
  <2>1. /\ form' = f /\ crashed' = crashed /\ stage = "edit"
        /\ UNCHANGED <<tab, stage, shown, tx, since, coins, index>>
    BY <1>6 DEF GasItemSelected, tabVars, appVars, listVars
  <2>2. IndexOK' /\ TxInv'
    BY <2>1, IndexKept, TxKept DEF IInv, TxInv
  <2>3. Whole(f) /\ HasRead(f)
    BY <1>1 DEF Whole, Shaped, FormFields, Checked, Settled, HasRead, AllValid
  <2> HIDE DEF f
  <2>4. Whole(form)' /\ HasRead(form)'
    BY <2>1, <2>3, FormHandled
  <2> QED BY <2>1, <2>2, <2>4 DEF IInv, ExchangeInv, InDialog
<1> QED BY <1>4, <1>5, <1>6 DEF ExchangeEdit, CoinFields

LEMMA BalanceKeeps ==
  ASSUME IInv, tab # "send", crashed = "no", UNCHANGED <<tab, stage, shown, tx, coins, index>>,
         NEW items, SetBalance(items), Noted("balance")
  PROVE  IInv'
<1> DEFINE f == [form EXCEPT !.held = items, !.gasIdx = 1, !.picked = FALSE]
           held == IF Owned(f, f.coinToSell) = {} THEN "0" ELSE HeldAmount(f, f.coinToSell)
           g == IF tab = "sellAll" /\ form.coinToSell # None THEN [f EXCEPT !.amount = held] ELSE f
<1>1. form' = g /\ crashed' = crashed
  BY DEF SetBalance
<1>2. Whole(form) /\ HasRead(form)
  BY DEF IInv, ExchangeInv
<1>3. Whole(f) /\ HasRead(f) /\ \A x \in FormFields \ {"held", "gasIdx", "picked"} : f[x] = form[x]
  BY <1>2 DEF Whole, Shaped, FormFields, Checked, Settled, HasRead, AllValid
<1>4. Whole(g) /\ HasRead(g) /\ \A x \in FormFields \ {"held", "gasIdx", "picked", "amount"} : g[x] = form[x]
  <2> HIDE DEF f, held
  <2> QED BY <1>2, <1>3 DEF Whole, Shaped, FormFields, Checked, Settled, HasRead, AllValid
<1>5. tab # "sellAll" => g.amount = form.amount
  <2> HIDE DEF f
  <2> QED BY <1>3 DEF FormFields
<1> HIDE DEF g
<1>6. IndexOK' /\ TxInv'
  BY IndexKept, TxKept DEF IInv, TxInv, Noted
<1>7. Whole(form)' /\ HasRead(form)'
  BY <1>1, <1>4, FormHandled
<1>8. InDialog' => ExchangeShows'
  <2> SUFFICES ASSUME InDialog
               PROVE  ExchangeShows'
    BY DEF InDialog
  <2>1. ExchangeShows /\ since' = since \cup {"balance"}
    BY DEF IInv, ExchangeInv, InDialog, Noted
  <2>2. /\ g.coinToSell = form.coinToSell /\ g.coinToBuy = form.coinToBuy
        /\ g.limit = form.limit /\ g.estimate = form.estimate
    BY <1>4 DEF FormFields
  <2> QED BY <1>1, <1>5, <2>1, <2>2 DEF ExchangeShows, LimitOf, Limit
<1> QED BY <1>1, <1>6, <1>7, <1>8 DEF IInv, ExchangeInv

LEMMA EstimateKeeps ==
  ASSUME IInv, tab # "send", crashed = "no", UNCHANGED <<tab, stage, shown, tx, coins, index>>,
         NEW by, NEW via, Estimated(by, via), Noted("estimate")
  PROVE  IInv'
<1> DEFINE ends == IF via = "pool" THEN <<by[1], by[2]>> ELSE <<form.coinToSell, form.coinToBuy>>
           g == [form EXCEPT !.estimate = [via |-> via, ends |-> ends],
                             !.state = IF by = form.last THEN "settled" ELSE "overtaken"]
<1>1. form' = g /\ crashed' = crashed
  BY DEF Estimated
<1>2. Whole(form) /\ HasRead(form)
  BY DEF IInv, ExchangeInv
<1>3. /\ \A x \in FormFields \ {"estimate", "state"} : g[x] = form[x]
      /\ DOMAIN g = FormFields /\ Settled(g)
  BY <1>2 DEF Whole, Shaped, FormFields, Settled
<1> HIDE DEF g
<1>4. Whole(g) /\ HasRead(g)
  BY <1>2, <1>3 DEF Whole, Shaped, FormFields, Checked, HasRead, AllValid
<1>5. IndexOK' /\ TxInv'
  BY IndexKept, TxKept DEF IInv, TxInv, Noted
<1>6. Whole(form)' /\ HasRead(form)'
  BY <1>1, <1>4, FormHandled
<1>7. InDialog' => ExchangeShows'
  <2> SUFFICES ASSUME InDialog
               PROVE  ExchangeShows'
    BY DEF InDialog
  <2>1. ExchangeShows /\ since' = since \cup {"estimate"}
    BY DEF IInv, ExchangeInv, InDialog, Noted
  <2>2. /\ g.coinToSell = form.coinToSell /\ g.coinToBuy = form.coinToBuy
        /\ g.limit = form.limit /\ g.amount = form.amount
    BY <1>3 DEF FormFields
  <2> QED BY <1>1, <2>1, <2>2 DEF ExchangeShows, LimitOf, Limit
<1> QED BY <1>1, <1>5, <1>6, <1>7 DEF IInv, ExchangeInv

LEMMA ExchangeStepKeeps ==
  ASSUME IInv, tab # "send", ExchangeStep, UNCHANGED send
  PROVE  IInv'
<1>1. crashed = "no" /\ Whole(form) /\ HasRead(form)
  BY DEF ExchangeStep, IInv, ExchangeInv
<1>2. CASE ExchangeSubmit
  <2>1. CASE form.estimate.via = "bancor" /\ form.estimate.ends = <<>>
    <3>1. crashed' = "no route" /\ UNCHANGED <<tab, stage, shown, tx, since, form, coins, index>>
      BY <1>2, <2>1 DEF ExchangeSubmit, tabVars, appVars, listVars
    <3>2. IndexOK' /\ TxInv'
      BY <3>1, IndexKept, TxKept DEF IInv, TxInv
    <3>3. Whole(form)'
      BY <1>1, <3>1, FormHandled
    <3>4. InDialog' => ExchangeShows'
      BY <3>1 DEF IInv, ExchangeInv, InDialog, ExchangeShows, LimitOf, Limit
    <3> QED BY <3>1, <3>2, <3>3, <3>4 DEF IInv, ExchangeInv
  <2>2. CASE ~(form.estimate.via = "bancor" /\ form.estimate.ends = <<>>)
    <3>1. /\ AllValid(form) /\ stage = "edit" /\ shown' = ExchangeShown
          /\ UNCHANGED <<tab, tx, since, form, crashed, coins, index>>
      BY <1>2, <2>2 DEF ExchangeSubmit, OpenDialog, exchangeVars, appVars, listVars
    <3>2. IndexOK' /\ TxInv'
      BY <3>1, IndexKept, NoTx DEF IInv, TxInv
    <3>3. Whole(form)' /\ HasRead(form)'
      BY <1>1, <3>1, FormHandled
    <3>4. ExchangeShows'
      <4>1. /\ shown'.amount = form.amount /\ shown'.limit = form.data["limit"]
            /\ shown'.from = form.coinToSell /\ shown'.to = form.coinToBuy
            /\ shown'.via = form.estimate.via /\ shown'.ends = form.estimate.ends
            /\ shown'.sure = (form.state = "settled")
        BY <3>1 DEF ExchangeShown
      <4>2. tab # "sellAll" => form.limit = LimitOf(shown'.limit)
        BY <1>1, <3>1, <4>1 DEF HasRead
      <4>3. shown'.sure /\ shown'.via = "pool" => shown'.ends = <<shown'.from, shown'.to>>
        BY <1>1, <3>1, <4>1 DEF HasRead, Whole, Settled
      <4> QED BY <3>1, <4>1, <4>2, <4>3 DEF ExchangeShows, LimitOf, Limit
    <3> QED BY <1>1, <3>1, <3>2, <3>3, <3>4 DEF IInv, ExchangeInv
  <2> QED BY <2>1, <2>2
<1>3. CASE Prepare(ExchangeTx) /\ UNCHANGED exchangeVars
  <2>1. /\ stage = "initData" /\ stage' = "sign" /\ tx' = ExchangeTx
        /\ UNCHANGED <<tab, shown, since, form, crashed, coins, index>>
    BY <1>3 DEF Prepare, exchangeVars, appVars, listVars
  <2>2. ExchangeShows
    BY <2>1 DEF IInv, ExchangeInv, InDialog
  <2>3. /\ tx'.type = tab /\ tx'.via = form.estimate.via /\ tx'.amount = form.amount /\ tx'.limit = form.limit
        /\ tx'.route = IF form.estimate.via = "pool" THEN form.estimate.ends
                       ELSE <<form.coinToSell, form.coinToBuy>>
    BY <2>1 DEF ExchangeTx
  <2>4. SignedAsConfirmed'
    BY <2>1, <2>2, <2>3 DEF SignedAsConfirmed, ExchangeShows, LimitOf, Limit
  <2>5. RouteExplained'
    BY <2>1, <2>2, <2>3 DEF RouteExplained, ExchangeShows
  <2>6. Whole(form)' /\ HasRead(form)' /\ ~InDialog'
    BY <1>1, <2>1, FormHandled DEF InDialog
  <2> QED BY <1>1, <2>1, <2>3, <2>4, <2>5, <2>6, IndexKept DEF IInv, ExchangeInv, TxInv
<1>4. CASE (PrepareFails \/ Sign \/ DialogStep) /\ UNCHANGED exchangeVars
  <2>1. UNCHANGED <<tab, form, crashed, coins, index>>
    BY <1>4, StageMoves DEF exchangeVars
  <2>2. Whole(form)' /\ HasRead(form)'
    BY <1>1, <2>1, FormHandled
  <2>3. InDialog' => ExchangeShows'
    BY <1>4, <2>1, StageMoves DEF IInv, ExchangeInv, ExchangeShows, LimitOf, Limit
  <2> QED BY <1>1, <1>4, <2>1, <2>2, <2>3, StageMoves, IndexKept DEF IInv, ExchangeInv
<1>5. CASE ExchangeSent
  <2>1. PICK how \in Results : Sent(how)
    BY <1>5 DEF ExchangeSent, Results
  <2>2. form' \in {form, Cleared} /\ crashed' = crashed
    BY <1>5 DEF ExchangeSent, exchangeVars
  <2>3. UNCHANGED <<tab, coins, index>> /\ ~InDialog'
    BY <2>1, StageMoves DEF Sent, InDialog, Results
  <2>4. Whole(form)' /\ HasRead(form)'
    BY <1>1, <2>2, <2>3, ClearedIsWhole, FormHandled
  <2> QED BY <1>1, <2>1, <2>2, <2>3, <2>4, StageMoves, IndexKept DEF IInv, ExchangeInv
<1>6. CASE ExchangeAnswer
  <2>1. ASSUME NEW a \in Addresses, NEW items \in Balances,
               BalanceUpdated(a, items), SetBalance(items), Noted("balance"), UNCHANGED <<tab, stage, shown, tx>>
        PROVE  IInv'
    BY <1>1, <2>1, BalanceKeeps DEF BalanceUpdated, listVars
  <2>2. ASSUME NEW by, NEW via, Estimated(by, via), Noted("estimate"), UNCHANGED <<tab, stage, shown, tx, appVars>>
        PROVE  IInv'
    BY <1>1, <2>2, EstimateKeeps DEF appVars, listVars
  <2>3. ASSUME NEW by, EstimateFails(by), UNCHANGED <<tabVars, appVars>>
        PROVE  IInv'
    <3>1. UNCHANGED <<tab, stage, shown, tx, since, form, crashed, coins, index>>
      BY <2>3 DEF EstimateFails, tabVars, appVars, listVars
    <3>2. IndexOK' /\ TxInv'
      BY <3>1, IndexKept, TxKept DEF IInv, TxInv
    <3>3. Whole(form)' /\ HasRead(form)'
      BY <1>1, <3>1, FormHandled
    <3>4. InDialog' => ExchangeShows'
      BY <3>1 DEF IInv, ExchangeInv, InDialog, ExchangeShows, LimitOf, Limit
    <3> QED BY <1>1, <3>1, <3>2, <3>3, <3>4 DEF IInv, ExchangeInv
  <2> QED BY <1>6, <2>1, <2>2, <2>3 DEF ExchangeAnswer
<1>7. CASE ExchangeEdit
  BY <1>1, <1>7, ExchangeEditKeeps
<1> QED BY <1>2, <1>3, <1>4, <1>5, <1>6, <1>7 DEF ExchangeStep, ExchangeProgress

LEMMA IInvStep == IInv /\ [Next]_vars => IInv'
<1> SUFFICES ASSUME IInv, [Next]_vars
             PROVE  IInv'
  OBVIOUS
<1>1. CASE UNCHANGED vars
  <2>1. UNCHANGED <<tab, stage, shown, tx, since, send, form, crashed, coins, index>>
    BY <1>1 DEF vars, tabVars, exchangeVars, appVars, listVars
  <2>2. IndexOK' /\ TxInv'
    BY <2>1, IndexKept, TxKept DEF IInv, TxInv
  <2>3. tab = "send" => SendInv'
    BY <2>1 DEF IInv, SendInv, SendWhole, SendFields, InDialog, SendShows
  <2>4. tab # "send" => ExchangeInv'
    <3>1. InDialog' => (tab # "send" => ExchangeShows')
      BY <2>1 DEF IInv, ExchangeInv, InDialog, ExchangeShows, LimitOf, Limit
    <3> QED BY <2>1, <3>1, FormHandled DEF IInv, ExchangeInv
  <2> QED BY <2>1, <2>2, <2>3, <2>4 DEF IInv
<1>2. CASE crashed = "no" /\ AppStep /\ UNCHANGED <<tabVars, send, exchangeVars>>
  BY <1>2, AppStepKeeps
<1>3. CASE tab = "send" /\ SendStep /\ UNCHANGED exchangeVars
  BY <1>3, SendStepKeeps
<1>4. CASE tab # "send" /\ ExchangeStep /\ UNCHANGED send
  BY <1>4, ExchangeStepKeeps
<1> QED BY <1>1, <1>2, <1>3, <1>4 DEF Next

LEMMA Invariance == Spec => []IInv
BY InitIInv, IInvStep, PTL DEF Spec

\* SignedAsConfirmed: what sendTx and the forms put into a transaction after the
\* gate has answered is what the dialog showed, but for what an answer changed.
THEOREM Confirmed == Spec => []SignedAsConfirmed
<1>1. IInv => SignedAsConfirmed
  BY DEF IInv, TxInv
<1> QED BY <1>1, Invariance, PTL

\* RouteExplained: an exchange goes between the coins confirmed, when the last
\* estimate asked for had come before the dialog and none came after it.
THEOREM RoutesExplained == Spec => []RouteExplained
<1>1. IInv => RouteExplained
  BY DEF IInv, TxInv
<1> QED BY <1>1, Invariance, PTL

\* CrashExplained: findCoinBySymbol(..).value() throws in a valid form only for a
\* coin that was typed before it was loaded.
THEOREM ExceptionsExplained == Spec => []CrashExplained
<1>1. IInv => CrashExplained
  BY DEF IInv, SendInv, ExchangeInv, CrashExplained, Unread, CoinFields
<1> QED BY <1>1, Invariance, PTL

-----------------------------------------------------------------------------
\* What a step does to ConsoleApp's state and to the stages, whichever tab it is.
Answers ==
  \/ \E a \in Addresses : AddressResolved(a) \/ InitDataUpdated(a)
  \/ \E a \in Addresses, items \in Balances : BalanceUpdated(a, items)
  \/ \E list \in CoinLists : CoinListUpdated(list)
  \/ UNCHANGED appVars

Stays == UNCHANGED <<tab, stage, shown, tx>> /\ (UNCHANGED since \/ \E what \in {"balance", "initData", "estimate"} : Noted(what))

Moves ==
  \/ DialogStep \/ PrepareFails \/ Sign
  \/ \E how \in Results : Sent(how)
  \/ tab = "send" /\ (OpenDialog(SendShown) \/ Prepare(SendTx))
  \/ tab # "send" /\ (OpenDialog(ExchangeShown) \/ Prepare(ExchangeTx))

LEMMA StepOutline ==
  ASSUME [Next]_vars
  PROVE  Answers /\ (Stays \/ Moves) /\ UNCHANGED tab
<1>1. CASE UNCHANGED vars
  BY <1>1 DEF vars, tabVars, Answers, Stays
<1>2. CASE AppStep /\ UNCHANGED <<tabVars, send, exchangeVars>>
  BY <1>2 DEF AppStep, tabVars, Answers, Stays
<1>3. CASE tab = "send" /\ SendStep
  <2>1. CASE SendEdit
    <3>1. UNCHANGED <<tabVars, appVars>>
      BY <2>1 DEF SendEdit, TypeText, UsePercent, CoinSelected, GasCoinSelected, Edits
    <3> QED BY <3>1 DEF tabVars, Answers, Stays
  <2>2. CASE SendAnswer
    BY <2>2 DEF SendAnswer, Answers, Stays
  <2>3. CASE SendSubmit \/ SendProgress \/ DialogStep
    <3>1. Moves
      BY <1>3, <2>3 DEF SendSubmit, SendProgress, SendSent, Moves, Results
    <3>2. UNCHANGED <<tab, appVars>>
      BY <3>1 DEF Moves, DialogStep, Cancel, Confirm, CloseResult, PrepareFails, Sign, Sent, OpenDialog, Prepare
    <3> QED BY <3>1, <3>2 DEF Answers
  <2> QED BY <1>3, <2>1, <2>2, <2>3 DEF SendStep
<1>4. CASE tab # "send" /\ ExchangeStep
  <2>1. CASE ExchangeEdit
    <3>1. UNCHANGED <<tabVars, appVars>>
      BY <2>1 DEF ExchangeEdit, TypeInto, Complete, GasItemSelected, Ends
    <3> QED BY <3>1 DEF tabVars, Answers, Stays
  <2>2. CASE ExchangeAnswer
    BY <2>2 DEF ExchangeAnswer, Answers, Stays, tabVars
  <2>3. CASE ExchangeSubmit /\ UNCHANGED <<tabVars, appVars>>
    BY <2>3 DEF tabVars, Answers, Stays
  <2>4. CASE (ExchangeSubmit /\ ~UNCHANGED <<tabVars, appVars>>) \/ ExchangeProgress \/ DialogStep
    <3>1. Moves
      BY <1>4, <2>4 DEF ExchangeSubmit, ExchangeProgress, ExchangeSent, Moves, Results
    <3>2. UNCHANGED <<tab, appVars>>
      BY <3>1 DEF Moves, DialogStep, Cancel, Confirm, CloseResult, PrepareFails, Sign, Sent, OpenDialog, Prepare
    <3> QED BY <3>1, <3>2 DEF Answers
  <2> QED BY <1>4, <2>1, <2>2, <2>3, <2>4 DEF ExchangeStep
<1> QED BY <1>1, <1>2, <1>3, <1>4 DEF Next

\* The stages: something is shown but while editing, a transaction is there from
\* its making to the closing of the result.
LEMMA StagesStep ==
  ASSUME StagesOK, [Next]_vars
  PROVE  StagesOK'
<1>1. SendShown # Absent /\ ExchangeShown # Absent /\ SendTx # Absent /\ ExchangeTx # Absent
  BY DEF SendShown, ExchangeShown, SendTx, ExchangeTx, Absent
<1>2. CASE Stays
  BY <1>2 DEF Stays, Noted, StagesOK, Absent
<1>3. CASE OpenDialog(SendShown) \/ OpenDialog(ExchangeShown)
  BY <1>1, <1>3 DEF OpenDialog, StagesOK, Stages, Sending, Absent
<1>4. CASE Prepare(SendTx) \/ Prepare(ExchangeTx)
  BY <1>1, <1>4 DEF Prepare, StagesOK, Stages, Sending, Absent
<1>5. CASE PrepareFails \/ Sign \/ \E how \in Results : Sent(how)
  BY <1>5 DEF PrepareFails, Sign, Sent, Results, StagesOK, Stages, Sending, Absent
<1>6. CASE DialogStep
  BY <1>6 DEF DialogStep, Cancel, Confirm, CloseResult, Results, StagesOK, Stages, Sending, Absent
<1> QED BY <1>2, <1>3, <1>4, <1>5, <1>6, StepOutline DEF Moves

\* TabSend's form: the button follows the fields, a valid field was read.
SendTyped(f) ==
  /\ DOMAIN f.valid = SendFields
  /\ f.data \in [SendFields -> UNION {SendTexts[x] : x \in SendFields}]
  /\ f.submit = AllValid(f)
  /\ \A x \in SendFields : f.valid[x] /\ Required(x) => f.data[x] = f.text[x] /\ f.text[x] \notin {"", Part}

LEMMA SetTextIsTyped ==
  ASSUME NEW f, SendWhole(f), SendTyped(f), NEW field \in SendFields, NEW text \in SendTexts[field]
  PROVE  SendTyped(SetText(f, field, text))
<1> DEFINE ok == Skipped(field, text) \/ Verdicts(field, text) \subseteq {"Acceptable"}
           Texts == UNION {SendTexts[x] : x \in SendFields}
           g == Changed(f, field, text)
           after == OnFormValidated(g)
           h == [after EXCEPT !.fee = IF field = "payload" THEN text ELSE @]
<1>1. text \in Texts /\ "" \in Texts
  BY DEF SendFields, SendTexts
<1>2. ok /\ Required(field) => text \notin {"", Part}
  BY DEF Skipped, Required, Verdicts, Pattern
<1>3. /\ DOMAIN g = SendFormFields /\ DOMAIN g.valid = SendFields
      /\ g.data = [f.data EXCEPT ![field] = IF ok THEN text ELSE ""]
      /\ g.text = [f.text EXCEPT ![field] = text]
      /\ \A x \in SendFields \ {field} : g.valid[x] => f.valid[x]
      /\ g.valid[field] => ok
  <2>1. g = [f EXCEPT !.text[field] = text, !.valid[field] = ok, !.data[field] = IF ok THEN text ELSE ""]
    BY DEF Changed
  <2> HIDE DEF g, ok
  <2> QED BY <2>1 DEF SendWhole, SendFormFields, SendTyped
<1>4. g.data \in [SendFields -> Texts]
  <2>1. f.data \in [SendFields -> Texts]
    BY DEF SendTyped
  <2> HIDE DEF Texts, ok, g
  <2> QED BY <1>1, <1>3, <2>1
<1> HIDE DEF g, ok
<1>5. ASSUME NEW x \in SendFields, g.valid[x], Required(x)
      PROVE  g.data[x] = g.text[x] /\ g.text[x] \notin {"", Part}
  <2>1. CASE x = field
    BY <1>2, <1>3, <1>5, <2>1 DEF SendWhole, SendTyped
  <2>2. CASE x # field
    BY <1>3, <1>5, <2>2 DEF SendWhole, SendTyped
  <2> QED BY <2>1, <2>2
<1>6. /\ h.text = g.text /\ h.data = g.data /\ h.valid = g.valid
      /\ h.submit = AllValid(g)
  BY <1>3 DEF OnFormValidated, SendFormFields
<1> HIDE DEF h
<1>7. h.submit = AllValid(h)
  BY <1>6 DEF AllValid
<1>8. SendTyped(h)
  BY <1>3, <1>4, <1>5, <1>6, <1>7 DEF SendTyped
<1>9. SetText(f, field, text) = IF f.text[field] = text THEN f ELSE h
  BY DEF SetText, h, g
<1> QED BY <1>8, <1>9

LEMMA SendClearedIsTyped ==
  ASSUME SendWhole(send), SendTyped(send)
  PROVE  SendTyped(SendCleared)
<1> DEFINE noRecipient == SetText(send, "recipient", "")
           noAmount == SetText(noRecipient, "amount", "")
           nothing == SetText(noAmount, "payload", "")
           g == Unvalidated(nothing)
<1>1. /\ {"recipient", "amount", "payload"} \subseteq SendFields
      /\ \A x \in SendFields : "" \in SendTexts[x]
  BY DEF SendFields, SendTexts
<1>2. SendWhole(noRecipient) /\ SendTyped(noRecipient) /\ noRecipient.text["recipient"] = ""
  <2>1. noRecipient.text["recipient"] = ""
    BY <1>1 DEF SetText, Changed, OnFormValidated, SendWhole, SendFormFields
  <2> QED BY <1>1, <2>1, SetTextIsWhole, SetTextIsTyped
<1>3. SendWhole(noAmount) /\ SendTyped(noAmount) /\ noAmount.text["recipient"] = ""
  <2> HIDE DEF noRecipient
  <2>1. noAmount.text["recipient"] = ""
    BY <1>1, <1>2 DEF SetText, Changed, OnFormValidated, SendWhole, SendFormFields
  <2> QED BY <1>1, <1>2, <2>1, SetTextIsWhole, SetTextIsTyped
<1>4. SendWhole(nothing) /\ SendTyped(nothing) /\ nothing.text["recipient"] = ""
  <2> HIDE DEF noAmount
  <2>1. nothing.text["recipient"] = ""
    BY <1>1, <1>3 DEF SetText, Changed, OnFormValidated, SendWhole, SendFormFields
  <2> QED BY <1>1, <1>3, <2>1, SetTextIsWhole, SetTextIsTyped
<1>5. SendCleared = g
  BY DEF SendCleared
<1> HIDE DEF nothing
<1>6. ~AllValid(nothing) /\ nothing.submit = FALSE
  <2>1. Required("recipient")
    BY DEF Required
  <2>2. ~nothing.valid["recipient"]
    BY <1>1, <1>4, <2>1 DEF SendTyped
  <2> QED BY <1>1, <1>4, <2>2 DEF SendTyped, AllValid
<1>7. /\ g.text = nothing.text /\ g.data = nothing.data /\ g.submit = nothing.submit
      /\ g.valid = [x \in SendFields |-> nothing.valid[x] /\ ~Required(x)]
  BY <1>4 DEF Unvalidated, SendWhole, SendFormFields, SendTyped
<1> HIDE DEF g
<1>8. g.submit = AllValid(g)
  <2>1. ~g.valid["recipient"]
    BY <1>1, <1>7 DEF Required
  <2> QED BY <1>1, <1>6, <1>7, <2>1 DEF AllValid
<1> QED BY <1>4, <1>5, <1>7, <1>8 DEF SendTyped

\* What a step does to TabSend's form.
SendFormStep ==
  \/ \E field \in SendFields : \E text \in SendTexts[field] : send' = SetText(send, field, text)
  \/ \E i : CoinSelected(i) \/ GasCoinSelected(i)
  \/ \E items \in Balances : OnBalanceUpdated(items)
  \/ OnInitDataUpdated \/ send' = SendCleared \/ UNCHANGED send

LEMMA SendFormOutline ==
  ASSUME [Next]_vars, tab = "send"
  PROVE  SendFormStep
<1>1. "amount" \in SendFields
  BY DEF SendFields
<1>2. CASE UNCHANGED send
  BY <1>2 DEF SendFormStep
<1>3. CASE SendEdit
  <2>1. ASSUME NEW field \in SendFields, NEW text \in SendTexts[field], TypeText(field, text)
        PROVE  SendFormStep
    BY <2>1 DEF TypeText, Edits, SendFormStep
  <2>2. ASSUME NEW text \in SendTexts["amount"], UsePercent(text)
        PROVE  SendFormStep
    BY <1>1, <2>2 DEF UsePercent, Edits, SendFormStep
  <2> QED BY <1>3, <2>1, <2>2 DEF SendEdit, SendFormStep
<1>4. CASE SendAnswer
  BY <1>4 DEF SendAnswer, SendFormStep
<1>5. CASE SendSent
  BY <1>5 DEF SendSent, SendFormStep
<1> QED BY <1>2, <1>3, <1>4, <1>5 DEF Next, vars, SendStep, SendSubmit, SendProgress

LEMMA SendTypedStep ==
  ASSUME SendWhole(send), SendTyped(send), [Next]_vars, tab = "send"
  PROVE  SendTyped(send)'
<1> SUFFICES SendTyped(send')
  BY DEF SendTyped, SendFields, AllValid, SendTexts, Required, Part
<1>1. ASSUME NEW field \in SendFields, NEW text \in SendTexts[field], send' = SetText(send, field, text)
      PROVE  SendTyped(send')
  BY <1>1, SetTextIsTyped
<1>2. ASSUME NEW i, CoinSelected(i) \/ GasCoinSelected(i)
      PROVE  SendTyped(send')
  BY <1>2 DEF CoinSelected, GasCoinSelected, Edits, SendWhole, SendFormFields, SendTyped, AllValid
<1>3. ASSUME NEW items, OnBalanceUpdated(items) \/ OnInitDataUpdated
      PROVE  SendTyped(send')
  BY <1>3 DEF OnBalanceUpdated, OnInitDataUpdated, SendWhole, SendFormFields, SendTyped, AllValid
<1>4. CASE send' = SendCleared
  BY <1>4, SendClearedIsTyped
<1> QED BY <1>1, <1>2, <1>3, <1>4, SendFormOutline DEF SendFormStep

\* A form's handlers: the button follows the fields, and what the gas list holds
\* and showed last is left alone.
GasFields == {"gasIdx", "gasCoin", "picked", "held"}
KeepsGas(f) == \A x \in GasFields : f[x] = form[x]
Follows(f) == f.submit = AllValid(f) /\ KeepsGas(f)

LEMMA OnFormValidFollows ==
  ASSUME NEW s, OnTheWay(s), KeepsGas(s.f)
  PROVE  Follows(OnFormValid(s).f)
<1> DEFINE f == [s.f EXCEPT !.submit = AllValid(s.f)]
           read == Reading(f)
           asks == [read EXCEPT !.last = Input(read), !.state = "asked"]
<1>1. /\ DOMAIN f = FormFields /\ f.valid = s.f.valid /\ f.submit = AllValid(s.f)
      /\ KeepsGas(f)
  BY DEF OnTheWay, Whole, Shaped, FormFields, KeepsGas, GasFields
<1>2. Follows(f)
  BY <1>1 DEF Follows, AllValid
<1> HIDE DEF f
<1>3. /\ DOMAIN read = FormFields /\ read.valid = f.valid /\ read.submit = f.submit
      /\ KeepsGas(read)
  BY <1>1 DEF Reading, FormFields, KeepsGas, GasFields
<1> HIDE DEF read
<1>4. asks.valid = f.valid /\ asks.submit = f.submit /\ KeepsGas(asks)
  BY <1>3 DEF FormFields, KeepsGas, GasFields
<1> HIDE DEF asks
<1>5. Follows(asks)
  BY <1>2, <1>4 DEF Follows, AllValid
<1>6. OnFormValid(s).f \in {f, asks}
  <2>1. \/ OnFormValid(s) = [s EXCEPT !.f = f]
        \/ OnFormValid(s) = [s EXCEPT !.f = f, !.threw = TRUE]
        \/ OnFormValid(s) = [s EXCEPT !.f = asks, !.asks = @ (+) SetToBag({Input(read)})]
    BY DEF OnFormValid, f, read, asks
  <2> QED BY <2>1 DEF OnTheWay
<1> QED BY <1>2, <1>5, <1>6

LEMMA PutFollows ==
  ASSUME NEW s, Handled(s), Follows(s.f), NEW field \in Fields, NEW text
  PROVE  Follows(Put(s, field, text).f)
<1>1. CASE s.threw \/ s.f.text[field] = text
  BY <1>1 DEF Put
<1>2. CASE ~(s.threw \/ s.f.text[field] = text)
  <2> DEFINE t == [s EXCEPT !.f = Changed(@, field, text)]
  <2>1. t.f = Changed(s.f, field, text) /\ DOMAIN t = DOMAIN s /\ t.threw = s.threw
    BY DEF Handled
  <2>2. Whole(t.f)
    BY <2>1, ChangedIsWhole DEF Handled
  <2>3. OnTheWay(t)
    <3> HIDE DEF t
    <3> QED BY <1>2, <2>1, <2>2 DEF Handled, OnTheWay
  <2>4. KeepsGas(t.f)
    <3>1. \A x \in GasFields : Changed(s.f, field, text)[x] = s.f[x]
      BY DEF Changed, Handled, Whole, Shaped, FormFields, GasFields
    <3> HIDE DEF t
    <3> QED BY <2>1, <3>1 DEF Follows, KeepsGas
  <2>5. Put(s, field, text) = OnFormValid(t)
    BY <1>2 DEF Put
  <2> HIDE DEF t
  <2> QED BY <2>3, <2>4, <2>5, OnFormValidFollows
<1> QED BY <1>1, <1>2

LEMMA RowSelectedFollows ==
  ASSUME NEW s, Handled(s), Follows(s.f), NEW field \in CoinFields, NEW coin
  PROVE  Follows(RowSelected(s, field, coin).f)
<1>1. CASE s.threw
  BY <1>1 DEF RowSelected
<1>2. CASE ~s.threw
  <2> DEFINE found == IF HasCoin(coin) THEN Found(coin) ELSE None
             f == IF field = "coin_to_buy" THEN [s.f EXCEPT !.coinToBuy = found]
                                           ELSE [s.f EXCEPT !.coinToSell = found]
             t == [s EXCEPT !.f = Validated(f, field)]
  <2>1. Whole(f) /\ KeepsGas(f)
    <3> HIDE DEF found
    <3> QED BY DEF Handled, Whole, Shaped, Checked, Settled, FormFields, Follows, KeepsGas, GasFields
  <2>2. Whole(Validated(f, field)) /\ KeepsGas(Validated(f, field))
    <3> HIDE DEF f
    <3>1. KeepsGas(Validated(f, field))
      BY <2>1 DEF Validated, Whole, Shaped, FormFields, KeepsGas, GasFields
    <3> QED BY <2>1, <3>1, ValidatedIsWhole
  <2>3. t.f = Validated(f, field) /\ DOMAIN t = DOMAIN s /\ t.threw = s.threw
    <3> HIDE DEF f
    <3> QED BY DEF Handled
  <2>4. OnTheWay(t)
    <3> HIDE DEF f, t
    <3> QED BY <1>2, <2>2, <2>3 DEF Handled, OnTheWay
  <2>5. RowSelected(s, field, coin) = OnFormValid(t)
    BY <1>2 DEF RowSelected
  <2> HIDE DEF t, f
  <2> QED BY <2>2, <2>3, <2>4, <2>5, OnFormValidFollows
<1> QED BY <1>1, <1>2

\* Clearing a required field invalidates the form, so no handler throws.
LEMMA ClearingIsQuiet ==
  ASSUME NEW s, Handled(s), ~s.threw, NEW field \in Fields, Required(field)
  PROVE  ~Put(s, field, "").threw
<1>1. CASE s.f.text[field] = ""
  BY <1>1 DEF Put
<1>2. CASE s.f.text[field] # ""
  <2> DEFINE f == Changed(s.f, field, "")
             t == [s EXCEPT !.f = f]
  <2>1. Put(s, field, "") = OnFormValid(t) /\ t.f = f /\ t.threw = s.threw /\ DOMAIN t = DOMAIN s
    BY <1>2 DEF Put, Handled
  <2>2. ~AllValid(f)
    <3>1. ~Skipped(field, "") /\ ~(Verdicts(field, "") \subseteq {"Acceptable"})
      BY DEF Required, Skipped, Verdicts, Pattern
    <3>2. DOMAIN f.valid = Fields /\ ~f.valid[field]
      BY <3>1 DEF Changed, Handled, Whole, Shaped, FormFields
    <3> QED BY <3>2 DEF AllValid
  <2>3. OnFormValid(t) = [t EXCEPT !.f = [f EXCEPT !.submit = AllValid(f)]]
    <3>1. DOMAIN f = FormFields
      BY DEF Changed, Handled, Whole, Shaped
    <3>2. ~[f EXCEPT !.submit = AllValid(f)].submit
      <4> HIDE DEF f
      <4> QED BY <2>2, <3>1 DEF FormFields
    <3> HIDE DEF f, t
    <3> QED BY <2>1, <3>2 DEF OnFormValid
  <2> HIDE DEF f, t
  <2> QED BY <2>1, <2>3 DEF Handled
<1> QED BY <1>1, <1>2

\* What is put into a field is its text, and the other texts stay.
LEMMA PutSetsText ==
  ASSUME NEW s, Handled(s), ~s.threw, NEW field \in Fields, NEW text
  PROVE  /\ Put(s, field, text).f.text[field] = text
         /\ \A x \in Fields \ {field} : Put(s, field, text).f.text[x] = s.f.text[x]
<1>1. CASE s.f.text[field] = text
  BY <1>1 DEF Put, Handled, Whole, Shaped
<1>2. CASE s.f.text[field] # text
  <2> DEFINE f == Changed(s.f, field, text)
             t == [s EXCEPT !.f = f]
             v == [f EXCEPT !.submit = AllValid(f)]
             read == Reading(v)
             asks == [read EXCEPT !.last = Input(read), !.state = "asked"]
  <2>1. Put(s, field, text) = OnFormValid(t) /\ t.f = f /\ DOMAIN t = {"f", "asks", "threw"}
    BY <1>2 DEF Put, Handled
  <2>2. DOMAIN f = FormFields /\ f.text[field] = text /\ \A x \in Fields \ {field} : f.text[x] = s.f.text[x]
    BY DEF Changed, Handled, Whole, Shaped, FormFields
  <2>3. DOMAIN v = FormFields /\ v.text = f.text
    <3> HIDE DEF f
    <3> QED BY <2>2 DEF FormFields
  <2>4. \/ OnFormValid(t) = [t EXCEPT !.f = v]
        \/ OnFormValid(t) = [t EXCEPT !.f = v, !.threw = TRUE]
        \/ OnFormValid(t) = [t EXCEPT !.f = asks, !.asks = @ (+) SetToBag({Input(read)})]
    <3> HIDE DEF f, t
    <3> QED BY <2>1 DEF OnFormValid
  <2> HIDE DEF f, t, v
  <2>5. DOMAIN read = FormFields /\ read.text = f.text
    BY <2>3 DEF Reading, FormFields
  <2> HIDE DEF read
  <2>6. asks.text = f.text
    BY <2>5 DEF FormFields
  <2> HIDE DEF asks
  <2>7. OnFormValid(t).f \in {v, asks}
    BY <2>1, <2>4
  <2>8. Put(s, field, text).f.text = f.text
    BY <2>1, <2>3, <2>6, <2>7
  <2> QED BY <2>2, <2>8
<1> QED BY <1>1, <1>2

LEMMA ClearedFollows ==
  ASSUME Whole(form), HasRead(form), form.submit = AllValid(form)
  PROVE  Follows(Cleared)
<1> DEFINE noAmount == IF tab = "sellAll" THEN Now ELSE Put(Now, "amount", "")
           noSell == Put(noAmount, "coin_to_sell", "")
           noCoins == Put(noSell, "coin_to_buy", "")
           last == Put(noCoins, "limit", "")
           g == Unvalidated(last.f)
           Quiet(s) == Handled(s) /\ Follows(s.f) /\ ~s.threw
<1>1. Quiet(Now)
  BY DEF Handled, Now, Follows, KeepsGas
<1>2. {"coin_to_sell", "coin_to_buy", "limit"} \subseteq Fields /\ (tab # "sellAll" => "amount" \in Fields)
  BY DEF Fields
<1>3. ASSUME NEW s, Quiet(s), NEW field \in Fields, Required(field)
      PROVE  Quiet(Put(s, field, ""))
  BY <1>3, PutHandles, PutFollows, ClearingIsQuiet
<1>4. Quiet(noAmount)
  <2>1. Required("amount")
    BY DEF Required
  <2> HIDE DEF Quiet
  <2> QED BY <1>1, <1>2, <1>3, <2>1
<1>5. Required("coin_to_sell") /\ Required("coin_to_buy")
  BY DEF Required
<1>6. Quiet(noSell)
  <2> HIDE DEF noAmount, Quiet
  <2> QED BY <1>2, <1>3, <1>4, <1>5
<1>7. Quiet(noCoins)
  <2> HIDE DEF noSell, Quiet
  <2> QED BY <1>2, <1>3, <1>5, <1>6
<1>8. noCoins.f.text["coin_to_buy"] \notin Coins
  <2>1. ASSUME NEW s, Handled(s), ~s.threw, NEW text, text \notin Coins
        PROVE  Put(s, "coin_to_buy", text).f.text["coin_to_buy"] \notin Coins
    BY <1>2, <2>1, PutSetsText
  <2> HIDE DEF noSell
  <2> QED BY <1>6, <2>1, TabAssumption
<1>9. Handled(last) /\ Follows(last.f) /\ last.f.text["coin_to_buy"] \notin Coins
  <2>1. ASSUME NEW s, Handled(s), ~s.threw, NEW text, s.f.text["coin_to_buy"] \notin Coins
        PROVE  Put(s, "limit", text).f.text["coin_to_buy"] \notin Coins
    BY <1>2, <2>1, PutSetsText
  <2> HIDE DEF noCoins
  <2> QED BY <1>2, <1>7, <1>8, <2>1, PutHandles, PutFollows
<1> HIDE DEF last
<1>10. ~last.f.valid["coin_to_buy"] /\ ~last.f.submit
  <2>1. ~HasCoin(last.f.text["coin_to_buy"])
    BY <1>9 DEF HasCoin
  <2>2. ~last.f.valid["coin_to_buy"]
    BY <1>9, <2>1 DEF Handled, Whole, Checked, CoinFields
  <2> QED BY <1>2, <1>9, <2>2 DEF Handled, Whole, Shaped, Follows, AllValid
<1>11. /\ g.submit = last.f.submit /\ \A x \in GasFields : g[x] = last.f[x]
       /\ DOMAIN g.valid = Fields /\ ~g.valid["coin_to_buy"]
  BY <1>2, <1>5, <1>9 DEF Unvalidated, Handled, Whole, Shaped, FormFields, GasFields
<1>12. Cleared = g
  BY DEF Cleared, last
<1> HIDE DEF g
<1>13. g.submit = AllValid(g)
  BY <1>2, <1>9, <1>10, <1>11 DEF AllValid, Follows
<1>14. KeepsGas(g)
  BY <1>9, <1>11 DEF Follows, KeepsGas
<1> QED BY <1>12, <1>13, <1>14 DEF Follows

LEMMA ExchangeEditOutline ==
  ASSUME IInv, ExchangeOK, ExchangeEdit, tab # "send", crashed = "no"
  PROVE  Follows(form') \/ \E i \in 1..Len(form.held) : GasItemSelected(i)
<1> DEFINE Ready(s) == Handled(s) /\ Follows(s.f)
<1>1. Ready(Now)
  BY DEF IInv, ExchangeInv, ExchangeOK, Handled, Now, Follows, KeepsGas
<1>2. ASSUME NEW s, Ready(s), NEW field \in Fields, NEW text
      PROVE  Ready(Put(s, field, text))
  BY <1>2, PutHandles, PutFollows
<1>3. ASSUME NEW s, Ready(s), NEW field \in CoinFields, NEW coin
      PROVE  Ready(RowSelected(s, field, coin))
  BY <1>3, RowSelectedHandles, RowSelectedFollows
<1>4. CoinFields \subseteq Fields
  BY DEF CoinFields, Fields
<1>5. ASSUME NEW field \in Fields, NEW text, TypeInto(field, text)
      PROVE  Follows(form')
  <2>1. Ready(Put(Now, field, text))
    <3> HIDE DEF Ready
    <3> QED BY <1>1, <1>2
  <2> QED BY <1>5, <2>1 DEF TypeInto, Ends
<1>6. ASSUME NEW field \in CoinFields, NEW coin, Complete(field, coin)
      PROVE  Follows(form')
  <2> DEFINE once == RowSelected(Now, field, coin)
             twice == RowSelected(once, field, coin)
  <2>1. Ready(Put(twice, field, coin))
    <3> HIDE DEF Ready
    <3>1. Ready(once)
      BY <1>1, <1>3
    <3> HIDE DEF once
    <3>2. Ready(twice)
      BY <3>1, <1>3
    <3> HIDE DEF twice
    <3> QED BY <3>2, <1>2, <1>4
  <2> QED BY <1>6, <2>1 DEF Complete, Ends
<1> QED BY <1>5, <1>6 DEF ExchangeEdit, CoinFields

\* What a step does to an exchange form.
LEMMA FormOutline ==
  ASSUME IInv, ExchangeOK, [Next]_vars, tab # "send"
  PROVE  \/ Follows(form')
         \/ \E i \in 1..Len(form.held) : GasItemSelected(i)
         \/ /\ \E items \in Balances : SetBalance(items)
            /\ Noted("balance") /\ UNCHANGED <<stage, shown, tx>>
<1>1. CASE UNCHANGED form
  BY <1>1 DEF ExchangeOK, Follows, KeepsGas
<1>2. CASE crashed = "no" /\ ExchangeEdit
  BY <1>2, ExchangeEditOutline
<1>3. ASSUME NEW by, NEW via, Estimated(by, via)
      PROVE  Follows(form')
  BY <1>3 DEF Estimated, IInv, ExchangeInv, Whole, Shaped, FormFields, ExchangeOK, Follows, KeepsGas, GasFields, AllValid
<1>4. CASE crashed = "no" /\ ExchangeAnswer
  BY <1>1, <1>3, <1>4 DEF ExchangeAnswer, EstimateFails
<1>5. CASE crashed = "no" /\ ExchangeSent
  <2>1. Follows(Cleared)
    BY <1>5, ClearedFollows DEF IInv, ExchangeInv, ExchangeOK
  <2> QED BY <1>1, <1>5, <2>1 DEF ExchangeSent, exchangeVars
<1> QED BY <1>1, <1>2, <1>4, <1>5
        DEF Next, vars, exchangeVars, ExchangeStep, ExchangeSubmit, ExchangeProgress

LEMMA ExchangeOKStep ==
  ASSUME IInv, ExchangeOK, [Next]_vars, tab # "send"
  PROVE  ExchangeOK'
<1>1. form'.submit = AllValid(form')
  <2>1. CASE Follows(form')
    BY <2>1 DEF Follows
  <2>2. ASSUME NEW i, GasItemSelected(i)
        PROVE  form'.submit = AllValid(form')
    BY <2>2 DEF GasItemSelected, IInv, ExchangeInv, Whole, Shaped, FormFields, ExchangeOK, AllValid
  <2>3. ASSUME NEW items, SetBalance(items)
        PROVE  form'.submit = AllValid(form')
    <3> DEFINE f == [form EXCEPT !.held = items, !.gasIdx = 1, !.picked = FALSE]
               held == IF Owned(f, f.coinToSell) = {} THEN "0" ELSE HeldAmount(f, f.coinToSell)
               g == IF tab = "sellAll" /\ form.coinToSell # None THEN [f EXCEPT !.amount = held] ELSE f
    <3>1. form' = g
      BY <2>3 DEF SetBalance
    <3>2. DOMAIN f = FormFields /\ f.submit = form.submit /\ f.valid = form.valid
      BY DEF IInv, ExchangeInv, Whole, Shaped, FormFields
    <3>3. g.submit = form.submit /\ g.valid = form.valid
      <4> HIDE DEF f, held
      <4> QED BY <3>2 DEF FormFields
    <3> HIDE DEF g
    <3> QED BY <3>1, <3>3 DEF ExchangeOK, AllValid
  <2> QED BY <2>1, <2>2, <2>3, FormOutline
<1>2. crashed' \in {"no", "no coin", "no route"}
  <2>1. CASE crashed' = crashed
    BY <2>1 DEF ExchangeOK
  <2>2. CASE \E s : Ends(s)
    BY <2>2 DEF Ends
  <2>3. CASE crashed' = "no route"
    BY <2>3
  <2> QED BY <2>1, <2>2, <2>3
          DEF Next, vars, exchangeVars, ExchangeStep, ExchangeEdit, TypeInto, Complete, GasItemSelected,
              ExchangeSubmit, ExchangeAnswer, SetBalance, Estimated, EstimateFails,
              ExchangeProgress, ExchangeSent
<1> QED BY <1>1, <1>2 DEF ExchangeOK, AllValid

TypeInv == TypeOK /\ (tab = "send" => SendTyped(send))

LEMMA InitTypes == Init => TypeInv
<1> SUFFICES ASSUME Init
             PROVE  TypeInv
  OBVIOUS
<1>1. AppTypeOK
  <2>1. <<>> \in {Sorted(list) : list \in CoinLists} \cup {<<>>} /\ Len(<<>>) = 0
    OBVIOUS
  <2> QED BY <2>1 DEF Init, AppInit, AppTypeOK
<1>2. StagesOK
  BY DEF Init, TabInit, StagesOK, Stages, Sending
<1>3. ASSUME tab = "send"
      PROVE  SendOK /\ SendTyped(send)
  <2>1. /\ send.data = Blank(SendFields) /\ send.text = Blank(SendFields)
        /\ send.valid = OptionalValid(SendFields) /\ send.submit = FALSE
    BY <1>3 DEF Init, SendInit
  <2>2. "amount" \in SendFields /\ \A x \in SendFields : "" \in SendTexts[x]
    BY DEF SendFields, SendTexts
  <2>3. send.data \in [SendFields -> UNION {SendTexts[x] : x \in SendFields}]
    BY <2>1, <2>2 DEF Blank
  <2>4. \A x \in SendFields : send.valid[x] => ~Required(x)
    BY <2>1 DEF OptionalValid
  <2>5. send.submit = AllValid(send)
    BY <2>1, <2>2, <2>4 DEF OptionalValid, AllValid, Required
  <2> QED BY <2>1, <2>3, <2>4, <2>5 DEF SendOK, SendTyped, OptionalValid
<1>4. ASSUME tab # "send"
      PROVE  ExchangeOK
  <2>1. form.valid = OptionalValid(Fields) /\ form.submit = FALSE /\ crashed = "no"
    BY <1>4 DEF Init, ExchangeInit
  <2>2. "limit" \in Fields /\ "coin_to_buy" \in Fields
    BY DEF Fields
  <2> QED BY <2>1, <2>2 DEF ExchangeOK, OptionalValid, AllValid, Required
<1> QED BY <1>1, <1>2, <1>3, <1>4 DEF TypeInv, TypeOK

LEMMA TypesStep == IInv /\ TypeInv /\ [Next]_vars => TypeInv'
<1> SUFFICES ASSUME IInv, TypeInv, [Next]_vars
             PROVE  TypeInv'
  OBVIOUS
<1>1. AppTypeOK' /\ UNCHANGED tab
  BY StepOutline, AnswersKeepTypes DEF Answers, TypeInv, TypeOK
<1>2. StagesOK'
  BY StagesStep DEF TypeInv, TypeOK
<1>3. tab = "send" => SendTyped(send)'
  BY SendTypedStep DEF TypeInv, IInv, SendInv
<1>4. SendTyped(send)' => SendOK'
  BY DEF SendTyped, SendOK
<1>5. tab # "send" => ExchangeOK'
  BY ExchangeOKStep DEF TypeInv, TypeOK
<1> QED BY <1>1, <1>2, <1>3, <1>4, <1>5 DEF TypeInv, TypeOK

\* TypeOK: the list of coins is a sorted one and lies within the vector's storage,
\* as does what the index points to; the button of a form follows its fields; a
\* transaction is there from its making until the result is closed.
THEOREM TypesCorrect == Spec => []TypeOK
<1>1. TypeInv => TypeOK
  BY DEF TypeInv
<1> QED BY <1>1, InitIInv, IInvStep, InitTypes, TypesStep, PTL DEF Spec

-----------------------------------------------------------------------------
\* The coin the fee is paid in.
ItemSeq == Seq([coin : STRING, amount : STRING, pool : BOOLEAN])

LEMMA PlainCounts ==
  ASSUME balances.items \in ItemSeq
  PROVE  IsFiniteSet(Plain) /\ Cardinality(Plain) \in Nat /\ Cardinality(Plain) =< Len(balances.items)
<1> DEFINE size == Len(balances.items)
<1>1. size \in Nat /\ DOMAIN balances.items = 1..size
  BY DEF ItemSeq
<1>2. Plain \in SUBSET (1..size)
  BY <1>1 DEF Plain
<1>3. IsFiniteSet(1..size) /\ Cardinality(1..size) = size
  BY <1>1, PlacesCount
<1> HIDE DEF size
<1>4. IsFiniteSet(Plain) /\ Cardinality(Plain) \in Nat /\ Cardinality(Plain) =< size
  BY <1>2, <1>3, FS_Subset, FS_CardinalityType
<1> QED BY <1>4 DEF size

LEMMA PlainPlace ==
  ASSUME balances.items \in ItemSeq,
         NEW n \in Nat, n < Cardinality(Plain), \A i \in 1..n + 1 : ~balances.items[i].pool
  PROVE  Plain # {} /\ GasPlace(n) = n + 1
<1> DEFINE size == Len(balances.items)
           First(p) == {q \in Plain : q < p}
<1>1. size \in Nat /\ DOMAIN balances.items = 1..size
  BY DEF ItemSeq
<1>2. Plain \in SUBSET (1..size)
  BY <1>1 DEF Plain
<1>3. IsFiniteSet(Plain) /\ Cardinality(Plain) \in Nat /\ Cardinality(Plain) =< size
  BY PlainCounts
<1>4. n + 1 \in 1..size
  BY <1>1, <1>3
<1>5. \A i \in 1..n + 1 : i \in Plain
  <2> HIDE DEF size
  <2> QED BY <1>1, <1>4 DEF Plain
<1>6. ASSUME NEW p \in 1..n + 1
      PROVE  Cardinality(First(p)) = p - 1
  <2>1. ASSUME NEW q \in 1..(p - 1)
        PROVE  q \in First(p)
    BY <1>5
  <2>2. ASSUME NEW q \in First(p)
        PROVE  q \in 1..(p - 1)
    <3>1. q \in 1..size /\ q < p
      BY <1>2
    <3> QED BY <1>1, <3>1
  <2>3. First(p) = 1..(p - 1) /\ p - 1 \in Nat
    <3>1. p - 1 \in Nat
      OBVIOUS
    <3> HIDE DEF First
    <3>2. \A q : q \in First(p) <=> q \in 1..(p - 1)
      BY <2>1, <2>2, Zenon
    <3>3. First(p) = 1..(p - 1)
      BY <3>2, Zenon
    <3> QED BY <3>1, <3>3
  <2> HIDE DEF First
  <2> QED BY <2>3, PlacesCount
<1>7. ASSUME NEW p \in Plain, Cardinality(First(p)) = n
      PROVE  p = n + 1
  <2>1. p \in Nat \ {0}
    BY <1>1, <1>2
  <2>2. CASE p < n + 1
    <3>1. Cardinality(First(p)) = p - 1
      <4> HIDE DEF First
      <4> QED BY <1>6, <2>1, <2>2
    <3> HIDE DEF First
    <3> QED BY <1>7, <2>1, <2>2, <3>1
  <2>3. CASE p > n + 1
    <3>1. 1..(n + 1) \in SUBSET First(p) /\ First(p) \in SUBSET Plain
      BY <1>1, <1>2, <1>5, <2>1, <2>3
    <3>2. Cardinality(1..(n + 1)) = n + 1
      BY PlacesCount
    <3>3. IsFiniteSet(First(p)) /\ Cardinality(First(p)) \in Nat
      <4> HIDE DEF First
      <4> QED BY <1>3, <3>1, FS_Subset, FS_CardinalityType
    <3>4. n + 1 =< Cardinality(First(p))
      <4> HIDE DEF First
      <4> QED BY <3>1, <3>2, <3>3, FS_Subset
    <3> HIDE DEF First
    <3> QED BY <1>7, <3>4
  <2> QED BY <2>1, <2>2, <2>3
<1>8. GasPlace(n) = n + 1
  <2>1. GasPlace(n) = CHOOSE p \in Plain : Cardinality(First(p)) = n
    BY DEF GasPlace
  <2>2. n + 1 \in Plain
    BY <1>5
  <2> HIDE DEF First
  <2>3. Cardinality(First(n + 1)) = n
    BY <1>6
  <2> QED BY <1>7, <2>1, <2>2, <2>3
<1> QED BY <1>5, <1>8

\* The coin kept is that of the entry chosen last, until a balance comes.
SendGas ==
  /\ send.gasIdx \in Nat
  /\ send.gasIdx > 0 =>
       send.gasIdx < Cardinality(Plain) /\ send.gasCoin = balances.items[send.gasIdx + 1].coin

FormGas ==
  /\ form.held \in ItemSeq
  /\ form.picked => form.gasIdx \in 1..Len(form.held) /\ form.gasCoin = form.held[form.gasIdx].coin

GasInv ==
  /\ tab = "send" => SendGas
  /\ tab # "send" => FormGas
  /\ InDialog /\ "balance" \notin since => shown.gas = IF tab = "send" THEN GasShown ELSE GasItem
  /\ GasExplained

LEMMA SetTextKeepsGas ==
  ASSUME NEW f, SendWhole(f), NEW field \in SendFields, NEW text
  PROVE  /\ SetText(f, field, text).gasIdx = f.gasIdx
         /\ SetText(f, field, text).gasCoin = f.gasCoin
BY DEF SetText, OnFormValidated, Changed, SendWhole, SendFormFields

LEMMA SendClearedKeepsGas ==
  ASSUME SendWhole(send)
  PROVE  SendCleared.gasIdx = send.gasIdx /\ SendCleared.gasCoin = send.gasCoin
<1> DEFINE noRecipient == SetText(send, "recipient", "")
           noAmount == SetText(noRecipient, "amount", "")
           nothing == SetText(noAmount, "payload", "")
           Keeps(f) == SendWhole(f) /\ f.gasIdx = send.gasIdx /\ f.gasCoin = send.gasCoin
<1>1. ASSUME NEW f, Keeps(f), NEW field \in SendFields, NEW text
      PROVE  Keeps(SetText(f, field, text))
  BY <1>1, SetTextIsWhole, SetTextKeepsGas
<1>2. {"recipient", "amount", "payload"} \subseteq SendFields /\ Keeps(send)
  BY DEF SendFields
<1>3. Keeps(nothing)
  <2> HIDE DEF Keeps
  <2> QED BY <1>1, <1>2
<1>4. SendCleared = Unvalidated(nothing)
  BY DEF SendCleared
<1> HIDE DEF nothing
<1> QED BY <1>3, <1>4 DEF Unvalidated, SendWhole, SendFormFields

\* What a step does to the gas list of TabSend.
SendGasKept == balances' = balances /\ send'.gasIdx = send.gasIdx /\ send'.gasCoin = send.gasCoin
BalanceTaken(items) ==
  /\ balances'.items = items /\ OnBalanceUpdated(items)
  /\ Noted("balance") /\ UNCHANGED <<stage, shown, tx>>

LEMMA SendGasOutline ==
  ASSUME IInv, [Next]_vars, tab = "send"
  PROVE  \/ SendGasKept
         \/ \E i : GasCoinSelected(i)
         \/ \E items \in Balances : BalanceTaken(items)
<1>1. SendWhole(send)
  BY DEF IInv, SendInv
<1>2. CASE UNCHANGED <<send, balances>>
  BY <1>2 DEF SendGasKept
<1>3. CASE SendEdit
  <2>1. ASSUME NEW field \in SendFields, NEW text, Edits(SetText(send, field, text))
        PROVE  SendGasKept
    BY <1>1, <2>1, SetTextKeepsGas DEF Edits, appVars, SendGasKept
  <2>2. ASSUME NEW i, CoinSelected(i)
        PROVE  SendGasKept
    BY <1>1, <2>2 DEF CoinSelected, Edits, appVars, SendWhole, SendFormFields, SendGasKept
  <2>3. "amount" \in SendFields
    BY DEF SendFields
  <2> QED BY <1>3, <2>1, <2>2, <2>3 DEF SendEdit, TypeText, UsePercent
<1>4. CASE SendAnswer
  <2>1. ASSUME NEW a, InitDataUpdated(a), OnInitDataUpdated
        PROVE  SendGasKept
    BY <1>1, <2>1 DEF InitDataUpdated, OnInitDataUpdated, SendWhole, SendFormFields, SendGasKept
  <2>2. ASSUME NEW a, NEW items \in Balances, BalanceUpdated(a, items), OnBalanceUpdated(items),
               Noted("balance"), UNCHANGED <<tab, stage, shown, tx>>
        PROVE  BalanceTaken(items)
    BY <2>2 DEF BalanceUpdated, BalanceTaken
  <2> QED BY <1>4, <2>1, <2>2 DEF SendAnswer
<1>5. CASE SendSent
  <2>1. send' \in {send, SendCleared} /\ balances' = balances
    BY <1>5 DEF SendSent, Sent, appVars
  <2> QED BY <1>1, <2>1, SendClearedKeepsGas DEF SendGasKept
<1>6. CASE AppStep /\ UNCHANGED send
  BY <1>2, <1>6 DEF AppStep, AddressResolved, CoinListUpdated
<1>7. CASE UNCHANGED vars
  BY <1>2, <1>7 DEF vars, appVars
<1>8. CASE SendStep
  <2>1. CASE (SendSubmit \/ PrepareFails \/ Prepare(SendTx) \/ Sign \/ DialogStep) /\ UNCHANGED send
    <3>1. balances' = balances
      BY <2>1 DEF SendSubmit, OpenDialog, PrepareFails, Prepare, Sign, DialogStep, Cancel, Confirm, CloseResult, appVars
    <3> QED BY <1>2, <2>1, <3>1
  <2> QED BY <1>3, <1>4, <1>5, <1>8, <2>1 DEF SendStep, SendProgress, SendSubmit
<1> QED BY <1>6, <1>7, <1>8 DEF Next

\* Whoever keeps the gas list keeps what the dialog showed of it.
LEMMA ShownGasStep ==
  ASSUME GasInv, [Next]_vars, GasShown' = GasShown \/ tab # "send", GasItem' = GasItem \/ tab = "send",
         InDialog', "balance" \notin since'
  PROVE  shown'.gas = IF tab = "send" THEN GasShown' ELSE GasItem'
<1> DEFINE gas == IF tab = "send" THEN GasShown ELSE GasItem
<1>1. InDialog /\ "balance" \notin since => shown.gas = gas
  BY DEF GasInv
<1>2. (IF tab = "send" THEN GasShown' ELSE GasItem') = gas
  OBVIOUS
<1>3. CASE Stays
  BY <1>1, <1>2, <1>3 DEF Stays, Noted, InDialog
<1>4. CASE DialogStep \/ PrepareFails \/ Sign \/ \E how \in Results : Sent(how)
  BY <1>1, <1>2, <1>4
     DEF DialogStep, Cancel, Confirm, CloseResult, PrepareFails, Sign, Sent, Results, InDialog
<1>5. CASE tab = "send" /\ (OpenDialog(SendShown) \/ Prepare(SendTx))
  BY <1>2, <1>5 DEF OpenDialog, SendShown, Prepare, InDialog
<1>6. CASE tab # "send" /\ (OpenDialog(ExchangeShown) \/ Prepare(ExchangeTx))
  BY <1>2, <1>6 DEF OpenDialog, ExchangeShown, Prepare, InDialog
<1> QED BY <1>3, <1>4, <1>5, <1>6, StepOutline DEF Moves

\* The transaction is the one there was, or there is none, or it is being made.
LEMMA TxStep ==
  ASSUME StagesOK, [Next]_vars, tx' # Absent
  PROVE  /\ shown' = shown
         /\ \/ tx' = tx /\ since \subseteq since'
            \/ stage = "initData" /\ since' = since /\ tx' = IF tab = "send" THEN SendTx ELSE ExchangeTx
<1>1. CASE Stays
  BY <1>1 DEF Stays, Noted
<1>2. CASE DialogStep \/ PrepareFails \/ Sign \/ \E how \in Results : Sent(how)
  <2>1. tx \in {tx', Absent} /\ stage \in {"dialog", "initData"} => tx = Absent
    BY DEF StagesOK
  <2> QED BY <1>2, <2>1 DEF DialogStep, Cancel, Confirm, CloseResult, PrepareFails, Sign, Sent
<1>3. CASE OpenDialog(SendShown) \/ OpenDialog(ExchangeShown)
  BY <1>3 DEF OpenDialog, StagesOK
<1>4. CASE tab = "send" /\ Prepare(SendTx)
  BY <1>4 DEF Prepare
<1>5. CASE tab # "send" /\ Prepare(ExchangeTx)
  BY <1>5 DEF Prepare
<1> QED BY <1>1, <1>2, <1>3, <1>4, <1>5, StepOutline DEF Moves

LEMMA SendGasStep ==
  ASSUME IInv, TypeOK, GasInv, [Next]_vars, tab = "send"
  PROVE  GasInv'
<1>1. UNCHANGED tab /\ TxInv'
  BY StepOutline, IInvStep DEF IInv
<1> balances.items \in ItemSeq /\ StagesOK
  <2>1. balances.items \in Balances \cup {<<>>}
    BY DEF TypeOK, AppTypeOK
  <2>2. Balances \subseteq ItemSeq
    BY TabAssumption, Zenon DEF ItemSeq
  <2>3. <<>> \in ItemSeq
    BY DEF ItemSeq
  <2> QED BY <2>1, <2>2, <2>3 DEF TypeOK
<1>2. CASE SendGasKept
  <2>1. Plain' = Plain /\ balances' = balances /\ send'.gasIdx = send.gasIdx /\ send'.gasCoin = send.gasCoin
    BY <1>2 DEF SendGasKept, Plain
  <2>2. GasShown' = GasShown
    BY <2>1 DEF GasShown, GasPlace
  <2>3. SendGas /\ SendGas'
    BY <2>1 DEF GasInv, SendGas
  <2>4. InDialog' /\ "balance" \notin since' => shown'.gas = GasShown'
    BY <1>1, <2>2, ShownGasStep
  <2>5. GasExplained'
    <3> SUFFICES ASSUME tx' # Absent, "balance" \notin since', send.gasIdx > 0,
                        \A i \in 1..send.gasIdx + 1 : ~balances.items[i].pool
                 PROVE  tx'.gas = shown'.gas
      BY <1>1, <2>1 DEF GasExplained, TxInv
    <3>1. CASE tx' = tx /\ shown' = shown /\ since \subseteq since'
      BY <3>1 DEF GasInv, GasExplained, IInv, TxInv
    <3>2. CASE stage = "initData" /\ shown' = shown /\ since' = since /\ tx' = SendTx
      <4>1. shown.gas = GasShown
        BY <3>2 DEF GasInv, InDialog
      <4>2. GasShown = balances.items[send.gasIdx + 1].coin
        BY <2>3, PlainPlace DEF SendGas, GasShown
      <4> QED BY <2>3, <3>2, <4>1, <4>2 DEF SendGas, SendTx
    <3> QED BY <3>1, <3>2, TxStep
  <2> QED BY <1>1, <2>3, <2>4, <2>5 DEF GasInv
<1>3. ASSUME NEW i, GasCoinSelected(i)
      PROVE  GasInv'
  <2>1. /\ stage' = "edit" /\ tx' = Absent /\ balances' = balances /\ Plain' = Plain
        /\ send' = [send EXCEPT !.gasIdx = i, !.gasCoin = IF i <= 0 THEN @ ELSE balances.items[i + 1].coin]
    BY <1>3 DEF GasCoinSelected, Edits, tabVars, appVars, StagesOK, Plain
  <2>2. send'.gasIdx = i /\ (i > 0 => send'.gasCoin = balances.items[i + 1].coin)
    <3>1. i \in Nat
      BY <1>3, PlainCounts DEF GasCoinSelected
    <3>2. DOMAIN send = SendFormFields
      BY DEF IInv, SendInv, SendWhole
    <3>3. i > 0 => ~(i <= 0)
      BY <3>1
    <3> QED BY <2>1, <3>2, <3>3 DEF SendFormFields
  <2>3. i \in Nat /\ i < Cardinality(Plain)
    BY <1>3, PlainCounts DEF GasCoinSelected
  <2>4. SendGas'
    BY <2>1, <2>2, <2>3 DEF SendGas
  <2> QED BY <1>1, <2>1, <2>4 DEF GasInv, InDialog, GasExplained
<1>4. ASSUME NEW items \in Balances, BalanceTaken(items)
      PROVE  GasInv'
  <2>1. send'.gasIdx = 0
    BY <1>4 DEF BalanceTaken, OnBalanceUpdated, IInv, SendInv, SendWhole, SendFormFields
  <2>2. InDialog' => "balance" \in since'
    BY <1>4 DEF BalanceTaken, Noted, InDialog
  <2> QED BY <1>1, <2>1, <2>2 DEF GasInv, SendGas, GasExplained, TxInv
<1> QED BY <1>2, <1>3, <1>4, SendGasOutline

LEMMA FormGasStep ==
  ASSUME IInv, TypeOK, GasInv, [Next]_vars, tab # "send"
  PROVE  GasInv'
<1>1. UNCHANGED tab /\ TxInv'
  BY StepOutline, IInvStep DEF IInv
<1>2. StagesOK /\ ExchangeOK /\ FormGas /\ DOMAIN form = FormFields
  BY DEF TypeOK, GasInv, IInv, ExchangeInv, Whole, Shaped
<1>3. CASE Follows(form')
  <2>1. \A x \in GasFields : form'[x] = form[x]
    BY <1>3 DEF Follows, KeepsGas
  <2>2. /\ form'.gasIdx = form.gasIdx /\ form'.gasCoin = form.gasCoin
        /\ form'.picked = form.picked /\ form'.held = form.held
    BY <2>1 DEF GasFields
  <2>3. FormGas' /\ GasItem' = GasItem
    BY <1>2, <2>2 DEF FormGas, GasItem
  <2>4. InDialog' /\ "balance" \notin since' => shown'.gas = GasItem'
    BY <1>1, <2>3, ShownGasStep
  <2>5. GasExplained'
    <3> SUFFICES ASSUME tx' # Absent, "balance" \notin since', form.picked
                 PROVE  tx'.gas = shown'.gas
      BY <1>1, <2>2 DEF GasExplained, TxInv
    <3>1. CASE tx' = tx /\ shown' = shown /\ since \subseteq since'
      BY <3>1 DEF GasInv, GasExplained, IInv, TxInv
    <3>2. CASE stage = "initData" /\ shown' = shown /\ since' = since /\ tx' = ExchangeTx
      <4>1. shown.gas = GasItem
        BY <3>2 DEF GasInv, InDialog
      <4>2. form.gasIdx # 0 /\ form.gasCoin = form.held[form.gasIdx].coin
        <5>1. Len(form.held) \in Nat
          BY <1>2 DEF FormGas, ItemSeq
        <5> QED BY <1>2, <5>1 DEF FormGas
      <4> QED BY <3>2, <4>1, <4>2 DEF GasItem, ExchangeTx
    <3> QED BY <1>2, <3>1, <3>2, TxStep
  <2> QED BY <1>1, <2>3, <2>4, <2>5 DEF GasInv
<1>4. ASSUME NEW i \in 1..Len(form.held), GasItemSelected(i)
      PROVE  GasInv'
  <2>1. /\ stage' = "edit" /\ tx' = Absent
        /\ form' = [form EXCEPT !.gasIdx = i, !.gasCoin = form.held[i].coin, !.picked = TRUE]
    BY <1>2, <1>4 DEF GasItemSelected, tabVars, StagesOK
  <2>2. form'.held = form.held /\ form'.gasIdx = i /\ form'.gasCoin = form.held[i].coin
    BY <1>2, <2>1 DEF FormFields
  <2>3. FormGas'
    BY <1>2, <2>2 DEF FormGas
  <2> QED BY <1>1, <2>1, <2>3 DEF GasInv, InDialog, GasExplained
<1>5. ASSUME NEW items \in Balances, SetBalance(items), Noted("balance"), UNCHANGED <<stage, shown, tx>>
      PROVE  GasInv'
  <2>1. form'.held = items /\ ~form'.picked
    <3> DEFINE f == [form EXCEPT !.held = items, !.gasIdx = 1, !.picked = FALSE]
               held == IF Owned(f, f.coinToSell) = {} THEN "0" ELSE HeldAmount(f, f.coinToSell)
               g == IF tab = "sellAll" /\ form.coinToSell # None THEN [f EXCEPT !.amount = held] ELSE f
    <3>1. form' = g
      BY <1>5 DEF SetBalance
    <3>2. DOMAIN f = FormFields /\ f.held = items /\ ~f.picked
      BY <1>2 DEF FormFields
    <3>3. g.held = items /\ ~g.picked
      <4> HIDE DEF f, held
      <4> QED BY <3>2 DEF FormFields
    <3> HIDE DEF g
    <3> QED BY <3>1, <3>3
  <2>2. FormGas'
    BY <2>1, TabAssumption DEF FormGas, ItemSeq
  <2>3. InDialog' => "balance" \in since'
    BY <1>5 DEF Noted, InDialog
  <2> QED BY <1>1, <2>1, <2>2, <2>3 DEF GasInv, GasExplained, TxInv
<1> QED BY <1>2, <1>3, <1>4, <1>5, FormOutline

LEMMA InitGas == Init => GasInv
<1> SUFFICES ASSUME Init
             PROVE  GasInv
  OBVIOUS
<1>1. stage = "edit" /\ tx = Absent
  BY DEF Init, TabInit
<1>2. tab = "send" => SendGas
  BY DEF Init, SendInit, SendGas
<1>3. tab # "send" => FormGas
  <2> SUFFICES ASSUME tab # "send"
               PROVE  FormGas
    OBVIOUS
  <2>1. form.held = <<>> /\ form.picked = FALSE
    BY DEF Init, ExchangeInit
  <2> QED BY <2>1 DEF FormGas, ItemSeq
<1> QED BY <1>1, <1>2, <1>3 DEF GasInv, InDialog, GasExplained

LEMMA GasStep == IInv /\ TypeOK /\ GasInv /\ [Next]_vars => GasInv'
BY SendGasStep, FormGasStep

\* GasExplained: the fee is paid in the coin the gas list showed when the user chose
\* it after the last balance, but for TabSend's index that points past a pool token.
THEOREM GasIsExplained == Spec => []GasExplained
<1>1. TypeInv => TypeOK
  BY DEF TypeInv
<1>2. GasInv => GasExplained
  BY DEF GasInv
<1> QED BY <1>1, <1>2, InitIInv, IInvStep, InitTypes, TypesStep, InitGas, GasStep, PTL DEF Spec
==============================================================================
