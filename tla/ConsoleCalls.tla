---------------------------- MODULE ConsoleCalls -----------------------------
(***************************************************************************)
(* The calls of ConsoleApp and what ConsoleWindow shows of their answers.  *)
(* The device is asked for its address each time the loop says that the    *)
(* application is open; an address starts three more calls.  Calls run on  *)
(* the io thread, their answers are handled on the UI thread, and none is  *)
(* cancelled when the address or the device changes.                       *)
(***************************************************************************)
EXTENDS ConsoleApp, Repositories, Bags

CONSTANT
  MaxCalls  \* bound: no call is started while so many are under way

\* An address begins with Mx, so it is none of the window's texts.
ASSUME AddressesAssumption == Addresses \cap {None, "loading", "unavailable"} = {}

VARIABLES
  calls,   \* a bag: what is asked, for which address, and (history) if it has changed since
  opened,  \* the last state of the device handled was APP_OPENED
  status,  \* statusLabel: "waiting", "connected", "error" or "gone"
  label,   \* addressLabel and balanceLabel: "loading", "unavailable" or whose balance
  late     \* history: the label was written since the device went

windowVars == <<opened, status, label, late>>
consoleVars == <<appVars, calls, windowVars>>

ConsoleInit ==
  /\ AppInit
  /\ calls = EmptyBag /\ opened = FALSE /\ status = "waiting" /\ label = "loading" /\ late = FALSE

Call(what, for) == SetToBag({[ask |-> what, for |-> for, old |-> FALSE]})
UnderWay == BagToSet(calls)
MayCall(bag) == BagCardinality(bag) < MaxCalls
Without(c) == calls (-) SetToBag({c})

\* The calls for an address that is not the new one, of a bag: they are now old.
Aged(bag, a) ==
  LET young == {c \in BagToSet(bag) : ~c.old /\ c.for \notin {a, None}}
  IN  [c \in BagToSet(bag) \ young |-> bag[c]]
      (+) [c \in {[d EXCEPT !.old = TRUE] : d \in young} |-> bag[[c EXCEPT !.old = FALSE]]]

\* updateBalance and updateInitData, whose first question is the gas price.
OwnCalls(a) == IF a = None THEN EmptyBag ELSE Call("balance", a) (+) Call("min_gas", a)

\* The device loop says APP_OPENED, once or several times.
DeviceOpened ==
  /\ MayCall(calls) /\ calls' = calls (+) Call("address", None)
  /\ opened' = TRUE /\ status' = "connected"
  /\ UNCHANGED <<appVars, label, late>>

\* The slip of a window that leaves the labels as they are.
DeviceGoneUnshown ==
  /\ opened' = FALSE /\ status' = "gone" /\ late' = FALSE
  /\ UNCHANGED <<appVars, calls, label>>

\* DISCONNECTED, APP_NOT_OPENED or PERMISSION_ERROR.
DeviceGone ==
  /\ opened' = FALSE /\ status' = "gone" /\ label' = "unavailable" /\ late' = FALSE
  /\ UNCHANGED <<appVars, calls>>

\* getAddress answers or fails.
AddressCall == [ask |-> "address", for |-> None, old |-> FALSE]
AddressComes(a) ==
  /\ BagIn(AddressCall, calls) /\ MayCall(Without(AddressCall))
  /\ AddressResolved(a)
  /\ calls' = Aged(Without(AddressCall), a) (+) OwnCalls(a) (+) Call("coins", None)
  /\ UNCHANGED windowVars
AddressFails ==
  /\ BagIn(AddressCall, calls) /\ calls' = Without(AddressCall)
  /\ status' = "error"
  /\ UNCHANGED <<appVars, opened, label, late>>

\* The refresh button; a transaction that was sent does the same.
Refresh ==
  /\ opened /\ MayCall(calls) /\ address # None
  /\ calls' = calls (+) OwnCalls(address)
  /\ UNCHANGED <<appVars, windowVars>>

-----------------------------------------------------------------------------
\* The outcomes of defer_task for each of the questions.
Asks == {"balance", "coins", "min_gas", "nonce", "price_commissions", "tx_commission"}
Outcomes == [ask \in Asks |-> {Task(Asked([ask |-> ask, args |-> <<"0", "">>]), reply) : reply \in Replies}]
MayBe(c, outcome) == c.ask \in Asks /\ outcome \in Outcomes[c.ask]

\* A call that ends with nothing: an error, or a refusal of the explorer.
CallFails(c) ==
  /\ c \in UnderWay
  /\ MayBe(c, "error") \/ MayBe(c, "refusal")
  /\ calls' = Without(c)
  /\ UNCHANGED <<appVars, windowVars>>

HasDefault(items) == \E i \in DOMAIN items : items[i] = "default"

BalanceComes(c, items) ==
  /\ c \in UnderWay /\ c.ask = "balance" /\ MayBe(c, "data")
  /\ calls' = Without(c) /\ BalanceUpdated(c.for, items)
  /\ IF HasDefault(items) THEN label' = c.for /\ late' = ~opened ELSE UNCHANGED <<label, late>>
  /\ UNCHANGED <<opened, status>>

CoinsCome(c, list) ==
  /\ c \in UnderWay /\ c.ask = "coins" /\ MayBe(c, "data")
  /\ calls' = Without(c) /\ CoinListUpdated(list)
  /\ UNCHANGED windowVars

\* get_tx_init_data: gas, nonce and commissions are asked for in turn, then, when
\* the commissions are in another coin than the default one, its price.
NextQuestion(ask) ==
  LET next == [min_gas |-> {"nonce"}, nonce |-> {"price_commissions"},
               price_commissions |-> {"tx_commission", "done"}, tx_commission |-> {"done"}]
  IN IF ask \in DOMAIN next THEN next[ask] ELSE {}

InitDataGoesOn(c, next) ==
  /\ c \in UnderWay /\ next \in NextQuestion(c.ask) /\ MayBe(c, "data")
  /\ IF next = "done" THEN calls' = Without(c) /\ InitDataUpdated(c.for)
     ELSE calls' = Without(c) (+) SetToBag({[c EXCEPT !.ask = next]}) /\ UNCHANGED appVars
  /\ UNCHANGED windowVars

ConsoleStep ==
  \/ DeviceOpened \/ DeviceGone \/ Refresh
  \/ AddressFails \/ \E a \in Addresses : AddressComes(a)
  \/ \E c \in UnderWay :
       \/ CallFails(c)
       \/ \E items \in Balances : BalanceComes(c, items)
       \/ \E list \in CoinLists : CoinsCome(c, list)
       \/ \E next \in NextQuestion(c.ask) : InitDataGoesOn(c, next)

ConsoleTypeOK ==
  /\ AppTypeOK
  /\ IsABag(calls)
  /\ UnderWay \subseteq [ask : Asks \cup {"address"}, for : Addresses \cup {None}, old : BOOLEAN]
  /\ status \in {"waiting", "connected", "error", "gone"}
  /\ label \in {"loading", "unavailable"} \cup Addresses

-----------------------------------------------------------------------------
\* Only a call that was made before the address changed is for another address.
CallsAreOwn == \A c \in UnderWay : c.for \notin {None, address} => c.old

\* The window shows the owner of the balances the application has, unless these
\* lack the default coin; with no device only if they came after it went.
LabelsAreTrue ==
  label \in Addresses =>
    /\ label = balances.owner \/ ~HasDefault(balances.items)
    /\ opened \/ late

\* "Connected" without an address means that the device is being asked.
StatusIsTrue == status = "connected" /\ address = None => AddressCall \in UnderWay
==============================================================================
