--------------------------- MODULE Network_proofs ----------------------------
(***************************************************************************)
(* What the console finds in its index and shows in its window, for any    *)
(* coins and addresses, any answers and any number of calls under way; and *)
(* what requests hold, for any questions and any calls made on them.       *)
(***************************************************************************)
EXTENDS Network, ConsoleApp_proofs

\* The only variables that FoundIfListed reads.
indexVars == <<coins, index, freed>>

\* The vector and its index change only together, when a list comes.
LEMMA IndexSteps ==
  ASSUME [Next]_vars
  PROVE  UNCHANGED indexVars \/ \E listed \in CoinLists : CoinListUpdated(listed)
<1> USE DEF indexVars, appVars, listVars, windowVars
<1>1. CASE UNCHANGED vars
  BY <1>1 DEF vars, consoleVars
<1>2. CASE RequestStep /\ UNCHANGED consoleVars
  BY <1>2 DEF consoleVars
<1>3. CASE ConsoleStep
  <2>1. CASE DeviceOpened \/ DeviceGone \/ Refresh \/ AddressFails
    BY <2>1 DEF DeviceOpened, DeviceGone, Refresh, AddressFails
  <2>2. CASE \E a \in Addresses : AddressComes(a)
    BY <2>2 DEF AddressComes, AddressResolved
  <2>3. ASSUME NEW c \in UnderWay, CallFails(c)
        PROVE  UNCHANGED indexVars
    BY <2>3 DEF CallFails
  <2>4. ASSUME NEW c \in UnderWay, NEW items \in Balances, BalanceComes(c, items)
        PROVE  UNCHANGED indexVars
    BY <2>4 DEF BalanceComes, BalanceUpdated
  <2>5. ASSUME NEW c \in UnderWay, NEW list \in CoinLists, CoinsCome(c, list)
        PROVE  \E listed \in CoinLists : CoinListUpdated(listed)
    BY <2>5 DEF CoinsCome
  <2>6. ASSUME NEW c \in UnderWay, NEW next, InitDataGoesOn(c, next)
        PROVE  UNCHANGED indexVars
    BY <2>6 DEF InitDataGoesOn, InitDataUpdated
  <2> QED BY <1>3, <2>1, <2>2, <2>3, <2>4, <2>5, <2>6 DEF ConsoleStep
<1> QED BY <1>1, <1>2, <1>3 DEF Next

\* FoundIfListed: whatever lists came before, findCoinBySymbol gives each coin of
\* the last one (updateCoinList fills the index anew without emptying it).
THEOREM ListedFound == Spec => []FoundIfListed
<1> DEFINE Inv == IndexOK /\ FoundIfListed
<1>1. Init => Inv
  BY DEF Init, ConsoleInit, AppInit, IndexOK, FoundIfListed, Listed
<1>2. Inv /\ [Next]_vars => Inv'
  <2> SUFFICES ASSUME Inv, [Next]_vars
               PROVE  Inv'
    OBVIOUS
  <2>1. CASE UNCHANGED indexVars
    BY <2>1 DEF indexVars, IndexOK, FoundIfListed, Listed, HasCoin, Found
  <2>2. ASSUME NEW listed \in CoinLists, CoinListUpdated(listed)
        PROVE  Inv'
    BY <2>2, ListKeepsEntries, ListIsFound DEF FoundIfListed
  <2> QED BY <2>1, <2>2, IndexSteps
<1>3. Inv => FoundIfListed
  OBVIOUS
<1> QED BY <1>1, <1>2, <1>3, PTL DEF Spec

-----------------------------------------------------------------------------
\* Bags: what is in a sum, a difference and the bag of aged calls.
LEMMA BagOperations ==
  ASSUME NEW A, NEW B
  PROVE  /\ BagToSet(A (+) B) = BagToSet(A) \cup BagToSet(B)
         /\ BagToSet(A (-) B) \subseteq BagToSet(A)
         /\ IsABag(A) /\ IsABag(B) => IsABag(A (+) B) /\ IsABag(A (-) B)
         /\ IsABag(A) => BagToSet(A) \ BagToSet(B) \subseteq BagToSet(A (-) B)
BY DEF BagToSet, IsABag, (+), (-)

LEMMA SmallBags ==
  ASSUME NEW S
  PROVE  BagToSet(SetToBag(S)) = S /\ IsABag(SetToBag(S)) /\ BagToSet(EmptyBag) = {} /\ IsABag(EmptyBag)
BY DEF BagToSet, IsABag, SetToBag, EmptyBag

\* The calls under way: those made when an address came are for one.
CallType ==
  {c \in [ask : Asks \cup {"address"}, for : Addresses \cup {None}, old : BOOLEAN] :
     c.for \in Addresses \/ c.ask \in {"address", "coins"}}
CallsTyped == IsABag(calls) /\ UnderWay \subseteq CallType

WindowTyped == address \in Addresses \cup {None} /\ opened \in BOOLEAN /\ late \in BOOLEAN

ShownInv == CallsTyped /\ WindowTyped /\ ShownExplained

\* Calls age in their places: none is lost, those for another address are old.
LEMMA AgedCalls ==
  ASSUME NEW bag, IsABag(bag), BagToSet(bag) \subseteq CallType, NEW a
  PROVE  /\ IsABag(Aged(bag, a)) /\ BagToSet(Aged(bag, a)) \subseteq CallType
         /\ \A c \in BagToSet(Aged(bag, a)) : c.for \notin {None, a} => c.old
<1> DEFINE young == {c \in BagToSet(bag) : ~c.old /\ c.for \notin {a, None}}
           rest == [c \in BagToSet(bag) \ young |-> bag[c]]
           old == {[d EXCEPT !.old = TRUE] : d \in young}
           aged == [c \in old |-> bag[[c EXCEPT !.old = FALSE]]]
<1>1. Aged(bag, a) = rest (+) aged
  BY DEF Aged
<1>2. ASSUME NEW d \in young
      PROVE  LET c == [d EXCEPT !.old = TRUE]
             IN  c \in CallType /\ c.old /\ [c EXCEPT !.old = FALSE] = d
  <2>1. d \in CallType /\ ~d.old /\ d \in [ask : Asks \cup {"address"}, for : Addresses \cup {None}, old : BOOLEAN]
    BY DEF CallType
  <2> HIDE DEF young
  <2>2. d = [ask |-> d.ask, for |-> d.for, old |-> FALSE]
    BY <2>1
  <2>3. \A b \in BOOLEAN : [d EXCEPT !.old = b] = [ask |-> d.ask, for |-> d.for, old |-> b]
    BY <2>1
  <2> QED BY <2>1, <2>2, <2>3 DEF CallType
<1>3. ASSUME NEW c \in old
      PROVE  c \in CallType /\ c.old /\ [c EXCEPT !.old = FALSE] \in young
  <2>1. PICK d \in young : c = [d EXCEPT !.old = TRUE]
    OBVIOUS
  <2> HIDE DEF young
  <2> QED BY <1>2, <2>1
<1>4. IsABag(rest) /\ BagToSet(rest) = BagToSet(bag) \ young
  BY DEF IsABag, BagToSet
<1>5. IsABag(aged) /\ BagToSet(aged) = old
  <2>1. young \subseteq BagToSet(bag)
    OBVIOUS
  <2> HIDE DEF young, old
  <2> QED BY <1>3, <2>1 DEF IsABag, BagToSet
<1>6. IsABag(Aged(bag, a)) /\ BagToSet(Aged(bag, a)) = BagToSet(rest) \cup BagToSet(aged)
  <2> HIDE DEF rest, aged
  <2> QED BY <1>1, <1>4, <1>5, BagOperations
<1>7. \A c \in BagToSet(bag) \ young : c \in CallType /\ (c.for \notin {None, a} => c.old)
  OBVIOUS
<1> HIDE DEF young, rest, old, aged
<1> QED BY <1>3, <1>4, <1>5, <1>6, <1>7

\* What is made is a call; what goes leaves the others.
LEMMA CallsMade ==
  ASSUME NEW what \in Asks \cup {"address"}, NEW for \in Addresses \cup {None},
         for \in Addresses \/ what \in {"address", "coins"}
  PROVE  /\ BagToSet(Call(what, for)) = {[ask |-> what, for |-> for, old |-> FALSE]}
         /\ BagToSet(Call(what, for)) \subseteq CallType
         /\ IsABag(Call(what, for))
<1>1. BagToSet(Call(what, for)) = {[ask |-> what, for |-> for, old |-> FALSE]} /\ IsABag(Call(what, for))
  BY SmallBags DEF Call
<1>2. [ask |-> what, for |-> for, old |-> FALSE] \in CallType
  BY DEF CallType
<1> QED BY <1>1, <1>2

LEMMA OwnCallsMade ==
  ASSUME NEW a \in Addresses \cup {None}
  PROVE  /\ IsABag(OwnCalls(a)) /\ BagToSet(OwnCalls(a)) \subseteq CallType
         /\ \A c \in BagToSet(OwnCalls(a)) : c.for = a
<1>1. CASE a = None
  BY <1>1, SmallBags DEF OwnCalls
<1>2. CASE a # None
  <2>1. "balance" \in Asks /\ "min_gas" \in Asks
    BY DEF Asks
  <2>2. \A ask \in {"balance", "min_gas"} :
          /\ IsABag(Call(ask, a)) /\ BagToSet(Call(ask, a)) \subseteq CallType
          /\ \A c \in BagToSet(Call(ask, a)) : c.for = a
    BY <1>2, <2>1, CallsMade
  <2>3. /\ BagToSet(OwnCalls(a)) = BagToSet(Call("balance", a)) \cup BagToSet(Call("min_gas", a))
        /\ IsABag(OwnCalls(a))
    BY <1>2, <2>2, BagOperations DEF OwnCalls
  <2> QED BY <2>2, <2>3
<1> QED BY <1>1, <1>2

LEMMA CallGone ==
  ASSUME NEW c, IsABag(calls)
  PROVE  /\ BagToSet(Without(c)) \subseteq UnderWay /\ UnderWay \ {c} \subseteq BagToSet(Without(c))
         /\ IsABag(Without(c))
BY BagOperations, SmallBags DEF Without, UnderWay

\* The question that follows another is one of those asked, of an address.
LEMMA NextIsAsked ==
  ASSUME NEW ask, NEW next \in NextQuestion(ask)
  PROVE  /\ next = "done" \/ next \in Asks \ {"coins"}
         /\ ask \notin {"address", "coins"}
BY DEF NextQuestion, Asks

LEMMA ShownInit == Init => ShownInv
<1> SUFFICES ASSUME Init
             PROVE  ShownInv
  OBVIOUS
<1>1. UnderWay = {} /\ IsABag(calls)
  BY SmallBags DEF Init, ConsoleInit, UnderWay
<1>2. address = None /\ opened = FALSE /\ late = FALSE /\ label = "loading" /\ status = "waiting"
  BY DEF Init, ConsoleInit, AppInit
<1> QED BY <1>1, <1>2, AddressesAssumption
    DEF ShownInv, CallsTyped, WindowTyped, ShownExplained, CallsAreOwn, LabelsAreTrue, StatusIsTrue

\* A step that only lets calls go, never the one for the address, and leaves the
\* window and the address alone.
LEMMA CallsGoing ==
  ASSUME ShownInv, UNCHANGED <<address, balances, windowVars>>,
         NEW c \in UnderWay, c.ask \in Asks, calls' = Without(c)
  PROVE  ShownInv'
<1>1. UnderWay' \subseteq UnderWay /\ IsABag(calls') /\ UnderWay \ {c} \subseteq UnderWay'
  BY CallGone DEF ShownInv, CallsTyped, UnderWay
<1>2. c # AddressCall
  BY DEF Asks, AddressCall
<1> QED BY <1>1, <1>2
    DEF ShownInv, CallsTyped, WindowTyped, ShownExplained, CallsAreOwn, LabelsAreTrue, StatusIsTrue, windowVars

LEMMA AddressCallIsMade == BagToSet(Call("address", None)) = {AddressCall} /\ AddressCall \in CallType
BY CallsMade DEF AddressCall, CallType

\* An address comes: the calls for another one age.
LEMMA ShownAfterAddress ==
  ASSUME ShownInv, NEW a \in Addresses, AddressComes(a)
  PROVE  ShownInv'
<1>1. /\ address' = a /\ a # None
      /\ UNCHANGED <<balances, windowVars>>
  BY AddressesAssumption DEF AddressComes, AddressResolved
<1>2. IsABag(Without(AddressCall)) /\ BagToSet(Without(AddressCall)) \subseteq CallType
  BY CallGone DEF ShownInv, CallsTyped
<1> DEFINE aged == BagToSet(Aged(Without(AddressCall), a))
<1>3. /\ IsABag(Aged(Without(AddressCall), a)) /\ aged \subseteq CallType
      /\ \A c \in aged : c.for \notin {None, a} => c.old
  BY <1>2, AgedCalls
<1>4. /\ IsABag(OwnCalls(a)) /\ BagToSet(OwnCalls(a)) \subseteq CallType
      /\ \A c \in BagToSet(OwnCalls(a)) : c.for = a
  BY OwnCallsMade
<1>5. /\ IsABag(Call("coins", None)) /\ BagToSet(Call("coins", None)) \subseteq CallType
      /\ \A c \in BagToSet(Call("coins", None)) : c.for = None
  <2>1. "coins" \in Asks
    BY DEF Asks
  <2> QED BY <2>1, CallsMade
<1>6. /\ UnderWay' = aged \cup BagToSet(OwnCalls(a)) \cup BagToSet(Call("coins", None))
      /\ IsABag(calls')
  BY <1>3, <1>4, <1>5, BagOperations DEF AddressComes, UnderWay
<1> HIDE DEF aged
<1> QED BY <1>1, <1>3, <1>4, <1>5, <1>6
    DEF ShownInv, CallsTyped, WindowTyped, ShownExplained, CallsAreOwn, LabelsAreTrue, StatusIsTrue, windowVars

\* Calls are added, for nobody or for the address there is.
LEMMA CallsComing ==
  ASSUME ShownInv, NEW bag, calls' = calls (+) bag, IsABag(bag),
         BagToSet(bag) \subseteq CallType, \A c \in BagToSet(bag) : c.for \in {None, address},
         UNCHANGED address
  PROVE  CallsTyped' /\ CallsAreOwn' /\ UnderWay' = UnderWay \cup BagToSet(bag)
<1>1. UnderWay' = UnderWay \cup BagToSet(bag) /\ IsABag(calls')
  BY BagOperations DEF UnderWay, ShownInv, CallsTyped
<1> QED BY <1>1 DEF ShownInv, CallsTyped, ShownExplained, CallsAreOwn

LEMMA ShownAfterDevice ==
  ASSUME ShownInv, DeviceOpened \/ DeviceGone \/ Refresh \/ AddressFails
  PROVE  ShownInv'
<1> USE DEF WindowTyped, ShownExplained, LabelsAreTrue, StatusIsTrue, windowVars, appVars
<1>1. CASE DeviceOpened
  <2>1. /\ calls' = calls (+) Call("address", None) /\ opened' = TRUE /\ status' = "connected"
        /\ UNCHANGED <<address, balances, label, late>>
    BY <1>1 DEF DeviceOpened
  <2>2. /\ BagToSet(Call("address", None)) = {AddressCall} /\ AddressCall \in CallType
        /\ IsABag(Call("address", None)) /\ AddressCall.for = None
    BY AddressCallIsMade, CallsMade DEF AddressCall
  <2>3. CallsTyped' /\ CallsAreOwn' /\ AddressCall \in UnderWay'
    BY <2>1, <2>2, CallsComing
  <2> QED BY <2>1, <2>3 DEF ShownInv
<1>2. CASE DeviceGone
  BY <1>2, AddressesAssumption DEF ShownInv, CallsTyped, CallsAreOwn, UnderWay, DeviceGone
<1>3. CASE Refresh
  <2>1. /\ calls' = calls (+) OwnCalls(address) /\ address # None
        /\ UNCHANGED <<address, balances, opened, status, label, late>>
    BY <1>3 DEF Refresh
  <2>2. IsABag(OwnCalls(address)) /\ BagToSet(OwnCalls(address)) \subseteq CallType /\ \A c \in BagToSet(OwnCalls(address)) : c.for = address
    BY OwnCallsMade DEF ShownInv
  <2>3. CallsTyped' /\ CallsAreOwn'
    BY <2>1, <2>2, CallsComing
  <2> QED BY <2>1, <2>3 DEF ShownInv
<1>4. CASE AddressFails
  <2>1. /\ calls' = Without(AddressCall) /\ status' = "error"
        /\ UNCHANGED <<address, balances, opened, label, late>>
    BY <1>4 DEF AddressFails
  <2>2. UnderWay' \subseteq UnderWay /\ IsABag(calls')
    BY <2>1, CallGone DEF UnderWay, ShownInv, CallsTyped
  <2> QED BY <2>1, <2>2 DEF ShownInv, CallsTyped, CallsAreOwn
<1> QED BY <1>1, <1>2, <1>3, <1>4

LEMMA ShownAfterBalance ==
  ASSUME ShownInv, NEW c \in UnderWay, NEW items, BalanceComes(c, items)
  PROVE  ShownInv'
<1>1. /\ c.ask = "balance" /\ calls' = Without(c) /\ UNCHANGED <<address, opened, status>>
      /\ balances' = [owner |-> c.for, items |-> items]
      /\ IF HasDefault(items) THEN label' = c.for /\ late' = ~opened ELSE UNCHANGED <<label, late>>
  BY DEF BalanceComes, BalanceUpdated
<1>2. UnderWay' \subseteq UnderWay /\ IsABag(calls') /\ UnderWay \ {c} \subseteq UnderWay'
  BY <1>1, CallGone DEF ShownInv, CallsTyped, UnderWay
<1>3. c # AddressCall
  BY <1>1 DEF AddressCall
<1>4. LabelsAreTrue'
  BY <1>1 DEF ShownInv, WindowTyped, ShownExplained, LabelsAreTrue
<1> QED BY <1>1, <1>2, <1>3, <1>4
    DEF ShownInv, CallsTyped, WindowTyped, ShownExplained, CallsAreOwn, StatusIsTrue

\* A question is answered and the next one asked, for the same address.
LEMMA ShownAfterInitData ==
  ASSUME ShownInv, NEW c \in UnderWay, NEW next \in NextQuestion(c.ask), InitDataGoesOn(c, next)
  PROVE  ShownInv'
<1> USE DEF appVars, windowVars
<1>1. c.ask \in Asks /\ c \in CallType
  BY DEF InitDataGoesOn, MayBe, ShownInv, CallsTyped
<1>2. CASE next = "done"
  <2>1. calls' = Without(c) /\ UNCHANGED <<address, balances, windowVars>>
    BY <1>2 DEF InitDataGoesOn, InitDataUpdated
  <2> QED BY <1>1, <2>1, CallsGoing
<1>3. CASE next # "done"
  <2>1. /\ calls' = Without(c) (+) SetToBag({[c EXCEPT !.ask = next]})
        /\ UNCHANGED <<address, balances, windowVars>>
    BY <1>3 DEF InitDataGoesOn
  <2>2. [c EXCEPT !.ask = next] = [ask |-> next, for |-> c.for, old |-> c.old]
    BY <1>1 DEF CallType
  <2>3. [c EXCEPT !.ask = next] \in CallType
    BY <1>1, <1>3, <2>2, NextIsAsked DEF CallType
  <2>4. UnderWay' = BagToSet(Without(c)) \cup {[c EXCEPT !.ask = next]}
    BY <2>1, BagOperations, SmallBags DEF UnderWay
  <2>5. BagToSet(Without(c)) \subseteq UnderWay /\ IsABag(calls') /\ UnderWay \ {c} \subseteq UnderWay'
    BY <2>1, <2>4, CallGone, BagOperations, SmallBags DEF ShownInv, CallsTyped
  <2>6. c # AddressCall
    BY <1>1 DEF Asks, AddressCall
  <2>7. CallsTyped' /\ CallsAreOwn'
    BY <2>1, <2>2, <2>3, <2>4, <2>5 DEF ShownInv, CallsTyped, ShownExplained, CallsAreOwn
  <2> QED BY <2>1, <2>5, <2>6, <2>7 DEF ShownInv, WindowTyped, ShownExplained, LabelsAreTrue, StatusIsTrue
<1> QED BY <1>2, <1>3

LEMMA ShownStep == ShownInv /\ [Next]_vars => ShownInv'
<1> SUFFICES ASSUME ShownInv, [Next]_vars
             PROVE  ShownInv'
  OBVIOUS
<1> USE DEF appVars, windowVars
<1>1. CASE UNCHANGED consoleVars
  BY <1>1 DEF consoleVars, ShownInv, CallsTyped, WindowTyped, ShownExplained, CallsAreOwn, LabelsAreTrue,
             StatusIsTrue, UnderWay
<1>2. CASE ConsoleStep
  <2>1. ASSUME NEW c \in UnderWay, CallFails(c)
        PROVE  ShownInv'
    BY <2>1, CallsGoing DEF CallFails, MayBe
  <2>2. ASSUME NEW c \in UnderWay, NEW list \in CoinLists, CoinsCome(c, list)
        PROVE  ShownInv'
    BY <2>2, CallsGoing DEF CoinsCome, CoinListUpdated, MayBe
  <2> QED BY <1>2, <2>1, <2>2, ShownAfterDevice, ShownAfterAddress, ShownAfterBalance, ShownAfterInitData
      DEF ConsoleStep
<1> QED BY <1>1, <1>2 DEF Next, vars

\* ShownExplained: calls for an address that is no longer the device's are those
\* made before it came, the labels show whose balance the application has, and
\* "connected" with no address means that one is being asked for.
THEOREM WindowExplained == Spec => []ShownExplained
<1>1. ShownInv => ShownExplained
  BY DEF ShownInv
<1> QED BY <1>1, ShownInit, ShownStep, PTL DEF Spec

-----------------------------------------------------------------------------
\* Places in a sequence, and what stands at some of them.

\* Those before one, among some: the further on it is the more there are.
Earlier(places, p) == {q \in places : q < p}

LEMMA EarlierGrow ==
  ASSUME NEW n \in Nat, NEW S \in SUBSET (1..n), NEW p \in S
  PROVE  /\ Cardinality(Earlier(S, p)) \in 0..(Cardinality(S) - 1)
         /\ \A q \in S : p < q => Cardinality(Earlier(S, p)) < Cardinality(Earlier(S, q))
<1>1. IsFiniteSet(S) /\ Cardinality(S) \in Nat
  <2>1. IsFiniteSet(1..n)
    BY PlacesCount
  <2> QED BY <2>1, FS_Subset, FS_CardinalityType
<1>2. \A q : Earlier(S, q) \in SUBSET S
  BY DEF Earlier
<1>3. \A q : IsFiniteSet(Earlier(S, q)) /\ Cardinality(Earlier(S, q)) \in Nat
  BY <1>1, <1>2, FS_Subset, FS_CardinalityType
<1>4. p \notin Earlier(S, p)
  BY DEF Earlier
<1>5. /\ IsFiniteSet(Earlier(S, p) \cup {p})
      /\ Cardinality(Earlier(S, p) \cup {p}) = Cardinality(Earlier(S, p)) + 1
  BY <1>3, <1>4, FS_AddElement
<1>6. Cardinality(Earlier(S, p) \cup {p}) =< Cardinality(S)
  <2>1. Earlier(S, p) \cup {p} \in SUBSET S
    BY <1>2
  <2> QED BY <1>1, <2>1, FS_Subset
<1>7. ASSUME NEW q \in S, p < q
      PROVE  Cardinality(Earlier(S, p)) < Cardinality(Earlier(S, q))
  <2>1. Earlier(S, p) \cup {p} \in SUBSET Earlier(S, q)
    <3>1. \A x \in S : x \in Int
      OBVIOUS
    <3>2. \A x \in S : x < p => x < q
      BY <1>7, <3>1
    <3>3. \A x \in Earlier(S, p) \cup {p} : x \in Earlier(S, q)
      BY <1>7, <3>2 DEF Earlier
    <3> QED BY <3>3
  <2>2. Cardinality(Earlier(S, p) \cup {p}) =< Cardinality(Earlier(S, q))
    BY <1>3, <2>1, FS_Subset
  <2> QED BY <1>3, <1>5, <2>2
<1> QED BY <1>1, <1>3, <1>5, <1>6, <1>7

\* Each place is the one with so many before it, and there is one for each number.
LEMMA NthPlace ==
  ASSUME NEW n \in Nat, NEW S \in SUBSET (1..n)
  PROVE  /\ IsFiniteSet(S) /\ Cardinality(S) \in Nat
         /\ \A p \in S : Nth(S, Cardinality(Earlier(S, p))) = p
         /\ \A i \in 0..(Cardinality(S) - 1) : Nth(S, i) \in S /\ Cardinality(Earlier(S, Nth(S, i))) = i
<1> DEFINE rank == [p \in S |-> Cardinality(Earlier(S, p)) + 1]
<1>1. IsFiniteSet(S) /\ Cardinality(S) \in Nat
  <2>1. IsFiniteSet(1..n)
    BY PlacesCount
  <2> QED BY <2>1, FS_Subset, FS_CardinalityType
<1>2. \A p \in S : Cardinality(Earlier(S, p)) \in 0..(Cardinality(S) - 1)
  BY EarlierGrow
<1>3. ASSUME NEW p \in S, NEW q \in S, p # q
      PROVE  Cardinality(Earlier(S, p)) # Cardinality(Earlier(S, q))
  <2>1. p < q \/ q < p
    <3>1. \A x \in S : x \in Int
      OBVIOUS
    <3> QED BY <1>3, <3>1
  <2>2. /\ p < q => Cardinality(Earlier(S, p)) < Cardinality(Earlier(S, q))
        /\ q < p => Cardinality(Earlier(S, q)) < Cardinality(Earlier(S, p))
    BY EarlierGrow
  <2>3. Cardinality(Earlier(S, p)) \in Int /\ Cardinality(Earlier(S, q)) \in Int
    BY <1>1, <1>2
  <2> QED BY <2>1, <2>2, <2>3
<1>4. rank \in Injection(S, 1..Cardinality(S))
  <2>1. rank \in [S -> 1..Cardinality(S)]
    BY <1>1, <1>2
  <2>2. \A p, q \in S : rank[p] = rank[q] => p = q
    BY <1>1, <1>2, <1>3
  <2> QED BY <2>1, <2>2 DEF Injection, IsInjective
<1>5. rank \in Surjection(S, 1..Cardinality(S))
  <2>1. IsFiniteSet(1..Cardinality(S)) /\ Cardinality(1..Cardinality(S)) = Cardinality(S)
    BY <1>1, PlacesCount
  <2> HIDE DEF rank
  <2> QED BY <1>1, <1>4, <2>1, FS_Injection
<1>6. ASSUME NEW i \in 0..(Cardinality(S) - 1)
      PROVE  \E p \in S : Cardinality(Earlier(S, p)) = i
  <2>1. PICK p \in S : rank[p] = i + 1
    <3>1. i + 1 \in 1..Cardinality(S)
      BY <1>1
    <3> HIDE DEF rank
    <3> QED BY <1>5, <3>1 DEF Surjection
  <2> QED BY <1>1, <1>2, <2>1
<1>7. \A i : Nth(S, i) = CHOOSE p \in S : Cardinality(Earlier(S, p)) = i
  BY DEF Nth, Earlier
<1>8. \A p \in S : Nth(S, Cardinality(Earlier(S, p))) = p
  BY <1>3, <1>7
<1>9. \A i \in 0..(Cardinality(S) - 1) : Nth(S, i) \in S /\ Cardinality(Earlier(S, Nth(S, i))) = i
  BY <1>6, <1>7
<1> QED BY <1>1, <1>8, <1>9

Places(S) == \E n \in Nat : S \in SUBSET (1..n)

\* A growing table takes places to others, where the same stands in another sequence.
Moved(f, S, T) ==
  /\ f \in [S -> T] /\ \A p, q \in S : p < q => f[p] < f[q]
  /\ \A t \in T : \E p \in S : f[p] = t
Agree(s, t, f, S) == \A p \in S : s[p] = t[f[p]]

\* Then the same stands at all of them, in the same order.
LEMMA OfMoved ==
  ASSUME NEW S, Places(S), NEW T, Places(T),
         NEW f, Moved(f, S, T), NEW s, NEW t, Agree(s, t, f, S)
  PROVE  Cardinality(S) = Cardinality(T) /\ Of(s, S) = Of(t, T)
<1> PICK n \in Nat : S \in SUBSET (1..n)
  BY DEF Places
<1> PICK m \in Nat : T \in SUBSET (1..m)
  BY DEF Places
<1> USE DEF Moved
<1>0. (\A x \in T : x \in Int) /\ \A p \in S : f[p] \in T
  OBVIOUS
<1>1. \A p, q \in S : f[p] = f[q] => p = q
  <2> TAKE p, q \in S
  <2> HAVE f[p] = f[q]
  <2>1. p < q \/ q < p \/ p = q
    <3>1. \A x \in S : x \in Int
      OBVIOUS
    <3> QED BY <3>1
  <2>2. f[p] \in Int /\ f[q] \in Int
    BY <1>0
  <2> QED BY <2>1, <2>2
<1>2. \A p, q \in S : p < q <=> f[p] < f[q]
  <2> TAKE p, q \in S
  <2>1. p < q \/ q < p \/ p = q
    <3>1. \A x \in S : x \in Int
      OBVIOUS
    <3> QED BY <3>1
  <2>2. f[p] \in Int /\ f[q] \in Int
    BY <1>0
  <2> QED BY <2>1, <2>2
<1>3. ExistsBijection(S, T)
  <2>1. f \in Bijection(S, T)
    BY <1>1 DEF Bijection, Injection, Surjection, IsInjective
  <2> QED BY <2>1 DEF ExistsBijection
<1>4. /\ IsFiniteSet(S) /\ Cardinality(S) \in Nat
      /\ IsFiniteSet(T) /\ Cardinality(T) \in Nat
  BY NthPlace
<1>5. Cardinality(S) = Cardinality(T)
  BY <1>3, <1>4, FS_Bijection
<1>6. ASSUME NEW p \in S
      PROVE  Cardinality(Earlier(T, f[p])) = Cardinality(Earlier(S, p))
  <2> DEFINE g == [q \in Earlier(S, p) |-> f[q]]
  <2>1. g \in [Earlier(S, p) -> Earlier(T, f[p])]
    BY <1>2 DEF Earlier
  <2>2. \A a, b \in Earlier(S, p) : g[a] = g[b] => a = b
    BY <1>1 DEF Earlier
  <2>3. \A b \in Earlier(T, f[p]) : \E a \in Earlier(S, p) : g[a] = b
    BY <1>2 DEF Earlier
  <2> HIDE DEF g, Moved
  <2>4. g \in Bijection(Earlier(S, p), Earlier(T, f[p]))
    BY <2>1, <2>2, <2>3 DEF Bijection, Injection, Surjection, IsInjective
  <2>5. IsFiniteSet(Earlier(S, p))
    <3>1. Earlier(S, p) \in SUBSET S
      BY DEF Earlier
    <3> QED BY <1>4, <3>1, FS_Subset
  <2>6. ExistsBijection(Earlier(S, p), Earlier(T, f[p]))
    BY <2>4 DEF ExistsBijection
  <2> QED BY <2>5, <2>6, FS_Bijection
<1>7. ASSUME NEW i \in 1..Cardinality(S)
      PROVE  s[Nth(S, i - 1)] = t[Nth(T, i - 1)]
  <2>1. i - 1 \in 0..(Cardinality(S) - 1)
    BY <1>4
  <2>2. Nth(S, i - 1) \in S /\ Cardinality(Earlier(S, Nth(S, i - 1))) = i - 1
    BY <2>1, NthPlace
  <2>3. Nth(T, i - 1) = f[Nth(S, i - 1)]
    <3>1. f[Nth(S, i - 1)] \in T /\ Cardinality(Earlier(T, f[Nth(S, i - 1)])) = i - 1
      BY <1>6, <2>2
    <3>2. Nth(T, Cardinality(Earlier(T, f[Nth(S, i - 1)]))) = f[Nth(S, i - 1)]
      BY <3>1, NthPlace
    <3> QED BY <3>1, <3>2
  <2> QED BY <2>2, <2>3 DEF Agree
<1>8. Of(s, S) = Of(t, T)
  BY <1>5, <1>7 DEF Of
<1> QED BY <1>5, <1>8
UpByOne(S, i, p) ==
  \A k \in 0..(Cardinality(S) - 2) : Nth(S \ {p}, k) = IF k < i THEN Nth(S, k) ELSE Nth(S, k + 1)

\* Without the place that has i before it, those after it move up by one.
LEMMA NthOfRest ==
  ASSUME NEW n \in Nat, NEW S \in SUBSET (1..n), NEW i \in 0..(Cardinality(S) - 1), NEW p, p = Nth(S, i)
  PROVE  /\ p \in S /\ S \ {p} \in SUBSET (1..n)
         /\ Cardinality(S \ {p}) = Cardinality(S) - 1
         /\ UpByOne(S, i, p)
<1>1. /\ IsFiniteSet(S) /\ Cardinality(S) \in Nat
      /\ p \in S /\ Cardinality(Earlier(S, p)) = i
  BY NthPlace
<1>2. Cardinality(S \ {p}) = Cardinality(S) - 1 /\ S \ {p} \in SUBSET (1..n)
  BY <1>1, FS_RemoveElement
<1>3. ASSUME NEW k \in 0..(Cardinality(S) - 2), NEW m, m = IF k < i THEN k ELSE k + 1
      PROVE  Nth(S \ {p}, k) = Nth(S, m)
  <2> DEFINE q == Nth(S, m)
  <2>1. m \in 0..(Cardinality(S) - 1) /\ m # i /\ i \in Int /\ k \in Int
    BY <1>1, <1>3
  <2>2. q \in S /\ Cardinality(Earlier(S, q)) = m
    BY <2>1, NthPlace
  <2> HIDE DEF q
  <2>3. p \in Int /\ q \in Int /\ p # q /\ q \in S \ {p}
    BY <1>1, <2>1, <2>2
  <2>4. Cardinality(Earlier(S \ {p}, q)) = k
    <3>1. CASE q < p
      <4>1. m < i
        <5>1. Cardinality(Earlier(S, q)) < Cardinality(Earlier(S, p))
          BY <1>1, <2>2, <3>1, EarlierGrow
        <5> QED BY <1>1, <2>2, <5>1
      <4>2. Earlier(S \ {p}, q) = Earlier(S, q)
        <5>1. \A x : x \in Earlier(S \ {p}, q) <=> x \in Earlier(S, q)
          BY <2>3, <3>1 DEF Earlier
        <5> QED BY <5>1, Zenon
      <4> QED BY <1>3, <2>1, <2>2, <4>1, <4>2
    <3>2. CASE p < q
      <4>1. i < m
        <5>1. Cardinality(Earlier(S, p)) < Cardinality(Earlier(S, q))
          BY <1>1, <2>2, <3>2, EarlierGrow
        <5> QED BY <1>1, <2>2, <5>1
      <4>2. Earlier(S \ {p}, q) = Earlier(S, q) \ {p}
        <5>1. \A x : x \in Earlier(S \ {p}, q) <=> x \in Earlier(S, q) \ {p}
          BY DEF Earlier
        <5> QED BY <5>1, Zenon
      <4>3. p \in Earlier(S, q) /\ Earlier(S, q) \in SUBSET S
        BY <1>1, <3>2 DEF Earlier
      <4>4. IsFiniteSet(Earlier(S, q))
        BY <1>1, <4>3, FS_Subset
      <4>5. Cardinality(Earlier(S, q) \ {p}) = m - 1
        BY <2>2, <4>3, <4>4, FS_RemoveElement
      <4>6. m \in Int /\ m = k + 1
        BY <1>1, <1>3, <2>1, <4>1
      <4>7. Cardinality(Earlier(S \ {p}, q)) = m - 1
        BY <4>2, <4>5, Zenon
      <4> QED BY <2>1, <4>6, <4>7
    <3> QED BY <2>3, <3>1, <3>2
  <2>5. Nth(S \ {p}, Cardinality(Earlier(S \ {p}, q))) = q
    BY <1>2, <2>3, NthPlace
  <2> QED BY <2>4, <2>5 DEF q
<1> QED BY <1>1, <1>2, <1>3 DEF UpByOne

LEMMA Removed ==
  ASSUME NEW X, NEW s \in Seq(X), NEW p \in 1..Len(s)
  PROVE  /\ RemoveAt(s, p) \in Seq(X) /\ Len(RemoveAt(s, p)) = Len(s) - 1
         /\ \A j \in 1..(Len(s) - 1) : RemoveAt(s, p)[j] = IF j < p THEN s[j] ELSE s[j + 1]
<1>1. p - 1 \in 0..Len(s) /\ p + 1 \in 1..Len(s) + 1 /\ Len(s) \in Nat /\ p \in Nat
  OBVIOUS
<1>2. /\ SubSeq(s, 1, p - 1) \in Seq(X) /\ Len(SubSeq(s, 1, p - 1)) = p - 1
      /\ \A j \in 1..(p - 1) : SubSeq(s, 1, p - 1)[j] = s[j]
  BY <1>1
<1>3. /\ SubSeq(s, p + 1, Len(s)) \in Seq(X) /\ Len(SubSeq(s, p + 1, Len(s))) = Len(s) - p
      /\ \A j \in 1..(Len(s) - p) : SubSeq(s, p + 1, Len(s))[j] = s[p + j]
  BY <1>1
<1> DEFINE a == SubSeq(s, 1, p - 1)
           b == SubSeq(s, p + 1, Len(s))
<1> HIDE DEF a, b
<1>4. RemoveAt(s, p) = a \o b
  BY DEF RemoveAt, a, b
<1>5. /\ a \in Seq(X) /\ Len(a) = p - 1 /\ \A j \in 1..(p - 1) : a[j] = s[j]
      /\ b \in Seq(X) /\ Len(b) = Len(s) - p /\ \A j \in 1..(Len(s) - p) : b[j] = s[p + j]
  BY <1>2, <1>3 DEF a, b
<1>6. a \o b \in Seq(X) /\ Len(a \o b) = Len(s) - 1
  <2>1. a \o b \in Seq(X)
    BY <1>5
  <2>2. Len(a \o b) = Len(a) + Len(b)
    <3>1. a \in Seq(X) /\ b \in Seq(X)
      BY <1>5
    <3> QED BY <3>1
  <2>3. (p - 1) + (Len(s) - p) = Len(s) - 1
    BY <1>1
  <2> QED BY <1>5, <2>1, <2>2, <2>3
<1>7. ASSUME NEW j \in 1..(Len(s) - 1)
      PROVE  (a \o b)[j] = IF j < p THEN s[j] ELSE s[j + 1]
  <2>1. CASE j < p
    BY <1>1, <1>5, <2>1
  <2>2. CASE ~(j < p)
    <3>1. j - Len(a) \in 1..Len(b) /\ p + (j - Len(a)) = j + 1
      BY <1>1, <1>5, <2>2
    <3>2. (a \o b)[j] = b[j - Len(a)]
      BY <1>1, <1>5, <2>2
    <3> QED BY <1>5, <2>2, <3>1, <3>2
  <2> QED BY <2>1, <2>2
<1> QED BY <1>4, <1>6, <1>7
LEMMA TableIsSeq ==
  ASSUME NEW n \in Nat, NEW X, NEW f \in [1..n -> X]
  PROVE  f \in Seq(X) /\ Len(f) = n
OBVIOUS

\* What stands at some places of a sequence.
LEMMA OfSeq ==
  ASSUME NEW X, NEW s \in Seq(X), NEW S \in SUBSET (1..Len(s))
  PROVE  /\ Cardinality(S) \in Nat
         /\ Of(s, S) \in Seq(X) /\ DOMAIN Of(s, S) = 1..Cardinality(S) /\ Len(Of(s, S)) = Cardinality(S)
         /\ \A j \in 1..Cardinality(S) : Of(s, S)[j] = s[Nth(S, j - 1)] /\ Nth(S, j - 1) \in 1..Len(s)
<1>1. Len(s) \in Nat /\ \A i \in 1..Len(s) : s[i] \in X
  OBVIOUS
<1>2. Cardinality(S) \in Nat
  BY <1>1, NthPlace
<1>3. ASSUME NEW j \in 1..Cardinality(S)
      PROVE  Nth(S, j - 1) \in 1..Len(s)
  <2>1. j - 1 \in 0..(Cardinality(S) - 1)
    BY <1>2
  <2> QED BY <1>1, <2>1, NthPlace
<1>4. DOMAIN Of(s, S) = 1..Cardinality(S) /\ \A j \in 1..Cardinality(S) : Of(s, S)[j] = s[Nth(S, j - 1)]
  BY DEF Of
<1>5. Of(s, S) \in [1..Cardinality(S) -> X]
  BY <1>1, <1>3 DEF Of
<1> QED BY <1>2, <1>3, <1>4, <1>5, TableIsSeq

LEMMA PlacesOfKey ==
  ASSUME NEW X, NEW s \in Seq(X), NEW key, NEW icase
  PROVE  /\ At(s, key, icase) \in SUBSET (1..Len(s)) /\ Cardinality(At(s, key, icase)) \in Nat
         /\ DOMAIN QueryArray(s, key, icase) = 1..Cardinality(At(s, key, icase))
         /\ \A j \in 1..Cardinality(At(s, key, icase)) :
              QueryArray(s, key, icase)[j] = s[Nth(At(s, key, icase), j - 1)][2]
<1> DEFINE places == At(s, key, icase)
<1>1. places \in SUBSET (1..Len(s))
  BY DEF At
<1> HIDE DEF places
<1>2. /\ Cardinality(places) \in Nat /\ DOMAIN Of(s, places) = 1..Cardinality(places)
      /\ \A j \in 1..Cardinality(places) : Of(s, places)[j] = s[Nth(places, j - 1)]
  BY <1>1, OfSeq
<1>3. QueryArray(s, key, icase) = [j \in 1..Cardinality(places) |-> Of(s, places)[j][2]]
  BY <1>2 DEF QueryArray, places
<1>4. \A j \in 1..Cardinality(places) : QueryArray(s, key, icase)[j] = s[Nth(places, j - 1)][2]
  BY <1>2, <1>3
<1>5. DOMAIN QueryArray(s, key, icase) = 1..Cardinality(places)
  BY <1>3
<1> QED BY <1>1, <1>2, <1>4, <1>5 DEF places

SecondsIn(X, B) == \A x \in X : x[2] \in B

LEMMA ValuesOfKey ==
  ASSUME NEW X, NEW s \in Seq(X), NEW B, SecondsIn(X, B), NEW key, NEW icase
  PROVE  /\ QueryArray(s, key, icase) \in Seq(B)
         /\ Len(QueryArray(s, key, icase)) = Cardinality(At(s, key, icase))
<1> DEFINE places == At(s, key, icase)
<1>1. /\ places \in SUBSET (1..Len(s)) /\ Cardinality(places) \in Nat
  BY PlacesOfKey
<1> HIDE DEF places
<1>2. /\ DOMAIN Of(s, places) = 1..Cardinality(places)
      /\ \A j \in 1..Cardinality(places) : Of(s, places)[j] = s[Nth(places, j - 1)] /\ Nth(places, j - 1) \in 1..Len(s)
  BY <1>1, OfSeq
<1>3. QueryArray(s, key, icase) = [j \in 1..Cardinality(places) |-> Of(s, places)[j][2]]
  BY <1>2 DEF QueryArray, places
<1>4. \A j \in 1..Cardinality(places) : Of(s, places)[j][2] \in B
  BY <1>2 DEF SecondsIn
<1>5. QueryArray(s, key, icase) \in [1..Cardinality(places) -> B]
  BY <1>3, <1>4
<1> QED BY <1>1, <1>5, TableIsSeq DEF places

\* A list of pairs, whatever is in them.
PairSeq(s) == \E A, B : s \in Seq(A \X B)

LEMMA PairsAre ==
  ASSUME NEW s, PairSeq(s)
  PROVE  /\ DOMAIN s = 1..Len(s) /\ Len(s) \in Nat
         /\ \A i \in DOMAIN s : Len(s[i]) = 2
BY DEF PairSeq

LEMMA PairsAdded ==
  ASSUME NEW s, PairSeq(s), NEW n, NEW v
  PROVE  /\ PairSeq(Append(s, <<n, v>>))
         /\ DOMAIN Append(s, <<n, v>>) = DOMAIN s \cup {Len(s) + 1}
         /\ \A i \in DOMAIN s : Append(s, <<n, v>>)[i] = s[i]
         /\ Append(s, <<n, v>>)[Len(s) + 1] = <<n, v>>
<1>1. PICK A, B : s \in Seq(A \X B)
  BY DEF PairSeq
<1>2. Append(s, <<n, v>>) \in Seq((A \cup {n}) \X (B \cup {v}))
  BY <1>1
<1>3. Len(s) \in Nat /\ DOMAIN s = 1..Len(s)
  BY <1>1
<1>4. Len(Append(s, <<n, v>>)) = Len(s) + 1
  BY <1>1
<1>5. DOMAIN Append(s, <<n, v>>) = 1..(Len(s) + 1)
  BY <1>2, <1>4
<1>6. Append(s, <<n, v>>)[Len(s) + 1] = <<n, v>>
  BY <1>1
<1>7. \A i \in DOMAIN s : Append(s, <<n, v>>)[i] = s[i]
  BY <1>1
<1>8. 1..(Len(s) + 1) = 1..Len(s) \cup {Len(s) + 1}
  BY <1>3
<1> QED BY <1>2, <1>3, <1>5, <1>6, <1>7, <1>8 DEF PairSeq

LEMMA PairsJoined ==
  ASSUME NEW s, PairSeq(s), NEW t, PairSeq(t)
  PROVE  PairSeq(s \o t)
<1>1. PICK A, B : s \in Seq(A \X B)
  BY DEF PairSeq
<1>2. PICK C, D : t \in Seq(C \X D)
  BY DEF PairSeq
<1>3. s \in Seq((A \cup C) \X (B \cup D)) /\ t \in Seq((A \cup C) \X (B \cup D))
  BY <1>1, <1>2
<1>4. s \o t \in Seq((A \cup C) \X (B \cup D))
  BY <1>3
<1> QED BY <1>4 DEF PairSeq

\* A value is put into one of the pairs, or into some of them.
LEMMA ValuePut ==
  ASSUME NEW s, PairSeq(s), NEW i, NEW v
  PROVE  /\ PairSeq([s EXCEPT ![i][2] = v])
         /\ DOMAIN [s EXCEPT ![i][2] = v] = DOMAIN s
         /\ \A j \in DOMAIN s : [s EXCEPT ![i][2] = v][j][1] = s[j][1]
<1>1. PICK A, B : s \in Seq(A \X B)
  BY DEF PairSeq
<1>2. CASE i \in DOMAIN s
  <2>1. s[i] \in A \X B
    BY <1>1, <1>2
  <2>2. [s[i] EXCEPT ![2] = v] = <<s[i][1], v>>
    BY <2>1
  <2>3. [s EXCEPT ![i][2] = v] \in Seq(A \X (B \cup {v}))
    <3>1. \A j \in DOMAIN s : [s EXCEPT ![i][2] = v][j] \in A \X (B \cup {v})
      BY <1>1, <2>1, <2>2
    <3>2. DOMAIN s = 1..Len(s) /\ Len(s) \in Nat /\ DOMAIN [s EXCEPT ![i][2] = v] = DOMAIN s
      BY <1>1
    <3> DEFINE r == [s EXCEPT ![i][2] = v]
    <3>3. r = [j \in 1..Len(s) |-> r[j]]
      BY <1>1, <3>2
    <3> HIDE DEF r
    <3>4. \A j \in 1..Len(s) : r[j] \in A \X (B \cup {v})
      BY <3>1, <3>2 DEF r
    <3>5. r \in [1..Len(s) -> A \X (B \cup {v})]
      BY <3>3, <3>4
    <3>6. r \in Seq(A \X (B \cup {v}))
      BY <3>2, <3>5, TableIsSeq
    <3> QED BY <3>6 DEF r
  <2>4. \A j \in DOMAIN s : [s EXCEPT ![i][2] = v][j][1] = s[j][1]
    BY <1>1, <2>1, <2>2
  <2> QED BY <2>3, <2>4 DEF PairSeq
<1>3. CASE i \notin DOMAIN s
  <2>1. [s EXCEPT ![i][2] = v] = s
    BY <1>1, <1>3
  <2> QED BY <2>1
<1> QED BY <1>2, <1>3

LEMMA ValuesPut ==
  ASSUME NEW s, PairSeq(s), NEW P, NEW v
  PROVE  /\ PairSeq(Put(s, P, v)) /\ DOMAIN Put(s, P, v) = DOMAIN s
         /\ \A j \in DOMAIN s : Put(s, P, v)[j][1] = s[j][1]
<1> DEFINE r == Put(s, P, v)
<1>1. PICK A, B : s \in Seq(A \X B)
  BY DEF PairSeq
<1>2. DOMAIN s = 1..Len(s) /\ Len(s) \in Nat /\ \A i \in DOMAIN s : s[i] \in A \X B
  BY <1>1
<1>3. \A i \in DOMAIN s : r[i] \in A \X (B \cup {v}) /\ r[i][1] = s[i][1]
  BY <1>2 DEF Put
<1>4. r \in [1..Len(s) -> A \X (B \cup {v})]
  BY <1>2, <1>3 DEF Put
<1>5. r \in Seq(A \X (B \cup {v}))
  BY <1>2, <1>4
<1>6. DOMAIN r = DOMAIN s
  BY DEF Put
<1> QED BY <1>3, <1>5, <1>6 DEF PairSeq

LEMMA PairsOf ==
  ASSUME NEW s, PairSeq(s), NEW S \in SUBSET (1..Len(s))
  PROVE  PairSeq(Of(s, S))
BY OfSeq DEF PairSeq

\* remove_query_array takes the value with that index from those of the key, and
\* leaves the rest of the list as it is.
LEMMA OneRemoved ==
  ASSUME NEW s, PairSeq(s), NEW key, NEW icase, NEW i \in Nat
  PROVE  PairSeq(RemoveQueryArray(s, key, i, icase)) /\ RemovesOne(s, key, i, icase)
<1>0. PICK A, B : s \in Seq(A \X B)
  BY DEF PairSeq
<1> DEFINE X == A \X B
<1> s \in Seq(X)
  BY <1>0
<1> DEFINE S == At(s, key, icase)
           N == Cardinality(S)
           left == RemoveQueryArray(s, key, i, icase)
           before == QueryArray(s, key, icase)
           L == At(left, key, icase)
<1>1. /\ S \in SUBSET (1..Len(s)) /\ N \in Nat
      /\ before \in Seq(B) /\ Len(before) = N /\ \A j \in 1..N : before[j] = s[Nth(S, j - 1)][2]
  <2>1. SecondsIn(X, B)
    BY DEF SecondsIn
  <2> HIDE DEF X
  <2> QED BY <2>1, PlacesOfKey, ValuesOfKey
<1>2. CASE i >= N
  <2>1. left = s
    BY <1>2 DEF RemoveQueryArray
  <2> QED BY <1>1, <1>2, <2>1 DEF RemovesOne
<1>3. CASE i < N
  <2> DEFINE p == Nth(S, i)
             Shift(j) == IF j < p THEN j ELSE j + 1
             n == Len(s) - 1
  <2>1. i \in 0..(N - 1) /\ Len(s) \in Nat
    BY <1>1, <1>3
  <2>2. /\ p \in S /\ S \ {p} \in SUBSET (1..Len(s)) /\ Cardinality(S \ {p}) = N - 1
        /\ UpByOne(S, i, p)
    <3>1. p = Nth(S, i)
      OBVIOUS
    <3> HIDE DEF S, p
    <3> QED BY <1>1, <2>1, <3>1, NthOfRest
  <2>3. p \in 1..Len(s) /\ n \in Nat
    BY <1>1, <2>1, <2>2
  <2>4. left = RemoveAt(s, p)
    BY <1>1, <1>3 DEF RemoveQueryArray
  <2> HIDE DEF p, left
  <2>5. /\ left \in Seq(X) /\ Len(left) = n /\ DOMAIN left = 1..n /\ DOMAIN s = 1..Len(s)
        /\ \A j \in 1..n : left[j] = s[Shift(j)]
    BY <2>3, <2>4, Removed
  <2>6. /\ \A j \in 1..n : Shift(j) \in (1..Len(s)) \ {p}
        /\ \A j, k \in 1..n : j < k => Shift(j) < Shift(k)
    BY <2>1, <2>3
  <2>7. \A t \in (1..Len(s)) \ {p} : \E j \in 1..n : Shift(j) = t
    <3> TAKE t \in (1..Len(s)) \ {p}
    <3>1. CASE t < p
      <4>1. t \in 1..n /\ Shift(t) = t
        BY <2>1, <2>3, <3>1
      <4> QED BY <4>1
    <3>2. CASE p < t
      <4>1. t - 1 \in 1..n /\ Shift(t - 1) = t
        BY <2>1, <2>3, <3>2
      <4> QED BY <4>1
    <3> QED BY <2>3, <3>1, <3>2
  <2>8. L \in SUBSET (1..n) /\ \A j \in 1..n : j \in L <=> Shift(j) \in S
    <3>1. \A j \in 1..n : Shift(j) \in S <=> SameKey(s[Shift(j)][1], key, icase)
      BY <2>5, <2>6 DEF At
    <3>2. L = {j \in 1..n : SameKey(left[j][1], key, icase)}
      BY <2>5 DEF At
    <3> QED BY <2>5, <3>1, <3>2
  <2> HIDE DEF S, L, n
  <2>9. Of(left, L) = Of(s, S \ {p}) /\ Cardinality(L) = N - 1
    <3> DEFINE f == [j \in L |-> Shift(j)]
    <3>1. f \in [L -> S \ {p}]
      BY <2>6, <2>8
    <3>2. \A j, k \in L : j < k => f[j] < f[k]
      BY <2>6, <2>8
    <3>3. \A t \in S \ {p} : \E j \in L : f[j] = t
      BY <1>1, <2>7, <2>8
    <3>4. \A j \in L : left[j] = s[f[j]]
      BY <2>5, <2>8
    <3> HIDE DEF f
    <3>0. Moved(f, L, S \ {p}) /\ Agree(left, s, f, L)
      BY <3>1, <3>2, <3>3, <3>4 DEF Moved, Agree
    <3>5. n \in Nat /\ Len(s) \in Nat /\ L \in SUBSET (1..n) /\ S \ {p} \in SUBSET (1..Len(s))
      BY <2>1, <2>2, <2>3, <2>8
    <3>7. Places(L) /\ Places(S \ {p})
      BY <3>5 DEF Places
    <3>6. Cardinality(L) = Cardinality(S \ {p}) /\ Of(left, L) = Of(s, S \ {p})
      BY <3>0, <3>7, OfMoved
    <3> QED BY <2>2, <3>6
  <2>10. RemoveQuery(left, key, icase) = RemoveQuery(s, key, icase)
    <3> DEFINE U == (1..n) \ L
               V == (1..Len(s)) \ S
               f == [j \in U |-> Shift(j)]
    <3>1. f \in [U -> V]
      BY <2>6, <2>8
    <3>2. \A j, k \in U : j < k => f[j] < f[k]
      BY <2>6
    <3>3. \A t \in V : \E j \in U : f[j] = t
      BY <2>2, <2>7, <2>8
    <3>4. \A j \in U : left[j] = s[f[j]]
      BY <2>5
    <3>5. U \in SUBSET (1..n) /\ V \in SUBSET (1..Len(s))
      OBVIOUS
    <3>6. RemoveQuery(left, key, icase) = Of(left, U) /\ RemoveQuery(s, key, icase) = Of(s, V)
      BY <2>5 DEF RemoveQuery, L, S
    <3> HIDE DEF f, U, V
    <3>7. Of(left, U) = Of(s, V)
      <4>1. n \in Nat /\ Len(s) \in Nat
        BY <2>1, <2>3
      <4>2. Moved(f, U, V) /\ Agree(left, s, f, U)
        BY <3>1, <3>2, <3>3, <3>4 DEF Moved, Agree
      <4>3. Places(U) /\ Places(V)
        BY <3>5, <4>1 DEF Places
      <4> QED BY <4>2, <4>3, OfMoved
    <3> QED BY <3>6, <3>7
  <2>11. QueryArray(left, key, icase) = RemoveAt(before, i + 1)
    <3>1. /\ DOMAIN QueryArray(left, key, icase) = 1..(N - 1)
          /\ QueryArray(left, key, icase) \in Seq(B)
          /\ \A j \in 1..(N - 1) : QueryArray(left, key, icase)[j] = left[Nth(L, j - 1)][2]
      <4>1. left \in Seq(X) /\ Cardinality(At(left, key, icase)) = N - 1
        BY <2>5, <2>9 DEF L
      <4> HIDE DEF N
      <4>2. /\ DOMAIN QueryArray(left, key, icase) = 1..Cardinality(At(left, key, icase))
            /\ QueryArray(left, key, icase) \in Seq(B)
            /\ \A j \in 1..Cardinality(At(left, key, icase)) :
                 QueryArray(left, key, icase)[j] = left[Nth(At(left, key, icase), j - 1)][2]
        <5>1. SecondsIn(X, B)
          BY DEF SecondsIn
        <5> HIDE DEF X
        <5> QED BY <4>1, <5>1, PlacesOfKey, ValuesOfKey
      <4> QED BY <4>1, <4>2 DEF L
    <3>2. \A j \in 1..(N - 1) : left[Nth(L, j - 1)] = s[Nth(S \ {p}, j - 1)]
      <4>1. \A j \in 1..(N - 1) : Of(left, L)[j] = left[Nth(L, j - 1)]
        BY <2>9 DEF Of
      <4>2. \A j \in 1..(N - 1) : Of(s, S \ {p})[j] = s[Nth(S \ {p}, j - 1)]
        BY <2>2 DEF Of
      <4> QED BY <2>9, <4>1, <4>2
    <3>3. /\ RemoveAt(before, i + 1) \in Seq(B) /\ Len(RemoveAt(before, i + 1)) = N - 1
          /\ \A j \in 1..(N - 1) : RemoveAt(before, i + 1)[j] = IF j < i + 1 THEN before[j] ELSE before[j + 1]
      <4>1. i + 1 \in 1..Len(before)
        BY <1>1, <2>1
      <4> HIDE DEF before, N
      <4> QED BY <1>1, <4>1, Removed
    <3>4. ASSUME NEW j \in 1..(N - 1)
          PROVE  QueryArray(left, key, icase)[j] = RemoveAt(before, i + 1)[j]
      <4>1. j - 1 \in 0..(N - 2) /\ j \in Nat
        BY <1>1
      <4>2. Nth(S \ {p}, j - 1) = IF j - 1 < i THEN Nth(S, j - 1) ELSE Nth(S, (j - 1) + 1)
        BY <2>2, <4>1 DEF UpByOne
      <4>3. CASE j < i + 1
        <5>1. Nth(S \ {p}, j - 1) = Nth(S, j - 1) /\ j \in 1..N
          BY <1>1, <2>1, <4>1, <4>2, <4>3
        <5>2. before[j] = s[Nth(S, j - 1)][2]
          BY <1>1, <5>1
        <5> HIDE DEF before, N
        <5> QED BY <3>1, <3>2, <3>3, <4>3, <5>1, <5>2
      <4>4. CASE ~(j < i + 1)
        <5>1. (j - 1) + 1 = j /\ (j + 1) - 1 = j /\ j + 1 \in 1..N
          BY <1>1, <4>1
        <5>2. Nth(S \ {p}, j - 1) = Nth(S, j)
          BY <2>1, <4>1, <4>2, <4>4, <5>1
        <5>3. before[j + 1] = s[Nth(S, j)][2]
          BY <1>1, <5>1
        <5> HIDE DEF before, N
        <5> QED BY <3>1, <3>2, <3>3, <4>4, <5>2, <5>3
      <4> QED BY <4>3, <4>4
    <3>5. DOMAIN RemoveAt(before, i + 1) = 1..(N - 1)
      BY <3>3
    <3> HIDE DEF before, N
    <3> QED BY <3>1, <3>3, <3>4, <3>5
  <2> QED BY <1>0, <1>1, <1>3, <2>5, <2>10, <2>11 DEF left, PairSeq, RemovesOne
<1> QED BY <1>1, <1>2, <1>3

-----------------------------------------------------------------------------
\* What a question is made into.
LEMMA QueriesArePairs ==
  ASSUME NEW q \in Questions
  PROVE  PairSeq(Queries(q))
<1>1. PairSeq(<<>>)
  BY DEF PairSeq
<1>2. ASSUME NEW k, NEW v
      PROVE  PairSeq(<<<<k, v>>>>)
  <2>1. <<<<k, v>>>> \in Seq({k} \X {v})
    OBVIOUS
  <2> QED BY <2>1 DEF PairSeq
<1>3. ASSUME NEW k, NEW v
      PROVE  PairSeq(Optional(k, v))
  BY <1>1, <1>2 DEF Optional
<1>4. ASSUME NEW k, NEW v, NEW l, NEW w
      PROVE  PairSeq(<<<<k, v>>, <<l, w>>>>)
  <2>1. <<<<k, v>>, <<l, w>>>> \in Seq({k, l} \X {v, w})
    OBVIOUS
  <2> QED BY <2>1 DEF PairSeq
<1>5. ASSUME NEW k, NEW v, NEW l, NEW w, NEW m, NEW u
      PROVE  PairSeq(<<<<k, v>>, <<l, w>>, <<m, u>>>>)
  <2>1. <<<<k, v>>, <<l, w>>, <<m, u>>>> \in Seq({k, l, m} \X {v, w, u})
    OBVIOUS
  <2> QED BY <2>1 DEF PairSeq
<1>6. ASSUME NEW x, x \in Seq(STRING)
      PROVE  PairSeq([i \in DOMAIN x |-> <<"addresses[]", x[i]>>])
  <2>1. [i \in DOMAIN x |-> <<"addresses[]", x[i]>>] \in [1..Len(x) -> {"addresses[]"} \X STRING]
    BY <1>6
  <2>2. [i \in DOMAIN x |-> <<"addresses[]", x[i]>>] \in Seq({"addresses[]"} \X STRING)
    BY <1>6, <2>1
  <2> QED BY <2>2 DEF PairSeq
<1> QED BY <1>1, <1>2, <1>3, <1>4, <1>5, <1>6, PairsJoined, QuestionsAssumption, Zenon DEF Queries

\* Headers: pairs, whose names are the same but for their case.
OneName(headers) == \A i, j \in DOMAIN headers : Lowered(headers[i][1]) = Lowered(headers[j][1])
HeadersOK(headers) == PairSeq(headers) /\ OneName(headers)

\* A header is only appended when every one there has its name.
LEMMA HeaderAppended ==
  ASSUME NEW h, HeadersOK(h), NEW name, Matching(h, name) = {}, NEW n, Lowered(n) = Lowered(name), NEW v
  PROVE  HeadersOK(Append(h, <<n, v>>))
<1> DEFINE r == Append(h, <<n, v>>)
<1>1. \A i \in DOMAIN h : Lowered(h[i][1]) = Lowered(name)
  BY DEF Matching, Compared
<1>2. /\ PairSeq(r) /\ DOMAIN r = DOMAIN h \cup {Len(h) + 1}
      /\ (\A i \in DOMAIN h : r[i] = h[i]) /\ r[Len(h) + 1] = <<n, v>>
  BY PairsAdded DEF HeadersOK
<1> HIDE DEF r
<1>3. \A i \in DOMAIN r : Lowered(r[i][1]) = Lowered(name)
  BY <1>1, <1>2
<1>4. HeadersOK(r)
  BY <1>2, <1>3 DEF HeadersOK, OneName
<1> QED BY <1>4 DEF r

LEMMA HeaderPut ==
  ASSUME NEW h, HeadersOK(h), NEW i, NEW v
  PROVE  HeadersOK([h EXCEPT ![i][2] = v])
BY ValuePut DEF HeadersOK, OneName

LEMMA HeadersPut ==
  ASSUME NEW h, HeadersOK(h), NEW P, NEW v
  PROVE  HeadersOK(Put(h, P, v))
BY ValuesPut DEF HeadersOK, OneName

LEMMA HeadersKept ==
  ASSUME NEW h, HeadersOK(h), NEW n, NEW v
  PROVE  /\ n \in Names => HeadersOK(AddHeader(h, n, v))
         /\ HeadersOK(MoveHeader(h, n, v))
         /\ HeadersOK(SetHeader(h, n, v))
<1>1. n \in Names => Lowered(Lowered(n)) = Lowered(n)
  BY NamesAssumption
<1>2. n \in Names => HeadersOK(AddHeader(h, n, v))
  BY <1>1, HeaderAppended, HeaderPut DEF AddHeader
<1>3. HeadersOK(MoveHeader(h, n, v))
  BY HeaderAppended, HeaderPut DEF MoveHeader
<1>4. HeadersOK(SetHeader(h, n, v))
  BY <1>3, HeadersPut DEF SetHeader
<1> QED BY <1>2, <1>3, <1>4

LEMMA NoPairs == PairSeq(<<>>) /\ HeadersOK(<<>>)
<1>1. <<>> \in Seq({} \X {}) /\ DOMAIN <<>> = {}
  OBVIOUS
<1> QED BY <1>1 DEF PairSeq, HeadersOK, OneName

-----------------------------------------------------------------------------
\* A request as its callers left it.
Fields == {"method", "proto", "host", "port", "path", "params", "headers", "body"}
RequestOK(r) ==
  /\ DOMAIN r = Fields /\ r.method \in {"get", "post", "put"}
  /\ HeadersOK(r.headers) /\ PairSeq(r.params)

LEMMA RequestsPut ==
  ASSUME NEW r, RequestOK(r), NEW x
  PROVE  /\ HeadersOK(x) => RequestOK([r EXCEPT !.headers = x])
         /\ PairSeq(x) => RequestOK([r EXCEPT !.params = x])
         /\ x \in {"get", "post", "put"} => RequestOK([r EXCEPT !.method = x])
         /\ RequestOK([r EXCEPT !.body = x]) /\ RequestOK([r EXCEPT !.path = x])
BY DEF RequestOK, Fields

LEMMA BodySet ==
  ASSUME NEW r, RequestOK(r), NEW body
  PROVE  RequestOK(SetBody(r, body))
<1>1. \A n, v : HeadersOK(SetHeader(r.headers, n, v))
  BY HeadersKept DEF RequestOK
<1> QED BY <1>1 DEF RequestOK, Fields, SetBody

LEMMA UrlParsed ==
  ASSUME NEW r, RequestOK(r), NEW url, PairSeq(url.params)
  PROVE  RequestOK(ParseUrl(r, url))
<1>1. PairSeq(r.params \o url.params)
  BY PairsJoined DEF RequestOK
<1> QED BY <1>1 DEF RequestOK, Fields, ParseUrl

LEMMA NewIsOK == RequestOK(NewRequest) /\ RequestOK(ParseUrl(NewRequest, Explorer)) /\ RequestOK(ParseUrl(NewRequest, Gate))
<1>1. RequestOK(NewRequest)
  BY NoPairs DEF NewRequest, RequestOK, Fields
<1>2. Explorer.params = <<>> /\ Gate.params = <<>>
  BY DEF Explorer, Gate
<1> QED BY <1>1, <1>2, NoPairs, UrlParsed

LEMMA AskedIsOK ==
  ASSUME NEW q \in Questions
  PROVE  RequestOK(Asked(q))
<1>1. RequestOK(Created(q))
  BY NewIsOK DEF Created
<1>2. RequestOK(Typed(q))
  <2>1. HeadersOK(SetHeader(Created(q).headers, "content-type", "json"))
    BY <1>1, HeadersKept DEF RequestOK
  <2>2. RequestOK([Created(q) EXCEPT !.headers = SetHeader(@, "content-type", "json"), !.method = "post"])
    BY <1>1, <2>1 DEF RequestOK, Fields
  <2> QED BY <1>1, <2>2 DEF Typed
<1>3. PairSeq(Typed(q).params \o Queries(q))
  BY <1>2, QueriesArePairs, PairsJoined DEF RequestOK
<1>4. RequestOK([Typed(q) EXCEPT !.path = Path(@, Segments(q)), !.params = @ \o Queries(q)])
  BY <1>2, <1>3 DEF RequestOK, Fields
<1> QED BY <1>4, BodySet DEF Asked

-----------------------------------------------------------------------------
LEMMA HeaderCallKeeps ==
  ASSUME RequestOK(request), HeaderCall
  PROVE  RequestOK(request')
<1>1. ASSUME NEW n \in Names, NEW v, NEW hs,
             hs \in {AddHeader(request.headers, n, v), MoveHeader(request.headers, n, v), SetHeader(request.headers, n, v)},
             Called([request EXCEPT !.headers = hs])
      PROVE  RequestOK(request')
  <2>1. HeadersOK(hs)
    BY <1>1, HeadersKept DEF RequestOK
  <2> QED BY <1>1, <2>1, RequestsPut DEF Called
<1>2. ASSUME NEW n \in Names, NEW o \in Names, NEW v, NEW w,
             Called([request EXCEPT !.headers = AddHeaders(@, <<n, v>>, <<o, w>>)])
      PROVE  RequestOK(request')
  <2>1. HeadersOK(AddHeader(request.headers, n, v))
    BY HeadersKept DEF RequestOK
  <2>2. HeadersOK(AddHeader(AddHeader(request.headers, n, v), o, w))
    BY <2>1, HeadersKept
  <2>3. HeadersOK(AddHeaders(request.headers, <<n, v>>, <<o, w>>))
    BY <2>2 DEF AddHeaders
  <2> QED BY <1>2, <2>3, RequestsPut DEF Called
<1>3. ASSUME Called([request EXCEPT !.headers = <<>>]) \/ Called([request EXCEPT !.body = ""])
      PROVE  RequestOK(request')
  <2>1. RequestOK([request EXCEPT !.headers = <<>>])
    BY NoPairs, RequestsPut
  <2>2. RequestOK([request EXCEPT !.body = ""])
    BY RequestsPut
  <2> QED BY <1>3, <2>1, <2>2 DEF Called
<1>4. ASSUME NEW b, Called(SetBody(request, b))
      PROVE  RequestOK(request')
  BY <1>4, BodySet DEF Called
<1> QED BY <1>1, <1>2, <1>3, <1>4 DEF HeaderCall

LEMMA QueryCallKeeps ==
  ASSUME RequestOK(request), QueryCall
  PROVE  RequestOK(request')
<1> DEFINE params == request.params
<1>1. PairSeq(params) /\ DOMAIN params = 1..Len(params) /\ Len(params) \in Nat
  BY PairsAre DEF RequestOK
<1>2. \A k, v : RequestOK(AddQuery(request, k, v))
  BY <1>1, PairsAdded, RequestsPut DEF AddQuery
<1>3. ASSUME NEW k, NEW v, Called(AddQuery(request, k, v)) \/ \E marked \in BOOLEAN : Called(ParseQuery(request, marked, k, v))
      PROVE  RequestOK(request')
  BY <1>2, <1>3 DEF ParseQuery, Called
<1>4. ASSUME NEW k, NEW v, NEW icase, Called([request EXCEPT !.params = SetQuery(@, k, v, icase)])
      PROVE  RequestOK(request')
  <2>1. PairSeq(SetQuery(params, k, v, icase))
    BY <1>1, ValuesPut DEF SetQuery
  <2> QED BY <1>4, <2>1, RequestsPut DEF Called
<1>5. ASSUME NEW k, NEW icase, Called([request EXCEPT !.params = RemoveQuery(@, k, icase)])
      PROVE  RequestOK(request')
  <2>1. DOMAIN params \ At(params, k, icase) \in SUBSET (1..Len(params))
    BY <1>1
  <2>2. PairSeq(RemoveQuery(params, k, icase))
    BY <1>1, <2>1, PairsOf DEF RemoveQuery
  <2> QED BY <1>5, <2>2, RequestsPut DEF Called
<1>6. ASSUME NEW k, NEW icase, NEW i \in 0..1, Called([request EXCEPT !.params = RemoveQueryArray(@, k, i, icase)])
      PROVE  RequestOK(request')
  <2>1. PairSeq(RemoveQueryArray(params, k, i, icase))
    BY <1>1, OneRemoved
  <2> QED BY <1>6, <2>1, RequestsPut DEF Called
<1>7. ASSUME Called([request EXCEPT !.params = <<>>])
      PROVE  RequestOK(request')
  BY <1>7, NoPairs, RequestsPut DEF Called
<1> QED BY <1>3, <1>4, <1>5, <1>6, <1>7 DEF QueryCall

LEMMA TargetCallKeeps ==
  ASSUME RequestOK(request), TargetCall
  PROVE  RequestOK(request')
<1>1. ASSUME NEW p
      PROVE  RequestOK(AddPath(request, p)) /\ RequestOK(SetPath(request, p))
  BY RequestsPut DEF AddPath, SetPath
<1>2. ASSUME NEW n
      PROVE  RequestOK([request EXCEPT !.method = MethodFromString(n)])
  <2>1. MethodFromString(n) \in {"get", "post", "put"}
    BY DEF MethodFromString
  <2> QED BY <2>1, RequestsPut
<1> QED BY <1>1, <1>2 DEF TargetCall, Called

-----------------------------------------------------------------------------
\* A call or a question, and nothing after a question.
RequestInv ==
  /\ RequestOK(request) /\ steps \in 0..MaxSteps
  /\ question # <<>> => question \in Questions /\ request = Asked(question) /\ steps = MaxSteps

LEMMA RequestKept == RequestInv /\ [Next]_vars => RequestInv'
<1> SUFFICES ASSUME RequestInv, [Next]_vars
             PROVE  RequestInv'
  OBVIOUS
<1>1. CASE UNCHANGED requestVars
  BY <1>1 DEF RequestInv, requestVars
<1>2. ASSUME RequestCall, UNCHANGED question
      PROVE  RequestInv'
  <2>1. steps < MaxSteps /\ steps' = steps + 1
    BY <1>2 DEF RequestCall, HeaderCall, QueryCall, TargetCall, Called
  <2>2. RequestOK(request')
    BY <1>2, HeaderCallKeeps, QueryCallKeeps, TargetCallKeeps DEF RequestCall, RequestInv
  <2>3. question = <<>> /\ question' = <<>> /\ steps' \in 0..MaxSteps
    BY <1>2, <2>1, StepsAssumption DEF RequestInv
  <2> QED BY <2>2, <2>3 DEF RequestInv
<1>3. ASSUME NEW q \in Questions, Ask(q)
      PROVE  RequestInv'
  BY <1>3, AskedIsOK, StepsAssumption DEF Ask, RequestInv
<1>4. CASE RequestStep
  BY <1>2, <1>3, <1>4 DEF RequestStep
<1> QED BY <1>1, <1>4 DEF Next, vars

LEMMA RequestBegins == Init => RequestInv
BY NewIsOK, StepsAssumption DEF Init, RequestInit, RequestInv

LEMMA RequestTyped == RequestInv => RequestTypeOK
<1> SUFFICES ASSUME RequestInv
             PROVE  RequestTypeOK
  OBVIOUS
<1>1. DOMAIN NewRequest = Fields
  BY DEF NewRequest, Fields
<1>2. PairSeq(request.headers) /\ PairSeq(request.params)
  BY DEF RequestInv, RequestOK, HeadersOK
<1> QED BY <1>1, <1>2, PairsAre DEF RequestInv, RequestOK, RequestTypeOK

\* HeadersOfOneName: however a request is put together, its headers never have two
\* names (a comparison taken the wrong way round gives the value of a second name
\* to the header there is).
THEOREM HeadersHaveOneName == Spec => []HeadersOfOneName
<1>1. RequestInv => HeadersOfOneName
  BY DEF RequestInv, RequestOK, HeadersOK, OneName, HeadersOfOneName
<1> QED BY <1>1, RequestBegins, RequestKept, PTL DEF Spec

\* RemovalIsOfOne: remove_query_array takes one value of its key out of any list of
\* parameters, and leaves the other values, and the other keys, in their order.
THEOREM RemovalsAreOfOne == Spec => []RemovalIsOfOne
<1>1. RequestInv => RemovalIsOfOne
  BY OneRemoved DEF RequestInv, RequestOK, RemovalIsOfOne
<1> QED BY <1>1, RequestBegins, RequestKept, PTL DEF Spec

\* RequestsExplained, for any questions no two of which look alike on the wire (a
\* fact about the strings asked with, which TLC checks of those it is given): no
\* call comes between the question and what is sent.
THEOREM RequestsAreExplained ==
  ASSUME \A p, q \in Questions : Wire(Asked(p)) = Wire(Asked(q)) => p.ask = q.ask /\ p.args = q.args
  PROVE  Spec => []RequestsExplained
<1>1. RequestInv => QuestionsTold
  BY DEF RequestInv, QuestionsTold
<1>2. RequestInv => HeadersOfOneName
  BY DEF RequestInv, RequestOK, HeadersOK, OneName, HeadersOfOneName
<1> QED BY <1>1, RequestBegins, RequestKept, HeadersHaveOneName, RemovalsAreOfOne, PTL DEF Spec, RequestsExplained

-----------------------------------------------------------------------------
\* The console: answers are for addresses, and its texts are the window's.
TextsOK == status \in {"waiting", "connected", "error", "gone"} /\ label \in {"loading", "unavailable"} \cup Addresses
ConsoleInv == ShownInv /\ AppTypeOK /\ TextsOK

LEMMA ConsoleBegins == Init => ConsoleInv
<1> SUFFICES ASSUME Init
             PROVE  AppTypeOK /\ TextsOK
  BY ShownInit DEF ConsoleInv
<1>1. AppInit /\ status = "waiting" /\ label = "loading"
  BY DEF Init, ConsoleInit
<1>2. coins = <<>> /\ Len(<<>>) = 0 /\ capacity = 0 /\ freed = {} /\ \A c \in Coins : index[c] = 0
  BY <1>1 DEF AppInit
<1>3. balances \in [owner : Addresses \cup {None}, items : Balances \cup {<<>>}]
  BY <1>1 DEF AppInit
<1> QED BY <1>1, <1>2, <1>3 DEF AppInit, AppTypeOK, TextsOK

LEMMA ConsoleKept == ConsoleInv /\ [Next]_vars => ConsoleInv'
<1> SUFFICES ASSUME ConsoleInv, [Next]_vars
             PROVE  AppTypeOK' /\ TextsOK'
  BY ShownStep DEF ConsoleInv
<1> USE DEF ConsoleInv, windowVars
<1>1. CASE UNCHANGED consoleVars
  BY <1>1, AnswersKeepTypes DEF consoleVars, TextsOK
<1>2. ASSUME DeviceOpened \/ DeviceGone \/ Refresh \/ AddressFails
      PROVE  AppTypeOK' /\ TextsOK'
  <2>1. UNCHANGED appVars /\ TextsOK'
    BY <1>2 DEF DeviceOpened, DeviceGone, Refresh, AddressFails, TextsOK
  <2> QED BY <2>1, AnswersKeepTypes
<1>3. ASSUME NEW a \in Addresses, AddressComes(a)
      PROVE  AppTypeOK' /\ TextsOK'
  BY <1>3, AnswersKeepTypes DEF AddressComes, TextsOK
<1>4. ASSUME NEW c \in UnderWay, CallFails(c)
      PROVE  AppTypeOK' /\ TextsOK'
  BY <1>4, AnswersKeepTypes DEF CallFails, TextsOK
<1>5. ASSUME NEW c \in UnderWay, NEW items \in Balances, BalanceComes(c, items)
      PROVE  AppTypeOK' /\ TextsOK'
  <2>1. c \in CallType /\ c.ask = "balance"
    BY <1>5 DEF ShownInv, CallsTyped, BalanceComes
  <2>2. c.for \in Addresses
    BY <2>1 DEF CallType
  <2>3. BalanceUpdated(c.for, items) /\ TextsOK'
    BY <1>5, <2>2 DEF BalanceComes, TextsOK
  <2> QED BY <2>2, <2>3, AnswersKeepTypes
<1>6. ASSUME NEW c \in UnderWay, NEW list \in CoinLists, CoinsCome(c, list)
      PROVE  AppTypeOK' /\ TextsOK'
  BY <1>6, AnswersKeepTypes DEF CoinsCome, TextsOK
<1>7. ASSUME NEW c \in UnderWay, NEW next \in NextQuestion(c.ask), InitDataGoesOn(c, next)
      PROVE  AppTypeOK' /\ TextsOK'
  <2>1. c \in CallType /\ c.ask \notin {"address", "coins"}
    BY NextIsAsked DEF ShownInv, CallsTyped
  <2>2. c.for \in Addresses
    BY <2>1 DEF CallType
  <2>3. (InitDataUpdated(c.for) \/ UNCHANGED appVars) /\ TextsOK'
    BY <1>7 DEF InitDataGoesOn, TextsOK
  <2> QED BY <2>2, <2>3, AnswersKeepTypes
<1>8. CASE ConsoleStep
  BY <1>2, <1>3, <1>4, <1>5, <1>6, <1>7, <1>8 DEF ConsoleStep
<1> QED BY <1>1, <1>8 DEF Next, vars

\* TypeOK: what the console keeps of answers and shows of them, its calls and the
\* requests have their types, for any questions, header names and addresses.
THEOREM TypesCorrect == Spec => []TypeOK
<1>1. ConsoleInv => ConsoleTypeOK
  BY DEF ConsoleInv, ShownInv, CallsTyped, CallType, TextsOK, ConsoleTypeOK
<1>2. ConsoleInv /\ RequestInv => TypeOK
  BY <1>1, RequestTyped DEF TypeOK
<1> QED BY <1>2, ConsoleBegins, ConsoleKept, RequestBegins, RequestKept, PTL DEF Spec
==============================================================================
