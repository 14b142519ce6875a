----------------------------- MODULE ConsoleApp ------------------------------
(***************************************************************************)
(* ConsoleApp: the address of the device, and what the explorer and the    *)
(* gate say about it and about the coins.                                  *)
(*                                                                         *)
(* Here is what each answer changes when it is handled on the UI thread;   *)
(* an error is logged and changes nothing.  When the calls are made, and   *)
(* what the console's window shows, is ConsoleCalls.                       *)
(***************************************************************************)
EXTENDS Naturals, Sequences, FiniteSets

CONSTANTS
  Addresses, \* the addresses of the devices that are plugged in
  Coins,     \* symbols
  CoinLists, \* what the explorer may list: sequences of coins
  Top,       \* the coins of mTopCoinsIds, in their order
  Reserve,   \* per coin, its reserve
  Balances   \* what the explorer may say of an address: sequences of balance items

\* No list holds a coin twice; the order of two coins is settled.
ASSUME ListsAssumption ==
  /\ CoinLists \subseteq Seq(Coins)
  /\ \A list \in CoinLists : \A i, j \in DOMAIN list : list[i] = list[j] => i = j
  /\ Top \in Seq(Coins)
  /\ Reserve \in [Coins -> Nat] /\ \A c, d \in Coins : c # d => Reserve[c] # Reserve[d]

None == "none"

VARIABLES
  address,  \* ConsoleApp::address
  balances, \* balances: whose they are and what they are
  initData, \* initData: for which address it was made
  coins,    \* the vector
  capacity, \* of the vector's storage
  index,    \* coinsIndex, per symbol the slot its pointer points to, 0 without an entry
  freed     \* symbols whose pointer points into storage that was given back

appVars == <<address, balances, initData, coins, capacity, index, freed>>
listVars == <<coins, capacity, index, freed>>

AppInit ==
  /\ address = None /\ initData = None
  /\ balances = [owner |-> None, items |-> <<>>]
  /\ coins = <<>> /\ capacity = 0
  /\ index = [c \in Coins |-> 0] /\ freed = {}

AddressResolved(a) ==
  address' = a /\ UNCHANGED <<balances, initData, listVars>>

\* Whatever answer comes is taken, also one that was asked for another address.
BalanceUpdated(a, items) ==
  balances' = [owner |-> a, items |-> items] /\ UNCHANGED <<address, initData, listVars>>

InitDataUpdated(a) ==
  initData' = a /\ UNCHANGED <<address, balances, listVars>>

\* std::sort: the top coins in their order, then by reserve.
IsTop(c) == \E i \in DOMAIN Top : Top[i] = c
Place(c) == CHOOSE i \in DOMAIN Top : Top[i] = c
Before(c, d) ==
  IF IsTop(c) THEN IF IsTop(d) THEN Place(c) < Place(d) ELSE TRUE
              ELSE ~IsTop(d) /\ Reserve[c] > Reserve[d]
Listed(list) == {list[i] : i \in DOMAIN list}
Rank(c, list) == Cardinality({d \in Listed(list) : Before(d, c)}) + 1
Sorted(list) == [i \in DOMAIN list |-> CHOOSE c \in Listed(list) : Rank(c, list) = i]

Slot(c, list) == CHOOSE i \in DOMAIN list : list[i] = c

\* The slip of an index that is only filled once (used by no action; those named
\* "the slip of" in these modules neither).
ReindexedOnce(list) ==
  index' = [c \in Coins |-> IF index[c] = 0 /\ c \in Listed(list) THEN Slot(c, list) ELSE index[c]]

\* coinsIndex.insert for each coin of the vector; no entry is ever removed.
Reindexed(list) ==
  index' = [c \in Coins |-> IF c \in Listed(list) THEN Slot(c, list) ELSE index[c]]

\* The slip of a vector that gives back what it does not need.
CoinListUpdatedShrunk(listed) ==
  LET list == Sorted(listed) IN
  /\ coins' = list /\ capacity' = Len(list) /\ freed' = freed \ Listed(list)
  /\ Reindexed(list)
  /\ UNCHANGED <<address, balances, initData>>

\* coins = tmp: the storage is kept while the list fits in it.
CoinListUpdated(listed) ==
  LET list == Sorted(listed) IN
  /\ coins' = list
  /\ capacity' = IF Len(list) > capacity THEN Len(list) ELSE capacity
  /\ freed' = (IF Len(list) > capacity THEN freed \cup {c \in Coins : index[c] # 0} ELSE freed) \ Listed(list)
  /\ Reindexed(list)
  /\ UNCHANGED <<address, balances, initData>>

-----------------------------------------------------------------------------
\* findCoinBySymbol: whether it finds something, and the coin its pointer shows;
\* what a pointer into freed or unused storage shows is Garbage.
Garbage == "garbage"
HasCoin(c) == c \in Coins /\ index[c] # 0
Found(c) == IF c \notin freed /\ index[c] <= Len(coins) THEN coins[index[c]] ELSE Garbage

AppTypeOK ==
  /\ address \in Addresses \cup {None} /\ initData \in Addresses \cup {None}
  /\ balances \in [owner : Addresses \cup {None}, items : Balances \cup {<<>>}]
  /\ coins \in {Sorted(list) : list \in CoinLists} \cup {<<>>}
  /\ capacity \in Nat /\ Len(coins) <= capacity
  /\ freed \subseteq {c \in Coins : index[c] # 0}
  /\ \A c \in Coins : index[c] \in 0..capacity
==============================================================================
