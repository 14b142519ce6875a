-------------------------- MODULE ConsoleApp_proofs --------------------------
(***************************************************************************)
(* Lemmas about the list of coins and its index, for any coins and lists:  *)
(* sorting keeps a list's coins, and an entry of the index finds its coin. *)
(***************************************************************************)
EXTENDS ConsoleApp, FiniteSetTheorems, TLAPS

\* A top coin's place is one where it stands.
LEMMA PlaceOfTop ==
  ASSUME NEW c, IsTop(c)
  PROVE  Place(c) \in Nat /\ Top[Place(c)] = c
<1>1. \E i \in DOMAIN Top : Top[i] = c
  BY DEF IsTop
<1>2. Place(c) \in DOMAIN Top /\ Top[Place(c)] = c
  BY <1>1 DEF Place
<1>3. DOMAIN Top \subseteq Nat
  BY ListsAssumption
<1> QED BY <1>2, <1>3

\* The order that coins are sorted in is strict and compares any two.
LEMMA BeforeIsOrder ==
  ASSUME NEW c \in Coins, NEW d \in Coins
  PROVE  /\ ~Before(c, c)
         /\ c # d => Before(c, d) \/ Before(d, c)
         /\ \A e \in Coins : Before(e, c) /\ Before(c, d) => Before(e, d)
<1>1. \A x \in Coins : IsTop(x) => Place(x) \in Nat /\ Top[Place(x)] = x
  BY PlaceOfTop
<1>2. \A x \in Coins : Reserve[x] \in Nat
  BY ListsAssumption
<1>3. c # d => Reserve[c] # Reserve[d]
  BY ListsAssumption
<1>4. ~Before(c, c)
  BY <1>1, <1>2 DEF Before
<1>5. c # d => Before(c, d) \/ Before(d, c)
  BY <1>1, <1>2, <1>3 DEF Before
<1>6. ASSUME NEW e \in Coins, Before(e, c), Before(c, d)
      PROVE  Before(e, d)
  BY <1>1, <1>2, <1>6 DEF Before
<1> QED BY <1>4, <1>5, <1>6

LEMMA PlacesCount ==
  ASSUME NEW n \in Nat
  PROVE  IsFiniteSet(1..n) /\ Cardinality(1..n) = n
<1>1. n \in Int /\ 1 \in Int
  OBVIOUS
<1>2. IsFiniteSet(1..n) /\ Cardinality(1..n) = IF 1 > n THEN 0 ELSE n - 1 + 1
  BY <1>1, FS_Interval, Zenon
<1> QED BY <1>2

\* A list has as many coins as places.
LEMMA ListedCounts ==
  ASSUME NEW list \in CoinLists
  PROVE  /\ Listed(list) \subseteq Coins
         /\ DOMAIN list = 1..Len(list) /\ Len(list) \in Nat
         /\ IsFiniteSet(Listed(list)) /\ Cardinality(Listed(list)) = Len(list)
<1>1. list \in Seq(Coins) /\ \A i, j \in DOMAIN list : list[i] = list[j] => i = j
  BY ListsAssumption
<1>2. DOMAIN list = 1..Len(list) /\ Len(list) \in Nat /\ Listed(list) \subseteq Coins
  BY <1>1 DEF Listed
<1>3. list \in Bijection(1..Len(list), Listed(list))
  BY <1>1, <1>2 DEF Bijection, Injection, Surjection, IsInjective, Listed
<1>4. ExistsBijection(1..Len(list), Listed(list))
  BY <1>3 DEF ExistsBijection
<1>5. IsFiniteSet(1..Len(list)) /\ Cardinality(1..Len(list)) = Len(list)
  BY <1>2, PlacesCount
<1> QED BY <1>2, <1>4, <1>5, FS_Bijection

\* Each coin of a list has a rank within it, and no other coin has that rank.
LEMMA RankIsPlace ==
  ASSUME NEW list \in CoinLists, NEW c \in Listed(list)
  PROVE  /\ Rank(c, list) \in 1..Len(list)
         /\ \A d \in Listed(list) : Before(c, d) => Rank(c, list) < Rank(d, list)
<1> DEFINE First(d) == {e \in Listed(list) : Before(e, d)}
<1>1. /\ Listed(list) \subseteq Coins /\ Len(list) \in Nat
      /\ IsFiniteSet(Listed(list)) /\ Cardinality(Listed(list)) = Len(list)
  BY ListedCounts
<1>2. \A d : IsFiniteSet(First(d)) /\ Cardinality(First(d)) \in Nat
  <2> TAKE d
  <2>1. First(d) \in SUBSET Listed(list)
    OBVIOUS
  <2> HIDE DEF First
  <2> QED BY <1>1, <2>1, FS_Subset, FS_CardinalityType
<1>3. c \notin First(c)
  BY <1>1, BeforeIsOrder
<1>4. IsFiniteSet(First(c) \cup {c}) /\ Cardinality(First(c) \cup {c}) = Cardinality(First(c)) + 1
  <2> HIDE DEF First
  <2> QED BY <1>2, <1>3, FS_AddElement
<1>5. Rank(c, list) \in 1..Len(list)
  <2>1. First(c) \cup {c} \in SUBSET Listed(list)
    OBVIOUS
  <2>2. Cardinality(First(c) \cup {c}) =< Len(list)
    <3> HIDE DEF First
    <3> QED BY <1>1, <2>1, FS_Subset
  <2>3. Rank(c, list) = Cardinality(First(c)) + 1
    BY DEF Rank
  <2> HIDE DEF First
  <2> QED BY <1>1, <1>2, <1>4, <2>2, <2>3
<1>6. ASSUME NEW d \in Listed(list), Before(c, d)
      PROVE  Rank(c, list) < Rank(d, list)
  <2>1. First(c) \cup {c} \in SUBSET First(d)
    BY <1>1, <1>6, BeforeIsOrder
  <2>2. Cardinality(First(c) \cup {c}) =< Cardinality(First(d))
    <3> HIDE DEF First
    <3> QED BY <1>2, <2>1, FS_Subset
  <2>3. Rank(c, list) = Cardinality(First(c)) + 1 /\ Rank(d, list) = Cardinality(First(d)) + 1
    BY DEF Rank
  <2> HIDE DEF First
  <2> QED BY <1>2, <1>4, <2>2, <2>3
<1> QED BY <1>5, <1>6

\* Sorting puts a coin of the list at each place, so it loses none of them.
LEMMA SortedKeepsCoins ==
  ASSUME NEW list \in CoinLists
  PROVE  /\ DOMAIN Sorted(list) = 1..Len(list)
         /\ Sorted(list) \in Seq(Coins) /\ Len(Sorted(list)) = Len(list)
         /\ Listed(Sorted(list)) = Listed(list)
<1> DEFINE rank == [c \in Listed(list) |-> Rank(c, list)]
<1>1. /\ Listed(list) \subseteq Coins /\ DOMAIN list = 1..Len(list) /\ Len(list) \in Nat
      /\ IsFiniteSet(Listed(list)) /\ Cardinality(Listed(list)) = Len(list)
  BY ListedCounts
<1>2. \A c, d \in Listed(list) : c # d => Rank(c, list) # Rank(d, list)
  <2> TAKE c, d \in Listed(list)
  <2> HAVE c # d
  <2>1. Rank(c, list) \in Int /\ Rank(d, list) \in Int
    BY RankIsPlace, <1>1
  <2>2. CASE Before(c, d)
    BY <2>1, <2>2, RankIsPlace
  <2>3. CASE Before(d, c)
    BY <2>1, <2>3, RankIsPlace
  <2> QED BY <1>1, <2>2, <2>3, BeforeIsOrder
<1>3. rank \in Injection(Listed(list), 1..Len(list))
  <2>1. rank \in [Listed(list) -> 1..Len(list)]
    BY RankIsPlace
  <2> QED BY <1>2, <2>1 DEF Injection, IsInjective
<1>4. IsFiniteSet(1..Len(list)) /\ Cardinality(1..Len(list)) = Len(list)
  BY <1>1, PlacesCount
<1>5. rank \in Surjection(Listed(list), 1..Len(list))
  <2> HIDE DEF rank
  <2> QED BY <1>1, <1>3, <1>4, FS_Injection
<1>6. \A i \in 1..Len(list) : \E c \in Listed(list) : Rank(c, list) = i
  BY <1>5 DEF Surjection
<1>7. \A i \in 1..Len(list) : Sorted(list)[i] \in Listed(list) /\ Rank(Sorted(list)[i], list) = i
  BY <1>1, <1>6 DEF Sorted
<1>8. DOMAIN Sorted(list) = 1..Len(list)
  BY <1>1 DEF Sorted
<1>9. Sorted(list) \in Seq(Coins) /\ Len(Sorted(list)) = Len(list)
  <2>1. Sorted(list) \in [1..Len(list) -> Coins]
    BY <1>1, <1>7, <1>8 DEF Sorted
  <2> QED BY <1>1, <2>1
<1>10. Listed(Sorted(list)) \subseteq Listed(list)
  BY <1>7, <1>8 DEF Listed
<1>11. ASSUME NEW c \in Listed(list)
       PROVE  c \in Listed(Sorted(list))
  <2>1. Rank(c, list) \in 1..Len(list)
    BY RankIsPlace
  <2>2. Sorted(list)[Rank(c, list)] = c
    BY <1>2, <1>7, <2>1
  <2> QED BY <1>8, <2>1, <2>2 DEF Listed
<1> QED BY <1>8, <1>9, <1>10, <1>11

-----------------------------------------------------------------------------
\* The index: a number per symbol.
IndexOK == index \in [Coins -> Nat] /\ coins \in Seq(Coins)

\* A new list keeps the index a table, and no symbol loses its entry.
LEMMA ListKeepsEntries ==
  ASSUME IndexOK, NEW listed \in CoinLists, CoinListUpdated(listed)
  PROVE  IndexOK' /\ \A c : HasCoin(c) => HasCoin(c)'
<1> DEFINE list == Sorted(listed)
<1>1. DOMAIN list \subseteq Nat \ {0} /\ list \in Seq(Coins)
  BY SortedKeepsCoins, ListedCounts
<1>2. \A c \in Listed(list) : Slot(c, list) \in Nat \ {0}
  <2> HIDE DEF list
  <2> QED BY <1>1 DEF Slot, Listed
<1>3. index' = [c \in Coins |-> IF c \in Listed(list) THEN Slot(c, list) ELSE index[c]] /\ coins' = list
  BY DEF CoinListUpdated, Reindexed
<1> HIDE DEF list
<1> QED BY <1>1, <1>2, <1>3 DEF IndexOK, HasCoin

\* After a new list the index finds each of its coins.
LEMMA ListIsFound ==
  ASSUME IndexOK, NEW listed \in CoinLists, CoinListUpdated(listed)
  PROVE  \A c \in Listed(coins)' : HasCoin(c)' /\ Found(c)' = c
<1> DEFINE list == Sorted(listed)
<1>1. DOMAIN list = 1..Len(list) /\ list \in Seq(Coins) /\ Listed(list) \subseteq Coins
  BY SortedKeepsCoins, ListedCounts
<1>2. /\ index' = [c \in Coins |-> IF c \in Listed(list) THEN Slot(c, list) ELSE index[c]] /\ coins' = list
      /\ \A c \in Listed(list) : c \notin freed'
  BY DEF CoinListUpdated, Reindexed
<1>3. \A c \in Listed(list) : Slot(c, list) \in DOMAIN list /\ list[Slot(c, list)] = c
  <2> HIDE DEF list
  <2> QED BY DEF Slot, Listed
<1> HIDE DEF list
<1>4. ASSUME NEW c \in Listed(list)
      PROVE  HasCoin(c)' /\ Found(c)' = c
  <2>1. index'[c] = Slot(c, list) /\ c \notin freed' /\ c \in Coins
    BY <1>1, <1>2
  <2>2. Slot(c, list) \in 1..Len(list) /\ Len(list) \in Nat
    BY <1>1, <1>3
  <2> QED BY <1>2, <1>3, <2>1, <2>2 DEF HasCoin, Found
<1>5. Listed(coins)' = Listed(list)
  BY <1>2 DEF Listed
<1> QED BY <1>4, <1>5

-----------------------------------------------------------------------------
\* A list is stored within the capacity, and so is what the index points to.
LEMMA ListKeepsTypes ==
  ASSUME AppTypeOK, NEW listed \in CoinLists, CoinListUpdated(listed)
  PROVE  AppTypeOK'
<1> DEFINE list == Sorted(listed)
<1>1. /\ DOMAIN list = 1..Len(list) /\ list \in Seq(Coins) /\ Listed(list) \subseteq Coins
      /\ Len(list) \in Nat
  BY SortedKeepsCoins, ListedCounts
<1>2. \A c \in Listed(list) : Slot(c, list) \in 1..Len(list)
  <2> HIDE DEF list
  <2> QED BY <1>1 DEF Slot, Listed
<1>3. list \in {Sorted(l) : l \in CoinLists}
  OBVIOUS
<1>4. /\ coins' = list
      /\ capacity' = IF Len(list) > capacity THEN Len(list) ELSE capacity
      /\ freed' = (IF Len(list) > capacity THEN freed \cup {c \in Coins : index[c] # 0} ELSE freed) \ Listed(list)
      /\ index' = [c \in Coins |-> IF c \in Listed(list) THEN Slot(c, list) ELSE index[c]]
      /\ UNCHANGED <<address, balances, initData>>
  BY DEF CoinListUpdated, Reindexed
<1> HIDE DEF list
<1>5. capacity' \in Nat /\ capacity' >= capacity /\ Len(coins') <= capacity'
  BY <1>1, <1>4 DEF AppTypeOK
<1>6. \A c \in Coins : index'[c] \in 0..capacity'
  BY <1>1, <1>2, <1>4, <1>5 DEF AppTypeOK
<1>7. freed' \subseteq {c \in Coins : index'[c] # 0}
  BY <1>4 DEF AppTypeOK
<1> QED BY <1>3, <1>4, <1>5, <1>6, <1>7 DEF AppTypeOK

LEMMA AnswersKeepTypes ==
  ASSUME AppTypeOK,
         \/ \E a \in Addresses : AddressResolved(a) \/ InitDataUpdated(a)
         \/ \E a \in Addresses, items \in Balances : BalanceUpdated(a, items)
         \/ \E list \in CoinLists : CoinListUpdated(list)
         \/ UNCHANGED appVars
  PROVE  AppTypeOK'
<1>1. ASSUME NEW list \in CoinLists, CoinListUpdated(list)
      PROVE  AppTypeOK'
  BY <1>1, ListKeepsTypes
<1>2. ASSUME NEW a \in Addresses, AddressResolved(a) \/ InitDataUpdated(a)
      PROVE  AppTypeOK'
  BY <1>2 DEF AppTypeOK, AddressResolved, InitDataUpdated, listVars
<1>3. ASSUME NEW a \in Addresses, NEW items \in Balances, BalanceUpdated(a, items)
      PROVE  AppTypeOK'
  BY <1>3 DEF AppTypeOK, BalanceUpdated, listVars
<1>4. ASSUME UNCHANGED appVars
      PROVE  AppTypeOK'
  BY <1>4 DEF AppTypeOK, appVars, listVars
<1> QED BY <1>1, <1>2, <1>3, <1>4
==============================================================================
