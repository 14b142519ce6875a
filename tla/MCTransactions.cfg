SPECIFICATION Spec
CONSTANTS
  Addresses = {"a1"}
  Coins <- const_Coins
  CoinLists <- const_CoinLists
  Top <- const_Top
  Reserve <- const_Reserve
  Balances <- const_Balances
  Amounts = {"1"}
  Default = "BIP"
  Typed <- const_Typed
  Prefixes <- const_Prefixes
  MaxAsked <- const_MaxAsked
  GasForms = {"sell"}
INVARIANTS TypeOK    CrashExplained
PROPERTIES SendingEnds
CHECK_DEADLOCK FALSE
