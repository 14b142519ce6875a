SPECIFICATION Spec
CONSTANTS
  Addresses = {"a1", "a2"}
  Coins <- const_Coins
  CoinLists <- const_CoinLists
  Top <- const_Top
  Reserve <- const_Reserve
  Balances <- const_Balances
  MaxCalls = 2
  Names = {"Content-Length", "content-length", "content-type"}
  Keys = {"page", "Page"}
  Values = {"v", "w"}
  Lower <- const_Lower
  Paths = {"", "/", "x", "coins", "/coins", "a/"}
  MaxSteps = 3
  Questions <- const_Questions
INVARIANTS TypeOK FoundIfListed  
CHECK_DEADLOCK FALSE
