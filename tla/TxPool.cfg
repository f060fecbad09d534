SPECIFICATION SerialSpec
CONSTANTS
  Addr = {"a", "b"}
  Tx <- TwoAccounts
  Sender <- MCSender
  Nonce <- MCNonce
  Price <- MCPrice
  Cost <- MCCost
  Slots <- MCSlots
  PriceBump = 10
  AccountSlots = 1
  GlobalSlots = 2
  AccountQueue = 1
  GlobalQueue = 2
  PriceLimit = 9
  Journaling = TRUE
  StateErrors = TRUE
  Genesis <- MCGenesis
  NextBlocks <- SomeBlocks
  GasPrices = {9, 10}
  MaxBlocks = 2
  Restarts = TRUE
  Shutdowns = FALSE
INVARIANT ListsAreSound
PROPERTY LocalsAreSafe
