SPECIFICATION FairSpec
CONSTANTS
  Addr = {"a"}
  Tx <- OneAccount
  Sender <- MCSender
  Nonce <- MCNonce
  Price <- MCPrice
  Cost <- MCCost
  Slots <- MCSlots
  PriceBump = 10
  AccountSlots = 1
  GlobalSlots = 1
  AccountQueue = 1
  GlobalQueue = 1
  PriceLimit = 9
  Journaling = FALSE
  StateErrors = FALSE
  Genesis <- MCGenesis
  NextBlocks <- FewBlocks
  GasPrices = {10}
  MaxBlocks = 2
  Restarts = TRUE
  Shutdowns = TRUE
INVARIANT NothingIsLost
PROPERTY AddLocalReturns
CHECK_DEADLOCK FALSE
