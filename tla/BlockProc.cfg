SPECIFICATION MCSpec
CONSTANTS
    v1 = v1  v2 = v2  v3 = v3
    none = none  genesis = genesis
    t1 = t1  t2 = t2  t3 = t3
    Validator <- MCValidator
    Event <- MCEvent
    Tx <- MCTx
    NoEvent = none
    GenesisAtropos = genesis
    Creator <- MCCreator
    Seq <- MCSeq
    EpochOf <- MCEpochOf
    MedianTime <- MCMedianTime
    GasPowerUsed <- MCGasPowerUsed
    Lamport <- MCLamport
    Txs <- MCTxs
    Fee <- MCFee
    NotUsedGas <- MCNotUsedGas
    LogOf <- MCLogOf
    Rules <- MCRules
    Forker <- MCForker
    GenesisValidators <- MCGenesisValidators
    GenesisRules <- RulesA
    GenesisTime = 1
    MaxAdvanceEpochs = 1
INVARIANTS
    StateIsSound
    CheatersAreDealtWith
    EventsAreAccounted
PROPERTIES
    MCBlocksComplete
    ImplementsChain
CHECK_DEADLOCK FALSE
