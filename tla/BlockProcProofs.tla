-------------------------- MODULE BlockProcProofs --------------------------
(* Of BlockProc, for any validators, events, rules and logs: type            *)
(* correctness, the chain of blocks, that it implements Chain, and that      *)
(* cheaters are punished and expelled (CheaterInv and ExpelInv).             *)
EXTENDS BlockProc, TLAPS

(* The event processor turns a validator's state into a validator's state.   *)
LEMMA OnlineType ==
    ASSUME NEW info \in ValidatorBlockState, NEW e \in Event, NEW es, IsEpochState(es),
           NEW block, block.Idx \in Nat
    PROVE  Online(info, e, es, block) \in ValidatorBlockState
<1>1. /\ MedianTime[e] \in Nat /\ es.EpochStart \in Nat
      /\ info.Uptime \in Nat /\ info.LastOnlineTime \in Nat /\ info.LastBlock \in Nat
  BY Zenon, ConstantsAssumption DEF IsEpochState, ValidatorBlockState
<1> QED
  BY <1>1 DEF Online, ValidatorBlockState, MaxOf

(* FinalizeEvents keeps the block state's type.                              *)
LEMMA FinalizeEventsType ==
    ASSUME NEW es, IsEpochState(es), NEW bs, IsBlockState(bs, es.Validators),
           NEW highest \in [es.Validators -> Event \cup {NoEvent}],
           NEW block, block.Idx \in Nat
    PROVE  IsBlockState(FinalizeEvents(bs, es, highest, block), es.Validators)
<1> DEFINE states == [v \in es.Validators |->
            IF v \in bs.EpochCheaters \/ highest[v] = NoEvent THEN bs.ValidatorStates[v]
            ELSE Online(bs.ValidatorStates[v], highest[v], es, block)]
<1>1. \A v \in es.Validators : bs.ValidatorStates[v] \in ValidatorBlockState
  BY Zenon DEF IsBlockState
<1>2. states \in [es.Validators -> ValidatorBlockState]
  BY Zenon, <1>1, OnlineType
<1> QED
  BY Zenon, <1>2 DEF FinalizeEvents, IsBlockState

(* Executing the pre-internal transactions keeps the block state's type.     *)
LEMMA ExecutePreInternalTxsType ==
    ASSUME NEW validators, NEW bs, IsBlockState(bs, validators)
    PROVE  /\ IsBlockState(ExecutePreInternalTxs(bs), validators)
           /\ ToDeactivate(bs) \subseteq validators
<1> DEFINE states == [v \in DOMAIN bs.ValidatorStates |->
                [bs.ValidatorStates[v] EXCEPT !.Cheater = @ \/ v \in bs.EpochCheaters]]
<1>1. /\ DOMAIN bs.ValidatorStates = validators
      /\ \A v \in validators : bs.ValidatorStates[v] \in ValidatorBlockState
  BY Zenon DEF IsBlockState
<1>2. ASSUME NEW v \in validators
      PROVE  [bs.ValidatorStates[v] EXCEPT !.Cheater = @ \/ v \in bs.EpochCheaters]
                \in ValidatorBlockState
  BY <1>1, Zenon DEF ValidatorBlockState
<1>3. states \in [validators -> ValidatorBlockState]
  BY Zenon, <1>1, <1>2
<1>4. ToDeactivate(bs) \subseteq validators
  BY Zenon DEF ToDeactivate, IsBlockState
<1>5. ExecutePreInternalTxs(bs) =
        [bs EXCEPT !.ValidatorStates = states,
                   !.NextValidatorProfiles = bs.NextValidatorProfiles \ ToDeactivate(bs)]
  BY Zenon DEF ExecutePreInternalTxs
<1> QED
  BY <1>3, <1>4, <1>5, Zenon DEF IsBlockState

(* Sealing builds a block state for the new validators group ...             *)
LEMMA SealEpochBsType ==
    ASSUME NEW es, IsEpochState(es), NEW bs, IsBlockState(bs, es.Validators),
           NEW block \in BlockCtx
    PROVE  IsBlockState(SealEpochBs(block, bs, es), bs.NextValidatorProfiles)
<1> DEFINE states == [v \in bs.NextValidatorProfiles |-> SealedValidatorState(block, bs, es, v)]
<1>1. ASSUME NEW v \in bs.NextValidatorProfiles
      PROVE  SealedValidatorState(block, bs, es, v) \in ValidatorBlockState
  <2>1. CASE v \in es.Validators
    <3>1. bs.ValidatorStates[v] \in ValidatorBlockState
      BY Zenon, <2>1 DEF IsBlockState
    <3> QED
      BY <2>1, <3>1, Zenon DEF SealedValidatorState, ValidatorBlockState
  <2>2. CASE v \notin es.Validators
    BY Zenon, <2>2 DEF SealedValidatorState, NewValidatorBlockState, ValidatorBlockState, BlockCtx
  <2> QED
    BY Zenon, <2>1, <2>2
<1>2. states \in [bs.NextValidatorProfiles -> ValidatorBlockState]
  BY Zenon, <1>1
<1>3. (IF bs.AdvanceEpochs > 0 THEN bs.AdvanceEpochs - 1 ELSE bs.AdvanceEpochs)
        \in 0..MaxAdvanceEpochs
  BY ConstantsAssumption DEF IsBlockState
<1> QED
  BY <1>2, <1>3, Zenon DEF SealEpochBs, IsBlockState

(* ... and an epoch state of that group.                                     *)
LEMMA SealEpochEsType ==
    ASSUME NEW es, IsEpochState(es), NEW bs, IsBlockState(bs, es.Validators),
           NEW block \in BlockCtx
    PROVE  /\ IsEpochState(SealEpochEs(block, bs, es))
           /\ SealEpochEs(block, bs, es).Validators = bs.NextValidatorProfiles
<1>1. ASSUME NEW v \in bs.NextValidatorProfiles
      PROVE  SealedEpochState(bs, es, v) \in ValidatorEpochState
  <2>1. v \in es.Validators => bs.ValidatorStates[v] \in ValidatorBlockState
    BY Zenon DEF IsBlockState
  <2> QED
    BY Zenon, <2>1 DEF SealedEpochState, ValidatorEpochState, ValidatorBlockState
<1>2. [v \in bs.NextValidatorProfiles |-> SealedEpochState(bs, es, v)]
        \in [bs.NextValidatorProfiles -> ValidatorEpochState]
  BY Zenon, <1>1
<1>3. /\ bs.NextValidatorProfiles \subseteq Validator /\ bs.DirtyRules \in Rules
      /\ bs.FinalizedStateRoot \subseteq Tx
      /\ es.Epoch + 1 \in Nat /\ block.Time \in Nat /\ es.EpochStart \in Nat
  BY DEF IsBlockState, IsEpochState, BlockCtx
<1> QED
  BY Zenon, <1>2, <1>3 DEF SealEpochEs, IsEpochState

(* A log of the driver contract changes only the dirty part of the state.    *)
LEMMA OnNewLogType ==
    ASSUME NEW validators, NEW bs, IsBlockState(bs, validators), NEW l \in Log
    PROVE  IsBlockState(OnNewLog(bs, l), validators)
<1>1. CASE l = NoLog
  BY Zenon, <1>1 DEF OnNewLog, NoLog
<1>2. CASE l \in [type : {"UpdateValidatorWeight"}, validator : Validator, weight : Nat]
  BY Zenon, <1>2 DEF OnNewLog, IsBlockState
<1>3. CASE l \in [type : {"UpdateNetworkRules"}, rules : Rules]
  BY Zenon, <1>3 DEF OnNewLog, IsBlockState
<1>4. CASE l \in [type : {"AdvanceEpochs"}, epochs : Nat]
  <2>1. MinOf(bs.AdvanceEpochs + l.epochs, MaxAdvanceEpochs) \in 0..MaxAdvanceEpochs
    BY <1>4, ConstantsAssumption DEF IsBlockState, MinOf
  <2>2. OnNewLog(bs, l) = [bs EXCEPT !.AdvanceEpochs =
                              MinOf(bs.AdvanceEpochs + l.epochs, MaxAdvanceEpochs)]
    BY Zenon, <1>4 DEF OnNewLog
  <2> QED
    BY Zenon, <2>1, <2>2 DEF IsBlockState
<1> QED
  BY Zenon, <1>1, <1>2, <1>3, <1>4 DEF Log

-----------------------------------------------------------------------------
(* Facts about block numbers.                                                *)

(* The head of a store is a number.                                          *)
LEMMA HeadIsNat ==
    ASSUME NEW s, IsStore(s)
    PROVE  s.bs.LastBlock.Idx \in Nat
BY Zenon DEF IsStore, IsBlockState, BlockCtx

(* The numbers of the blocks of a chain, and of one with a block more.       *)
LEMMA LastNumber ==
    ASSUME NEW n \in Nat PROVE n \in 0..n /\ 0 \in 0..n
OBVIOUS

LEMMA NextNumber ==
    ASSUME NEW n \in Nat
    PROVE  /\ n + 1 \notin 1..n
           /\ 1..n \subseteq 1..(n + 1)
           /\ 0..n \subseteq 0..(n + 1)
OBVIOUS

LEMMA BlockNumber ==
    ASSUME NEW n \in Nat
    PROVE  /\ n >= 1 => n \in 1..n
           /\ \A i \in 0..n : i # 0 => i \in 1..n
           /\ \A i \in 1..n : i <= n
OBVIOUS

(* Nothing was reported, and nobody is a cheater, in the genesis state.      *)
LEMMA GenesisRecords ==
    /\ GenesisStore.reported = {}
    /\ GenesisStore.bs.EpochCheaters = {}
    /\ GenesisStore.bs.ValidatorStates =
          [v \in GenesisValidators |-> NewValidatorBlockState(GenesisCtx)]
BY DEF GenesisStore

-----------------------------------------------------------------------------
(* Type correctness: one lemma per group of actions.                         *)

(* The genesis state is well typed.                                          *)
LEMMA InitType == Init => TypeOK
<1> SUFFICES ASSUME Init PROVE TypeOK
  BY Zenon
<1>1. GenesisCtx \in BlockCtx
  BY Zenon, ConstantsAssumption DEF GenesisCtx, BlockCtx
<1>2. NewValidatorBlockState(GenesisCtx) \in ValidatorBlockState
  BY Zenon, <1>1 DEF NewValidatorBlockState, ValidatorBlockState, BlockCtx
<1>3. IsEpochState(GenesisStore.es)
  BY Zenon, ConstantsAssumption DEF GenesisStore, IsEpochState, ValidatorEpochState
<1>4. IsBlockState(GenesisStore.bs, GenesisStore.es.Validators)
  <2>1. 0 \in Nat /\ 0 \in 0..MaxAdvanceEpochs
    BY ConstantsAssumption
  <2>2. [v \in GenesisValidators |-> NewValidatorBlockState(GenesisCtx)]
            \in [GenesisValidators -> ValidatorBlockState]
    BY Zenon, <1>2
  <2>3. GenesisStore.es.Validators = GenesisValidators
    BY Zenon DEF GenesisStore
  <2>4. IsBlockState(GenesisStore.bs, GenesisValidators)
    BY Zenon, <1>1, <2>1, <2>2, ConstantsAssumption DEF GenesisStore, IsBlockState
  <2> QED
    BY Zenon, <2>3, <2>4
<1>5. IsStore(GenesisStore)
  <2>1. /\ DOMAIN GenesisStore.blocks = {1}
        /\ IsBlock(GenesisStore.blocks[1])
        /\ GenesisStore.blocks = [i \in DOMAIN GenesisStore.blocks |-> GenesisStore.blocks[i]]
    BY Zenon, ConstantsAssumption DEF GenesisStore, IsBlock
  <2>2. /\ DOMAIN GenesisStore.blockIndex = {GenesisAtropos}
        /\ GenesisStore.blockIndex[GenesisAtropos] = 1
        /\ GenesisStore.blockIndex =
              [a \in DOMAIN GenesisStore.blockIndex |-> GenesisStore.blockIndex[a]]
    BY Zenon DEF GenesisStore
  <2>3. /\ GenesisStore.evmRoot = {} /\ GenesisStore.confirmed = {}
        /\ GenesisStore.reported = {}
    BY Zenon DEF GenesisStore
  <2>4. GenesisStore =
          [bs |-> GenesisStore.bs, es |-> GenesisStore.es, blocks |-> GenesisStore.blocks,
           blockIndex |-> GenesisStore.blockIndex, evmRoot |-> GenesisStore.evmRoot,
           confirmed |-> GenesisStore.confirmed, reported |-> GenesisStore.reported]
    BY Zenon DEF GenesisStore
  <2> QED
    BY <1>3, <1>4, <2>1, <2>2, <2>3, <2>4 DEF IsStore
<1>6. ZeroOriginated \in [Validator -> Nat]
  BY Zenon DEF ZeroOriginated
<1> QED
  BY <1>5, <1>6, Zenon DEF Init, TypeOK

(* BeginBlock's closure is well typed.                                       *)
LEMMA BeginBlockType ==
    ASSUME TypeOK, NEW atropos \in Event, NEW cheaters \in SUBSET Forker,
           NEW cone \in SUBSET Event, BeginBlock(atropos, cheaters, cone)
    PROVE  TypeOK'
<1>1. /\ IsStore(store) /\ IsEpochState(store.es) /\ IsBlockState(store.bs, store.es.Validators)
  BY Zenon DEF TypeOK, IsStore
<1>2. cheaters \subseteq store.es.Validators
  BY Zenon DEF BeginBlock
<1>3. IsBlockState([store.bs EXCEPT !.EpochCheaters = MergeCheaters(@, cheaters)],
                   store.es.Validators)
  BY Zenon, <1>1, <1>2 DEF IsBlockState, MergeCheaters
<1>4. store.bs.LastBlock.Time + 1 \in Nat
  BY <1>1 DEF IsBlockState, BlockCtx
<1>5. \A e \in cone : Creator[e] \in store.es.Validators
  BY Zenon DEF BeginBlock, IsCone
<1>6. IsCallback(cb')
  BY Zenon, <1>1, <1>2, <1>3, <1>4, <1>5 DEF BeginBlock, IsCallback
<1>7. IsStore(store')
  <2>1. store.reported \cup {<<store.es.Epoch, v>> : v \in cheaters} \subseteq Nat \X Validator
    BY <1>1, <1>2 DEF IsStore, IsEpochState
  <2> QED
    BY <1>1, <2>1, Zenon DEF BeginBlock, IsStore
<1> QED
  BY Zenon, <1>6, <1>7 DEF BeginBlock, TypeOK

(* ApplyEvent keeps it well typed.                                           *)
LEMMA ApplyEventType ==
    ASSUME TypeOK, NEW e \in Event, ApplyEvent(e)
    PROVE  TypeOK'
<1>1. IsCallback(cb) /\ IsStore(store)
  BY DEF ApplyEvent, TypeOK, IdleCb
<1>2. Creator[e] \in cb.es.Validators
  BY Zenon, <1>1 DEF ApplyEvent, IsCallback
<1>3. [cb.highest EXCEPT ![Creator[e]] = HigherEvent(@, e)]
        \in [cb.es.Validators -> Event \cup {NoEvent}]
  BY Zenon, <1>1, <1>2 DEF IsCallback, HigherEvent
<1>4. IsBlockState([cb.bs EXCEPT !.EpochGas = @ + GasPowerUsed[e]], cb.es.Validators)
  <2>1. IsBlockState(cb.bs, cb.es.Validators) /\ GasPowerUsed[e] \in Nat
    BY Zenon, <1>1, ConstantsAssumption DEF IsCallback
  <2> QED
    BY <2>1 DEF IsBlockState
<1>5. (IF e = cb.atropos THEN MedianTime[e] ELSE cb.atroposTime) \in Nat
  BY Zenon, <1>1, ConstantsAssumption DEF IsCallback
<1>6. (cb.degenerate /\ e # cb.atropos) \in BOOLEAN
  BY Zenon
<1>7. IsCallback(cb')
  BY <1>1, <1>3, <1>4, <1>5, <1>6, Zenon DEF ApplyEvent, IsCallback
<1>8. IsStore(store')
  BY <1>1, Zenon DEF ApplyEvent, IsStore
<1> QED
  BY Zenon, <1>7, <1>8 DEF ApplyEvent, TypeOK

(* What EndBlock works on is well typed.                                     *)
LEMMA NextBlockType ==
    ASSUME IsCallback(cb)
    PROVE  /\ NextBlockCtx \in BlockCtx
           /\ NextBlockCtx \in [Idx : Nat, Time : Nat, Atropos : Event]
           /\ IsBlockState(FinalizedBs, cb.es.Validators)
<1>1. IsEpochState(cb.es) /\ IsBlockState(cb.bs, cb.es.Validators)
  BY Zenon DEF IsCallback
<1>2. cb.bs.LastBlock.Idx + 1 \in Nat /\ BlockTime \in Nat /\ cb.atropos \in Event
  BY <1>1 DEF IsCallback, IsBlockState, BlockCtx, BlockTime
<1>3. NextBlockCtx \in BlockCtx /\ NextBlockCtx \in [Idx : Nat, Time : Nat, Atropos : Event]
  BY Zenon, <1>2 DEF NextBlockCtx, BlockCtx
<1>4. NextBlockCtx.Idx \in Nat /\ cb.highest \in [cb.es.Validators -> Event \cup {NoEvent}]
  BY Zenon, <1>3 DEF BlockCtx, IsCallback
<1> QED
  BY Zenon, <1>1, <1>3, <1>4, FinalizeEventsType DEF FinalizedBs

(* Skipping a frame publishes a well typed block state.                      *)
LEMMA EndSkippedBlockType ==
    ASSUME TypeOK, EndSkippedBlock
    PROVE  TypeOK'
<1>1. IsCallback(cb) /\ IsStore(store)
  BY DEF EndSkippedBlock, TypeOK, IdleCb
<1>2. IsBlockState(FinalizedBs, cb.es.Validators) /\ IsEpochState(cb.es)
  BY Zenon, <1>1, NextBlockType DEF IsCallback
<1>3. IsStore(store')
  BY <1>1, <1>2, Zenon DEF EndSkippedBlock, IsStore
<1> QED
  BY Zenon, <1>3 DEF EndSkippedBlock, TypeOK

(* EndBlock publishes and hands over well typed states, sealing or not.      *)
LEMMA EndBlockType ==
    ASSUME TypeOK, EndBlock
    PROVE  TypeOK'
<1> DEFINE block == NextBlockCtx
           sealing == EpochSealing(block, FinalizedBs, cb.es)
           bs == ExecutePreInternalTxs(FinalizedBs)
           newBs == IF sealing THEN SealEpochBs(block, bs, cb.es) ELSE bs
           newEs == IF sealing THEN SealEpochEs(block, bs, cb.es) ELSE cb.es
<1>1. IsCallback(cb) /\ IsStore(store)
  BY DEF EndBlock, TypeOK, IdleCb
<1>2. /\ IsEpochState(cb.es)
      /\ cb.es.Validators \subseteq Validator
      /\ block \in BlockCtx
      /\ block \in [Idx : Nat, Time : Nat, Atropos : Event]
      /\ IsBlockState(FinalizedBs, cb.es.Validators)
  BY Zenon, <1>1, NextBlockType DEF IsCallback, IsEpochState
<1>3. /\ IsBlockState(bs, cb.es.Validators)
      /\ ToDeactivate(FinalizedBs) \subseteq Validator
  BY <1>2, ExecutePreInternalTxsType, Zenon
<1>4. IsEpochState(newEs) /\ IsBlockState(newBs, newEs.Validators)
  <2> HIDE DEF block, bs
  <2>1. CASE sealing
    BY <1>2, <1>3, <2>1, SealEpochBsType, SealEpochEsType
  <2>2. CASE ~sealing
    BY Zenon, <1>2, <1>3, <2>2
  <2> QED
    BY Zenon, <2>1, <2>2
<1>5. IsStore(store')
  <2>1. store' = IF sealing THEN [store EXCEPT !.bs = newBs, !.es = newEs] ELSE store
    BY Zenon DEF EndBlock
  <2> HIDE DEF sealing, newBs, newEs
  <2> QED
    BY <1>1, <1>4, <2>1, Zenon DEF IsStore
<1>6. originated' \in [Validator -> Nat]
  BY Zenon DEF EndBlock, TypeOK
<1>7. IsTask(task')
  <2>1. /\ task'.stage = "internal" /\ task'.async \in BOOLEAN /\ task'.block = block
        /\ task'.bs = newBs /\ task'.es = newEs
        /\ task'.deactivated = ToDeactivate(FinalizedBs)
        /\ task'.confirmedEvents = cb.confirmedEvents /\ task'.events = {}
        /\ task'.txs = {} /\ task'.receipts = {} /\ task'.root = bs.FinalizedStateRoot
        /\ task' = [stage |-> task'.stage, async |-> task'.async, block |-> task'.block,
                    bs |-> task'.bs, es |-> task'.es, deactivated |-> task'.deactivated,
                    metrics |-> task'.metrics, confirmedEvents |-> task'.confirmedEvents,
                    events |-> task'.events, txs |-> task'.txs,
                    receipts |-> task'.receipts, root |-> task'.root]
    BY Zenon DEF EndBlock
  <2>2. cb.confirmedEvents \subseteq Event /\ bs.FinalizedStateRoot \subseteq Tx
    BY Zenon, <1>1, <1>3 DEF IsCallback, IsBlockState
  <2> HIDE DEF newBs, newEs, bs, block
  <2> QED
    BY Zenon, <1>2, <1>3, <1>4, <2>1, <2>2 DEF IsTask, Stage
<1>8. /\ cb' = IdleCb /\ busy' \in BOOLEAN
      /\ UNCHANGED <<unflag, notified, disk>>
  BY Zenon DEF EndBlock, TypeOK
<1> QED
  BY Zenon, <1>5, <1>6, <1>7, <1>8 DEF TypeOK

(* The steps of blockFn keep its task, the store and the counters typed.     *)
LEMMA BlockFnType ==
    ASSUME TypeOK, BlockFn
    PROVE  TypeOK'
<1>0. task.stage \in Stage
  <2>1. ASSUME NEW tx \in Tx, ExecuteTx(tx) \/ OnNewReceipt(tx) PROVE task.stage \in Stage
    BY Zenon, <2>1 DEF ExecuteTx, OnNewReceipt, Stage
  <2>2. ASSUME StartTask \/ SetBlock PROVE task.stage \in Stage
    BY Zenon, <2>2 DEF StartTask, SetBlock, Stage
  <2>3. ASSUME SetBlockEpochState \/ NotifyNewBlock \/ CommitEVM PROVE task.stage \in Stage
    BY Zenon, <2>3 DEF SetBlockEpochState, NotifyNewBlock, CommitEVM, Stage
  <2> QED
    BY Zenon, <2>1, <2>2, <2>3 DEF BlockFn
<1>1. IsTask(task) /\ IsStore(store)
  BY <1>0 DEF TypeOK, NoTask, Stage
<1>2. CASE StartTask
  <2> DEFINE events == SpillBlockEvents(task.confirmedEvents, task.es.Rules)
             txs == UNION {Txs[e] : e \in events}
  <2>1. events \subseteq task.confirmedEvents
    BY Zenon DEF SpillBlockEvents
  <2>2. txs \subseteq Tx
    BY <1>1, <2>1, ConstantsAssumption DEF IsTask
  <2>3. task' = [task EXCEPT !.stage = "execute", !.events = events, !.txs = txs]
    BY Zenon, <1>2 DEF StartTask
  <2> HIDE DEF events, txs
  <2>4. IsTask(task')
    BY <1>1, <2>1, <2>2, <2>3, Zenon DEF IsTask, Stage
  <2> QED
    BY Zenon, <1>2, <2>4 DEF StartTask, TypeOK
<1>3. ASSUME NEW tx \in Tx, ExecuteTx(tx) PROVE TypeOK'
  <2>1. CASE task' = [task EXCEPT !.txs = @ \ {tx}]
    BY <1>1, <1>3, <2>1, Zenon DEF ExecuteTx, TypeOK, IsTask
  <2>2. CASE task' = [task EXCEPT !.txs = @ \ {tx}, !.root = @ \cup {tx},
                                  !.receipts = @ \cup {tx}, !.bs = OnNewLog(@, LogOf[tx])]
    <3>1. LogOf[tx] \in Log
      BY Zenon, ConstantsAssumption
    <3>2. IsBlockState(OnNewLog(task.bs, LogOf[tx]), task.es.Validators)
      BY Zenon, <1>1, <3>1, OnNewLogType DEF IsTask
    <3> QED
      BY <1>1, <1>3, <2>2, <3>2, Zenon DEF ExecuteTx, TypeOK, IsTask
  <2> QED
    BY Zenon, <1>3, <2>1, <2>2 DEF ExecuteTx
<1>4. ASSUME NEW tx \in Tx, OnNewReceipt(tx) PROVE TypeOK'
  <2> DEFINE originator == Creator[FirstEvent(tx, task.events)]
             states == task.bs.ValidatorStates
             refunded == [states[originator] EXCEPT !.DirtyGasRefund = @ + NotUsedGas[tx]]
  <2>0. IsEpochState(task.es) /\ IsBlockState(task.bs, task.es.Validators)
    BY Zenon, <1>1 DEF IsTask
  <2>1. CASE originator \in task.es.Validators
    <3>1. /\ originated' = [originated EXCEPT ![originator] = @ + Fee[tx]]
          /\ task' = [task EXCEPT !.receipts = @ \ {tx},
                        !.bs = [task.bs EXCEPT !.ValidatorStates =
                                   [states EXCEPT ![originator] = refunded]]]
      BY Zenon, <1>4, <2>1 DEF OnNewReceipt
    <3>2. originator \in Validator /\ Fee[tx] \in Nat /\ NotUsedGas[tx] \in Nat
      BY Zenon, <2>0, <2>1, ConstantsAssumption DEF IsEpochState
    <3>3. states[originator] \in ValidatorBlockState
      BY Zenon, <2>0, <2>1 DEF IsBlockState
    <3> HIDE DEF originator
    <3>4. refunded \in ValidatorBlockState
      BY <3>2, <3>3 DEF ValidatorBlockState
    <3>5. IsBlockState([task.bs EXCEPT !.ValidatorStates =
                          [states EXCEPT ![originator] = refunded]], task.es.Validators)
      BY Zenon, <2>0, <2>1, <3>4 DEF IsBlockState
    <3>6. originated' \in [Validator -> Nat]
      BY <3>1, <3>2 DEF TypeOK
    <3>7. IsTask(task')
      BY <1>1, <3>1, <3>5, Zenon DEF IsTask
    <3> QED
      BY <1>4, <3>6, <3>7, Zenon DEF OnNewReceipt, TypeOK
  <2>2. CASE originator \notin task.es.Validators
    <3>1. /\ originated' = originated
          /\ task' = [task EXCEPT !.receipts = @ \ {tx}, !.bs = task.bs]
      BY Zenon, <1>4, <2>2 DEF OnNewReceipt
    <3>2. IsTask(task')
      BY <1>1, <3>1, Zenon DEF IsTask
    <3> QED
      BY <1>4, <3>1, <3>2, Zenon DEF OnNewReceipt, TypeOK
  <2> QED
    BY Zenon, <2>1, <2>2
<1>5. CASE SetBlock
  <2> DEFINE idx == task.block.Idx
             block == [Time |-> task.block.Time, Atropos |-> task.block.Atropos,
                       Events |-> task.events, Spilled |-> task.confirmedEvents \ task.events,
                       Root |-> task.root, Deactivated |-> task.deactivated]
  <2>1. IsBlock(block) /\ idx \in Nat /\ block.Atropos \in Event
    BY Zenon, <1>1 DEF IsTask, IsBlock
  <2>2. store' = [store EXCEPT
                !.blocks = [i \in DOMAIN store.blocks \cup {idx} |->
                              IF i = idx THEN block ELSE store.blocks[i]],
                !.blockIndex = [a \in DOMAIN store.blockIndex \cup {block.Atropos} |->
                                  IF a = block.Atropos THEN idx ELSE store.blockIndex[a]]]
    BY Zenon, <1>5 DEF SetBlock
  <2> HIDE DEF idx, block
  <2>3. IsStore(store')
    BY <1>1, <2>1, <2>2, Zenon DEF IsStore
  <2>4. IsTask(task')
    BY Zenon, <1>1, <1>5 DEF SetBlock, IsTask, Stage
  <2> QED
    BY Zenon, <1>5, <2>3, <2>4 DEF SetBlock, TypeOK
<1>6. CASE SetBlockEpochState
  <2> DEFINE newBs == [task.bs EXCEPT !.LastBlock = task.block, !.FinalizedStateRoot = task.root]
  <2>1. IsBlockState(newBs, task.es.Validators) /\ IsEpochState(task.es)
    BY <1>1, Zenon DEF IsTask, IsBlockState, BlockCtx
  <2>2. store' = [store EXCEPT !.bs = newBs, !.es = task.es]
    BY Zenon, <1>6 DEF SetBlockEpochState
  <2> HIDE DEF newBs
  <2>3. IsStore(store')
    BY <1>1, <2>1, <2>2, Zenon DEF IsStore
  <2>4. IsTask(task')
    BY Zenon, <1>1, <1>6 DEF SetBlockEpochState, IsTask, Stage
  <2> QED
    BY Zenon, <1>6, <2>3, <2>4 DEF SetBlockEpochState, TypeOK
<1>7. CASE NotifyNewBlock
  <2>1. IsTask(task') /\ notified' \in Nat
    BY Zenon, <1>1, <1>7 DEF NotifyNewBlock, IsTask, Stage
  <2> QED
    BY Zenon, <1>7, <2>1 DEF NotifyNewBlock, TypeOK
<1>8. CASE CommitEVM
  <2>1. store.bs.FinalizedStateRoot \subseteq Tx
    BY Zenon, <1>1 DEF IsStore, IsBlockState
  <2>2. IsStore(store')
    BY Zenon, <1>1, <1>8, <2>1 DEF CommitEVM, IsStore
  <2>3. unflag' \in BOOLEAN
    BY Zenon, <1>1, <1>8 DEF CommitEVM, IsTask, TypeOK
  <2> QED
    BY Zenon, <1>8, <2>2, <2>3 DEF CommitEVM, TypeOK
<1> QED
  BY Zenon, <1>2, <1>3, <1>4, <1>5, <1>6, <1>7, <1>8 DEF BlockFn

(* Every reachable state is well typed: in particular the tables of a block  *)
(* state always match the validators group they are indexed by.              *)
THEOREM TypeCorrect == Spec => []TypeOK
<1>1. TypeOK /\ [Next]_vars => TypeOK'
  <2> SUFFICES ASSUME TypeOK, [Next]_vars PROVE TypeOK'
    BY Zenon
  <2>1. CASE Engine
    BY Zenon, <2>1, BeginBlockType, ApplyEventType, EndSkippedBlockType, EndBlockType DEF Engine
  <2>2. CASE BlockFn
    BY Zenon, <2>2, BlockFnType
  <2>3. CASE ClearBusyFlag
    BY <2>3, Zenon DEF ClearBusyFlag, TypeOK
  <2>4. CASE Commit
    BY Zenon, <2>4 DEF Commit, TypeOK
  <2>5. CASE Crash
    BY <2>5, Zenon DEF Crash, TypeOK
  <2>6. CASE UNCHANGED vars
    BY Zenon, <2>6 DEF vars, TypeOK
  <2> QED
    BY Zenon, <2>1, <2>2, <2>3, <2>4, <2>5, <2>6 DEF Next, Step
<1> QED
  BY <1>1, InitType, PTL DEF Spec

-----------------------------------------------------------------------------
(* The chain of blocks: ChainInv is inductive.                               *)

(* The predicates on a store's chain depend only on these of its fields.     *)
LEMMA SameChain ==
    ASSUME NEW s, NEW t, t.blocks = s.blocks, t.blockIndex = s.blockIndex,
           s.confirmed \subseteq t.confirmed, t.evmRoot = s.evmRoot,
           t.bs.LastBlock = s.bs.LastBlock,
           t.bs.FinalizedStateRoot = s.bs.FinalizedStateRoot
    PROVE  /\ Ordered(s) => Ordered(t)
           /\ Indexed(s) => Indexed(t)
           /\ HeadIsLastBlock(s) => HeadIsLastBlock(t)
           /\ RootIsCommitted(s) => RootIsCommitted(t)
<1>1. Ordered(s) => Ordered(t)
  BY Zenon DEF Ordered
<1>2. Indexed(s) => Indexed(t)
  BY Zenon DEF Indexed
<1>3. HeadIsLastBlock(s) => HeadIsLastBlock(t)
  BY Zenon DEF HeadIsLastBlock
<1>4. RootIsCommitted(s) => RootIsCommitted(t)
  BY Zenon DEF RootIsCommitted
<1> QED
  BY Zenon, <1>1, <1>2, <1>3, <1>4

(* The genesis chain satisfies the invariant.                                *)
LEMMA ChainInit == Init => ChainInv
<1> SUFFICES ASSUME Init PROVE ChainInv
  BY Zenon
<1>1. /\ GenesisStore.bs.LastBlock.Idx = 1 /\ GenesisStore.bs.LastBlock.Time = GenesisTime
      /\ DOMAIN GenesisStore.blocks = {1}
      /\ GenesisStore.blocks[1].Time = GenesisTime /\ GenesisStore.blocks[1].Root = {}
      /\ GenesisStore.blocks[1].Atropos = GenesisAtropos
      /\ GenesisStore.bs.FinalizedStateRoot = {} /\ GenesisStore.evmRoot = {}
      /\ DOMAIN GenesisStore.blockIndex = {GenesisAtropos}
      /\ GenesisStore.blockIndex[GenesisAtropos] = 1
  BY Zenon DEF GenesisStore, GenesisCtx
<1>2. /\ Ordered(GenesisStore) /\ Indexed(GenesisStore)
      /\ HeadIsLastBlock(GenesisStore) /\ RootIsCommitted(GenesisStore)
  BY <1>1 DEF Ordered, Indexed, HeadIsLastBlock, RootIsCommitted
<1> QED
  BY <1>1, <1>2 DEF Init, ChainInv, ClosureOnHead, TaskAfterHead, IdleCb, NoTask

(* BeginBlock takes the published head over into its closure.                *)
LEMMA ChainBeginBlock ==
    ASSUME TypeOK, ChainInv, NEW atropos \in Event, NEW cheaters \in SUBSET Forker,
           NEW cone \in SUBSET Event, BeginBlock(atropos, cheaters, cone)
    PROVE  ChainInv'
<1>1. /\ store'.bs = store.bs /\ store'.blocks = store.blocks
      /\ store'.blockIndex = store.blockIndex /\ store'.evmRoot = store.evmRoot
      /\ store'.confirmed = store.confirmed
  BY Zenon DEF BeginBlock, TypeOK, IsStore
<1>2. /\ cb'.bs.LastBlock = store.bs.LastBlock
      /\ cb'.bs.FinalizedStateRoot = store.bs.FinalizedStateRoot
      /\ cb'.degenerate /\ cb'.cone = cone
  BY Zenon DEF BeginBlock, TypeOK, IsStore, IsBlockState
<1>3. cone \cap store.confirmed = {}
  BY Zenon DEF BeginBlock, IsCone
<1>4. task.stage = "none" /\ task' = task /\ notified' = notified /\ disk' = disk
  BY Zenon DEF BeginBlock, WaitBlockEnd
<1>5. ClosureOnHead'
  BY Zenon, <1>1, <1>2, <1>3, <1>4 DEF ClosureOnHead
<1>6. TaskAfterHead'
  BY Zenon, <1>4 DEF TaskAfterHead
<1>7. Ordered(store') /\ Indexed(store') /\ HeadIsLastBlock(store') /\ RootIsCommitted(store')
  BY Zenon, <1>1, <1>4, SameChain DEF ChainInv
<1> QED
  BY Zenon, <1>1, <1>4, <1>5, <1>6, <1>7 DEF ChainInv

(* Applying the Atropos makes it fresh, since it was not confirmed before.   *)
LEMMA ChainApplyEvent ==
    ASSUME TypeOK, ChainInv, NEW e \in Event, ApplyEvent(e)
    PROVE  ChainInv'
<1>1. /\ store'.bs = store.bs /\ store'.blocks = store.blocks
      /\ store'.blockIndex = store.blockIndex /\ store'.evmRoot = store.evmRoot
      /\ store'.confirmed = store.confirmed \cup {e}
  BY Zenon DEF ApplyEvent, TypeOK, IsStore
<1>2. IsCallback(cb)
  BY DEF ApplyEvent, TypeOK, IdleCb
<1>3. /\ cb'.active /\ cb'.bs.LastBlock = cb.bs.LastBlock
      /\ cb'.bs.FinalizedStateRoot = cb.bs.FinalizedStateRoot
      /\ cb'.atropos = cb.atropos /\ cb'.cone = cb.cone \ {e}
      /\ cb'.degenerate = (cb.degenerate /\ e # cb.atropos)
  BY Zenon, <1>2 DEF ApplyEvent, IsCallback, IsBlockState
<1>4. /\ cb.active /\ e \in cb.cone /\ task.stage = "none"
      /\ task' = task /\ notified' = notified /\ disk' = disk
  BY Zenon DEF ApplyEvent, ChainInv, ClosureOnHead
<1>5. e \notin store.confirmed
  BY Zenon, <1>4 DEF ChainInv, ClosureOnHead
<1>6. \A i \in DOMAIN store.blocks : store.blocks[i].Atropos # e
  <2>1. \A i \in DOMAIN store.blocks : store.blocks[i].Atropos \in store.confirmed \cup {GenesisAtropos}
    BY Zenon DEF ChainInv, Indexed
  <2> QED
    BY Zenon, <1>5, <2>1, ConstantsAssumption
<1>7. cb'.degenerate \/ Fresh(store', cb'.atropos)
  <2>1. CASE e = cb.atropos
    BY Zenon, <1>1, <1>3, <1>6, <2>1 DEF Fresh
  <2>2. CASE e # cb.atropos /\ cb.degenerate
    BY <1>3, <2>2, Zenon
  <2>3. CASE Fresh(store, cb.atropos)
    BY Zenon, <1>1, <1>3, <2>3 DEF Fresh
  <2>4. cb.degenerate \/ Fresh(store, cb.atropos)
    BY <1>4, Zenon DEF ChainInv, ClosureOnHead
  <2> QED
    BY <2>1, <2>2, <2>3, <2>4, Zenon
<1>8. ClosureOnHead'
  <2>1. /\ cb'.bs.LastBlock = store'.bs.LastBlock
        /\ cb'.bs.FinalizedStateRoot = store'.bs.FinalizedStateRoot
        /\ cb'.cone \cap store'.confirmed = {}
    BY Zenon, <1>1, <1>3, <1>4 DEF ChainInv, ClosureOnHead
  <2> QED
    BY <1>4, <1>7, <2>1, Zenon DEF ClosureOnHead
<1>9. Ordered(store') /\ Indexed(store') /\ HeadIsLastBlock(store') /\ RootIsCommitted(store')
  BY Zenon, <1>1, <1>4, SameChain DEF ChainInv
<1>10. TaskAfterHead'
  BY Zenon, <1>4 DEF TaskAfterHead
<1> QED
  BY Zenon, <1>1, <1>4, <1>8, <1>9, <1>10 DEF ChainInv

(* A skipped frame leaves the head where it was.                             *)
LEMMA EndSkippedKeepsHead ==
    ASSUME TypeOK, ChainInv, EndSkippedBlock
    PROVE  /\ store'.bs.LastBlock = store.bs.LastBlock
           /\ store'.bs.FinalizedStateRoot = store.bs.FinalizedStateRoot
           /\ store'.blocks = store.blocks
           /\ store'.blockIndex = store.blockIndex /\ store'.evmRoot = store.evmRoot
           /\ store'.confirmed = store.confirmed
<1>1. IsCallback(cb)
  BY DEF EndSkippedBlock, TypeOK, IdleCb
<1>2. /\ FinalizedBs.LastBlock = cb.bs.LastBlock
      /\ FinalizedBs.FinalizedStateRoot = cb.bs.FinalizedStateRoot
  BY Zenon, <1>1 DEF FinalizedBs, FinalizeEvents, IsCallback, IsBlockState
<1>3. /\ cb.bs.LastBlock = store.bs.LastBlock
      /\ cb.bs.FinalizedStateRoot = store.bs.FinalizedStateRoot
  BY Zenon DEF EndSkippedBlock, ChainInv, ClosureOnHead
<1> QED
  BY Zenon, <1>2, <1>3 DEF EndSkippedBlock, TypeOK, IsStore

LEMMA ChainEndSkippedBlock ==
    ASSUME TypeOK, ChainInv, EndSkippedBlock
    PROVE  ChainInv'
<1>1. /\ task.stage = "none" /\ cb' = IdleCb
      /\ task' = task /\ notified' = notified /\ disk' = disk
  BY Zenon DEF EndSkippedBlock, ChainInv, ClosureOnHead
<1>2. Ordered(store') /\ Indexed(store') /\ HeadIsLastBlock(store') /\ RootIsCommitted(store')
  BY Zenon, <1>1, EndSkippedKeepsHead, SameChain DEF ChainInv
<1>3. ClosureOnHead' /\ TaskAfterHead'
  BY Zenon, <1>1 DEF ClosureOnHead, TaskAfterHead, IdleCb
<1> QED
  BY Zenon, <1>1, <1>2, <1>3, EndSkippedKeepsHead DEF ChainInv

(* Sealing does not move the head.                                           *)
LEMMA SealKeepsHead ==
    ASSUME NEW es, NEW bs, IsBlockState(bs, es.Validators), NEW block
    PROVE  /\ SealEpochBs(block, bs, es).LastBlock = bs.LastBlock
           /\ SealEpochBs(block, bs, es).FinalizedStateRoot = bs.FinalizedStateRoot
           /\ ExecutePreInternalTxs(bs).LastBlock = bs.LastBlock
           /\ ExecutePreInternalTxs(bs).FinalizedStateRoot = bs.FinalizedStateRoot
BY Zenon DEF SealEpochBs, ExecutePreInternalTxs, IsBlockState

(* A frame that is not skipped moves the head neither: blockFn will.         *)
LEMMA EndBlockKeepsHead ==
    ASSUME TypeOK, ChainInv, EndBlock
    PROVE  /\ store'.bs.LastBlock = store.bs.LastBlock
           /\ store'.bs.FinalizedStateRoot = store.bs.FinalizedStateRoot
           /\ store'.blocks = store.blocks
           /\ store'.blockIndex = store.blockIndex /\ store'.evmRoot = store.evmRoot
           /\ store'.confirmed = store.confirmed
<1> DEFINE block == NextBlockCtx
           sealing == EpochSealing(block, FinalizedBs, cb.es)
           bs == ExecutePreInternalTxs(FinalizedBs)
           newBs == IF sealing THEN SealEpochBs(block, bs, cb.es) ELSE bs
           newEs == IF sealing THEN SealEpochEs(block, bs, cb.es) ELSE cb.es
<1>1. IsCallback(cb) /\ cb.active
  BY DEF EndBlock, TypeOK, IdleCb
<1>2. /\ cb.bs.LastBlock = store.bs.LastBlock
      /\ cb.bs.FinalizedStateRoot = store.bs.FinalizedStateRoot
  BY Zenon, <1>1 DEF ChainInv, ClosureOnHead
<1>3. /\ FinalizedBs.LastBlock = cb.bs.LastBlock
      /\ FinalizedBs.FinalizedStateRoot = cb.bs.FinalizedStateRoot
      /\ IsBlockState(FinalizedBs, cb.es.Validators)
  BY Zenon, <1>1, NextBlockType DEF FinalizedBs, FinalizeEvents, IsCallback, IsBlockState
<1>4. /\ bs.LastBlock = store.bs.LastBlock
      /\ bs.FinalizedStateRoot = store.bs.FinalizedStateRoot
      /\ IsBlockState(bs, cb.es.Validators)
  BY <1>2, <1>3, SealKeepsHead, ExecutePreInternalTxsType, ZenonT(60)
<1>5. /\ newBs.LastBlock = store.bs.LastBlock
      /\ newBs.FinalizedStateRoot = store.bs.FinalizedStateRoot
  <2> HIDE DEF bs, block
  <2>0. /\ SealEpochBs(block, bs, cb.es).LastBlock = bs.LastBlock
        /\ SealEpochBs(block, bs, cb.es).FinalizedStateRoot = bs.FinalizedStateRoot
    BY Zenon, <1>4 DEF SealEpochBs, IsBlockState
  <2>1. CASE sealing
    BY Zenon, <1>4, <2>0, <2>1
  <2>2. CASE ~sealing
    BY Zenon, <1>4, <2>2
  <2> QED
    BY Zenon, <2>1, <2>2
<1>6. store' = IF sealing THEN [store EXCEPT !.bs = newBs, !.es = newEs] ELSE store
  BY Zenon DEF EndBlock
<1> HIDE DEF sealing, newBs, newEs
<1> QED
  BY Zenon, <1>5, <1>6 DEF TypeOK, IsStore

(* It makes a block after the head, of a fresh Atropos.                      *)
LEMMA ChainEndBlock ==
    ASSUME TypeOK, ChainInv, EndBlock
    PROVE  ChainInv'
<1> DEFINE block == NextBlockCtx
<1>1. IsCallback(cb) /\ cb.active /\ cb' = IdleCb /\ notified' = notified /\ disk' = disk
  BY DEF EndBlock, TypeOK, IdleCb
<1>2. /\ task.stage = "none"
      /\ cb.bs.LastBlock = store.bs.LastBlock
      /\ cb.bs.FinalizedStateRoot = store.bs.FinalizedStateRoot
  BY Zenon, <1>1 DEF ChainInv, ClosureOnHead
<1>3. Fresh(store, cb.atropos)
  <2>1. ~cb.degenerate
    BY Zenon DEF EndBlock, SkipBlock
  <2>2. cb.degenerate \/ Fresh(store, cb.atropos)
    BY <1>1, Zenon DEF ChainInv, ClosureOnHead
  <2> QED
    BY <2>1, <2>2, Zenon
<1>8. /\ block.Idx = store.bs.LastBlock.Idx + 1
      /\ block.Time > store.bs.LastBlock.Time
      /\ block.Atropos = cb.atropos
  <2>1. cb.bs.LastBlock.Time \in Nat /\ cb.atroposTime \in Nat
    BY Zenon, <1>1 DEF IsCallback, IsBlockState, BlockCtx
  <2> QED
    BY <1>2, <2>1 DEF NextBlockCtx, BlockTime
<1>9. task'.stage = "internal" /\ task'.block = block
  BY Zenon DEF EndBlock
<1> HIDE DEF block
<1>10. Ordered(store') /\ Indexed(store') /\ HeadIsLastBlock(store') /\ RootIsCommitted(store')
  BY Zenon, <1>2, EndBlockKeepsHead, SameChain DEF ChainInv
<1>11. TaskAfterHead'
  BY <1>3, EndBlockKeepsHead, <1>8, <1>9, <1>10, Zenon DEF TaskAfterHead, Fresh, HeadIsLastBlock
<1>12. ClosureOnHead'
  BY Zenon, <1>1 DEF ClosureOnHead, IdleCb
<1> QED
  BY Zenon, <1>1, EndBlockKeepsHead, <1>9, <1>10, <1>11, <1>12 DEF ChainInv

(* Steps of blockFn before SetBlock touch neither the chain nor the block.   *)
LEMMA ChainExecute ==
    ASSUME TypeOK, ChainInv,
           StartTask \/ (\E tx \in Tx : ExecuteTx(tx) \/ OnNewReceipt(tx))
    PROVE  ChainInv'
<1> DEFINE Frame ==
        /\ task.stage \in {"internal", "execute"} /\ task'.stage = "execute"
        /\ task'.block = task.block
        /\ store' = store /\ cb' = cb /\ notified' = notified /\ disk' = disk
<1>1. Frame
  <2>0. task.stage \in {"internal", "execute"} => IsTask(task)
    BY DEF TypeOK, NoTask
  <2>1. CASE StartTask
    BY Zenon, <2>0, <2>1 DEF StartTask, IsTask
  <2>2. ASSUME NEW tx \in Tx, ExecuteTx(tx)
        PROVE  Frame
    BY <2>0, <2>2, Zenon DEF ExecuteTx, IsTask
  <2>3. ASSUME NEW tx \in Tx, OnNewReceipt(tx)
        PROVE  Frame
    BY <2>0, <2>3, Zenon DEF OnNewReceipt, IsTask
  <2> QED
    BY Zenon, <2>1, <2>2, <2>3
<1>2. TaskAfterHead'
  BY Zenon, <1>1 DEF ChainInv, TaskAfterHead
<1>3. ClosureOnHead'
  BY Zenon, <1>1 DEF ChainInv, ClosureOnHead
<1> QED
  BY Zenon, <1>1, <1>2, <1>3 DEF ChainInv

(* SetBlock stores the task's block on top of the chain.                     *)
LEMMA ChainSetBlock ==
    ASSUME TypeOK, ChainInv, SetBlock
    PROVE  ChainInv'
<1> DEFINE idx == task.block.Idx
           a == task.block.Atropos
<1>1. IsTask(task) /\ task.stage = "execute"
  BY DEF SetBlock, TypeOK, NoTask
<1>2. /\ task'.stage = "publish" /\ task'.block = task.block /\ task'.root = task.root
      /\ cb' = cb /\ notified' = notified /\ disk' = disk
  BY Zenon, <1>1 DEF SetBlock, IsTask
<1>3. /\ HeadIsLastBlock(store) /\ idx = store.bs.LastBlock.Idx + 1
      /\ task.block.Time > store.bs.LastBlock.Time
      /\ Fresh(store, a) /\ ~cb.active
  <2>1. ~cb.active
    BY <1>1, Zenon DEF ChainInv, ClosureOnHead
  <2> QED
    BY Zenon, <1>1, <2>1 DEF ChainInv, TaskAfterHead
<1>4. /\ store'.bs = store.bs /\ store'.confirmed = store.confirmed
      /\ DOMAIN store'.blocks = DOMAIN store.blocks \cup {idx}
      /\ store'.blocks[idx].Time = task.block.Time
      /\ store'.blocks[idx].Atropos = a
      /\ store'.blocks[idx].Root = task.root
      /\ \A i \in DOMAIN store.blocks \ {idx} : store'.blocks[i] = store.blocks[i]
      /\ DOMAIN store'.blockIndex = DOMAIN store.blockIndex \cup {a}
      /\ store'.blockIndex[a] = idx
      /\ \A x \in DOMAIN store.blockIndex \ {a} : store'.blockIndex[x] = store.blockIndex[x]
  BY Zenon DEF SetBlock, TypeOK, IsStore
<1>5. store.bs.LastBlock.Idx \in Nat /\ store.bs.LastBlock.Idx >= 1 /\ idx \notin DOMAIN store.blocks
      /\ DOMAIN store.blocks = 1..store.bs.LastBlock.Idx
  <2>1. store.bs.LastBlock.Idx \in Nat
    BY Zenon, HeadIsNat DEF TypeOK
  <2>2. DOMAIN store.blocks = 1..store.bs.LastBlock.Idx
    BY Zenon, <1>3 DEF HeadIsLastBlock
  <2>3. store.bs.LastBlock.Idx >= 1
    BY Zenon, <1>1 DEF ChainInv, TaskAfterHead
  <2> QED
    BY Zenon, <1>3, <2>1, <2>2, <2>3, NextNumber
<1>6. DOMAIN store'.blocks = 1..idx
  <2>1. \A n \in Nat : (1..n) \cup {n + 1} = 1..(n + 1)
    OBVIOUS
  <2> QED
    BY Zenon, <1>3, <1>4, <1>5, <2>1
<1>7. Ordered(store')
  <2> SUFFICES ASSUME NEW i \in DOMAIN store'.blocks, i > 1
               PROVE  i - 1 \in DOMAIN store'.blocks
                      /\ store'.blocks[i - 1].Time < store'.blocks[i].Time
    BY Zenon DEF Ordered
  <2>1. CASE i = idx
    <3>1. i - 1 = store.bs.LastBlock.Idx /\ i - 1 \in DOMAIN store.blocks \ {idx}
      BY <1>3, <1>5, <2>1
    <3>2. store'.blocks[i - 1].Time = store.bs.LastBlock.Time
      BY Zenon, <1>3, <1>4, <3>1 DEF HeadIsLastBlock
    <3> QED
      BY Zenon, <1>3, <1>4, <2>1, <3>1, <3>2
  <2>2. CASE i # idx
    BY <1>3, <1>4, <1>5, <1>6, <2>2, Zenon DEF ChainInv, Ordered
  <2> QED
    BY Zenon, <2>1, <2>2
<1>8. Indexed(store')
  <2> SUFFICES ASSUME NEW i \in DOMAIN store'.blocks
               PROVE  /\ store'.blocks[i].Atropos \in store'.confirmed \cup {GenesisAtropos}
                      /\ store'.blocks[i].Atropos \in DOMAIN store'.blockIndex
                      /\ store'.blockIndex[store'.blocks[i].Atropos] = i
    BY Zenon DEF Indexed
  <2>1. CASE i = idx
    BY <1>3, <1>4, <2>1, Zenon DEF Fresh
  <2>2. CASE i # idx
    <3>1. i \in DOMAIN store.blocks \ {idx} /\ store'.blocks[i] = store.blocks[i]
      BY Zenon, <1>4, <2>2
    <3>2. store.blocks[i].Atropos # a
      BY Zenon, <1>3, <3>1 DEF Fresh
    <3>3. /\ store.blocks[i].Atropos \in store.confirmed \cup {GenesisAtropos}
          /\ store.blocks[i].Atropos \in DOMAIN store.blockIndex \ {a}
          /\ store.blockIndex[store.blocks[i].Atropos] = i
      BY Zenon, <3>1, <3>2 DEF ChainInv, Indexed
    <3> QED
      BY Zenon, <1>4, <3>1, <3>3
  <2> QED
    BY Zenon, <2>1, <2>2
<1>9. TaskAfterHead'
  BY <1>2, <1>3, <1>4, <1>5, <1>6, Zenon DEF TaskAfterHead
<1>10. ClosureOnHead'
  BY <1>2, <1>3, Zenon DEF ClosureOnHead
<1> QED
  BY Zenon, <1>2, <1>4, <1>7, <1>8, <1>9, <1>10 DEF ChainInv

(* SetBlockEpochState makes the stored block the head.                       *)
LEMMA ChainSetBlockEpochState ==
    ASSUME TypeOK, ChainInv, SetBlockEpochState
    PROVE  ChainInv'
<1>1. IsTask(task) /\ task.stage = "publish"
  BY DEF SetBlockEpochState, TypeOK, NoTask
<1>2. /\ task'.stage = "notify" /\ task'.block = task.block
      /\ cb' = cb /\ notified' = notified /\ disk' = disk
  BY Zenon, <1>1 DEF SetBlockEpochState, IsTask
<1>3. /\ store'.bs.LastBlock = task.block /\ store'.bs.FinalizedStateRoot = task.root
      /\ store'.blocks = store.blocks /\ store'.blockIndex = store.blockIndex
      /\ store'.confirmed = store.confirmed
  BY <1>1, Zenon DEF SetBlockEpochState, TypeOK, IsStore, IsTask, IsBlockState
<1>4. ~cb.active
  BY <1>1, Zenon DEF ChainInv, ClosureOnHead
<1>5. /\ task.block.Idx = store.bs.LastBlock.Idx + 1
      /\ DOMAIN store.blocks = 1..task.block.Idx
      /\ store.blocks[task.block.Idx].Time = task.block.Time
      /\ store.blocks[task.block.Idx].Root = task.root
      /\ store.bs.LastBlock.Idx \in Nat
  BY Zenon, <1>1 DEF ChainInv, TaskAfterHead, TypeOK, IsStore, IsBlockState, BlockCtx
<1>6. HeadIsLastBlock(store') /\ Ordered(store') /\ Indexed(store')
  <2>1. HeadIsLastBlock(store')
    BY <1>3, <1>5 DEF HeadIsLastBlock
  <2>2. Ordered(store) /\ Indexed(store)
    BY Zenon DEF ChainInv
  <2>3. Ordered(store')
    BY Zenon, <1>3, <2>2 DEF Ordered
  <2>4. Indexed(store')
    BY Zenon, <1>3, <2>2 DEF Indexed
  <2> QED
    BY Zenon, <2>1, <2>3, <2>4
<1>7. TaskAfterHead'
  BY Zenon, <1>2, <1>3, <1>5 DEF TaskAfterHead
<1>8. ClosureOnHead'
  BY <1>2, <1>4, Zenon DEF ClosureOnHead
<1>9. notified' \in 0..store'.bs.LastBlock.Idx
  <2>1. notified' = notified /\ notified \in 0..store.bs.LastBlock.Idx
    BY Zenon, <1>2 DEF ChainInv
  <2>2. store'.bs.LastBlock.Idx = store.bs.LastBlock.Idx + 1
    BY Zenon, <1>3, <1>5
  <2> QED
    BY Zenon, <1>5, <2>1, <2>2, NextNumber
<1> QED
  BY Zenon, <1>2, <1>6, <1>7, <1>8, <1>9 DEF ChainInv

(* The feeds and commitEVM come after publication.                           *)
LEMMA ChainFinish ==
    ASSUME TypeOK, ChainInv, NotifyNewBlock \/ CommitEVM
    PROVE  ChainInv'
<1>0. task.stage \in {"notify", "commit"} /\ IsTask(task)
  BY DEF NotifyNewBlock, CommitEVM, TypeOK, NoTask
<1>1. ~cb.active
  BY <1>0, Zenon DEF ChainInv, ClosureOnHead
<1>2. cb' = cb /\ disk' = disk
  BY Zenon DEF NotifyNewBlock, CommitEVM
<1>3. ClosureOnHead'
  BY <1>1, <1>2, Zenon DEF ClosureOnHead
<1>4. CASE NotifyNewBlock
  <2>1. task'.stage = "commit" /\ task'.block = task.block /\ store' = store
        /\ notified' = task.block.Idx
    BY Zenon, <1>0, <1>4 DEF NotifyNewBlock, IsTask
  <2>2. TaskAfterHead'
    BY Zenon, <1>0, <2>1 DEF ChainInv, TaskAfterHead
  <2>3. notified' \in 0..store'.bs.LastBlock.Idx
    <3>1. store.bs.LastBlock.Idx \in Nat
      BY Zenon, HeadIsNat DEF TypeOK
    <3>2. notified' = store'.bs.LastBlock.Idx
      BY Zenon, <1>0, <2>1 DEF ChainInv, TaskAfterHead
    <3> QED
      BY Zenon, <2>1, <3>1, <3>2, LastNumber
  <2> QED
    BY Zenon, <1>0, <1>2, <1>3, <2>1, <2>2, <2>3 DEF ChainInv
<1>5. CASE CommitEVM
  <2>1. /\ task'.stage = "none" /\ notified' = notified /\ store'.bs = store.bs
        /\ store'.blocks = store.blocks /\ store'.blockIndex = store.blockIndex
        /\ store'.confirmed = store.confirmed
        /\ store'.evmRoot = store.bs.FinalizedStateRoot
    BY Zenon, <1>5 DEF CommitEVM, TypeOK, IsStore, NoTask
  <2>2. /\ Ordered(store') /\ Indexed(store') /\ HeadIsLastBlock(store')
    BY <1>0, <2>1, Zenon DEF ChainInv, Ordered, Indexed, HeadIsLastBlock
  <2>3. RootIsCommitted(store')
    BY Zenon, <1>0, <2>1 DEF ChainInv, TaskAfterHead, RootIsCommitted
  <2>4. TaskAfterHead'
    BY Zenon, <2>1 DEF TaskAfterHead
  <2> QED
    BY Zenon, <1>2, <1>3, <2>1, <2>2, <2>3, <2>4 DEF ChainInv
<1> QED
  BY Zenon, <1>4, <1>5

(* Commit writes a finished chain; a restart continues from it.              *)
LEMMA ChainDisk ==
    ASSUME TypeOK, ChainInv, ClearBusyFlag \/ Commit \/ Crash
    PROVE  ChainInv'
<1>1. CASE ClearBusyFlag
  <2>1. UNCHANGED <<store, originated, cb, task, notified, disk>>
    BY Zenon, <1>1 DEF ClearBusyFlag
  <2>2. TaskAfterHead' /\ ClosureOnHead'
    BY Zenon, <2>1 DEF ChainInv, TaskAfterHead, ClosureOnHead
  <2> QED
    BY Zenon, <2>1, <2>2 DEF ChainInv
<1>2. CASE Commit
  <2>1. /\ UNCHANGED <<store, originated, cb, task, notified>>
        /\ task.stage = "none" /\ disk'.store = store
    BY Zenon, <1>2 DEF Commit, WaitBlockEnd, NoTask
  <2>2. TaskAfterHead' /\ ClosureOnHead'
    BY Zenon, <2>1 DEF ChainInv, TaskAfterHead, ClosureOnHead
  <2> QED
    BY Zenon, <2>1, <2>2 DEF ChainInv
<1>3. CASE Crash
  <2>1. /\ store' = disk.store /\ ~cb'.active /\ task'.stage = "none"
        /\ notified' = 0 /\ disk' = disk
    BY Zenon, <1>3 DEF Crash, IdleCb, NoTask
  <2>2. TaskAfterHead'
    BY Zenon, <2>1 DEF TaskAfterHead
  <2>3. ClosureOnHead'
    BY <2>1, Zenon DEF ClosureOnHead
  <2>4. notified' \in 0..store'.bs.LastBlock.Idx
    <3>1. store'.bs.LastBlock.Idx \in Nat
      BY Zenon, <2>1, HeadIsNat DEF TypeOK
    <3> QED
      BY Zenon, <2>1, <3>1, LastNumber
  <2> QED
    BY Zenon, <2>1, <2>2, <2>3, <2>4 DEF ChainInv
<1> QED
  BY Zenon, <1>1, <1>2, <1>3

(* ChainInv holds in every reachable state.                                  *)
LEMMA ChainInvariant == Spec => []ChainInv
<1>1. TypeOK /\ ChainInv /\ [Next]_vars => ChainInv'
  <2> SUFFICES ASSUME TypeOK, ChainInv, [Next]_vars PROVE ChainInv'
    BY Zenon
  <2>1. CASE Engine
    BY Zenon, <2>1, ChainBeginBlock, ChainApplyEvent, ChainEndSkippedBlock, ChainEndBlock DEF Engine
  <2>2. CASE BlockFn
    BY Zenon, <2>2, ChainExecute, ChainSetBlock, ChainSetBlockEpochState, ChainFinish DEF BlockFn
  <2>3. CASE ClearBusyFlag \/ Commit \/ Crash
    BY Zenon, <2>3, ChainDisk
  <2>4. CASE UNCHANGED vars
    <3>1. TaskAfterHead' /\ ClosureOnHead'
      BY <2>4, Zenon DEF vars, ChainInv, TaskAfterHead, ClosureOnHead
    <3> QED
      BY Zenon, <2>4, <3>1 DEF vars, ChainInv
  <2> QED
    BY Zenon, <2>1, <2>2, <2>3, <2>4 DEF Next, Step
<1> QED
  BY <1>1, ChainInit, TypeCorrect, PTL DEF Spec

(* Blocks have consecutive numbers and strictly increasing times, whatever   *)
(* Atropoi the engine decides, however often frames are skipped and the node *)
(* crashes (EndBlock's time clamp, SetBlock, SetBlockEpochState, Commit).    *)
THEOREM ChainOrdered == Spec => []ChainIsOrdered
<1>1. ChainInv => ChainIsOrdered
  BY Zenon DEF ChainInv, Ordered, ChainIsOrdered
<1> QED
  BY <1>1, ChainInvariant, PTL

(* No two blocks have the same Atropos: the rule that a frame which does not *)
(* confirm its Atropos makes no block suffices (EndBlock's skip condition).  *)
THEOREM BlockIDsUnique == Spec => []UniqueBlockIDs
<1>1. ChainInv => UniqueBlockIDs
  BY Zenon DEF ChainInv, Indexed, UniqueBlockIDs
<1> QED
  BY <1>1, ChainInvariant, PTL

(* The blocks up to the head are stored, whatever blockFn is doing.          *)
LEMMA HeadIsStored ==
    ASSUME TypeOK, ChainInv
    PROVE  /\ 1..store.bs.LastBlock.Idx \subseteq DOMAIN store.blocks
           /\ 1..disk.store.bs.LastBlock.Idx \subseteq DOMAIN disk.store.blocks
<1>1. store.bs.LastBlock.Idx \in Nat
  BY Zenon DEF TypeOK, IsStore, IsBlockState, BlockCtx
<1>2. CASE task.stage = "publish"
  <2>1. 1..store.bs.LastBlock.Idx \subseteq DOMAIN store.blocks
    BY Zenon, <1>1, <1>2, NextNumber DEF ChainInv, TaskAfterHead
  <2> QED
    BY Zenon, <2>1 DEF ChainInv, HeadIsLastBlock
<1>3. CASE task.stage # "publish"
  BY <1>3, Zenon DEF ChainInv, HeadIsLastBlock
<1> QED
  BY Zenon, <1>2, <1>3

(* A subscriber to the block feed always finds the announced block stored    *)
(* and published (the order of steps in blockFn).                            *)
THEOREM AnnouncedReadable == Spec => []AnnouncedIsReadable
<1>1. TypeOK /\ ChainInv => AnnouncedIsReadable
  <2> SUFFICES ASSUME TypeOK, ChainInv, notified # 0
               PROVE  notified \in DOMAIN store.blocks /\ notified <= store.bs.LastBlock.Idx
    BY Zenon DEF AnnouncedIsReadable
  <2>1. store.bs.LastBlock.Idx \in Nat /\ notified \in 1..store.bs.LastBlock.Idx
    <3>1. store.bs.LastBlock.Idx \in Nat
      BY Zenon, HeadIsNat DEF TypeOK
    <3>2. notified \in 0..store.bs.LastBlock.Idx
      BY Zenon DEF ChainInv
    <3> QED
      BY Zenon, <3>1, <3>2, BlockNumber
  <2>2. notified <= store.bs.LastBlock.Idx
    BY Zenon, <2>1, BlockNumber
  <2> QED
    BY Zenon, <2>1, <2>2, HeadIsStored
<1> QED
  BY <1>1, TypeCorrect, ChainInvariant, PTL

-----------------------------------------------------------------------------
(* Block processing implements Chain.                                        *)

(* Steps that leave the blocks up to the head alone leave the chain alone.   *)
LEMMA ChainOfSame ==
    ASSUME NEW s, NEW t, t.bs.LastBlock.Idx = s.bs.LastBlock.Idx,
           \A i \in 1..s.bs.LastBlock.Idx : t.blocks[i] = s.blocks[i]
    PROVE  ChainOf(t) = ChainOf(s)
BY Zenon DEF ChainOf

(* SetBlockEpochState is where the chain grows: by one block, with a later   *)
(* time and an ID of its own.                                                *)
LEMMA PublishSimulated ==
    ASSUME TypeOK, ChainInv, TypeOK', ChainInv', SetBlockEpochState
    PROVE  Abstract!Publish
<1> DEFINE n == store.bs.LastBlock.Idx
<1>1. IsTask(task) /\ task.stage = "publish"
  BY DEF SetBlockEpochState, TypeOK, NoTask
<1>2. task'.stage = "notify" /\ disk' = disk
  BY Zenon, <1>1 DEF SetBlockEpochState, IsTask
<1>3. /\ store'.bs.LastBlock.Idx = n + 1 /\ store'.blocks = store.blocks
      /\ n \in Nat
  BY <1>1, Zenon DEF SetBlockEpochState, ChainInv, TaskAfterHead, TypeOK, IsStore, IsTask,
              IsBlockState, BlockCtx
<1>4. /\ 1..n \subseteq DOMAIN store.blocks
      /\ 1..(n + 1) \subseteq DOMAIN store.blocks
  <2>1. 1..n \subseteq DOMAIN store.blocks
    BY Zenon, HeadIsStored
  <2>2. HeadIsLastBlock(store')
    BY Zenon, <1>2 DEF ChainInv
  <2> QED
    BY Zenon, <1>3, <2>1, <2>2 DEF HeadIsLastBlock
<1>5. /\ DOMAIN ChainOf(store) = 1..n /\ DOMAIN ChainOf(store') = 1..(n + 1)
      /\ ChainOf(store)[n].Time = store.blocks[n].Time \/ n = 0
      /\ \A i \in 1..(n + 1) : ChainOf(store')[i].ID = store.blocks[i].Atropos
                               /\ ChainOf(store')[i].Time = store.blocks[i].Time
  <2>1. DOMAIN ChainOf(store) = 1..n /\ DOMAIN ChainOf(store') = 1..(n + 1)
    BY Zenon, <1>3 DEF ChainOf
  <2>2. \A i \in 1..n : ChainOf(store)[i].Time = store.blocks[i].Time
    BY Zenon DEF ChainOf
  <2>3. \A i \in 1..(n + 1) : ChainOf(store')[i].ID = store.blocks[i].Atropos
                               /\ ChainOf(store')[i].Time = store.blocks[i].Time
    BY Zenon, <1>3 DEF ChainOf
  <2>4. n \in 1..n \/ n = 0
    <3> HIDE DEF n
    <3> QED
      BY <1>3
  <2> QED
    BY Zenon, <2>1, <2>2, <2>3, <2>4
<1>6. \A i \in 1..n : ChainOf(store')[i] = ChainOf(store)[i]
  BY Zenon, <1>3, NextNumber DEF ChainOf
<1>7. store.blocks[n].Time < store.blocks[n + 1].Time /\ n >= 1
  <2>1. Ordered(store)
    BY Zenon DEF ChainInv
  <2>2. n + 1 \in DOMAIN store.blocks
    BY <1>3, <1>4
  <2>3. n >= 1
    BY Zenon, <1>1 DEF ChainInv, TaskAfterHead
  <2>4. n + 1 > 1 /\ (n + 1) - 1 = n
    BY <1>3, <2>3
  <2>5. store.blocks[(n + 1) - 1].Time < store.blocks[n + 1].Time
    BY Zenon, <2>1, <2>2, <2>4 DEF Ordered
  <2> QED
    BY Zenon, <2>3, <2>4, <2>5
<1>8. \A i \in 1..n : store.blocks[i].Atropos # store.blocks[n + 1].Atropos
  <2>1. Indexed(store)
    BY Zenon DEF ChainInv
  <2>2. \A i \in 1..(n + 1) : store.blockIndex[store.blocks[i].Atropos] = i
    BY Zenon, <1>3, <1>4, <2>1 DEF Indexed
  <2> QED
    BY <1>3, <2>2
<1>9. Abstract!Extends(ChainOf(store'), ChainOf(store))
  <2>1. n \in DOMAIN ChainOf(store)
    BY Zenon, <1>3, <1>5, <1>7, BlockNumber
  <2> HIDE DEF n
  <2>2. n \in Nat /\ n + 1 \in 1..(n + 1) /\ \A i \in 1..n : i \in 1..(n + 1)
    BY <1>3
  <2>3. \A i \in 1..n : ChainOf(store')[i].ID # ChainOf(store')[n + 1].ID
    BY Zenon, <1>5, <1>8, <2>2
  <2>4. /\ ChainOf(store')[n + 1].Time = store.blocks[n + 1].Time
        /\ ChainOf(store)[n].Time = store.blocks[n].Time
    BY <1>5, <1>7, <2>2
  <2>5. ChainOf(store')[n + 1].Time > ChainOf(store)[n].Time
    BY Zenon, <1>7, <2>4
  <2> QED
    BY Zenon, <1>5, <1>6, <2>1, <2>3, <2>5 DEF Abstract!Extends
<1> QED
  BY Zenon, <1>1, <1>2, <1>9 DEF Abstract!Publish

(* The callbacks and the steps of blockFn before publication show readers    *)
(* nothing: SetBlock stores a block that the block state does not name yet.  *)
LEMMA EngineStutters ==
    ASSUME TypeOK, ChainInv, Engine
    PROVE  UNCHANGED <<ChainOf(store), ChainOf(disk.store), task.stage = "notify">>
<1>1. task.stage = "none"
  BY Zenon DEF Engine, BeginBlock, WaitBlockEnd, ApplyEvent, EndSkippedBlock, EndBlock,
         ChainInv, ClosureOnHead
<1>2. (task' = task \/ task'.stage = "internal") /\ disk' = disk
  <2>1. EndBlock => task'.stage = "internal" /\ disk' = disk
    BY DEF EndBlock
  <2> QED
    BY <2>1, Zenon DEF Engine, BeginBlock, ApplyEvent, EndSkippedBlock
<1>3. store'.bs.LastBlock = store.bs.LastBlock /\ store'.blocks = store.blocks
  <2>1. ASSUME NEW atropos \in Event, NEW cheaters \in SUBSET Forker,
               NEW cone \in SUBSET Event, BeginBlock(atropos, cheaters, cone)
        PROVE  store'.bs.LastBlock = store.bs.LastBlock /\ store'.blocks = store.blocks
    BY Zenon, <2>1 DEF BeginBlock, TypeOK, IsStore
  <2>2. ASSUME NEW e \in Event, ApplyEvent(e)
        PROVE  store'.bs.LastBlock = store.bs.LastBlock /\ store'.blocks = store.blocks
    BY Zenon, <2>2 DEF ApplyEvent, TypeOK, IsStore
  <2>3. CASE EndSkippedBlock
    BY Zenon, <2>3, EndSkippedKeepsHead
  <2>4. CASE EndBlock
    BY Zenon, <2>4, EndBlockKeepsHead
  <2> QED
    BY Zenon, <2>1, <2>2, <2>3, <2>4 DEF Engine
<1> QED
  BY Zenon, <1>1, <1>2, <1>3, ChainOfSame

LEMMA BlockFnStutters ==
    ASSUME TypeOK, ChainInv,
           StartTask \/ (\E tx \in Tx : ExecuteTx(tx) \/ OnNewReceipt(tx)) \/ SetBlock \/ CommitEVM
    PROVE  UNCHANGED <<ChainOf(store), ChainOf(disk.store), task.stage = "notify">>
<1>1. IsTask(task) /\ task.stage \in {"internal", "execute", "commit"}
  <2>1. task.stage \in {"internal", "execute", "commit"}
    BY Zenon DEF StartTask, ExecuteTx, OnNewReceipt, SetBlock, CommitEVM
  <2> QED
    BY <2>1 DEF TypeOK, NoTask
<1>2. task'.stage # "notify" /\ disk' = disk
  <2>1. CASE StartTask
    BY Zenon, <1>1, <2>1 DEF StartTask, IsTask
  <2>2. ASSUME NEW tx \in Tx, ExecuteTx(tx)
        PROVE  task'.stage # "notify" /\ disk' = disk
    BY <1>1, <2>2, Zenon DEF ExecuteTx, IsTask
  <2>3. ASSUME NEW tx \in Tx, OnNewReceipt(tx)
        PROVE  task'.stage # "notify" /\ disk' = disk
    BY <1>1, <2>3, Zenon DEF OnNewReceipt, IsTask
  <2>4. CASE SetBlock \/ CommitEVM
    BY <1>1, <2>4 DEF SetBlock, CommitEVM, NoTask, IsTask
  <2> QED
    BY Zenon, <2>1, <2>2, <2>3, <2>4
<1>3. CASE StartTask \/ \E tx \in Tx : ExecuteTx(tx) \/ OnNewReceipt(tx)
  BY <1>1, <1>2, <1>3, Zenon DEF StartTask, ExecuteTx, OnNewReceipt
<1>4. CASE SetBlock
  <2>1. /\ store'.bs = store.bs
        /\ \A i \in DOMAIN store.blocks \ {task.block.Idx} : store'.blocks[i] = store.blocks[i]
    BY Zenon, <1>4 DEF SetBlock, TypeOK, IsStore
  <2>2. task.block.Idx = store.bs.LastBlock.Idx + 1 /\ store.bs.LastBlock.Idx \in Nat
    BY Zenon, <1>4 DEF SetBlock, ChainInv, TaskAfterHead, TypeOK, IsStore, IsBlockState, BlockCtx
  <2>3. \A i \in 1..store.bs.LastBlock.Idx : store'.blocks[i] = store.blocks[i]
    BY <2>1, <2>2, HeadIsStored
  <2>4. ChainOf(store') = ChainOf(store)
    BY Zenon, <2>1, <2>3, ChainOfSame
  <2> QED
    BY Zenon, <1>1, <1>2, <1>4, <2>4 DEF SetBlock
<1>5. CASE CommitEVM
  <2>1. store'.bs = store.bs /\ store'.blocks = store.blocks
    BY Zenon, <1>5 DEF CommitEVM, TypeOK, IsStore
  <2>2. ChainOf(store') = ChainOf(store)
    BY Zenon, <2>1, ChainOfSame
  <2> QED
    BY Zenon, <1>1, <1>2, <1>5, <2>2 DEF CommitEVM
<1> QED
  BY Zenon, <1>3, <1>4, <1>5

(* Every step of block processing is a step of Chain, or invisible in it.    *)
LEMMA StepSimulated ==
    ASSUME TypeOK, ChainInv, TypeOK', ChainInv', [Next]_vars
    PROVE  [Abstract!Next]_(Abstract!vars)
<1> USE DEF Abstract!vars
<1>1. CASE Engine
  BY Zenon, <1>1, EngineStutters
<1>2. CASE StartTask \/ (\E tx \in Tx : ExecuteTx(tx) \/ OnNewReceipt(tx)) \/ SetBlock \/ CommitEVM
  BY Zenon, <1>2, BlockFnStutters
<1>3. CASE SetBlockEpochState
  BY Zenon, <1>3, PublishSimulated DEF Abstract!Next
<1>4. CASE NotifyNewBlock
  <2>1. task.stage = "notify" /\ task'.stage = "commit" /\ UNCHANGED <<store, disk>>
    BY Zenon, <1>4 DEF NotifyNewBlock, TypeOK, IsTask, NoTask
  <2> QED
    BY Zenon, <2>1 DEF Abstract!Next, Abstract!Announce
<1>5. CASE ClearBusyFlag
  BY Zenon, <1>5 DEF ClearBusyFlag
<1>6. CASE Commit
  <2>1. task.stage = "none" /\ disk'.store = store /\ UNCHANGED <<store, task>>
    BY Zenon, <1>6 DEF Commit, WaitBlockEnd
  <2> QED
    BY Zenon, <2>1 DEF Abstract!Next, Abstract!Persist
<1>7. CASE Crash
  <2>1. store' = disk.store /\ task'.stage = "none" /\ disk' = disk
    BY Zenon, <1>7 DEF Crash, NoTask
  <2> QED
    BY Zenon, <2>1 DEF Abstract!Next, Abstract!Recover
<1>8. CASE UNCHANGED vars
  BY Zenon, <1>8 DEF vars
<1> QED
  BY Zenon, <1>1, <1>2, <1>3, <1>4, <1>5, <1>6, <1>7, <1>8 DEF Next, Step, BlockFn

(* Block processing, with its goroutines and crashes, implements Chain: the  *)
(* parts of a block are stored one by one (SetBlock, SetBlockEpochState,     *)
(* commitEVM), yet readers see whole blocks appear, each announced before    *)
(* the next, and a crash brings back a chain that was published before.      *)
THEOREM ChainRefined == Spec => ImplementsChain
<1>1. Init => Abstract!Init
  <2> SUFFICES ASSUME Init PROVE Abstract!Init
    BY Zenon
  <2>1. store.bs.LastBlock.Idx = 1 /\ disk.store = store /\ task.stage = "none"
    BY Zenon DEF Init, GenesisStore, GenesisCtx, NoTask
  <2> QED
    BY <2>1 DEF ChainOf, Abstract!Init
<1>2. TypeOK /\ ChainInv /\ TypeOK' /\ ChainInv' /\ [Next]_vars => [Abstract!Next]_(Abstract!vars)
  BY Zenon, StepSimulated
<1> QED
  BY <1>1, <1>2, TypeCorrect, ChainInvariant, PTL DEF Spec, ImplementsChain, Abstract!Spec

-----------------------------------------------------------------------------
(* Cheaters.                                                                 *)

(* What is settled stays so when more validators are punished, and depends   *)
(* only on the Cheater flags of the validators' table.                       *)
LEMMA SettledStates ==
    ASSUME NEW reported, NEW epoch, NEW cheaters, NEW s, NEW t, NEW P, NEW Q,
           Settled(reported, epoch, cheaters, s, P), P \subseteq Q,
           DOMAIN t \subseteq DOMAIN s,
           \A v \in DOMAIN t : t[v].Cheater => s[v].Cheater
    PROVE  Settled(reported, epoch, cheaters, t, Q)
BY Zenon DEF Settled

(* FinalizeEvents and OnNewLog leave cheaters and their flags alone.         *)
LEMMA FinalizeKeepsCheaters ==
    ASSUME NEW es, NEW bs, IsBlockState(bs, es.Validators), NEW highest, NEW block,
           NEW reported, NEW epoch, NEW P,
           Settled(reported, epoch, bs.EpochCheaters, bs.ValidatorStates, P)
    PROVE  LET f == FinalizeEvents(bs, es, highest, block)
           IN  Settled(reported, epoch, f.EpochCheaters, f.ValidatorStates, P)
<1> DEFINE f == FinalizeEvents(bs, es, highest, block)
<1>1. f.EpochCheaters = bs.EpochCheaters
  BY Zenon DEF FinalizeEvents, IsBlockState
<1>2. /\ DOMAIN f.ValidatorStates = es.Validators
      /\ DOMAIN bs.ValidatorStates = es.Validators
  BY Zenon DEF FinalizeEvents, IsBlockState
<1>3. ASSUME NEW v \in es.Validators
      PROVE  f.ValidatorStates[v].Cheater = bs.ValidatorStates[v].Cheater
  BY Zenon DEF FinalizeEvents, IsBlockState, Online
<1> HIDE DEF f
<1>4. Settled(reported, epoch, bs.EpochCheaters, f.ValidatorStates, P)
  BY <1>2, <1>3, Zenon DEF Settled
<1> QED
  BY Zenon, <1>1, <1>4 DEF f

LEMMA OnNewLogKeepsCheaters ==
    ASSUME NEW validators, NEW bs, IsBlockState(bs, validators), NEW l
    PROVE  /\ OnNewLog(bs, l).EpochCheaters = bs.EpochCheaters
           /\ OnNewLog(bs, l).ValidatorStates = bs.ValidatorStates
BY Zenon DEF OnNewLog, IsBlockState

(* After the pre-internal transactions every cheater of the epoch is either  *)
(* being deactivated or has been.                                            *)
LEMMA PreInternalPunishes ==
    ASSUME NEW validators, NEW bs, IsBlockState(bs, validators),
           NEW reported, NEW epoch, NEW P,
           Settled(reported, epoch, bs.EpochCheaters, bs.ValidatorStates, P)
    PROVE  LET b == ExecutePreInternalTxs(bs)
               Q == P \cup ToDeactivate(bs)
           IN  /\ Settled(reported, epoch, b.EpochCheaters, b.ValidatorStates, Q)
               /\ b.EpochCheaters \subseteq Q
<1> DEFINE b == ExecutePreInternalTxs(bs)
           Q == P \cup ToDeactivate(bs)
<1>1. /\ b.EpochCheaters = bs.EpochCheaters
      /\ DOMAIN bs.ValidatorStates = validators /\ bs.EpochCheaters \subseteq validators
      /\ DOMAIN b.ValidatorStates = validators
  BY Zenon DEF ExecutePreInternalTxs, IsBlockState
<1>2. bs.EpochCheaters \subseteq Q
  BY <1>1, Zenon DEF ToDeactivate, Settled
<1>3. ASSUME NEW v \in validators, b.ValidatorStates[v].Cheater
      PROVE  v \in Q
  <2>1. b.ValidatorStates[v] = [bs.ValidatorStates[v] EXCEPT !.Cheater = @ \/ v \in bs.EpochCheaters]
    BY Zenon, <1>1 DEF ExecutePreInternalTxs, IsBlockState
  <2>2. bs.ValidatorStates[v] \in ValidatorBlockState
    BY Zenon DEF IsBlockState
  <2>3. b.ValidatorStates[v].Cheater = (bs.ValidatorStates[v].Cheater \/ v \in bs.EpochCheaters)
    BY <2>1, <2>2, Zenon DEF ValidatorBlockState
  <2>4. bs.ValidatorStates[v].Cheater \/ v \in bs.EpochCheaters
    BY <1>3, <2>3, Zenon
  <2> QED
    BY <1>1, <1>2, <2>4, Zenon DEF Settled
<1> HIDE DEF b
<1>4. Settled(reported, epoch, bs.EpochCheaters, b.ValidatorStates, Q)
  BY <1>1, <1>3, Zenon DEF Settled
<1> QED
  BY Zenon, <1>1, <1>2, <1>4 DEF b

(* Sealing may forget the epoch's list once everyone on it is punished.      *)
LEMMA SealSettles ==
    ASSUME NEW es, NEW bs, IsEpochState(es), IsBlockState(bs, es.Validators), NEW block,
           NEW reported, reported \subseteq Nat \X Validator, NEW P,
           Settled(reported, es.Epoch, bs.EpochCheaters, bs.ValidatorStates, P),
           bs.EpochCheaters \subseteq P
    PROVE  LET b == SealEpochBs(block, bs, es)
           IN  Settled(reported, es.Epoch + 1, b.EpochCheaters, b.ValidatorStates, P)
<1> DEFINE b == SealEpochBs(block, bs, es)
<1>1. b.EpochCheaters = {} /\ DOMAIN b.ValidatorStates = bs.NextValidatorProfiles
  BY Zenon DEF SealEpochBs, IsBlockState
<1>2. es.Epoch \in Nat /\ DOMAIN bs.ValidatorStates = es.Validators
  BY Zenon DEF IsEpochState, IsBlockState
<1>3. ASSUME NEW r \in reported
      PROVE  r[1] <= es.Epoch + 1 /\ r[1] < es.Epoch + 1 /\ r[2] \in P
  <2>1. r[1] \in Nat
    BY Zenon
  <2>2. /\ r[1] <= es.Epoch
        /\ r[1] < es.Epoch => r[2] \in P
        /\ r[1] = es.Epoch => r[2] \in bs.EpochCheaters
    BY Zenon DEF Settled
  <2> QED
    BY <1>2, <2>1, <2>2
<1>4. ASSUME NEW v \in bs.NextValidatorProfiles, b.ValidatorStates[v].Cheater
      PROVE  v \in P
  <2>1. b.ValidatorStates[v] = SealedValidatorState(block, bs, es, v)
    BY Zenon DEF SealEpochBs, IsBlockState
  <2>2. CASE v \in es.Validators
    <3>1. bs.ValidatorStates[v] \in ValidatorBlockState
      BY Zenon, <2>2 DEF IsBlockState
    <3>2. b.ValidatorStates[v].Cheater = bs.ValidatorStates[v].Cheater
      BY Zenon, <2>1, <2>2, <3>1 DEF SealedValidatorState, ValidatorBlockState
    <3>3. bs.ValidatorStates[v].Cheater
      BY <1>4, <3>2, Zenon
    <3> QED
      BY <1>2, <2>2, <3>3, Zenon DEF Settled
  <2>3. CASE v \notin es.Validators
    <3>1. b.ValidatorStates[v].Cheater = FALSE
      BY <2>1, <2>3 DEF SealedValidatorState, NewValidatorBlockState
    <3> QED
      BY <1>4, <3>1, Zenon
  <2> QED
    BY Zenon, <2>2, <2>3
<1> HIDE DEF b
<1>5. \A v \in DOMAIN b.ValidatorStates : b.ValidatorStates[v].Cheater => v \in P
  BY <1>1, <1>4, Zenon
<1>6. \A r \in reported : r[1] # es.Epoch + 1
  <2> SUFFICES ASSUME NEW r \in reported PROVE r[1] # es.Epoch + 1
    BY Zenon
  <2>1. r[1] \in Nat
    BY Zenon
  <2> QED
    BY <1>2, <1>3, <2>1
<1>7. Settled(reported, es.Epoch + 1, b.EpochCheaters, b.ValidatorStates, P)
  BY <1>3, <1>5, <1>6, Zenon DEF Settled
<1> QED
  BY Zenon, <1>7 DEF b

(* The part of CheaterInv about the disk.                                    *)
DiskSettled ==
    Settled(disk.store.reported, disk.store.es.Epoch, disk.store.bs.EpochCheaters,
            disk.store.bs.ValidatorStates, Punished(disk.store, {}))

(* The genesis block has nobody to punish.                                   *)
LEMMA CheaterInit == Init => CheaterInv
<1> SUFFICES ASSUME Init PROVE CheaterInv
  BY Zenon
<1>1. /\ ~cb.active /\ task.stage = "none" /\ disk.store = store /\ store = GenesisStore
  BY Zenon DEF Init, IdleCb, NoTask
<1>2. /\ store.reported = {} /\ DOMAIN store.bs.ValidatorStates = GenesisValidators
      /\ \A v \in GenesisValidators : store.bs.ValidatorStates[v].Cheater = FALSE
  <2>1. store.reported = {}
    BY Zenon, <1>1, GenesisRecords
  <2>2. store.bs.ValidatorStates = [v \in GenesisValidators |-> NewValidatorBlockState(GenesisCtx)]
    BY Zenon, <1>1, GenesisRecords
  <2>3. NewValidatorBlockState(GenesisCtx).Cheater = FALSE
    BY Zenon DEF NewValidatorBlockState
  <2> QED
    BY Zenon, <2>1, <2>2, <2>3
<1>3. Settled(store.reported, store.es.Epoch, store.bs.EpochCheaters,
              store.bs.ValidatorStates, Punished(store, {}))
  BY <1>2, Zenon DEF Settled
<1> QED
  BY <1>1, <1>3, Zenon DEF CheaterInv

(* BeginBlock keeps the cheaters of earlier frames and adds the new ones.    *)
LEMMA CheaterBeginBlock ==
    ASSUME TypeOK, CheaterInv,
           NEW atropos \in Event, NEW cheaters \in SUBSET Forker, NEW cone \in SUBSET Event,
           BeginBlock(atropos, cheaters, cone)
    PROVE  CheaterInv'
<1>1. ~cb.active /\ task.stage = "none" /\ task' = task /\ disk' = disk
  BY Zenon DEF BeginBlock, WaitBlockEnd
<1>2. Settled(store.reported, store.es.Epoch, store.bs.EpochCheaters,
              store.bs.ValidatorStates, Punished(store, {}))
  BY <1>1, Zenon DEF CheaterInv
<1>3. /\ store'.reported = store.reported \cup {<<store.es.Epoch, v>> : v \in cheaters}
      /\ store'.es = store.es /\ store'.blocks = store.blocks
  BY Zenon DEF BeginBlock, TypeOK, IsStore
<1>4. cb'.active
  BY Zenon DEF BeginBlock
<1>5. /\ cb'.es = store.es
      /\ cb'.bs.EpochCheaters = store.bs.EpochCheaters \cup cheaters
      /\ cb'.bs.ValidatorStates = store.bs.ValidatorStates
  BY Zenon DEF BeginBlock, MergeCheaters, TypeOK, IsStore, IsBlockState
<1>6. Punished(store', {}) = Punished(store, {})
  BY Zenon, <1>3 DEF Punished
<1>7. \A r \in store'.reported :
         /\ r[1] <= cb'.es.Epoch
         /\ r[1] < cb'.es.Epoch => r[2] \in Punished(store', {})
         /\ r[1] = cb'.es.Epoch => r[2] \in cb'.bs.EpochCheaters
  <2> SUFFICES ASSUME NEW r \in store'.reported
               PROVE  /\ r[1] <= cb'.es.Epoch
                      /\ r[1] < cb'.es.Epoch => r[2] \in Punished(store', {})
                      /\ r[1] = cb'.es.Epoch => r[2] \in cb'.bs.EpochCheaters
    BY Zenon
  <2>1. CASE r \in store.reported
    <3>1. /\ r[1] <= store.es.Epoch
          /\ r[1] < store.es.Epoch => r[2] \in Punished(store, {})
          /\ r[1] = store.es.Epoch => r[2] \in store.bs.EpochCheaters
      BY <1>2, <2>1, Zenon DEF Settled
    <3> QED
      BY Zenon, <1>5, <1>6, <3>1
  <2>2. CASE r \notin store.reported
    <3>1. PICK v \in cheaters : r = <<store.es.Epoch, v>>
      BY Zenon, <1>3, <2>2
    <3>2. store.es.Epoch \in Nat
      BY Zenon DEF TypeOK, IsStore, IsEpochState
    <3> QED
      BY <1>5, <3>1, <3>2
  <2> QED
    BY Zenon, <2>1, <2>2
<1>8. \A v \in DOMAIN cb'.bs.ValidatorStates :
        cb'.bs.ValidatorStates[v].Cheater => v \in Punished(store', {})
  BY <1>2, <1>5, <1>6, Zenon DEF Settled
<1>9. Settled(store'.reported, cb'.es.Epoch, cb'.bs.EpochCheaters,
              cb'.bs.ValidatorStates, Punished(store', {}))
  BY <1>7, <1>8, Zenon DEF Settled
<1>10. DiskSettled /\ DiskSettled'
  BY Zenon, <1>1 DEF CheaterInv, DiskSettled
<1> QED
  BY <1>1, <1>3, <1>4, <1>5, <1>9, <1>10, Zenon DEF CheaterInv, DiskSettled

LEMMA CheaterApplyEvent ==
    ASSUME TypeOK, CheaterInv, NEW e \in Event, ApplyEvent(e)
    PROVE  CheaterInv'
<1>0. IsCallback(cb) /\ cb.active
  BY DEF ApplyEvent, TypeOK, IdleCb
<1>1. /\ store'.reported = store.reported /\ store'.es = store.es
      /\ store'.blocks = store.blocks /\ task' = task /\ disk' = disk
  BY Zenon DEF ApplyEvent, TypeOK, IsStore
<1>2. /\ cb'.es = cb.es /\ cb'.bs.EpochCheaters = cb.bs.EpochCheaters
      /\ cb'.bs.ValidatorStates = cb.bs.ValidatorStates
  BY Zenon, <1>0 DEF ApplyEvent, IsCallback, IsBlockState
<1>3. cb'.active = cb.active
  BY <1>0, Zenon DEF ApplyEvent, IsCallback
<1>4. Punished(store', {}) = Punished(store, {})
  BY Zenon, <1>1 DEF Punished
<1>5. /\ task.stage = "none" /\ cb.es = store.es
      /\ Settled(store.reported, cb.es.Epoch, cb.bs.EpochCheaters,
                 cb.bs.ValidatorStates, Punished(store, {}))
      /\ DiskSettled
  BY <1>0, Zenon DEF CheaterInv, DiskSettled
<1>6. Settled(store'.reported, cb'.es.Epoch, cb'.bs.EpochCheaters,
              cb'.bs.ValidatorStates, Punished(store', {}))
  BY Zenon, <1>1, <1>2, <1>4, <1>5
<1>7. DiskSettled'
  BY Zenon, <1>1, <1>5 DEF DiskSettled
<1> QED
  BY <1>0, <1>1, <1>2, <1>3, <1>5, <1>6, <1>7, Zenon DEF CheaterInv, DiskSettled

(* A skipped frame saves the merged list.                                    *)
LEMMA CheaterEndSkippedBlock ==
    ASSUME TypeOK, CheaterInv, EndSkippedBlock
    PROVE  CheaterInv'
<1>0. IsCallback(cb) /\ cb.active
  BY DEF EndSkippedBlock, TypeOK, IdleCb
<1>1. /\ task.stage = "none" /\ cb.es = store.es
      /\ Settled(store.reported, cb.es.Epoch, cb.bs.EpochCheaters,
                 cb.bs.ValidatorStates, Punished(store, {}))
      /\ DiskSettled
  BY <1>0, Zenon DEF CheaterInv, DiskSettled
<1>2. /\ store'.reported = store.reported /\ store'.es = cb.es
      /\ store'.blocks = store.blocks /\ store'.bs = FinalizedBs
      /\ task' = task /\ disk' = disk /\ cb' = IdleCb
  BY Zenon DEF EndSkippedBlock, TypeOK, IsStore
<1>3. Settled(store.reported, cb.es.Epoch, FinalizedBs.EpochCheaters,
              FinalizedBs.ValidatorStates, Punished(store, {}))
  BY Zenon, <1>0, <1>1, FinalizeKeepsCheaters DEF FinalizedBs, IsCallback
<1>4. Punished(store', {}) = Punished(store, {})
  BY Zenon, <1>2 DEF Punished
<1>5. Settled(store'.reported, store'.es.Epoch, store'.bs.EpochCheaters,
              store'.bs.ValidatorStates, Punished(store', {}))
  BY Zenon, <1>2, <1>3, <1>4
<1>6. DiskSettled' /\ ~cb'.active
  BY Zenon, <1>1, <1>2 DEF DiskSettled, IdleCb
<1> QED
  BY <1>1, <1>2, <1>5, <1>6, Zenon DEF CheaterInv, DiskSettled

(* EndBlock hands everyone on the list to the driver contract before a seal  *)
(* clears it.                                                                *)
LEMMA CheaterEndBlock ==
    ASSUME TypeOK, CheaterInv, EndBlock
    PROVE  CheaterInv'
<1> DEFINE block == NextBlockCtx
           sealing == EpochSealing(block, FinalizedBs, cb.es)
           bs == ExecutePreInternalTxs(FinalizedBs)
           newBs == IF sealing THEN SealEpochBs(block, bs, cb.es) ELSE bs
           newEs == IF sealing THEN SealEpochEs(block, bs, cb.es) ELSE cb.es
           P == Punished(store, {})
           Q == P \cup ToDeactivate(FinalizedBs)
<1>0. IsCallback(cb) /\ cb.active
  BY DEF EndBlock, TypeOK, IdleCb
<1>1. /\ task.stage = "none" /\ cb.es = store.es
      /\ Settled(store.reported, cb.es.Epoch, cb.bs.EpochCheaters, cb.bs.ValidatorStates, P)
      /\ DiskSettled
  BY <1>0, Zenon DEF CheaterInv, DiskSettled
<1>2. /\ Settled(store.reported, cb.es.Epoch, FinalizedBs.EpochCheaters,
                 FinalizedBs.ValidatorStates, P)
      /\ IsBlockState(FinalizedBs, cb.es.Validators)
  <2>1. IsBlockState(FinalizedBs, cb.es.Validators)
    BY Zenon, <1>0, NextBlockType
  <2> QED
    BY Zenon, <1>0, <1>1, <2>1, FinalizeKeepsCheaters DEF FinalizedBs, IsCallback
<1>3. /\ Settled(store.reported, cb.es.Epoch, bs.EpochCheaters, bs.ValidatorStates, Q)
      /\ bs.EpochCheaters \subseteq Q
  BY Zenon, <1>2, PreInternalPunishes
<1>4. IsBlockState(bs, cb.es.Validators) /\ IsEpochState(cb.es)
  BY Zenon, <1>0, <1>2, ExecutePreInternalTxsType DEF IsCallback
<1>5. store.reported \subseteq Nat \X Validator
  BY Zenon DEF TypeOK, IsStore
<1>6. /\ task'.stage = "internal" /\ task'.bs = newBs /\ task'.es = newEs
      /\ task'.deactivated = ToDeactivate(FinalizedBs)
      /\ disk' = disk /\ cb' = IdleCb
  BY Zenon DEF EndBlock
<1>7. store' = IF sealing THEN [store EXCEPT !.bs = newBs, !.es = newEs] ELSE store
  BY Zenon DEF EndBlock
<1>8. newEs.Epoch = IF sealing THEN cb.es.Epoch + 1 ELSE cb.es.Epoch
  BY Zenon DEF SealEpochEs
<1> HIDE DEF block, bs, P
<1>9. Settled(store.reported, newEs.Epoch, newBs.EpochCheaters, newBs.ValidatorStates, Q)
  <2>1. CASE sealing
    <3>1. Settled(store.reported, cb.es.Epoch + 1, SealEpochBs(block, bs, cb.es).EpochCheaters,
                  SealEpochBs(block, bs, cb.es).ValidatorStates, Q)
      <4> HIDE DEF Q
      <4> QED
        BY <1>3, <1>4, <1>5, SealSettles, Zenon
    <3> HIDE DEF sealing
    <3> QED
      BY Zenon, <1>8, <2>1, <3>1
  <2>2. CASE ~sealing
    BY Zenon, <1>3, <1>8, <2>2
  <2> QED
    BY Zenon, <2>1, <2>2
<1> HIDE DEF sealing, newBs, newEs
<1>10. /\ store'.reported = store.reported /\ store'.blocks = store.blocks
       /\ store'.es = newEs
  <2>1. ~sealing => newEs = cb.es
    BY Zenon DEF newEs
  <2> QED
    BY Zenon, <1>1, <1>7, <2>1 DEF TypeOK, IsStore
<1>11. Deactivated' = Q
  BY Zenon, <1>6, <1>10 DEF Deactivated, P, Punished
<1>12. Settled(store'.reported, task'.es.Epoch, task'.bs.EpochCheaters,
               task'.bs.ValidatorStates, Deactivated')
  BY Zenon, <1>6, <1>9, <1>10, <1>11
<1>13. DiskSettled' /\ ~cb'.active /\ task'.es = store'.es
  BY Zenon, <1>1, <1>6, <1>10 DEF DiskSettled, IdleCb
<1>14. task'.stage # "none" /\ task'.stage # "publish"
       /\ ~(task'.stage \in {"none", "notify", "commit"})
  BY Zenon, <1>6
<1> QED
  BY <1>12, <1>13, <1>14, Zenon DEF CheaterInv, DiskSettled

(* Executing transactions and receipts changes neither list nor flags.       *)
LEMMA CheaterExecute ==
    ASSUME TypeOK, CheaterInv,
           StartTask \/ (\E tx \in Tx : ExecuteTx(tx) \/ OnNewReceipt(tx))
    PROVE  CheaterInv'
<1> DEFINE Frame ==
        /\ task.stage \in {"internal", "execute"} /\ task'.stage = "execute"
        /\ task'.es = task.es /\ task'.deactivated = task.deactivated
        /\ task'.bs.EpochCheaters = task.bs.EpochCheaters
        /\ DOMAIN task'.bs.ValidatorStates = DOMAIN task.bs.ValidatorStates
        /\ \A v \in DOMAIN task.bs.ValidatorStates :
             task'.bs.ValidatorStates[v].Cheater = task.bs.ValidatorStates[v].Cheater
        /\ store' = store /\ cb' = cb /\ disk' = disk
<1>1. Frame
  <2>0. task.stage \in {"internal", "execute"} => IsTask(task)
    BY DEF TypeOK, NoTask
  <2>1. CASE StartTask
    BY Zenon, <2>0, <2>1 DEF StartTask, IsTask
  <2>2. ASSUME NEW tx \in Tx, ExecuteTx(tx)
        PROVE  Frame
    <3>1. /\ OnNewLog(task.bs, LogOf[tx]).EpochCheaters = task.bs.EpochCheaters
          /\ OnNewLog(task.bs, LogOf[tx]).ValidatorStates = task.bs.ValidatorStates
      BY <2>0, <2>2, OnNewLogKeepsCheaters, Zenon DEF ExecuteTx, IsTask
    <3> QED
      BY <2>0, <2>2, <3>1, Zenon DEF ExecuteTx, IsTask
  <2>3. ASSUME NEW tx \in Tx, OnNewReceipt(tx)
        PROVE  Frame
    <3> DEFINE w == Creator[FirstEvent(tx, task.events)]
               states == task.bs.ValidatorStates
               refunded == [states[w] EXCEPT !.DirtyGasRefund = @ + NotUsedGas[tx]]
               bs == IF w \in task.es.Validators
                     THEN [task.bs EXCEPT !.ValidatorStates = [states EXCEPT ![w] = refunded]]
                     ELSE task.bs
    <3>1. IsTask(task) /\ task.stage = "execute"
      BY <2>0, <2>3, Zenon DEF OnNewReceipt
    <3>2. /\ task' = [task EXCEPT !.receipts = @ \ {tx}, !.bs = bs]
          /\ store' = store /\ cb' = cb /\ disk' = disk
      BY <2>3, Zenon DEF OnNewReceipt
    <3>3. /\ DOMAIN states = task.es.Validators
          /\ \A v \in DOMAIN states : states[v] \in ValidatorBlockState
      BY Zenon, <3>1 DEF IsTask, IsBlockState
    <3>4. w \in DOMAIN states => refunded.Cheater = states[w].Cheater
      BY Zenon, <3>3 DEF ValidatorBlockState
    <3> HIDE DEF w, refunded
    <3>5. /\ bs.EpochCheaters = task.bs.EpochCheaters
          /\ DOMAIN bs.ValidatorStates = DOMAIN states
          /\ \A v \in DOMAIN states : bs.ValidatorStates[v].Cheater = states[v].Cheater
      BY Zenon, <3>1, <3>3, <3>4 DEF IsTask, IsBlockState
    <3> HIDE DEF bs
    <3>6. /\ task'.stage = task.stage /\ task'.es = task.es
          /\ task'.deactivated = task.deactivated /\ task'.bs = bs
      BY Zenon, <3>1, <3>2 DEF IsTask
    <3> QED
      BY Zenon, <3>1, <3>2, <3>5, <3>6
  <2> QED
    BY Zenon, <2>1, <2>2, <2>3
<1> HIDE DEF Frame
<1>2. task.stage # "none" /\ ~(task.stage \in {"none", "notify", "commit"}) /\ task'.stage # "none"
      /\ ~(task'.stage \in {"none", "notify", "commit"}) /\ task'.stage # "publish"
  BY Zenon, <1>1 DEF Frame
<1>3. /\ ~cb.active /\ task.es = store.es
      /\ Settled(store.reported, task.es.Epoch, task.bs.EpochCheaters,
                 task.bs.ValidatorStates, Deactivated)
      /\ DiskSettled
  BY <1>2, Zenon DEF CheaterInv, DiskSettled
<1>4. Deactivated' = Deactivated
  BY Zenon, <1>1, <1>2 DEF Deactivated, Frame
<1>5. Settled(store.reported, task.es.Epoch, task.bs.EpochCheaters,
              task'.bs.ValidatorStates, Deactivated)
  BY <1>1, <1>3, Zenon DEF Settled, Frame
<1>6. Settled(store'.reported, task'.es.Epoch, task'.bs.EpochCheaters,
              task'.bs.ValidatorStates, Deactivated')
  BY Zenon, <1>1, <1>4, <1>5 DEF Frame
<1>7. DiskSettled' /\ ~cb'.active /\ task'.es = store'.es
  BY Zenon, <1>1, <1>3 DEF DiskSettled, Frame
<1> QED
  BY <1>2, <1>6, <1>7, Zenon DEF CheaterInv, DiskSettled

(* SetBlock records who was deactivated in a block of a new number.          *)
LEMMA CheaterSetBlock ==
    ASSUME TypeOK, ChainInv, CheaterInv, SetBlock
    PROVE  CheaterInv'
<1> DEFINE idx == task.block.Idx
<1>1. IsTask(task) /\ task.stage = "execute"
  BY DEF SetBlock, TypeOK, NoTask
<1>2. /\ task'.stage = "publish" /\ task'.es = task.es /\ task'.bs = task.bs
      /\ task'.deactivated = task.deactivated /\ cb' = cb /\ disk' = disk
  BY Zenon, <1>1 DEF SetBlock, IsTask
<1>3. /\ store'.es = store.es /\ store'.reported = store.reported
      /\ DOMAIN store'.blocks = DOMAIN store.blocks \cup {idx}
      /\ store'.blocks[idx].Deactivated = task.deactivated
      /\ \A i \in DOMAIN store.blocks \ {idx} : store'.blocks[i] = store.blocks[i]
  BY Zenon DEF SetBlock, TypeOK, IsStore
<1>4. idx \notin DOMAIN store.blocks
  <2>1. /\ HeadIsLastBlock(store) /\ idx = store.bs.LastBlock.Idx + 1
        /\ store.bs.LastBlock.Idx \in Nat
    BY Zenon, <1>1 DEF ChainInv, TaskAfterHead, TypeOK, IsStore, IsBlockState, BlockCtx
  <2> QED
    BY <2>1 DEF HeadIsLastBlock
<1>5. Punished(store', {}) = Deactivated
  BY <1>1, <1>3, <1>4 DEF Punished, Deactivated
<1>6. Deactivated' = Deactivated /\ task.deactivated \subseteq Deactivated
  <2>1. Deactivated' = Punished(store', {}) \cup task.deactivated
    BY Zenon, <1>2 DEF Deactivated, Punished
  <2>2. task.deactivated \subseteq Deactivated
    BY Zenon, <1>1 DEF Deactivated
  <2> QED
    BY Zenon, <1>5, <2>1, <2>2
<1>7. task.stage # "none" /\ ~(task.stage \in {"none", "notify", "commit"})
      /\ ~(task'.stage \in {"none", "notify", "commit"}) /\ task'.stage # "none"
  BY Zenon, <1>1, <1>2
<1>8. /\ ~cb.active /\ task.es = store.es
      /\ Settled(store.reported, task.es.Epoch, task.bs.EpochCheaters,
                 task.bs.ValidatorStates, Deactivated)
      /\ DiskSettled
  BY <1>7, Zenon DEF CheaterInv, DiskSettled
<1>9. /\ Settled(store'.reported, task'.es.Epoch, task'.bs.EpochCheaters,
                 task'.bs.ValidatorStates, Deactivated')
      /\ task'.deactivated \subseteq Punished(store', {})
      /\ task'.es = store'.es
  BY Zenon, <1>2, <1>3, <1>5, <1>6, <1>8
<1>10. DiskSettled' /\ ~cb'.active
  BY Zenon, <1>2, <1>8 DEF DiskSettled
<1> QED
  BY <1>7, <1>9, <1>10, Zenon DEF CheaterInv, DiskSettled

(* Publication makes the task's list and flags the published ones.           *)
LEMMA CheaterSetBlockEpochState ==
    ASSUME TypeOK, CheaterInv, SetBlockEpochState
    PROVE  CheaterInv'
<1>1. IsTask(task) /\ task.stage = "publish"
  BY DEF SetBlockEpochState, TypeOK, NoTask
<1>2. /\ task'.stage = "notify" /\ cb' = cb /\ disk' = disk
      /\ store'.bs.EpochCheaters = task.bs.EpochCheaters
      /\ store'.bs.ValidatorStates = task.bs.ValidatorStates
      /\ store'.es = task.es /\ store'.reported = store.reported
      /\ store'.blocks = store.blocks
  BY <1>1, Zenon DEF SetBlockEpochState, TypeOK, IsStore, IsTask, IsBlockState
<1>3. task.stage # "none" /\ ~(task.stage \in {"none", "notify", "commit"})
      /\ task'.stage \in {"none", "notify", "commit"}
  BY Zenon, <1>1, <1>2
<1>4. /\ ~cb.active
      /\ Settled(store.reported, task.es.Epoch, task.bs.EpochCheaters,
                 task.bs.ValidatorStates, Deactivated)
      /\ task.deactivated \subseteq Punished(store, {})
      /\ DiskSettled
  BY <1>1, <1>3, Zenon DEF CheaterInv, DiskSettled
<1>5. Deactivated = Punished(store', {})
  BY Zenon, <1>2, <1>4 DEF Deactivated, Punished
<1>6. Settled(store'.reported, store'.es.Epoch, store'.bs.EpochCheaters,
              store'.bs.ValidatorStates, Punished(store', {}))
  BY Zenon, <1>2, <1>4, <1>5
<1>7. DiskSettled' /\ ~cb'.active
  BY Zenon, <1>2, <1>4 DEF DiskSettled
<1> QED
  BY <1>3, <1>6, <1>7, Zenon DEF CheaterInv, DiskSettled

(* The steps that leave the published states alone, and Commit and Crash.    *)
LEMMA CheaterFinish ==
    ASSUME TypeOK, CheaterInv,
           NotifyNewBlock \/ CommitEVM \/ ClearBusyFlag \/ Commit \/ Crash
    PROVE  CheaterInv'
<1>1. CASE NotifyNewBlock \/ CommitEVM
  <2>1. /\ task.stage \in {"none", "notify", "commit"} /\ task.stage # "none"
        /\ task'.stage \in {"none", "notify", "commit"} /\ cb' = cb /\ disk' = disk
        /\ store'.bs = store.bs /\ store'.es = store.es
        /\ store'.reported = store.reported /\ store'.blocks = store.blocks
    <3>1. CASE NotifyNewBlock
      BY Zenon, <3>1 DEF NotifyNewBlock, TypeOK, NoTask, IsTask
    <3>2. CASE CommitEVM
      BY Zenon, <3>2 DEF CommitEVM, TypeOK, IsStore, NoTask
    <3> QED
      BY Zenon, <1>1, <3>1, <3>2
  <2>2. /\ ~cb.active
        /\ Settled(store.reported, store.es.Epoch, store.bs.EpochCheaters,
                   store.bs.ValidatorStates, Punished(store, {}))
        /\ DiskSettled
    BY <2>1, Zenon DEF CheaterInv, DiskSettled
  <2>3. /\ Settled(store'.reported, store'.es.Epoch, store'.bs.EpochCheaters,
                   store'.bs.ValidatorStates, Punished(store', {}))
        /\ DiskSettled' /\ ~cb'.active
    <3>1. Punished(store', {}) = Punished(store, {})
      BY Zenon, <2>1 DEF Punished
    <3> QED
      BY Zenon, <2>1, <2>2, <3>1 DEF DiskSettled
  <2> QED
    BY <2>1, <2>3, Zenon DEF CheaterInv, DiskSettled
<1>2. CASE ClearBusyFlag
  BY Zenon, <1>2 DEF ClearBusyFlag, CheaterInv, Deactivated
<1>3. CASE Commit
  <2>1. /\ ~cb.active /\ task.stage = "none" /\ disk'.store = store
        /\ store' = store /\ cb' = cb /\ task' = task
    BY Zenon, <1>3 DEF Commit, WaitBlockEnd
  <2>2. Settled(store.reported, store.es.Epoch, store.bs.EpochCheaters,
                store.bs.ValidatorStates, Punished(store, {}))
    BY <2>1, Zenon DEF CheaterInv
  <2> QED
    BY <2>1, <2>2, Zenon DEF CheaterInv
<1>4. CASE Crash
  <2>1. /\ ~cb'.active /\ task'.stage = "none" /\ disk' = disk /\ store' = disk.store
    BY Zenon, <1>4 DEF Crash, IdleCb, NoTask
  <2>2. Settled(disk.store.reported, disk.store.es.Epoch, disk.store.bs.EpochCheaters,
                disk.store.bs.ValidatorStates, Punished(disk.store, {}))
    BY Zenon DEF CheaterInv
  <2> QED
    BY <2>1, <2>2, Zenon DEF CheaterInv
<1> QED
  BY Zenon, <1>1, <1>2, <1>3, <1>4

(* CheaterInv holds in every reachable state.                                *)
LEMMA CheaterInvariant == Spec => []CheaterInv
<1>1. TypeOK /\ ChainInv /\ CheaterInv /\ [Next]_vars => CheaterInv'
  <2> SUFFICES ASSUME TypeOK, ChainInv, CheaterInv, [Next]_vars PROVE CheaterInv'
    BY Zenon
  <2>1. CASE Engine
    BY Zenon, <2>1, CheaterBeginBlock, CheaterApplyEvent, CheaterEndSkippedBlock, CheaterEndBlock
       DEF Engine
  <2>2. CASE BlockFn
    BY Zenon, <2>2, CheaterExecute, CheaterSetBlock, CheaterSetBlockEpochState, CheaterFinish
       DEF BlockFn
  <2>3. CASE ClearBusyFlag \/ Commit \/ Crash
    BY Zenon, <2>3, CheaterFinish
  <2>4. CASE UNCHANGED vars
    BY Zenon, <2>4 DEF vars, CheaterInv, Deactivated
  <2> QED
    BY Zenon, <2>1, <2>2, <2>3, <2>4 DEF Next, Step
<1> QED
  BY <1>1, CheaterInit, TypeCorrect, ChainInvariant, PTL DEF Spec

(* Every cheater the engine reported in an epoch is handed to the driver     *)
(* contract by the end of that epoch, through skipped frames, crashes and    *)
(* any interleaving of blockFn with the engine (mergeCheaters, EndBlock,     *)
(* PopInternalTxs, SealEpoch).                                               *)
THEOREM CheatersPunished == Spec => []NoCheaterEscapes
<1>1. CheaterInv => NoCheaterEscapes
  <2> SUFFICES ASSUME CheaterInv, NEW r \in store.reported, r[1] < store.es.Epoch
               PROVE  r[2] \in Deactivated
    BY Zenon DEF NoCheaterEscapes
  <2>0. Punished(store, {}) \subseteq Deactivated
    BY Zenon DEF Punished, Deactivated
  <2>1. CASE cb.active
    <3>1. r[2] \in Punished(store, {})
      BY <2>1, Zenon DEF CheaterInv, Settled
    <3> QED
      BY Zenon, <2>0, <3>1
  <2>2. CASE ~cb.active /\ task.stage \in {"none", "notify", "commit"}
    <3>1. r[2] \in Punished(store, {})
      BY <2>2, Zenon DEF CheaterInv, Settled
    <3> QED
      BY Zenon, <2>0, <3>1
  <2>3. CASE ~cb.active /\ ~(task.stage \in {"none", "notify", "commit"})
    BY <2>3, Zenon DEF CheaterInv, Settled
  <2> QED
    BY <2>1, <2>2, <2>3, Zenon
<1> QED
  BY <1>1, CheaterInvariant, PTL

(* What a restart finds on disk is the state after a whole block: head,      *)
(* stored blocks and EVM state agree, and no cheater of a sealed epoch is    *)
(* still to be dealt with (Store.Commit after WaitBlockEnd).                 *)
THEOREM CommittedComplete == Spec => []CommittedStateIsComplete
<1>1. ChainInv /\ CheaterInv => CommittedStateIsComplete
  <2> SUFFICES ASSUME ChainInv, CheaterInv PROVE CommittedStateIsComplete
    BY Zenon
  <2>1. HeadIsLastBlock(disk.store) /\ RootIsCommitted(disk.store)
    BY Zenon DEF ChainInv
  <2>2. \A r \in disk.store.reported :
           r[1] < disk.store.es.Epoch => r[2] \in Punished(disk.store, {})
    BY Zenon DEF CheaterInv, Settled
  <2>3. \A r \in disk.store.reported : r[1] < disk.store.es.Epoch =>
           \E i \in DOMAIN disk.store.blocks : r[2] \in disk.store.blocks[i].Deactivated
    BY Zenon, <2>2 DEF Punished
  <2> QED
    BY <2>1, <2>3, Zenon DEF HeadIsLastBlock, RootIsCommitted, CommittedStateIsComplete
<1> QED
  BY <1>1, ChainInvariant, CheaterInvariant, PTL

(* All that StateIsSound says of the chain, the state it is kept with, the   *)
(* announcements and the disk holds for any events, rules and crashes.       *)
THEOREM StateSound == Spec => []StateIsSound
<1>1. TypeOK /\ ChainIsOrdered /\ UniqueBlockIDs /\ AnnouncedIsReadable /\ CommittedStateIsComplete
        => StateIsSound
  BY Zenon DEF StateIsSound
<1> QED
  BY <1>1, TypeCorrect, ChainOrdered, BlockIDsUnique, AnnouncedReadable, CommittedComplete, PTL

-----------------------------------------------------------------------------
(* Cheaters are expelled: ExpelInv is inductive.                             *)

(* FinalizeEvents changes neither lists nor flags.                           *)
LEMMA FinalizeExpels ==
    ASSUME NEW es, NEW bs, IsBlockState(bs, es.Validators), NEW highest, NEW block,
           NEW reported, Expelled(reported, es, bs)
    PROVE  Expelled(reported, es, FinalizeEvents(bs, es, highest, block))
<1> DEFINE f == FinalizeEvents(bs, es, highest, block)
<1>1. /\ f.EpochCheaters = bs.EpochCheaters
      /\ f.NextValidatorProfiles = bs.NextValidatorProfiles
      /\ DOMAIN f.ValidatorStates = es.Validators /\ DOMAIN bs.ValidatorStates = es.Validators
  BY Zenon DEF FinalizeEvents, IsBlockState
<1>2. ASSUME NEW v \in es.Validators
      PROVE  f.ValidatorStates[v].Cheater = bs.ValidatorStates[v].Cheater
  BY Zenon DEF FinalizeEvents, IsBlockState, Online
<1> HIDE DEF f
<1>3. Expelled(reported, es, f)
  BY <1>1, <1>2, Zenon DEF Expelled
<1> QED
  BY Zenon, <1>3 DEF f

(* After the pre-internal transactions nobody on the epoch's list is in the  *)
(* next group: who is marked already was taken out before, the others are    *)
(* taken out now.                                                            *)
LEMMA PreInternalExpels ==
    ASSUME NEW es, NEW bs, IsBlockState(bs, es.Validators),
           NEW reported, Expelled(reported, es, bs)
    PROVE  LET b == ExecutePreInternalTxs(bs)
           IN  Expelled(reported, es, b) /\ b.EpochCheaters \cap b.NextValidatorProfiles = {}
<1> DEFINE b == ExecutePreInternalTxs(bs)
<1>1. /\ b.EpochCheaters = bs.EpochCheaters
      /\ b.NextValidatorProfiles = bs.NextValidatorProfiles \ ToDeactivate(bs)
      /\ DOMAIN bs.ValidatorStates = es.Validators /\ bs.EpochCheaters \subseteq es.Validators
      /\ DOMAIN b.ValidatorStates = es.Validators
  BY Zenon DEF ExecutePreInternalTxs, IsBlockState
<1>2. ASSUME NEW v \in bs.EpochCheaters
      PROVE  v \notin b.NextValidatorProfiles
  BY <1>1, Zenon DEF ToDeactivate, Expelled
<1>3. ASSUME NEW v \in es.Validators, b.ValidatorStates[v].Cheater
      PROVE  v \in Forker /\ v \notin b.NextValidatorProfiles
  <2>1. b.ValidatorStates[v] = [bs.ValidatorStates[v] EXCEPT !.Cheater = @ \/ v \in bs.EpochCheaters]
    BY Zenon, <1>1 DEF ExecutePreInternalTxs, IsBlockState
  <2>2. bs.ValidatorStates[v] \in ValidatorBlockState
    BY Zenon DEF IsBlockState
  <2>3. b.ValidatorStates[v].Cheater = (bs.ValidatorStates[v].Cheater \/ v \in bs.EpochCheaters)
    BY <2>1, <2>2, Zenon DEF ValidatorBlockState
  <2>4. bs.ValidatorStates[v].Cheater \/ v \in bs.EpochCheaters
    BY <1>3, <2>3, Zenon
  <2>5. bs.EpochCheaters \subseteq Forker
    BY Zenon DEF Expelled
  <2>6. CASE bs.ValidatorStates[v].Cheater
    BY <1>1, <2>6, Zenon DEF Expelled
  <2>7. CASE v \in bs.EpochCheaters
    BY Zenon, <1>2, <2>5, <2>7
  <2> QED
    BY <2>4, <2>6, <2>7, Zenon
<1> HIDE DEF b
<1>4. Expelled(reported, es, b)
  <2>1. b.NextValidatorProfiles \subseteq bs.NextValidatorProfiles
    BY Zenon, <1>1
  <2> QED
    BY <1>1, <1>3, <2>1, Zenon DEF Expelled
<1>5. b.EpochCheaters \cap b.NextValidatorProfiles = {}
  BY Zenon, <1>1, <1>2
<1> QED
  BY Zenon, <1>4, <1>5 DEF b

(* Sealing makes the next group the current one, so it lets no cheater in.   *)
LEMMA SealExpels ==
    ASSUME NEW es, NEW bs, IsEpochState(es), IsBlockState(bs, es.Validators), NEW block,
           NEW reported, reported \subseteq Nat \X Validator, Expelled(reported, es, bs),
           bs.EpochCheaters \cap bs.NextValidatorProfiles = {}
    PROVE  Expelled(reported, SealEpochEs(block, bs, es), SealEpochBs(block, bs, es))
<1> DEFINE b == SealEpochBs(block, bs, es)
           s == SealEpochEs(block, bs, es)
<1>1. /\ b.EpochCheaters = {} /\ DOMAIN b.ValidatorStates = bs.NextValidatorProfiles
      /\ b.NextValidatorProfiles = bs.NextValidatorProfiles
  BY Zenon DEF SealEpochBs, IsBlockState
<1>2. s.Epoch = es.Epoch + 1 /\ s.Validators = bs.NextValidatorProfiles
  BY Zenon DEF SealEpochEs
<1>3. es.Epoch \in Nat /\ DOMAIN bs.ValidatorStates = es.Validators
  BY Zenon DEF IsEpochState, IsBlockState
<1>4. ASSUME NEW r \in reported
      PROVE  /\ r[1] <= es.Epoch + 1 /\ r[1] # es.Epoch + 1
             /\ r[2] \in Forker /\ r[2] \notin bs.NextValidatorProfiles
  <2>1. r[1] \in Nat
    BY Zenon
  <2>2. /\ r[1] <= es.Epoch
        /\ r[1] < es.Epoch => r[2] \in Forker /\ r[2] \notin bs.NextValidatorProfiles
        /\ r[1] = es.Epoch => r[2] \in bs.EpochCheaters
        /\ bs.EpochCheaters \subseteq Forker
    BY Zenon DEF Expelled
  <2>3. CASE r[1] < es.Epoch
    BY <1>3, <2>1, <2>2, <2>3
  <2>4. CASE r[1] = es.Epoch
    BY <1>3, <2>1, <2>2, <2>4
  <2> QED
    BY <1>3, <2>1, <2>2, <2>3, <2>4
<1>5. ASSUME NEW v \in bs.NextValidatorProfiles
      PROVE  ~b.ValidatorStates[v].Cheater
  <2>1. b.ValidatorStates[v] = SealedValidatorState(block, bs, es, v)
    BY Zenon DEF SealEpochBs, IsBlockState
  <2>2. CASE v \in es.Validators
    <3>1. bs.ValidatorStates[v] \in ValidatorBlockState
      BY Zenon, <2>2 DEF IsBlockState
    <3>2. b.ValidatorStates[v].Cheater = bs.ValidatorStates[v].Cheater
      BY Zenon, <2>1, <2>2, <3>1 DEF SealedValidatorState, ValidatorBlockState
    <3>3. ~bs.ValidatorStates[v].Cheater
      BY <1>3, <2>2, Zenon DEF Expelled
    <3> QED
      BY <3>2, <3>3, Zenon
  <2>3. CASE v \notin es.Validators
    <3>1. b.ValidatorStates[v].Cheater = FALSE
      BY <2>1, <2>3 DEF SealedValidatorState, NewValidatorBlockState
    <3> QED
      BY <3>1, Zenon
  <2> QED
    BY Zenon, <2>2, <2>3
<1> HIDE DEF b, s
<1>6. Expelled(reported, s, b)
  <2>1. b.EpochCheaters \subseteq Forker
    BY Zenon, <1>1
  <2>2. \A r \in reported :
          /\ r[1] <= s.Epoch
          /\ r[1] < s.Epoch => r[2] \in Forker /\ r[2] \notin s.Validators \cup b.NextValidatorProfiles
          /\ r[1] = s.Epoch => r[2] \in b.EpochCheaters
    BY Zenon, <1>1, <1>2, <1>4
  <2>3. \A v \in DOMAIN b.ValidatorStates :
          b.ValidatorStates[v].Cheater => v \in Forker /\ v \notin b.NextValidatorProfiles
    BY <1>1, <1>5, Zenon
  <2> QED
    BY <2>1, <2>2, <2>3, Zenon DEF Expelled
<1> QED
  BY Zenon, <1>6 DEF b, s

(* No log of the contract brings a cheater back.                             *)
LEMMA LogExpels ==
    ASSUME RestoresNoForker, NEW tx \in Tx, NEW es, NEW bs, IsBlockState(bs, es.Validators),
           NEW reported, Expelled(reported, es, bs)
    PROVE  Expelled(reported, es, OnNewLog(bs, LogOf[tx]))
<1> DEFINE b == OnNewLog(bs, LogOf[tx])
<1>1. b.EpochCheaters = bs.EpochCheaters /\ b.ValidatorStates = bs.ValidatorStates
  BY Zenon, OnNewLogKeepsCheaters
<1>2. \A v \in Forker : v \in b.NextValidatorProfiles => v \in bs.NextValidatorProfiles
  BY Zenon DEF OnNewLog, IsBlockState, RestoresNoForker
<1> HIDE DEF b
<1>3. Expelled(reported, es, b)
  BY <1>1, <1>2, Zenon DEF Expelled
<1> QED
  BY Zenon, <1>3 DEF b

(* The part of ExpelInv about the disk.                                      *)
DiskExpelled == Expelled(disk.store.reported, disk.store.es, disk.store.bs)

LEMMA ExpelInit == Init => ExpelInv
<1> SUFFICES ASSUME Init PROVE ExpelInv
  BY Zenon
<1>1. /\ ~cb.active /\ task.stage = "none" /\ disk.store = store /\ store = GenesisStore
  BY Zenon DEF Init, IdleCb, NoTask
<1>2. /\ store.reported = {} /\ store.bs.EpochCheaters = {}
      /\ store.bs.ValidatorStates = [v \in GenesisValidators |-> NewValidatorBlockState(GenesisCtx)]
  BY Zenon, <1>1, GenesisRecords
<1>3. NewValidatorBlockState(GenesisCtx).Cheater = FALSE
  BY Zenon DEF NewValidatorBlockState
<1>4. \A v \in DOMAIN store.bs.ValidatorStates : ~store.bs.ValidatorStates[v].Cheater
  BY Zenon, <1>2, <1>3
<1>5. Expelled(store.reported, store.es, store.bs)
  BY <1>2, <1>4, Zenon DEF Expelled
<1> QED
  BY <1>1, <1>5, Zenon DEF ExpelInv

(* BeginBlock reports forkers only, and lists them.                          *)
LEMMA ExpelBeginBlock ==
    ASSUME TypeOK, ExpelInv,
           NEW atropos \in Event, NEW cheaters \in SUBSET Forker, NEW cone \in SUBSET Event,
           BeginBlock(atropos, cheaters, cone)
    PROVE  ExpelInv'
<1>1. ~cb.active /\ task.stage = "none" /\ task' = task /\ disk' = disk
  BY Zenon DEF BeginBlock, WaitBlockEnd
<1>2. Expelled(store.reported, store.es, store.bs) /\ DiskExpelled
  BY <1>1, Zenon DEF ExpelInv, DiskExpelled
<1>3. /\ store'.reported = store.reported \cup {<<store.es.Epoch, v>> : v \in cheaters}
      /\ store'.es = store.es
  BY Zenon DEF BeginBlock, TypeOK, IsStore
<1>4. cb'.active
  BY Zenon DEF BeginBlock
<1>5. /\ cb'.es = store.es
      /\ cb'.bs.EpochCheaters = store.bs.EpochCheaters \cup cheaters
      /\ cb'.bs.ValidatorStates = store.bs.ValidatorStates
      /\ cb'.bs.NextValidatorProfiles = store.bs.NextValidatorProfiles
  BY Zenon DEF BeginBlock, MergeCheaters, TypeOK, IsStore, IsBlockState
<1>6. ASSUME NEW r \in store'.reported
      PROVE  /\ r[1] <= cb'.es.Epoch
             /\ r[1] < cb'.es.Epoch => /\ r[2] \in Forker
                                       /\ r[2] \notin cb'.es.Validators \cup cb'.bs.NextValidatorProfiles
             /\ r[1] = cb'.es.Epoch => r[2] \in cb'.bs.EpochCheaters
  <2>1. CASE r \in store.reported
    <3>1. /\ r[1] <= store.es.Epoch
          /\ r[1] < store.es.Epoch => /\ r[2] \in Forker
                                      /\ r[2] \notin store.es.Validators \cup store.bs.NextValidatorProfiles
          /\ r[1] = store.es.Epoch => r[2] \in store.bs.EpochCheaters
      BY <1>2, <2>1, Zenon DEF Expelled
    <3> QED
      BY Zenon, <1>5, <3>1
  <2>2. CASE r \notin store.reported
    <3>1. PICK v \in cheaters : r = <<store.es.Epoch, v>>
      BY Zenon, <1>3, <2>2
    <3>2. store.es.Epoch \in Nat
      BY Zenon DEF TypeOK, IsStore, IsEpochState
    <3> QED
      BY <1>5, <3>1, <3>2
  <2> QED
    BY Zenon, <2>1, <2>2
<1>7. cb'.bs.EpochCheaters \subseteq Forker
  BY Zenon, <1>2, <1>5 DEF Expelled
<1>8. \A v \in DOMAIN cb'.bs.ValidatorStates :
        cb'.bs.ValidatorStates[v].Cheater => v \in Forker /\ v \notin cb'.bs.NextValidatorProfiles
  BY <1>2, <1>5, Zenon DEF Expelled
<1>9. Expelled(store'.reported, cb'.es, cb'.bs)
  BY <1>6, <1>7, <1>8, Zenon DEF Expelled
<1>10. DiskExpelled'
  BY Zenon, <1>1, <1>2 DEF DiskExpelled
<1>11. task'.stage = "none" /\ ~(task'.stage \in {"internal", "execute", "publish"})
  BY Zenon, <1>1
<1> QED
  BY <1>3, <1>4, <1>5, <1>9, <1>10, <1>11, Zenon DEF ExpelInv, DiskExpelled

LEMMA ExpelApplyEvent ==
    ASSUME TypeOK, ExpelInv, NEW e \in Event, ApplyEvent(e)
    PROVE  ExpelInv'
<1>1. IsCallback(cb) /\ cb.active
  BY DEF ApplyEvent, TypeOK, IdleCb
<1>2. /\ store'.reported = store.reported /\ store'.es = store.es
      /\ task' = task /\ disk' = disk
  BY Zenon DEF ApplyEvent, TypeOK, IsStore
<1>3. /\ cb'.es = cb.es /\ cb'.bs.EpochCheaters = cb.bs.EpochCheaters
      /\ cb'.bs.ValidatorStates = cb.bs.ValidatorStates
      /\ cb'.bs.NextValidatorProfiles = cb.bs.NextValidatorProfiles
  BY Zenon, <1>1 DEF ApplyEvent, IsCallback, IsBlockState
<1>4. cb'.active = cb.active
  BY <1>1, Zenon DEF ApplyEvent, IsCallback
<1>5. /\ task.stage = "none" /\ cb.es = store.es
      /\ Expelled(store.reported, cb.es, cb.bs) /\ DiskExpelled
  BY <1>1, Zenon DEF ExpelInv, DiskExpelled
<1>6. Expelled(store'.reported, cb'.es, cb'.bs)
  BY <1>2, <1>3, <1>5, Zenon DEF Expelled
<1>7. DiskExpelled' /\ ~(task'.stage \in {"internal", "execute", "publish"})
  BY Zenon, <1>2, <1>5 DEF DiskExpelled
<1> QED
  BY <1>1, <1>2, <1>3, <1>4, <1>5, <1>6, <1>7, Zenon DEF ExpelInv, DiskExpelled

LEMMA ExpelEndSkippedBlock ==
    ASSUME TypeOK, ExpelInv, EndSkippedBlock
    PROVE  ExpelInv'
<1>1. IsCallback(cb) /\ cb.active
  BY DEF EndSkippedBlock, TypeOK, IdleCb
<1>2. /\ task.stage = "none" /\ cb.es = store.es
      /\ Expelled(store.reported, cb.es, cb.bs) /\ DiskExpelled
  BY <1>1, Zenon DEF ExpelInv, DiskExpelled
<1>3. /\ store'.reported = store.reported /\ store'.es = cb.es /\ store'.bs = FinalizedBs
      /\ task' = task /\ disk' = disk /\ cb' = IdleCb
  BY Zenon DEF EndSkippedBlock, TypeOK, IsStore
<1>4. Expelled(store.reported, cb.es, FinalizedBs)
  BY Zenon, <1>1, <1>2, FinalizeExpels DEF FinalizedBs, IsCallback
<1>5. Expelled(store'.reported, store'.es, store'.bs)
  BY Zenon, <1>3, <1>4
<1>6. DiskExpelled' /\ ~cb'.active /\ ~(task'.stage \in {"internal", "execute", "publish"})
  BY Zenon, <1>2, <1>3 DEF DiskExpelled, IdleCb
<1> QED
  BY <1>5, <1>6, Zenon DEF ExpelInv, DiskExpelled

(* EndBlock takes the cheaters out of the next group before sealing puts the *)
(* group in charge.                                                          *)
LEMMA ExpelEndBlock ==
    ASSUME TypeOK, ExpelInv, EndBlock
    PROVE  ExpelInv'
<1> DEFINE block == NextBlockCtx
           sealing == EpochSealing(block, FinalizedBs, cb.es)
           bs == ExecutePreInternalTxs(FinalizedBs)
           newBs == IF sealing THEN SealEpochBs(block, bs, cb.es) ELSE bs
           newEs == IF sealing THEN SealEpochEs(block, bs, cb.es) ELSE cb.es
<1>1. IsCallback(cb) /\ cb.active
  BY DEF EndBlock, TypeOK, IdleCb
<1>2. /\ task.stage = "none" /\ cb.es = store.es
      /\ Expelled(store.reported, cb.es, cb.bs) /\ DiskExpelled
  BY <1>1, Zenon DEF ExpelInv, DiskExpelled
<1>3. IsBlockState(FinalizedBs, cb.es.Validators)
  BY Zenon, <1>1, NextBlockType
<1>4. Expelled(store.reported, cb.es, FinalizedBs)
  BY Zenon, <1>1, <1>2, FinalizeExpels DEF FinalizedBs, IsCallback
<1>5. Expelled(store.reported, cb.es, bs) /\ bs.EpochCheaters \cap bs.NextValidatorProfiles = {}
  BY Zenon, <1>3, <1>4, PreInternalExpels
<1>6. IsBlockState(bs, cb.es.Validators) /\ IsEpochState(cb.es)
  BY Zenon, <1>1, <1>3, ExecutePreInternalTxsType DEF IsCallback
<1>7. store.reported \subseteq Nat \X Validator
  BY Zenon DEF TypeOK, IsStore
<1>8. /\ task'.stage = "internal" /\ task'.bs = newBs /\ task'.es = newEs
      /\ disk' = disk /\ cb' = IdleCb
      /\ store' = IF sealing THEN [store EXCEPT !.bs = newBs, !.es = newEs] ELSE store
  BY Zenon DEF EndBlock
<1> HIDE DEF block, bs
<1>9. Expelled(store.reported, newEs, newBs)
  <2>1. Expelled(store.reported, SealEpochEs(block, bs, cb.es), SealEpochBs(block, bs, cb.es))
    BY <1>5, <1>6, <1>7, SealExpels, Zenon
  <2> HIDE DEF sealing
  <2>2. CASE sealing
    BY Zenon, <2>1, <2>2
  <2>3. CASE ~sealing
    BY Zenon, <1>5, <2>3
  <2> QED
    BY Zenon, <2>2, <2>3
<1> HIDE DEF sealing, newBs, newEs
<1>10. store'.reported = store.reported /\ store'.es = newEs
  <2>1. ~sealing => newEs = cb.es
    BY Zenon DEF newEs
  <2> QED
    BY Zenon, <1>2, <1>8, <2>1 DEF TypeOK, IsStore
<1>11. Expelled(store'.reported, task'.es, task'.bs)
  BY Zenon, <1>8, <1>9, <1>10
<1>12. /\ DiskExpelled' /\ ~cb'.active /\ task'.es = store'.es
       /\ ~(task'.stage \in {"none", "notify", "commit"})
  BY Zenon, <1>2, <1>8, <1>10 DEF DiskExpelled, IdleCb
<1> QED
  BY <1>11, <1>12, Zenon DEF ExpelInv, DiskExpelled

LEMMA ExpelExecute ==
    ASSUME TypeOK, ExpelInv, RestoresNoForker,
           StartTask \/ (\E tx \in Tx : ExecuteTx(tx) \/ OnNewReceipt(tx)) \/ SetBlock
    PROVE  ExpelInv'
<1> DEFINE Frame ==
        /\ task'.stage \in {"execute", "publish"} /\ task'.es = task.es
        /\ store'.es = store.es /\ store'.reported = store.reported
        /\ cb' = cb /\ disk' = disk
        /\ Expelled(store.reported, task.es, task'.bs)
<1>1. /\ IsTask(task) /\ task.stage \in {"internal", "execute", "publish"} /\ task.stage # "none"
      /\ ~(task.stage \in {"none", "notify", "commit"})
  <2>1. task.stage \in {"internal", "execute"}
    BY Zenon DEF StartTask, ExecuteTx, OnNewReceipt, SetBlock
  <2> QED
    BY <2>1 DEF TypeOK, NoTask
<1>2. /\ ~cb.active /\ task.es = store.es /\ DiskExpelled
      /\ Expelled(store.reported, task.es, task.bs)
  BY <1>1, Zenon DEF ExpelInv, DiskExpelled
<1>3. Frame
  <2>1. CASE StartTask
    <3>1. task'.bs = task.bs /\ task'.stage = "execute" /\ task'.es = task.es
      BY Zenon, <1>1, <2>1 DEF StartTask, IsTask
    <3> QED
      BY Zenon, <1>2, <2>1, <3>1 DEF StartTask
  <2>2. ASSUME NEW tx \in Tx, ExecuteTx(tx)
        PROVE  Frame
    <3>1. Expelled(store.reported, task.es, OnNewLog(task.bs, LogOf[tx]))
      BY Zenon, <1>1, <1>2, LogExpels DEF IsTask
    <3>2. /\ task'.bs \in {task.bs, OnNewLog(task.bs, LogOf[tx])}
          /\ task'.stage = "execute" /\ task'.es = task.es
      BY <1>1, <2>2, Zenon DEF ExecuteTx, IsTask
    <3>3. store' = store /\ cb' = cb /\ disk' = disk
      BY Zenon, <2>2 DEF ExecuteTx
    <3> QED
      BY Zenon, <1>2, <3>1, <3>2, <3>3
  <2>3. ASSUME NEW tx \in Tx, OnNewReceipt(tx)
        PROVE  Frame
    <3> DEFINE w == Creator[FirstEvent(tx, task.events)]
               states == task.bs.ValidatorStates
               refunded == [states[w] EXCEPT !.DirtyGasRefund = @ + NotUsedGas[tx]]
               bs == IF w \in task.es.Validators
                     THEN [task.bs EXCEPT !.ValidatorStates = [states EXCEPT ![w] = refunded]]
                     ELSE task.bs
    <3>1. /\ task' = [task EXCEPT !.receipts = @ \ {tx}, !.bs = bs]
          /\ task.stage = "execute" /\ store' = store /\ cb' = cb /\ disk' = disk
      BY <2>3, Zenon DEF OnNewReceipt
    <3>2. /\ DOMAIN states = task.es.Validators
          /\ \A v \in DOMAIN states : states[v] \in ValidatorBlockState
      BY Zenon, <1>1 DEF IsTask, IsBlockState
    <3>3. w \in DOMAIN states => refunded.Cheater = states[w].Cheater
      BY Zenon, <3>2 DEF ValidatorBlockState
    <3> HIDE DEF w, refunded
    <3>4. /\ bs.EpochCheaters = task.bs.EpochCheaters
          /\ bs.NextValidatorProfiles = task.bs.NextValidatorProfiles
          /\ DOMAIN bs.ValidatorStates = DOMAIN states
          /\ \A v \in DOMAIN states : bs.ValidatorStates[v].Cheater = states[v].Cheater
      BY Zenon, <1>1, <3>2, <3>3 DEF IsTask, IsBlockState
    <3> HIDE DEF bs
    <3>5. Expelled(store.reported, task.es, bs)
      BY <1>2, <3>4, Zenon DEF Expelled
    <3>6. task'.stage = task.stage /\ task'.es = task.es /\ task'.bs = bs
      BY Zenon, <1>1, <3>1 DEF IsTask
    <3> QED
      BY Zenon, <3>1, <3>5, <3>6
  <2>4. CASE SetBlock
    <3>1. task'.bs = task.bs /\ task'.stage = "publish" /\ task'.es = task.es
      BY Zenon, <1>1, <2>4 DEF SetBlock, IsTask
    <3>2. /\ store'.es = store.es /\ store'.reported = store.reported
          /\ cb' = cb /\ disk' = disk
      BY Zenon, <2>4 DEF SetBlock, TypeOK, IsStore
    <3> QED
      BY Zenon, <1>2, <3>1, <3>2
  <2> QED
    BY Zenon, <2>1, <2>2, <2>3, <2>4
<1>4. /\ Expelled(store'.reported, task'.es, task'.bs) /\ task'.es = store'.es
      /\ ~cb'.active /\ DiskExpelled' /\ ~(task'.stage \in {"none", "notify", "commit"})
  BY Zenon, <1>2, <1>3 DEF DiskExpelled
<1> QED
  BY <1>4, Zenon DEF ExpelInv, DiskExpelled

LEMMA ExpelSetBlockEpochState ==
    ASSUME TypeOK, ExpelInv, SetBlockEpochState
    PROVE  ExpelInv'
<1>1. /\ IsTask(task) /\ task.stage \in {"internal", "execute", "publish"} /\ task.stage # "none"
  BY DEF SetBlockEpochState, TypeOK, NoTask
<1>2. /\ task'.stage = "notify" /\ cb' = cb /\ disk' = disk
      /\ store'.bs.EpochCheaters = task.bs.EpochCheaters
      /\ store'.bs.ValidatorStates = task.bs.ValidatorStates
      /\ store'.bs.NextValidatorProfiles = task.bs.NextValidatorProfiles
      /\ store'.es = task.es /\ store'.reported = store.reported
  BY <1>1, Zenon DEF SetBlockEpochState, TypeOK, IsStore, IsTask, IsBlockState
<1>3. ~cb.active /\ DiskExpelled /\ Expelled(store.reported, task.es, task.bs)
  BY <1>1, Zenon DEF ExpelInv, DiskExpelled
<1>4. Expelled(store'.reported, store'.es, store'.bs)
  BY <1>2, <1>3, Zenon DEF Expelled
<1>5. /\ ~cb'.active /\ DiskExpelled' /\ ~(task'.stage \in {"internal", "execute", "publish"})
  BY Zenon, <1>2, <1>3 DEF DiskExpelled
<1> QED
  BY <1>4, <1>5, Zenon DEF ExpelInv, DiskExpelled

LEMMA ExpelFinish ==
    ASSUME TypeOK, ExpelInv,
           NotifyNewBlock \/ CommitEVM \/ ClearBusyFlag \/ Commit \/ Crash
    PROVE  ExpelInv'
<1>1. CASE NotifyNewBlock \/ CommitEVM
  <2>1. /\ task.stage \in {"none", "notify", "commit"} /\ task.stage # "none"
        /\ ~(task'.stage \in {"internal", "execute", "publish"}) /\ cb' = cb /\ disk' = disk
        /\ store'.bs = store.bs /\ store'.es = store.es /\ store'.reported = store.reported
    <3>1. CASE NotifyNewBlock
      BY Zenon, <3>1 DEF NotifyNewBlock, TypeOK, NoTask, IsTask
    <3>2. CASE CommitEVM
      BY Zenon, <3>2 DEF CommitEVM, TypeOK, IsStore, NoTask
    <3> QED
      BY Zenon, <1>1, <3>1, <3>2
  <2>2. ~cb.active /\ Expelled(store.reported, store.es, store.bs) /\ DiskExpelled
    BY <2>1, Zenon DEF ExpelInv, DiskExpelled
  <2>3. ~cb'.active /\ Expelled(store'.reported, store'.es, store'.bs) /\ DiskExpelled'
    BY Zenon, <2>1, <2>2 DEF DiskExpelled
  <2> QED
    BY <2>1, <2>3, Zenon DEF ExpelInv, DiskExpelled
<1>2. CASE ClearBusyFlag
  BY Zenon, <1>2 DEF ClearBusyFlag, ExpelInv
<1>3. CASE Commit
  <2>1. /\ ~cb.active /\ task.stage = "none" /\ disk'.store = store
        /\ store' = store /\ cb' = cb /\ task' = task
    BY Zenon, <1>3 DEF Commit, WaitBlockEnd
  <2>2. Expelled(store.reported, store.es, store.bs)
    BY <2>1, Zenon DEF ExpelInv
  <2>3. ~(task'.stage \in {"internal", "execute", "publish"})
    BY Zenon, <2>1
  <2> QED
    BY <2>1, <2>2, <2>3, Zenon DEF ExpelInv
<1>4. CASE Crash
  <2>1. /\ ~cb'.active /\ ~(task'.stage \in {"internal", "execute", "publish"})
        /\ disk' = disk /\ store' = disk.store
    BY Zenon, <1>4 DEF Crash, IdleCb, NoTask
  <2>2. Expelled(disk.store.reported, disk.store.es, disk.store.bs)
    BY Zenon DEF ExpelInv
  <2> QED
    BY <2>1, <2>2, Zenon DEF ExpelInv
<1> QED
  BY Zenon, <1>1, <1>2, <1>3, <1>4

(* ExpelInv holds in every reachable state, if the contract keeps forkers    *)
(* out.                                                                      *)
LEMMA ExpelInvariant ==
    ASSUME RestoresNoForker
    PROVE  Spec => []ExpelInv
<1>1. TypeOK /\ ExpelInv /\ [Next]_vars => ExpelInv'
  <2> SUFFICES ASSUME TypeOK, ExpelInv, [Next]_vars PROVE ExpelInv'
    BY Zenon
  <2>1. CASE Engine
    BY Zenon, <2>1, ExpelBeginBlock, ExpelApplyEvent, ExpelEndSkippedBlock, ExpelEndBlock DEF Engine
  <2>2. CASE BlockFn
    BY Zenon, <2>2, RestoresNoForker, ExpelExecute, ExpelSetBlockEpochState, ExpelFinish DEF BlockFn
  <2>3. CASE ClearBusyFlag \/ Commit \/ Crash
    BY Zenon, <2>3, ExpelFinish
  <2>4. CASE UNCHANGED vars
    BY Zenon, <2>4 DEF vars, ExpelInv
  <2> QED
    BY Zenon, <2>1, <2>2, <2>3, <2>4 DEF Next, Step
<1> QED
  BY <1>1, ExpelInit, TypeCorrect, PTL DEF Spec

(* Every cheater the engine reported in an epoch is handed to the driver     *)
(* contract by its end, and is in no validators group after that, whatever   *)
(* the rules, the other logs of the contract, skipped frames and crashes     *)
(* (EndBlock, PopInternalTxs, OnNewLog, SealEpoch).  That the contract       *)
(* itself does not give a forker a weight again is assumed.                  *)
THEOREM CheatersDealtWith ==
    ASSUME RestoresNoForker
    PROVE  Spec => []CheatersAreDealtWith
<1>1. TypeOK /\ ExpelInv => CheatersAreExpelled
  <2> SUFFICES ASSUME TypeOK, ExpelInv, NEW r \in store.reported, r[1] < store.es.Epoch
               PROVE  r[2] \notin store.es.Validators
    BY Zenon DEF CheatersAreExpelled
  <2>1. CASE cb.active
    BY <2>1, Zenon DEF ExpelInv, Expelled
  <2>2. CASE task.stage \in {"internal", "execute", "publish"}
    BY <2>2, Zenon DEF ExpelInv, Expelled
  <2>3. CASE ~cb.active /\ task.stage \in {"none", "notify", "commit"}
    BY <2>3, Zenon DEF ExpelInv, Expelled
  <2>4. task.stage \in {"none"} \cup Stage
    BY DEF TypeOK, IsTask, NoTask
  <2> QED
    BY Zenon, <2>1, <2>2, <2>3, <2>4 DEF Stage
<1>2. NoCheaterEscapes /\ CheatersAreExpelled => CheatersAreDealtWith
  BY Zenon DEF CheatersAreDealtWith
<1> QED
  BY <1>1, <1>2, TypeCorrect, ExpelInvariant, CheatersPunished, PTL

=============================================================================
