------------------------------ MODULE BlockProc ------------------------------
(***************************************************************************)
(* Block processing of gossip/c_block_callbacks.go together with the       *)
(* block-processing modules it calls (eventmodule, sealmodule,             *)
(* drivermodule, evmmodule) and the part of the gossip store they write.   *)
(*                                                                         *)
(* The consensus engine elects an Atropos and calls BeginBlock, then       *)
(* ApplyEvent for every newly confirmed event, then EndBlock.  EndBlock    *)
(* either skips the frame or starts a block; the rest of the block         *)
(* (blockFn) runs on a worker while the engine goes on.  The three actors  *)
(* are the engine (variable cb), the worker (variable task) and a crash.   *)
(***************************************************************************)
EXTENDS Integers, FiniteSets, FiniteSetsExt

CONSTANTS
    Validator,          \* validator IDs
    Event,              \* events of the DAG the engine may confirm
    Tx,                 \* transactions carried by events
    NoEvent,            \* the zero hash.Event
    GenesisAtropos,     \* ID of the genesis block
    Creator, Seq, EpochOf, MedianTime, GasPowerUsed, Lamport, Txs,
                        \* fields of an event; Lamport is its rank in hash.OrderedEvents
    Fee, NotUsedGas,    \* fee and unused gas of a transaction's receipt
    LogOf,              \* the driver contract's log a transaction emits
    Rules,              \* network rules that governance may put in force
    Forker,             \* validators that sign two events of one sequence number
    GenesisValidators, GenesisRules, GenesisTime,
    MaxAdvanceEpochs    \* maxAdvanceEpochs of driver_txs.go

NoLog == [type |-> "none"]

Log ==
    {NoLog}
    \cup [type : {"UpdateValidatorWeight"}, validator : Validator, weight : Nat]
    \cup [type : {"UpdateNetworkRules"}, rules : Rules]
    \cup [type : {"AdvanceEpochs"}, epochs : Nat]

ASSUME ConstantsAssumption ==
    /\ NoEvent \notin Event /\ GenesisAtropos \notin Event
    /\ Creator \in [Event -> Validator]
    /\ Seq \in [Event -> Nat \ {0}]
    /\ EpochOf \in [Event -> Nat]
    /\ MedianTime \in [Event -> Nat]
    /\ GasPowerUsed \in [Event -> Nat]
    /\ Lamport \in [Event -> Nat]
    /\ \A e, f \in Event : Lamport[e] = Lamport[f] => e = f
    /\ Txs \in [Event -> SUBSET Tx]
    /\ Fee \in [Tx -> Nat] /\ NotUsedGas \in [Tx -> Nat]
    /\ \A tx \in Tx : LogOf[tx] \in Log
    /\ GenesisValidators \subseteq Validator /\ GenesisRules \in Rules
    /\ GenesisTime \in Nat /\ MaxAdvanceEpochs \in Nat
    /\ \A r \in Rules :
         /\ r.MaxEpochGas \in Nat /\ r.MaxEpochDuration \in Nat
         /\ r.MaxEmptyBlockSkipPeriod \in Nat /\ r.BlockMissedSlack \in Nat
         /\ r.MaxBlockGas \in Nat /\ r.Berlin \in BOOLEAN

VARIABLES
    store,      \* what the gossip store answers: published states, blocks, indexes
    originated, \* the big.Int every copy of a validator's state points to
    cb,         \* the engine's side: the callbacks' closure
    task,       \* the worker's side: blockFn and what it captured
    busy,       \* blockBusyFlag
    unflag,     \* the worker has yet to run its deferred reset of blockBusyFlag
    notified,   \* index of the last block sent to the feeds
    disk        \* store and originated at the last Store.Commit

vars == <<store, originated, cb, task, busy, unflag, notified, disk>>

-----------------------------------------------------------------------------
(* Types of decided_state.go.  LastGasPowerLeft is a function of LastEvent   *)
(* and the public keys in a profile decide nothing here: both are left out.  *)

BlockCtx == [Idx : Nat, Time : Nat, Atropos : Event \cup {NoEvent}]

ValidatorBlockState ==
    [Cheater : BOOLEAN, LastEvent : Event \cup {NoEvent}, Uptime : Nat,
     LastOnlineTime : Nat, LastBlock : Nat, DirtyGasRefund : Nat]

ValidatorEpochState == [GasRefund : Nat, PrevEpochEvent : Event \cup {NoEvent}]

(* FinalizedStateRoot stands for the EVM state it is the hash of, abstracted *)
(* to the set of transactions executed in it.                                *)
IsBlockState(bs, validators) ==
    bs \in [LastBlock : BlockCtx, FinalizedStateRoot : SUBSET Tx,
            EpochGas : Nat, EpochCheaters : SUBSET validators,
            ValidatorStates : [validators -> ValidatorBlockState],
            NextValidatorProfiles : SUBSET Validator, DirtyRules : Rules,
            AdvanceEpochs : 0..MaxAdvanceEpochs]

IsEpochState(es) ==
    /\ es.Validators \subseteq Validator
    /\ es \in [Epoch : Nat, EpochStart : Nat, PrevEpochStart : Nat,
               EpochStateRoot : SUBSET Tx, Validators : SUBSET Validator,
               ValidatorStates : [es.Validators -> ValidatorEpochState],
               Rules : Rules]

(* NewValidatorBlockState is the state of a validator that was not in the    *)
(* previous epoch.                                                           *)
NewValidatorBlockState(block) ==
    [Cheater |-> FALSE, LastEvent |-> NoEvent, Uptime |-> 0,
     LastOnlineTime |-> block.Time, LastBlock |-> block.Idx, DirtyGasRefund |-> 0]

MaxOf(a, b) == IF a > b THEN a ELSE b
MinOf(a, b) == IF a < b THEN a ELSE b

-----------------------------------------------------------------------------
(* eventmodule: ValidatorEventsProcessor                                     *)

(* Mutant: the last event applied wins, whatever its sequence number. *)
LastAppliedEvent(prev, e) == e

(* HigherEvent keeps the event of the highest sequence number, the first one *)
(* applied among equals.                                                     *)
HigherEvent(prev, e) ==
    IF prev = NoEvent THEN e ELSE IF Seq[e] > Seq[prev] THEN e ELSE prev

(* Online is the state of a validator whose highest event of the block is e. *)
Online(info, e, es, block) ==
    LET prevOnlineTime == IF es.Rules.Berlin THEN MaxOf(info.LastOnlineTime, es.EpochStart)
                          ELSE info.LastOnlineTime
        counted == block.Idx <= info.LastBlock + es.Rules.BlockMissedSlack
                   /\ MedianTime[e] > prevOnlineTime
    IN  [Cheater        |-> info.Cheater,
         LastEvent      |-> e,
         Uptime         |-> IF counted THEN info.Uptime + (MedianTime[e] - prevOnlineTime)
                            ELSE info.Uptime,
         LastOnlineTime |-> MedianTime[e],
         LastBlock      |-> block.Idx,
         DirtyGasRefund |-> info.DirtyGasRefund]

FinalizeEvents(bs, es, highest, block) ==
    [bs EXCEPT !.ValidatorStates =
        [v \in es.Validators |->
            IF v \in bs.EpochCheaters \/ highest[v] = NoEvent THEN bs.ValidatorStates[v]
            ELSE Online(bs.ValidatorStates[v], highest[v], es, block)]]

-----------------------------------------------------------------------------
(* sealmodule: SkyhighEpochsSealer                                           *)

EpochSealing(block, bs, es) ==
    \/ bs.EpochGas >= es.Rules.MaxEpochGas
    \/ block.Time - es.EpochStart >= es.Rules.MaxEpochDuration
    \/ bs.AdvanceEpochs > 0
    \/ bs.EpochCheaters # {}

SealedValidatorState(block, bs, es, v) ==
    IF v \in es.Validators
    THEN [bs.ValidatorStates[v] EXCEPT !.DirtyGasRefund = 0, !.Uptime = 0]
    ELSE NewValidatorBlockState(block)

SealedEpochState(bs, es, v) ==
    IF v \in es.Validators
    THEN [GasRefund |-> bs.ValidatorStates[v].DirtyGasRefund,
          PrevEpochEvent |-> bs.ValidatorStates[v].LastEvent]
    ELSE [GasRefund |-> 0, PrevEpochEvent |-> NoEvent]

(* Mutant: sealing does not rebuild the validators' table. *)
SealEpochBsKeepsStates(block, bs, es) ==
    [bs EXCEPT !.EpochGas = 0, !.EpochCheaters = {},
               !.AdvanceEpochs = IF @ > 0 THEN @ - 1 ELSE @]

(* Mutant: sealing does not reset the epoch's gas. *)
SealEpochBsKeepsGas(block, bs, es) ==
    [bs EXCEPT !.ValidatorStates = [v \in bs.NextValidatorProfiles |->
                                        SealedValidatorState(block, bs, es, v)],
               !.EpochCheaters = {},
               !.AdvanceEpochs = IF @ > 0 THEN @ - 1 ELSE @]

SealEpochBs(block, bs, es) ==
    [bs EXCEPT !.ValidatorStates = [v \in bs.NextValidatorProfiles |->
                                        SealedValidatorState(block, bs, es, v)],
               !.EpochGas = 0,
               !.EpochCheaters = {},
               !.AdvanceEpochs = IF @ > 0 THEN @ - 1 ELSE @]

SealEpochEs(block, bs, es) ==
    [Epoch           |-> es.Epoch + 1,
     EpochStart      |-> block.Time,
     PrevEpochStart  |-> es.EpochStart,
     EpochStateRoot  |-> bs.FinalizedStateRoot,
     Validators      |-> bs.NextValidatorProfiles,
     ValidatorStates |-> [v \in bs.NextValidatorProfiles |-> SealedEpochState(bs, es, v)],
     Rules           |-> bs.DirtyRules]

-----------------------------------------------------------------------------
(* drivermodule: DriverTxPreTransactor and DriverTxListener                  *)

(* Mutant: the Cheater flag is read the wrong way round. *)
DeactivateAgain(bs) == {v \in bs.EpochCheaters : bs.ValidatorStates[v].Cheater}

(* Cheaters the driver contract has not been told of yet.                    *)
ToDeactivate(bs) == {v \in bs.EpochCheaters : ~bs.ValidatorStates[v].Cheater}

(* The driver contract answers DeactivateValidator with an                   *)
(* UpdateValidatorWeight log of weight 0, which OnNewLog applies.            *)
ExecutePreInternalTxs(bs) ==
    LET states == bs.ValidatorStates IN
    [bs EXCEPT !.ValidatorStates =
                   [v \in DOMAIN states |->
                       [states[v] EXCEPT !.Cheater = @ \/ v \in bs.EpochCheaters]],
               !.NextValidatorProfiles = @ \ ToDeactivate(bs)]

(* Mutant: an uptime since before the epoch's start is reported. *)
EpochMetricIgnoresStart(info, es, block) ==
    [BlocksNum |-> 0, Period |-> 0,
     Uptime |-> info.Uptime + (MaxOf(block.Time, info.LastOnlineTime) - info.LastOnlineTime)]

(* ValidatorEpochMetric: what SealEpoch reports about one validator.         *)
EpochMetric(info, es, block) ==
    LET missedBlocks == MaxOf(block.Idx, info.LastBlock) - info.LastBlock
        forgiven == missedBlocks <= es.Rules.BlockMissedSlack
        prevOnlineTime == MaxOf(info.LastOnlineTime, es.EpochStart)
    IN  [BlocksNum |-> IF forgiven THEN 0 ELSE missedBlocks,
         Period    |-> IF forgiven THEN 0
                       ELSE MaxOf(block.Time, info.LastOnlineTime) - info.LastOnlineTime,
         Uptime    |-> IF forgiven
                       THEN info.Uptime + (MaxOf(block.Time, prevOnlineTime) - prevOnlineTime)
                       ELSE info.Uptime]

OnNewLog(bs, l) ==
    CASE l.type = "UpdateValidatorWeight" ->
           [bs EXCEPT !.NextValidatorProfiles =
               IF l.weight = 0 THEN @ \ {l.validator} ELSE @ \cup {l.validator}]
      [] l.type = "UpdateNetworkRules" -> [bs EXCEPT !.DirtyRules = l.rules]
      [] l.type = "AdvanceEpochs" ->
           [bs EXCEPT !.AdvanceEpochs = MinOf(@ + l.epochs, MaxAdvanceEpochs)]
      [] OTHER -> bs

-----------------------------------------------------------------------------
(* gossip/apply_genesis.go: the state the node starts from.                  *)

GenesisCtx == [Idx |-> 1, Time |-> GenesisTime, Atropos |-> NoEvent]

GenesisStore ==
    [bs |-> [LastBlock |-> GenesisCtx, FinalizedStateRoot |-> {}, EpochGas |-> 0,
             EpochCheaters |-> {},
             ValidatorStates |-> [v \in GenesisValidators |-> NewValidatorBlockState(GenesisCtx)],
             NextValidatorProfiles |-> GenesisValidators, DirtyRules |-> GenesisRules,
             AdvanceEpochs |-> 0],
     es |-> [Epoch |-> 1, EpochStart |-> GenesisTime, PrevEpochStart |-> 0,
             EpochStateRoot |-> {}, Validators |-> GenesisValidators,
             ValidatorStates |-> [v \in GenesisValidators |->
                                     [GasRefund |-> 0, PrevEpochEvent |-> NoEvent]],
             Rules |-> GenesisRules],
     blocks |-> [i \in {1} |-> [Time |-> GenesisTime, Atropos |-> GenesisAtropos,
                                Events |-> {}, Spilled |-> {}, Root |-> {},
                                Deactivated |-> {}]],
     blockIndex |-> [a \in {GenesisAtropos} |-> 1],
     evmRoot |-> {},
     confirmed |-> {},
     reported |-> {}]

IdleCb == [active |-> FALSE]
NoTask == [stage |-> "none"]
ZeroOriginated == [v \in Validator |-> 0]

Init ==
    /\ store = GenesisStore
    /\ originated = ZeroOriginated
    /\ cb = IdleCb
    /\ task = NoTask
    /\ busy = FALSE
    /\ unflag = FALSE
    /\ notified = 0
    /\ disk = [store |-> GenesisStore, originated |-> ZeroOriginated]

-----------------------------------------------------------------------------
(* The engine's callbacks.                                                   *)

(* WaitBlockEnd: blockProcWg.Wait() returns when no blockFn is left running. *)
WaitBlockEnd == task.stage = "none"

(* The events an Atropos newly confirms: none when a previous Atropos has    *)
(* confirmed it, otherwise itself and a set of unconfirmed events closed     *)
(* under the self-parent relation.                                           *)
IsCone(atropos, cone) ==
    IF atropos \in store.confirmed THEN cone = {}
    ELSE /\ atropos \in cone
         /\ \A e \in cone :
              /\ EpochOf[e] = store.es.Epoch /\ Creator[e] \in store.es.Validators
              /\ e \notin store.confirmed
              /\ \A f \in Event :
                   /\ Creator[f] = Creator[e] /\ EpochOf[f] = EpochOf[e]
                   /\ Seq[f] < Seq[e] /\ Creator[f] \notin Forker
                   => f \in cone \cup store.confirmed

MergeCheaters(a, b) == a \cup b

(* BeginBlock copies the published states and merges the Atropos' cheaters.  *)
BeginBlock(atropos, cheaters, cone) ==
    /\ ~cb.active
    /\ WaitBlockEnd
    /\ EpochOf[atropos] = store.es.Epoch /\ Creator[atropos] \in store.es.Validators
    /\ cheaters \subseteq store.es.Validators
    /\ IsCone(atropos, cone)
    /\ cb' = [active |-> TRUE, atropos |-> atropos, cheaters |-> cheaters,
              bs |-> [store.bs EXCEPT !.EpochCheaters = MergeCheaters(@, cheaters)],
              es |-> store.es,
              atroposTime |-> store.bs.LastBlock.Time + 1,
              degenerate |-> TRUE,
              confirmedEvents |-> {},
              highest |-> [v \in store.es.Validators |-> NoEvent],
              cone |-> cone]
    /\ store' = [store EXCEPT !.reported = @ \cup {<<store.es.Epoch, v>> : v \in cheaters}]
    /\ UNCHANGED <<originated, task, busy, unflag, notified, disk>>

ApplyEvent(e) ==
    /\ cb.active
    /\ e \in cb.cone
    /\ cb' = [cb EXCEPT !.atroposTime = IF e = cb.atropos THEN MedianTime[e] ELSE @,
                        !.degenerate = @ /\ e # cb.atropos,
                        !.confirmedEvents = IF Txs[e] = {} THEN @ ELSE @ \cup {e},
                        !.highest = [cb.highest EXCEPT ![Creator[e]] = HigherEvent(@, e)],
                        !.bs = [cb.bs EXCEPT !.EpochGas = @ + GasPowerUsed[e]],
                        !.cone = @ \ {e}]
    /\ store' = [store EXCEPT !.confirmed = @ \cup {e}]
    /\ UNCHANGED <<originated, task, busy, unflag, notified, disk>>

(* Mutant: the median time is taken as it is. *)
MedianBlockTime == cb.atroposTime

(* The block EndBlock would create.                                          *)
BlockTime == IF cb.atroposTime <= cb.bs.LastBlock.Time THEN cb.bs.LastBlock.Time + 1
             ELSE cb.atroposTime

NextBlockCtx == [Idx |-> cb.bs.LastBlock.Idx + 1, Time |-> BlockTime, Atropos |-> cb.atropos]

(* Mutant: events do not make a block non-empty. *)
NoCheatersBlock == cb.cheaters = {}

EmptyBlock == cb.confirmedEvents = {} /\ cb.cheaters = {}

(* Mutant: an Atropos confirmed before makes a block again. *)
SkipOnlyEmptyBlock ==
    EmptyBlock /\ BlockTime < cb.bs.LastBlock.Time + cb.es.Rules.MaxEmptyBlockSkipPeriod

SkipBlock ==
    \/ cb.degenerate
    \/ EmptyBlock
       /\ BlockTime < cb.bs.LastBlock.Time + cb.es.Rules.MaxEmptyBlockSkipPeriod

FinalizedBs == FinalizeEvents(cb.bs, cb.es, cb.highest, NextBlockCtx)

(* Mutant: the block state is not saved when the frame is skipped. *)
EndSkippedBlockUnsaved ==
    /\ cb.active
    /\ cb.cone = {}
    /\ SkipBlock
    /\ cb' = IdleCb
    /\ UNCHANGED <<store, originated, task, busy, unflag, notified, disk>>

(* EndBlock of a skipped frame only saves the block state.                   *)
EndSkippedBlock ==
    /\ cb.active
    /\ cb.cone = {}
    /\ SkipBlock
    /\ store' = [store EXCEPT !.bs = FinalizedBs, !.es = cb.es]
    /\ cb' = IdleCb
    /\ UNCHANGED <<originated, task, busy, unflag, notified, disk>>

(* EndBlock of any other frame: pre-internal transactions, epoch sealing,    *)
(* and blockFn handed to the worker, or run in place if there are no         *)
(* transactions.  newcomers get a fresh Originated counter.                  *)
EndBlock ==
    LET block == NextBlockCtx
        sealing == EpochSealing(block, FinalizedBs, cb.es)
        bs == ExecutePreInternalTxs(FinalizedBs)
        newBs == IF sealing THEN SealEpochBs(block, bs, cb.es) ELSE bs
        newEs == IF sealing THEN SealEpochEs(block, bs, cb.es) ELSE cb.es
        newcomers == newEs.Validators \ cb.es.Validators
        async == cb.confirmedEvents # {}
    IN  /\ cb.active
        /\ cb.cone = {}
        /\ ~SkipBlock
        /\ store' = IF sealing THEN [store EXCEPT !.bs = newBs, !.es = newEs] ELSE store
        /\ originated' = [v \in Validator |-> IF v \in newcomers THEN 0 ELSE originated[v]]
        /\ task' = [stage |-> "internal", async |-> async, block |-> block,
                    bs |-> newBs, es |-> newEs,
                    deactivated |-> ToDeactivate(FinalizedBs),
                    metrics |-> IF sealing
                                THEN [v \in cb.es.Validators |->
                                         EpochMetric(FinalizedBs.ValidatorStates[v], cb.es, block)]
                                ELSE [v \in {} |-> 0],
                    confirmedEvents |-> cb.confirmedEvents, events |-> {},
                    txs |-> {}, receipts |-> {}, root |-> bs.FinalizedStateRoot]
        /\ busy' = (busy \/ async)
        /\ cb' = IdleCb
        /\ UNCHANGED <<unflag, notified, disk>>

-----------------------------------------------------------------------------
(* blockFn, step by step.  A queued task starts when the single worker is    *)
(* done with the previous one.                                               *)

(* spillBlockEvents keeps the last events whose gas fits into MaxBlockGas.   *)
SpillBlockEvents(events, rules) ==
    {e \in events :
        MapThenSumSet(LAMBDA f : GasPowerUsed[f], {f \in events : Lamport[f] >= Lamport[e]})
            <= rules.MaxBlockGas}

(* The event a transaction is attributed to: the first ordered one of the    *)
(* block that carries it.                                                    *)
FirstEvent(tx, events) ==
    CHOOSE e \in events : tx \in Txs[e] /\ \A f \in events : tx \in Txs[f] => Lamport[e] <= Lamport[f]

(* Transactions are executed, and their receipts handled, in block order.    *)
IsFirst(tx, txs, events) ==
    tx \in txs
    /\ \A u \in txs : Lamport[FirstEvent(tx, events)] <= Lamport[FirstEvent(u, events)]

StartTask ==
    LET events == SpillBlockEvents(task.confirmedEvents, task.es.Rules)
    IN  /\ task.stage = "internal"
        /\ task.async => ~unflag
        /\ task' = [task EXCEPT !.stage = "execute", !.events = events,
                                !.txs = UNION {Txs[e] : e \in events}]
        /\ UNCHANGED <<store, originated, cb, busy, unflag, notified, disk>>

(* A transaction is executed, unless the EVM state rules it out, or skipped. *)
ExecuteTx(tx) ==
    /\ task.stage = "execute"
    /\ IsFirst(tx, task.txs, task.events)
    /\ \/ /\ tx \notin task.root
          /\ task' = [task EXCEPT !.txs = @ \ {tx}, !.root = @ \cup {tx},
                                  !.receipts = @ \cup {tx},
                                  !.bs = OnNewLog(@, LogOf[tx])]
       \/ task' = [task EXCEPT !.txs = @ \ {tx}]
    /\ UNCHANGED <<store, originated, cb, busy, unflag, notified, disk>>

(* OnNewReceipt adds the fee to the originator's counter in place.           *)
OnNewReceipt(tx) ==
    LET originator == Creator[FirstEvent(tx, task.events)]
        states == task.bs.ValidatorStates
        refunded == [states[originator] EXCEPT !.DirtyGasRefund = @ + NotUsedGas[tx]]
        known == originator \in task.es.Validators
    IN  /\ task.stage = "execute"
        /\ task.txs = {}
        /\ IsFirst(tx, task.receipts, task.events)
        /\ originated' = IF known THEN [originated EXCEPT ![originator] = @ + Fee[tx]]
                         ELSE originated
        /\ task' = [task EXCEPT
                      !.receipts = @ \ {tx},
                      !.bs = IF known
                             THEN [task.bs EXCEPT !.ValidatorStates =
                                     [states EXCEPT ![originator] = refunded]]
                             ELSE task.bs]
        /\ UNCHANGED <<store, cb, busy, unflag, notified, disk>>

SetBlock ==
    LET idx == task.block.Idx
        block == [Time |-> task.block.Time, Atropos |-> task.block.Atropos,
                  Events |-> task.events, Spilled |-> task.confirmedEvents \ task.events,
                  Root |-> task.root, Deactivated |-> task.deactivated]
    IN  /\ task.stage = "execute"
        /\ task.txs = {}
        /\ task.receipts = {}
        /\ store' = [store EXCEPT
                !.blocks = [i \in DOMAIN store.blocks \cup {idx} |->
                              IF i = idx THEN block ELSE store.blocks[i]],
                !.blockIndex = [a \in DOMAIN store.blockIndex \cup {block.Atropos} |->
                                  IF a = block.Atropos THEN idx ELSE store.blockIndex[a]]]
        /\ task' = [task EXCEPT !.stage = "publish"]
        /\ UNCHANGED <<originated, cb, busy, unflag, notified, disk>>

(* Mutant: the feeds are not notified of blocks that seal an epoch. *)
SetBlockEpochStateSilent ==
    /\ task.stage = "publish"
    /\ store' = [store EXCEPT !.bs = [task.bs EXCEPT !.LastBlock = task.block,
                                                     !.FinalizedStateRoot = task.root],
                              !.es = task.es]
    /\ task' = [task EXCEPT !.stage = IF DOMAIN task.metrics = {} THEN "notify" ELSE "commit"]
    /\ UNCHANGED <<originated, cb, busy, unflag, notified, disk>>

SetBlockEpochState ==
    /\ task.stage = "publish"
    /\ store' = [store EXCEPT !.bs = [task.bs EXCEPT !.LastBlock = task.block,
                                                     !.FinalizedStateRoot = task.root],
                              !.es = task.es]
    /\ task' = [task EXCEPT !.stage = "notify"]
    /\ UNCHANGED <<originated, cb, busy, unflag, notified, disk>>

NotifyNewBlock ==
    /\ task.stage = "notify"
    /\ notified' = task.block.Idx
    /\ task' = [task EXCEPT !.stage = "commit"]
    /\ UNCHANGED <<store, originated, cb, busy, unflag, disk>>

(* Mutant: the worker forgets to clear blockBusyFlag. *)
CommitEVMKeepsFlag ==
    /\ task.stage = "commit"
    /\ store' = [store EXCEPT !.evmRoot = store.bs.FinalizedStateRoot]
    /\ task' = NoTask
    /\ UNCHANGED <<originated, cb, busy, unflag, notified, disk>>

(* commitEVM and the end of blockFn; wg.Done runs before the other deferred  *)
(* call, which clears blockBusyFlag.                                         *)
CommitEVM ==
    /\ task.stage = "commit"
    /\ store' = [store EXCEPT !.evmRoot = store.bs.FinalizedStateRoot]
    /\ task' = NoTask
    /\ unflag' = (unflag \/ task.async)
    /\ UNCHANGED <<originated, cb, busy, notified, disk>>

ClearBusyFlag ==
    /\ unflag
    /\ unflag' = FALSE
    /\ busy' = FALSE
    /\ UNCHANGED <<store, originated, cb, task, notified, disk>>

-----------------------------------------------------------------------------
(* Mutant: Commit does not wait for blockFn. *)
CommitWithoutWaiting ==
    /\ ~cb.active
    /\ disk' = [store |-> store, originated |-> originated]
    /\ UNCHANGED <<store, originated, cb, task, busy, unflag, notified>>

(* Store.Commit, called by processEvent and Stop after blockProcWg.Wait().   *)
Commit ==
    /\ ~cb.active
    /\ WaitBlockEnd
    /\ disk' = [store |-> store, originated |-> originated]
    /\ UNCHANGED <<store, originated, cb, task, busy, unflag, notified>>

(* A crash loses everything since the last Commit; the node then restarts.   *)
Crash ==
    /\ store' = disk.store
    /\ originated' = disk.originated
    /\ cb' = IdleCb
    /\ task' = NoTask
    /\ busy' = FALSE
    /\ unflag' = FALSE
    /\ notified' = 0
    /\ UNCHANGED disk

Engine ==
    \/ \E atropos \in Event, cheaters \in SUBSET Forker,
          cone \in SUBSET {e \in Event : EpochOf[e] = store.es.Epoch} :
            BeginBlock(atropos, cheaters, cone)
    \/ \E e \in Event : ApplyEvent(e)
    \/ EndSkippedBlock
    \/ EndBlock

BlockFn ==
    \/ StartTask
    \/ \E tx \in Tx : ExecuteTx(tx) \/ OnNewReceipt(tx)
    \/ SetBlock
    \/ SetBlockEpochState
    \/ NotifyNewBlock
    \/ CommitEVM

Step == Engine \/ BlockFn \/ ClearBusyFlag

Next == Step \/ Commit \/ Crash

Spec == Init /\ [][Next]_vars

(* blockFn and the deferred reset run on goroutines the Go scheduler does    *)
(* not starve.  Whether the engine finds another Atropos is not assumed.     *)
Fairness == WF_vars(BlockFn) /\ WF_vars(ClearBusyFlag)

FairSpec == Spec /\ Fairness

-----------------------------------------------------------------------------
(* Properties.                                                               *)

IsBlock(b) ==
    b \in [Time : Nat, Atropos : Event \cup {GenesisAtropos}, Events : SUBSET Event,
           Spilled : SUBSET Event, Root : SUBSET Tx, Deactivated : SUBSET Validator]

IsStore(s) ==
    /\ s = [bs |-> s.bs, es |-> s.es, blocks |-> s.blocks, blockIndex |-> s.blockIndex,
            evmRoot |-> s.evmRoot, confirmed |-> s.confirmed, reported |-> s.reported]
    /\ IsEpochState(s.es)
    /\ IsBlockState(s.bs, s.es.Validators)
    /\ s.blocks = [i \in DOMAIN s.blocks |-> s.blocks[i]]
    /\ DOMAIN s.blocks \subseteq Nat
    /\ \A i \in DOMAIN s.blocks : IsBlock(s.blocks[i])
    /\ s.blockIndex = [a \in DOMAIN s.blockIndex |-> s.blockIndex[a]]
    /\ DOMAIN s.blockIndex \subseteq Event \cup {GenesisAtropos}
    /\ \A a \in DOMAIN s.blockIndex : s.blockIndex[a] \in Nat
    /\ s.evmRoot \subseteq Tx
    /\ s.confirmed \subseteq Event
    /\ s.reported \subseteq Nat \X Validator

IsCallback(c) ==
    /\ c = [active |-> TRUE, atropos |-> c.atropos, cheaters |-> c.cheaters, bs |-> c.bs,
            es |-> c.es, atroposTime |-> c.atroposTime, degenerate |-> c.degenerate,
            confirmedEvents |-> c.confirmedEvents, highest |-> c.highest, cone |-> c.cone]
    /\ c.atropos \in Event
    /\ IsEpochState(c.es)
    /\ IsBlockState(c.bs, c.es.Validators)
    /\ c.cheaters \subseteq c.es.Validators
    /\ c.atroposTime \in Nat
    /\ c.degenerate \in BOOLEAN
    /\ c.confirmedEvents \subseteq Event
    /\ c.highest \in [c.es.Validators -> Event \cup {NoEvent}]
    /\ c.cone \subseteq Event
    /\ \A e \in c.cone : Creator[e] \in c.es.Validators

Stage == {"internal", "execute", "publish", "notify", "commit"}

IsTask(t) ==
    /\ t = [stage |-> t.stage, async |-> t.async, block |-> t.block, bs |-> t.bs, es |-> t.es,
            deactivated |-> t.deactivated, metrics |-> t.metrics,
            confirmedEvents |-> t.confirmedEvents, events |-> t.events, txs |-> t.txs,
            receipts |-> t.receipts, root |-> t.root]
    /\ t.stage \in Stage
    /\ t.async \in BOOLEAN
    /\ t.block \in [Idx : Nat, Time : Nat, Atropos : Event]
    /\ IsEpochState(t.es)
    /\ IsBlockState(t.bs, t.es.Validators)
    /\ t.deactivated \subseteq Validator
    /\ t.confirmedEvents \subseteq Event
    /\ t.events \subseteq t.confirmedEvents
    /\ t.txs \subseteq Tx /\ t.receipts \subseteq Tx /\ t.root \subseteq Tx

(* Type invariant.  Its substance is that the validator-indexed tables of a  *)
(* block state always match the validators group of the epoch state it is    *)
(* published or captured with, although the two are replaced separately.     *)
TypeOK ==
    /\ IsStore(store)
    /\ originated \in [Validator -> Nat]
    /\ cb = IdleCb \/ IsCallback(cb)
    /\ task = NoTask \/ IsTask(task)
    /\ busy \in BOOLEAN
    /\ unflag \in BOOLEAN
    /\ notified \in Nat
    /\ disk = [store |-> disk.store, originated |-> disk.originated]
    /\ IsStore(disk.store)
    /\ disk.originated \in [Validator -> Nat]

(* Validators the driver contract was told to deactivate.                    *)
Deactivated ==
    (UNION {store.blocks[i].Deactivated : i \in DOMAIN store.blocks})
    \cup (IF task.stage = "none" THEN {} ELSE task.deactivated)

(* Every cheater the engine reported in an epoch is deactivated by the end   *)
(* of that epoch, even when the only frame that reported it was skipped and  *)
(* later Atropoi do not observe the fork (c_block_callbacks.go:76-78).       *)
NoCheaterEscapes ==
    \A r \in store.reported : r[1] < store.es.Epoch => r[2] \in Deactivated

(* A cheater deactivated for a fork is in no later validators group.         *)
CheatersAreExpelled ==
    \A r \in store.reported : r[1] < store.es.Epoch => r[2] \notin store.es.Validators

(* No two blocks have the same Atropos, so block IDs are unique and the      *)
(* index from ID to number is exact (c_block_callbacks.go:118-126).          *)
UniqueBlockIDs ==
    \A i \in DOMAIN store.blocks :
        /\ store.blocks[i].Atropos \in DOMAIN store.blockIndex
        /\ store.blockIndex[store.blocks[i].Atropos] = i

(* Block numbers have no gaps and block times strictly increase, whatever    *)
(* the median times of the Atropoi are.                                      *)
ChainIsOrdered ==
    \A i \in DOMAIN store.blocks :
        i > 1 => /\ i - 1 \in DOMAIN store.blocks
                 /\ store.blocks[i - 1].Time < store.blocks[i].Time

(* A block announced to the feeds is stored and already the published head,  *)
(* so that a subscriber (the transaction pool) can read it.                  *)
AnnouncedIsReadable ==
    notified # 0 => /\ notified \in DOMAIN store.blocks
                    /\ notified <= store.bs.LastBlock.Idx

(* The state on disk is never one of the middle of a block: the published    *)
(* head is the last stored block, its EVM state is committed, and every      *)
(* cheater of a sealed epoch was dealt with.                                 *)
CommittedStateIsComplete ==
    LET s == disk.store IN
    /\ DOMAIN s.blocks = 1..s.bs.LastBlock.Idx
    /\ s.blocks[s.bs.LastBlock.Idx].Root = s.bs.FinalizedStateRoot
    /\ s.bs.FinalizedStateRoot = s.evmRoot
    /\ \A r \in s.reported : r[1] < s.es.Epoch =>
         \E i \in DOMAIN s.blocks : r[2] \in s.blocks[i].Deactivated

(* The gas of an epoch counts every event confirmed in it exactly once,      *)
(* those of skipped frames included.                                         *)
EpochGasIsExact ==
    LET bs == IF cb.active THEN cb.bs ELSE IF task.stage # "none" THEN task.bs ELSE store.bs IN
    bs.EpochGas = MapThenSumSet(LAMBDA e : GasPowerUsed[e],
                                {e \in store.confirmed : EpochOf[e] = store.es.Epoch})

(* Between blocks every confirmed event with transactions belongs to exactly *)
(* one block, which contains it or spilled it: none is lost with a skipped   *)
(* frame and none is in two blocks.                                          *)
ConfirmedEventInOneBlock ==
    ~cb.active /\ task.stage = "none" =>
        \A e \in store.confirmed : Txs[e] # {} =>
            Cardinality({i \in DOMAIN store.blocks :
                e \in store.blocks[i].Events \cup store.blocks[i].Spilled}) = 1

(* The event a validator's gas power is carried over from at an epoch change *)
(* is its last confirmed event of the previous epochs.                       *)
PrevEpochEventIsLast ==
    \A v \in store.es.Validators \ Forker :
        LET prev == store.es.ValidatorStates[v].PrevEpochEvent IN
        prev # NoEvent =>
            /\ prev \in store.confirmed /\ Creator[prev] = v
            /\ \A e \in store.confirmed :
                 Creator[e] = v /\ EpochOf[e] < store.es.Epoch =>
                    \/ EpochOf[e] < EpochOf[prev]
                    \/ EpochOf[e] = EpochOf[prev] /\ Seq[e] <= Seq[prev]

(* The uptime reported of a sealed epoch spans at most that epoch (Berlin    *)
(* rules): from its start, which is PrevEpochStart by now, to the block's    *)
(* time or the validator's last median time.                                 *)
UptimeWithinEpoch ==
    task.stage # "none" /\ (\A r \in Rules : r.Berlin) =>
        \A v \in DOMAIN task.metrics \ Forker :
            task.metrics[v].Uptime + store.es.PrevEpochStart
              <= Max({task.block.Time} \cup {MedianTime[e] : e \in
                        {f \in store.confirmed : Creator[f] = v}})

(* blockBusyFlag, which keeps the emitter from emitting, never stays set,    *)
(* and a block that is published is announced, unless the node crashes.      *)
BlocksComplete == (busy ~> ~busy) /\ (task.stage = "notify" ~> task.stage # "notify")

(* States handed out by the store are not changed behind the reader's back:  *)
(* while the published state stays the same object, so do the fees in it.    *)
PublishedStateIsImmutable ==
    [][store'.bs = store.bs /\ store'.es = store.es => originated' = originated]_vars

(* Of a store: the blocks up to the published head, as readers see them.     *)
ChainOf(s) ==
    [i \in 1..s.bs.LastBlock.Idx |-> [ID |-> s.blocks[i].Atropos, Time |-> s.blocks[i].Time]]

(* The abstract chain: a block belongs to it once the block state says so    *)
(* (SetBlockEpochState), and is announced when blockFn has notified the      *)
(* feeds.                                                                    *)
Abstract == INSTANCE Chain WITH chain <- ChainOf(store), durable <- ChainOf(disk.store),
                                announcing <- task.stage = "notify"

(* Block processing, with its goroutines and crashes, implements Chain:      *)
(* although the parts of a block are stored one by one, readers see it grow  *)
(* by whole blocks, announced one after the other, and a crash brings back a *)
(* chain that was published before.                                          *)
ImplementsChain == Abstract!Spec

(* The chain and the state it is kept with: the type invariant, block        *)
(* numbers, times and IDs, what is announced, and what is on disk.           *)
StateIsSound ==
    /\ TypeOK
    /\ ChainIsOrdered /\ UniqueBlockIDs /\ AnnouncedIsReadable
    /\ CommittedStateIsComplete

(* Every cheater reported in an epoch is deactivated by its end, and is in   *)
(* no validators group after that.                                           *)
CheatersAreDealtWith == NoCheaterEscapes /\ CheatersAreExpelled

(* What an epoch counts: each confirmed event once in the gas and in one     *)
(* block, the last event of each validator carried over, and no more uptime  *)
(* than the epoch has.                                                       *)
EventsAreAccounted ==
    /\ EpochGasIsExact /\ ConfirmedEventInOneBlock
    /\ PrevEpochEventIsLast /\ UptimeWithinEpoch
-----------------------------------------------------------------------------
(* Inductive invariants: what the safety properties rest on.                 *)

(* The published head is the last stored block.                              *)
HeadIsLastBlock(s) ==
    /\ s.bs.LastBlock.Idx >= 1
    /\ DOMAIN s.blocks = 1..s.bs.LastBlock.Idx
    /\ s.blocks[s.bs.LastBlock.Idx].Time = s.bs.LastBlock.Time

RootIsCommitted(s) ==
    /\ s.blocks[s.bs.LastBlock.Idx].Root = s.bs.FinalizedStateRoot
    /\ s.bs.FinalizedStateRoot = s.evmRoot

Ordered(s) ==
    \A i \in DOMAIN s.blocks :
        i > 1 => i - 1 \in DOMAIN s.blocks /\ s.blocks[i - 1].Time < s.blocks[i].Time

Indexed(s) ==
    \A i \in DOMAIN s.blocks :
        /\ s.blocks[i].Atropos \in s.confirmed \cup {GenesisAtropos}
        /\ s.blocks[i].Atropos \in DOMAIN s.blockIndex
        /\ s.blockIndex[s.blocks[i].Atropos] = i

(* An Atropos no block has been made of.                                     *)
Fresh(s, atropos) ==
    /\ atropos \in s.confirmed
    /\ \A i \in DOMAIN s.blocks : s.blocks[i].Atropos # atropos

(* The closure works on the published head, and an Atropos it has applied is *)
(* fresh.                                                                    *)
ClosureOnHead ==
    cb.active =>
        /\ task.stage = "none"
        /\ cb.bs.LastBlock = store.bs.LastBlock
        /\ cb.bs.FinalizedStateRoot = store.bs.FinalizedStateRoot
        /\ cb.cone \cap store.confirmed = {}
        /\ cb.degenerate \/ Fresh(store, cb.atropos)

(* The task's block comes right after the head until it is published.        *)
TaskAfterHead ==
    /\ task.stage \in {"internal", "execute", "publish"} =>
         /\ store.bs.LastBlock.Idx >= 1
         /\ task.block.Idx = store.bs.LastBlock.Idx + 1
         /\ task.block.Time > store.bs.LastBlock.Time
    /\ task.stage \in {"internal", "execute"} => Fresh(store, task.block.Atropos)
    /\ task.stage = "publish" =>
         /\ DOMAIN store.blocks = 1..task.block.Idx
         /\ store.blocks[task.block.Idx].Time = task.block.Time
         /\ store.blocks[task.block.Idx].Root = task.root
    /\ task.stage \in {"notify", "commit"} =>
         /\ task.block.Idx = store.bs.LastBlock.Idx
         /\ store.blocks[store.bs.LastBlock.Idx].Root = store.bs.FinalizedStateRoot

(* The chain in memory and on disk, and how closure and task relate to it.   *)
ChainInv ==
    /\ Ordered(store) /\ Indexed(store)
    /\ Ordered(disk.store) /\ Indexed(disk.store)
    /\ HeadIsLastBlock(disk.store) /\ RootIsCommitted(disk.store)
    /\ task.stage # "publish" => HeadIsLastBlock(store)
    /\ task.stage = "none" => RootIsCommitted(store)
    /\ ClosureOnHead
    /\ TaskAfterHead
    /\ notified \in 0..store.bs.LastBlock.Idx

(* Cheaters dealt with in the blocks of s or in extra.                       *)
Punished(s, extra) == (UNION {s.blocks[i].Deactivated : i \in DOMAIN s.blocks}) \cup extra

(* Reports about sealed epochs are settled and those about the epoch are in  *)
(* the list; a validator marked as Cheater has been deactivated.             *)
Settled(reported, epoch, cheaters, states, punished) ==
    /\ \A r \in reported :
         /\ r[1] <= epoch
         /\ r[1] < epoch => r[2] \in punished
         /\ r[1] = epoch => r[2] \in cheaters
    /\ \A v \in DOMAIN states : states[v].Cheater => v \in punished

CheaterInv ==
    /\ cb.active => task.stage = "none"
    /\ IF cb.active
       THEN /\ cb.es = store.es
            /\ Settled(store.reported, cb.es.Epoch, cb.bs.EpochCheaters,
                       cb.bs.ValidatorStates, Punished(store, {}))
       ELSE IF task.stage \in {"none", "notify", "commit"}
       THEN Settled(store.reported, store.es.Epoch, store.bs.EpochCheaters,
                    store.bs.ValidatorStates, Punished(store, {}))
       ELSE /\ task.es = store.es
            /\ Settled(store.reported, task.es.Epoch, task.bs.EpochCheaters,
                       task.bs.ValidatorStates, Deactivated)
            /\ task.stage = "publish" => task.deactivated \subseteq Punished(store, {})
    /\ Settled(disk.store.reported, disk.store.es.Epoch, disk.store.bs.EpochCheaters,
               disk.store.bs.ValidatorStates, Punished(disk.store, {}))

(* The driver contract never gives a validator that has forked a weight      *)
(* again; the node itself would take it back.                                *)
RestoresNoForker ==
    \A tx \in Tx : LogOf[tx].type = "UpdateValidatorWeight" /\ LogOf[tx].weight # 0
                    => LogOf[tx].validator \notin Forker

(* Who was reported in a sealed epoch is in no group of validators any more, *)
(* neither in the current nor in the next, and a validator marked as Cheater *)
(* is not in the next; only forkers are reported.                            *)
Expelled(reported, es, bs) ==
    /\ bs.EpochCheaters \subseteq Forker
    /\ \A r \in reported :
         /\ r[1] <= es.Epoch
         /\ r[1] < es.Epoch => r[2] \in Forker /\ r[2] \notin es.Validators \cup bs.NextValidatorProfiles
         /\ r[1] = es.Epoch => r[2] \in bs.EpochCheaters
    /\ \A v \in DOMAIN bs.ValidatorStates :
         bs.ValidatorStates[v].Cheater => v \in Forker /\ v \notin bs.NextValidatorProfiles

ExpelInv ==
    /\ cb.active => /\ task.stage = "none" /\ cb.es = store.es
                    /\ Expelled(store.reported, cb.es, cb.bs)
    /\ task.stage \in {"internal", "execute", "publish"} =>
         task.es = store.es /\ Expelled(store.reported, task.es, task.bs)
    /\ ~cb.active /\ task.stage \in {"none", "notify", "commit"} =>
         Expelled(store.reported, store.es, store.bs)
    /\ Expelled(disk.store.reported, disk.store.es, disk.store.bs)

(* The block state the counts of an epoch are kept in: the closure's, then   *)
(* the task's until it is published, else the published one.                 *)
Unpublished == task.stage \in {"internal", "execute", "publish"}

CurrentBs == IF cb.active THEN cb.bs ELSE IF Unpublished THEN task.bs ELSE store.bs

(* The time of the block that state belongs to.                              *)
CurrentTime == IF ~cb.active /\ Unpublished THEN task.block.Time
               ELSE store.bs.LastBlock.Time

(* Events confirmed with transactions that no block holds yet.               *)
Pending ==
    IF cb.active THEN cb.confirmedEvents
    ELSE IF task.stage \in {"internal", "execute"} THEN task.confirmedEvents ELSE {}

Cone == IF cb.active THEN cb.cone ELSE {}

Highest(v) == IF cb.active THEN cb.highest[v] ELSE NoEvent

(* The epoch state is the same wherever it is held; what the worker has      *)
(* published is what it has computed.                                        *)
StageInv ==
    /\ cb.active => /\ task.stage = "none" /\ cb.es = store.es
                    /\ cb.bs.LastBlock = store.bs.LastBlock
    /\ task.stage # "none" => task.es = store.es
    /\ task.stage \in {"notify", "commit"} => store.bs.EpochGas = task.bs.EpochGas

(* No event is confirmed ahead of its epoch, nor before the events its       *)
(* creator, if honest, has signed before it.                                 *)
ClosedUnderParents(events) ==
    \A e \in events, f \in Event :
        /\ Creator[f] = Creator[e] /\ EpochOf[f] = EpochOf[e]
        /\ Seq[f] < Seq[e] /\ Creator[f] \notin Forker
        => f \in events

Known(s, cone) ==
    /\ IsFiniteSet(s.confirmed)
    /\ \A e \in s.confirmed : EpochOf[e] <= s.es.Epoch
    /\ ClosedUnderParents(s.confirmed \cup cone)

KnownInv ==
    /\ Known(store, Cone) /\ Known(disk.store, {})
    /\ \A e \in Cone : e \notin store.confirmed /\ EpochOf[e] = store.es.Epoch

(* The gas of the epoch's confirmed events.                                  *)
GasOf(events) == MapThenSumSet(LAMBDA e : GasPowerUsed[e], events)

ConfirmedGas(s) == GasOf({e \in s.confirmed : EpochOf[e] = s.es.Epoch})

GasInv ==
    /\ CurrentBs.EpochGas = ConfirmedGas(store)
    /\ disk.store.bs.EpochGas = ConfirmedGas(disk.store)

(* Only confirmed events are in blocks, and each one with transactions is    *)
(* pending or in one block.  A frame that skips its Atropos has no events.   *)
HeldBy(s, e) == {i \in DOMAIN s.blocks : e \in s.blocks[i].Events \cup s.blocks[i].Spilled}

Placed(s, pending) ==
    /\ \A e \in Event : HeldBy(s, e) # {} => e \in s.confirmed
    /\ \A e \in s.confirmed : Txs[e] # {} =>
         IF e \in pending THEN HeldBy(s, e) = {}
         ELSE \E i \in DOMAIN s.blocks : HeldBy(s, e) = {i}

PlaceInv ==
    /\ Pending \subseteq store.confirmed
    /\ Placed(store, Pending) /\ Placed(disk.store, {})
    /\ cb.active /\ cb.degenerate => \/ cb.atropos \in cb.cone
                                     \/ cb.cone = {} /\ cb.confirmedEvents = {}

Precedes(e, f) ==
    \/ EpochOf[e] < EpochOf[f]
    \/ EpochOf[e] = EpochOf[f] /\ Seq[e] <= Seq[f]

(* LastEvent and the highest event of the closure together are ahead of      *)
(* every confirmed event of validator v, except those of the time before it  *)
(* joined; PrevEpochEvent is ahead of those of the previous epochs.          *)
LastIsLast(s, bs, v, highest) ==
    LET last == bs.ValidatorStates[v].LastEvent
        prev == s.es.ValidatorStates[v].PrevEpochEvent
    IN  /\ last # NoEvent => last \in s.confirmed /\ Creator[last] = v
        /\ highest # NoEvent =>
             /\ highest \in s.confirmed /\ Creator[highest] = v
             /\ EpochOf[highest] = s.es.Epoch
             /\ last # NoEvent => Precedes(last, highest)
        /\ \A e \in s.confirmed : Creator[e] = v =>
             \/ highest # NoEvent /\ Precedes(e, highest)
             \/ IF last = NoEvent THEN EpochOf[e] < s.es.Epoch ELSE Precedes(e, last)
        /\ prev # NoEvent =>
             /\ prev \in s.confirmed /\ Creator[prev] = v
             /\ \A e \in s.confirmed :
                  Creator[e] = v /\ EpochOf[e] < s.es.Epoch => Precedes(e, prev)

LastInv ==
    /\ CurrentBs.EpochCheaters \subseteq Forker
    /\ disk.store.bs.EpochCheaters \subseteq Forker
    /\ \A v \in store.es.Validators \ Forker : LastIsLast(store, CurrentBs, v, Highest(v))
    /\ \A v \in disk.store.es.Validators \ Forker :
         LastIsLast(disk.store, disk.store.bs, v, NoEvent)
    /\ \A e \in Cone :
         LET last == CurrentBs.ValidatorStates[Creator[e]].LastEvent IN
         Creator[e] \notin Forker /\ last # NoEvent => Precedes(last, e)

(* The median time of an honest validator's events does not go back within   *)
(* an epoch.                                                                 *)
MedianTimeGrows ==
    \A e, f \in Event :
        /\ Creator[e] = Creator[f] /\ Creator[e] \notin Forker
        /\ EpochOf[e] = EpochOf[f] /\ Seq[e] <= Seq[f]
        => MedianTime[e] <= MedianTime[f]

(* The uptime counted so far lies between the start of the epoch and the     *)
(* last time the validator was seen, the median time of one of its events    *)
(* or a time of the chain.                                                   *)
UptimeIsBounded(s, bs, time, v) ==
    LET st == bs.ValidatorStates[v] IN
    /\ st.Uptime > 0 => /\ st.LastEvent # NoEvent /\ EpochOf[st.LastEvent] = s.es.Epoch
                        /\ st.LastOnlineTime = MedianTime[st.LastEvent]
    /\ st.Uptime + s.es.EpochStart <= MaxOf(s.es.EpochStart, st.LastOnlineTime)
    /\ \/ st.LastOnlineTime <= time
       \/ \E e \in s.confirmed : Creator[e] = v /\ MedianTime[e] = st.LastOnlineTime

(* What a sealed epoch's metrics are bounded by.                             *)
MetricIsBounded(v) ==
    LET end == task.metrics[v].Uptime + store.es.PrevEpochStart IN
    \/ end <= task.block.Time
    \/ \E e \in store.confirmed : Creator[e] = v /\ end <= MedianTime[e]

UptimeInv ==
    /\ store.es.EpochStart <= CurrentTime
    /\ disk.store.es.EpochStart <= disk.store.bs.LastBlock.Time
    /\ (\A r \in Rules : r.Berlin) =>
         /\ \A v \in store.es.Validators \ Forker :
              UptimeIsBounded(store, CurrentBs, CurrentTime, v)
         /\ \A v \in disk.store.es.Validators \ Forker :
              UptimeIsBounded(disk.store, disk.store.bs, disk.store.bs.LastBlock.Time, v)
         /\ task.stage # "none" =>
              \A v \in DOMAIN task.metrics \ Forker :
                  task.metrics[v].Uptime \in Nat /\ MetricIsBounded(v)

AccountInv == StageInv /\ KnownInv /\ GasInv /\ PlaceInv /\ LastInv /\ UptimeInv
=============================================================================
