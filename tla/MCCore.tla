-------------------------------- MODULE MCCore --------------------------------
(* Parts of the node that a block or an event passes on its way, and that    *)
(* share no state with each other in the models: the encoding of events      *)
(* (Cser), their vector clocks (Vecmt), the gas they may spend (GasPower),   *)
(* whose turn it is to originate a transaction (TxTurn), the execution of    *)
(* transactions (Evm), and what handles the databases outside of a run: the  *)
(* start of a node (Startup), the pruning of states (Pruner), export and     *)
(* import (Transfer).  A behaviour is one of the part `part', whose          *)
(* variables are v1, v2 and so on.                                           *)
EXTENDS Integers, Sequences

VARIABLES part, v1, v2, v3, v4, v5, v6, v7, v8, v9, v10, v11, v12

vars == <<part, v1, v2, v3, v4, v5, v6, v7, v8, v9, v10, v11, v12>>

(* What a part with so many variables leaves alone.                          *)
Rest4 == <<part, v5, v6, v7, v8, v9, v10, v11, v12>>
Rest5 == <<part, v6, v7, v8, v9, v10, v11, v12>>
Rest6 == <<part, v7, v8, v9, v10, v11, v12>>
Rest7 == <<part, v8, v9, v10, v11, v12>>
Rest8 == <<part, v9, v10, v11, v12>>

(* Its value while the part is another.                                      *)
Unused == "unused"
Free9 == v9 = Unused /\ v10 = Unused /\ v11 = Unused /\ v12 = Unused
Free8 == v8 = Unused /\ Free9
Free7 == v7 = Unused /\ Free8
Free6 == v6 = Unused /\ Free7
Free5 == v5 = Unused /\ Free6
-----------------------------------------------------------------------------
(* Encoding: events with and without parents, a previous epoch, extra data   *)
(* and transactions of each type, whose numbers need one byte or more; and   *)
(* every input of up to five bytes for a number of each width.               *)
C == INSTANCE Cser WITH ByteBits <- 2,
        item <- v1, phase <- v2, io <- v3, todo <- v4, vals <- v5

Raws == UNION {[1..n -> 0..3] : n \in 0..5}
SomeTx == [type |-> 0, nonce |-> 1, gas |-> 5, price |-> 0, value |-> 17, to |-> <<2>>,
           data |-> <<1, 0>>, v |-> 3, sig |-> 1, chain |-> 0, list |-> <<>>]
EncodedTxs ==
    {[SomeTx EXCEPT !.type = type, !.nonce = nonce, !.gas = gas, !.to = to, !.data = data, !.list = list] :
       type \in {0, 1, 2}, nonce \in {0, 16}, gas \in {0, 3, 4, 300}, to \in {<<>>, <<2>>},
       data \in {<<>>, <<0, 3>>},
       list \in {<<>>, <<[addr |-> 1, keys |-> <<>>], [addr |-> 2, keys |-> <<3, 1>>]>>}}
SomeEvent == [epoch |-> 1, lamport |-> 5, creator |-> 1, seq |-> 2, frame |-> 1, created |-> 9,
              median |-> 9, used |-> 20, left |-> <<3, 70>>, parents |-> <<>>, prev |-> <<>>,
              txHash |-> 0, extra |-> <<>>, sig |-> 2, txs |-> <<>>]
Parent(l, h) == [lamport |-> l, hash |-> h]
EncodedEvents ==
    {[SomeEvent EXCEPT !.epoch = epoch, !.lamport = lamport, !.median = median,
                       !.parents = parents, !.prev = prev, !.extra = extra] :
       epoch \in {0, 4, 255}, lamport \in {4, 70}, median \in {9, 10},
       parents \in {<<>>, <<Parent(4, 1)>>, <<Parent(4, 3), Parent(5, 0)>>},
       prev \in {<<>>, <<0>>}, extra \in {<<>>, <<1, 2, 3, 0, 1>>}}
    \cup {[SomeEvent EXCEPT !.txHash = txHash, !.txs = txs] : txHash \in {0, 3},
            txs \in {<<>>} \cup {<<x>> : x \in EncodedTxs}
                    \cup {<<SomeTx, x>> : x \in {x \in EncodedTxs : x.gas = 4}}}
Items == {[kind |-> "event", e |-> e] : e \in EncodedEvents}
         \cup {[kind |-> k, e |-> r] : k \in {"U16", "U32", "U64", "I64", "Bool", "U8"}, r \in Raws}
-----------------------------------------------------------------------------
(* Vector clocks: validator 1 forks at its first and at its second event,    *)
(* and the last events see the forks or do not.                              *)
Event(c, s, t, ps, self) == [creator |-> c, seq |-> s, time |-> t, parents |-> ps, self |-> self]
Dag == [e \in {"a1", "a1f", "a2", "a2f", "b1", "c1", "b2", "c2"} |->
          CASE e = "a1" -> Event(1, 1, 5, {}, {})
            [] e = "a1f" -> Event(1, 1, 3, {}, {})
            [] e = "a2" -> Event(1, 2, 6, {"a1", "c1"}, {"a1"})
            [] e = "a2f" -> Event(1, 2, 4, {"a1", "b1"}, {"a1"})
            [] e = "b1" -> Event(2, 1, 9, {"a1"}, {})
            [] e = "c1" -> Event(3, 1, 7, {}, {})
            [] e = "b2" -> Event(2, 2, 8, {"b1", "a2"}, {"b1"})
            [] e = "c2" -> Event(3, 2, 2, {"c1", "b2", "a2f"}, {"c1"})]
V == INSTANCE Vecmt WITH Events <- Dag, Validators <- {1, 2, 3}, DefaultTime <- 1,
        Weights <- {<<1, 1, 1>>, <<5, 1, 2>>, <<1, 3, 2>>},
        weight <- v1, db <- v2, flushed <- v3, branchOf <- v4, owner <- v5
-----------------------------------------------------------------------------
(* Gas power and turns.                                                      *)
G == INSTANCE GasPower WITH MaxTime <- 5, MaxEpoch <- 2,
        own <- v1, now <- v2, epoch <- v3, epochStart <- v4, last <- v5, prevEpochEvent <- v6,
        gasRefund <- v7, forward <- v8, spent <- v9, prevEmittedAtTime <- v10,
        prevIdleTime <- v11, incorrect <- v12

T == INSTANCE TxTurn WITH TxTurnPeriod <- 3, TxTurnPeriodLatency <- 1, MaxNow <- 7,
        Weights <- {<<1, 1, 1>>, <<2, 1>>, <<1, 2, 1>>}, Seeds <- [1..3 -> 0..2],
        weights <- v1, seed <- v2, now <- v3, txTime <- v4
-----------------------------------------------------------------------------
(* Execution: an event with one transaction and one with two, out of those   *)
(* that succeed, are too poor, have the wrong nonce, too little gas or much  *)
(* data, create a contract; internal transactions up to the gas limit and    *)
(* beyond it.                                                                *)
E == INSTANCE Evm WITH MaxUint64 <- 60, Senders <- {"a", "b"}, Funds <- 100,
        events <- v1, batches <- v2, balance <- v3, nonce <- v4, gasPool <- v5, at <- v6,
        batch <- v7, gasUsed <- v8, incomingTxs <- v9, skippedTxs <- v10, receipts <- v11,
        block <- v12

Plain == [from |-> "a", nonce |-> 0, to |-> "b", value |-> 0, gas |-> 30, price |-> 1,
          nz |-> 0, z |-> 0, addrs |-> 0, keys |-> 0]
ExecutedTxs ==
    {Plain, [Plain EXCEPT !.nonce = 1, !.price = 0, !.gas = 50, !.to = "driver"], [Plain EXCEPT !.gas = 9],
     [Plain EXCEPT !.value = 50, !.nz = 2],
     [Plain EXCEPT !.to = "create", !.value = 90],
     [Plain EXCEPT !.to = "create", !.z = 15, !.addrs = 2, !.keys = 3, !.gas = 43],
     [Plain EXCEPT !.nz = 12, !.z = 20],
     [Plain EXCEPT !.from = "b", !.to = "a", !.price = 2, !.gas = 50, !.value = 10]}
Payloads == {<< <<x>>, <<y, z>> >> : x \in ExecutedTxs, y \in ExecutedTxs, z \in ExecutedTxs}
Internal == [Plain EXCEPT !.from = "zero", !.to = "driver", !.nonce = 7, !.price = 0]
Internals == {<<>>, <<Internal>>,
              <<[Internal EXCEPT !.gas = 60, !.to = "create"], [Internal EXCEPT !.gas = 61]>>}
-----------------------------------------------------------------------------
(* Databases outside of a run: two crashes on start, two while pruning three *)
(* states, and one while importing a file of two epochs.                     *)
S == INSTANCE Startup WITH MaxCrashes <- 2,
        disk <- v1, mem <- v2, run <- v3, crashes <- v4, cut <- v5, torn <- v6

P == INSTANCE Pruner WITH MaxRoot <- 3, MaxCrashes <- 2,
        db <- v1, states <- v2, diff <- v3, file <- v4, tool <- v5, crashes <- v6, explicit <- v7

X == INSTANCE Transfer WITH MaxBatch <- 2, MaxCrashes <- 1,
        store <- v1, export <- v2, files <- v3, import <- v4, tasks <- v5, node <- v6,
        disk <- v7, crashes <- v8

Stored(k, ps, d) == [epoch |-> k, parents |-> ps, decides |-> d]
Stores == {<<Stored(1, {}, TRUE), second, Stored(1, {1}, TRUE), Stored(2, {}, FALSE),
             Stored(2, {4}, FALSE)>> : second \in {Stored(1, {}, TRUE), Stored(1, {1}, FALSE)}}
-----------------------------------------------------------------------------
Init == \/ part = "encoding" /\ C!CserInit(Items) /\ Free6
        \/ part = "vectors" /\ V!VecmtInit /\ Free6
        \/ part = "gas" /\ G!GasInit
        \/ part = "turns" /\ T!TurnInit /\ Free5
        \/ part = "execution" /\ E!EvmInit(Payloads, Internals)
        \/ part = "startup" /\ S!StartupInit /\ Free7
        \/ part = "pruning" /\ P!PruneInit /\ Free8
        \/ part = "transfer" /\ X!TransInit(Stores) /\ Free9

Next == \/ part = "encoding" /\ C!CserNext /\ UNCHANGED Rest5
        \/ part = "vectors" /\ V!VecmtNext /\ UNCHANGED Rest5
        \/ part = "gas" /\ G!GasNext /\ UNCHANGED part
        \/ part = "turns" /\ T!TurnNext /\ UNCHANGED Rest4
        \/ part = "execution" /\ E!EvmNext /\ UNCHANGED part
        \/ part = "startup" /\ S!StartupNext /\ UNCHANGED Rest6
        \/ part = "pruning" /\ P!PruneNext /\ UNCHANGED Rest7
        \/ part = "transfer" /\ X!TransNext /\ UNCHANGED Rest8

Spec == Init /\ [][Next]_vars
-----------------------------------------------------------------------------
(* The parts' properties; each module says what they mean.                   *)

(* An event that can be marshalled is read back as it was written, and a     *)
(* number has one encoding (utils/cser, inter/event_serializer.go).          *)
EncodingIsExact == part = "encoding" => C!RoundTrip /\ C!NumberIsCanonical
(* The stored vectors are those of the DAG, forks, flushes and drops         *)
(* included (vecmt/index.go), and the median time is the weighted median of  *)
(* what validators without a visible fork claim (vecmt/median_time.go).      *)
VectorsAreExact == part = "vectors" => V!VectorsAreExact /\ V!MedianIsHonest
(* In an epoch no validator spends more gas than one full allowance and its  *)
(* rate pay for (gaspowercheck/gas_power_check.go); the emitter's own events *)
(* pass the check, and it does not fall silent (emitter/control.go, txs.go). *)
GasPowerHolds == part = "gas" => G!RateIsBounded /\ G!EmitsCorrectly /\ G!NeverSilent
(* Validators that saw a transaction within the latency of each other do not *)
(* both take their turn, and successive rounds are the turns of all          *)
(* validators (emitter/txs.go).                                              *)
TurnsAreFair == part = "turns" => T!TurnIsExclusive /\ T!EveryoneHasATurn
(* The fees, the gas and the receipts of a block are of the transactions it  *)
(* contains, in the order of their nonces, but for failed creations          *)
(* (evmcore/state_processor.go, state_transition.go, evmmodule/evm.go).      *)
ExecutionIsExact ==
    part = "execution" => E!FeesMatchReceipts /\ E!BlockMatchesReceipts /\ E!IncludedOnce
(* The engine's database and the node's are of one chain once the node runs, *)
(* and a start that was killed can be repeated, unless it was in a flush     *)
(* (integration/assembly.go, gossip/store_migration.go).                     *)
StartupIsConsistent == part = "startup" => S!EngineHasItsChain /\ S!InterruptedStartRecovers
(* The genesis state and, unless an older target is asked for, the live one  *)
(* survive pruning, interrupted or not, and no other does but by accident of *)
(* the filter (gossip/evmstore/evmpruner/pruner.go).                         *)
PruningIsExact == part = "pruning" => P!LiveStateIsKept /\ P!OnlyTwoStatesLeft
(* An import that ends well has connected every event of the file that is    *)
(* not of a later epoch than can be reached (launcher/import.go).            *)
ImportIsComplete == part = "transfer" => X!ImportIsComplete
=============================================================================
