---------------------------- MODULE MCBlockProc ----------------------------
(* A small network for TLC: three validators, one of which joins later and   *)
(* one of which may fork, and a few events in each of three epochs.  Events  *)
(* are numbered in their Lamport order.                                      *)
EXTENDS BlockProc, TLC

CONSTANTS v1, v2, v3, none, genesis, t1, t2, t3

MCValidator == {v1, v2, v3}
MCGenesisValidators == {v1, v2}
MCForker == {v2}
MCTx == {t1, t2, t3}

Ev(epoch, creator, seq, median, gas, txs) ==
    [epoch |-> epoch, creator |-> creator, seq |-> seq, median |-> median, gas |-> gas,
     txs |-> txs]

(* Event 4 is the second event v2 signs with sequence number 1.              *)
DAG == << Ev(1, v1, 1, 2, 1, {t1}),
          Ev(1, v2, 1, 2, 1, {}),
          Ev(1, v1, 2, 5, 2, {t1, t2}),
          Ev(1, v2, 1, 3, 1, {t2}),
          Ev(2, v1, 1, 4, 1, {t3}),
          Ev(2, v3, 1, 7, 2, {}),
          Ev(3, v1, 1, 9, 1, {}) >>

MCEvent == DOMAIN DAG
MCCreator == [e \in Event |-> DAG[e].creator]
MCSeq == [e \in Event |-> DAG[e].seq]
MCEpochOf == [e \in Event |-> DAG[e].epoch]
MCMedianTime == [e \in Event |-> DAG[e].median]
MCGasPowerUsed == [e \in Event |-> DAG[e].gas]
MCLamport == [e \in Event |-> e]
MCTxs == [e \in Event |-> DAG[e].txs]

RulesA == [MaxEpochGas |-> 4, MaxEpochDuration |-> 5, MaxEmptyBlockSkipPeriod |-> 3,
           BlockMissedSlack |-> 1, MaxBlockGas |-> 2, Berlin |-> TRUE]
RulesB == [RulesA EXCEPT !.BlockMissedSlack = 0, !.MaxBlockGas = 1]
MCRules == {RulesA, RulesB}

MCFee == [tx \in MCTx |-> 1]
MCNotUsedGas == [tx \in MCTx |-> IF tx = t1 THEN 2 ELSE 0]
MCLogOf == [tx \in MCTx |->
    CASE tx = t1 -> [type |-> "UpdateValidatorWeight", validator |-> v3, weight |-> 1]
      [] tx = t2 -> [type |-> "AdvanceEpochs", epochs |-> 2]
      [] tx = t3 -> [type |-> "UpdateNetworkRules", rules |-> RulesB]]
-----------------------------------------------------------------------------
(* A behaviour has no crash and any of the events, or any number of crashes  *)
(* and the events 1, 2, 3 and 5.                                             *)
VARIABLE crashing

C == INSTANCE BlockProc WITH Event <- {1, 2, 3, 5}

MCInit == crashing \in BOOLEAN /\ Init
MCNext == /\ \/ ~crashing /\ Step
             \/ crashing /\ C!Next
          /\ UNCHANGED crashing

(* The fairness of BlockProc; progress is checked where the node may crash.  *)
MCSpec == /\ MCInit /\ [][MCNext]_<<vars, crashing>>
          /\ WF_vars(crashing /\ BlockFn) /\ WF_vars(crashing /\ ClearBusyFlag)

(* The busy flag never stays set and a published block is announced, unless  *)
(* the node crashes (BlocksComplete of BlockProc; c_block_callbacks.go).     *)
MCBlocksComplete == crashing => BlocksComplete
=============================================================================
