-------------------------------- MODULE Evm --------------------------------
(***************************************************************************)
(* Execution of one block's transactions: evmcore/state_transition.go,    *)
(* evmcore/state_processor.go, evmcore/gaspool.go and the block's EVM      *)
(* processor, gossip/blockproc/evmmodule/evm.go.  Transactions reach the   *)
(* block in events that passed eventcheck/basiccheck; the driver's         *)
(* internal transactions run before them.                                  *)
(*                                                                         *)
(* go-ethereum's vm.EVM is external: a call or a creation ends with any    *)
(* amount of gas left, any refund counter, and with or without an error.   *)
(* The precompiled contract it calls for the driver contract is the        *)
(* repository's: skyhigh/genesis/evmwriter/evm_writer.go.                  *)
(* Numbers are scaled: MaxUint64 stands for 2^64-1, and the gas prices     *)
(* below for go-ethereum's protocol parameters.                            *)
(***************************************************************************)
EXTENDS Integers, Sequences, FiniteSets, SequencesExt

CONSTANTS MaxUint64,    \* the largest gas number
          Senders,      \* accounts that sign transactions
          Funds         \* their initial balance

TxGas == 10
TxGasContractCreation == 15
TxDataNonZeroGas == 4
TxDataZeroGas == 1
TxAccessListAddressGas == 2
TxAccessListStorageKeyGas == 3
CallValueTransferGas == 5
MaxNonceIncrease == 2   \* evmwriter: 255

Zero == "zero"          \* the zero address: sender of internal transactions
Driver == "driver"      \* the driver contract, which may call the EvmWriter
Pot == "pot"            \* every other contract account
Account == Senders \cup {Zero, Driver, Pot}
NoGas == -1             \* IntrinsicGas failed

VARIABLES events,       \* event payloads (sequences of transactions) not yet checked
          batches,      \* batches still to be executed: [internal, txs]
          balance, nonce,
          gasPool,      \* Process: gp
          at,           \* Process: number of transactions of the batch done
          batch,        \* Process: the batch's own skipped offsets and receipts
          gasUsed, incomingTxs, skippedTxs,
          receipts,     \* history in them: what the EvmWriter minted
          block         \* the finalized block: its transactions, or <<>> with done = FALSE

evars == <<events, batches, balance, nonce, gasPool, at, batch,
           gasUsed, incomingTxs, skippedTxs, receipts, block>>

----------------------------------------------------------------------------
(* Intrinsic gas and the check of an event's transactions.                 *)

IntrinsicGas(tx) ==
    LET start == IF tx.to = "create" THEN TxGasContractCreation ELSE TxGas
        withNonZero == start + tx.nz * TxDataNonZeroGas
    IN  IF (MaxUint64 - start) \div TxDataNonZeroGas < tx.nz \/
           (MaxUint64 - withNonZero) \div TxDataZeroGas < tx.z
        THEN NoGas
        ELSE (withNonZero + tx.z * TxDataZeroGas + tx.addrs * TxAccessListAddressGas
                + tx.keys * TxAccessListStorageKeyGas) % (MaxUint64 + 1)

\* the gas comparison dropped
validateTxAnyGas(tx) == IntrinsicGas(tx) # NoGas

validateTx(tx) == IntrinsicGas(tx) # NoGas /\ tx.gas >= IntrinsicGas(tx)

checkTxs(txs) == \A i \in DOMAIN txs : validateTx(txs[i])

\* an event is accepted whole or refused whole; the last one starts the block
CheckEvent ==
    /\ events # <<>>
    /\ events' = Tail(events)
    /\ batches' = IF checkTxs(Head(events))
                  THEN [batches EXCEPT ![Len(batches)].txs = @ \o Head(events)]
                  ELSE batches
    /\ UNCHANGED <<balance, nonce, gasPool, at, batch, gasUsed, incomingTxs,
                   skippedTxs, receipts, block>>

----------------------------------------------------------------------------
(* The state transition of one message.                                    *)

Message(tx, internal) == [tx EXCEPT !.from = IF internal THEN Zero ELSE @]

\* a nonce below the state's is let through
preCheckOldNonce(msg, internal) ==
    /\ internal \/ nonce[msg.from] >= msg.nonce
    /\ balance[msg.from] >= msg.gas * msg.price
    /\ gasPool >= msg.gas

preCheck(msg, internal) ==
    /\ internal \/ nonce[msg.from] = msg.nonce
    /\ balance[msg.from] >= msg.gas * msg.price
    /\ gasPool >= msg.gas

buyGas(msg) == [balance EXCEPT ![msg.from] = @ - msg.gas * msg.price]

\* the contract's calls of the EvmWriter that change a balance or a nonce
WriterCalls ==
    {[method |-> "setBalance", acc |-> a, value |-> v] : a \in Account \ {Zero, Driver}, v \in {0, 70}}
    \cup {[method |-> "incNonce", acc |-> a, value |-> v] :
             a \in Senders, v \in {0, 1, MaxNonceIncrease + 1}}

\* PreCompiledContract.Run: the call is refused
Refused(call, origin, gas) ==
    \/ gas < CallValueTransferGas
    \/ call.acc = origin
    \/ call.method = "incNonce" /\ call.value \notin 1 .. MaxNonceIncrease

\* the value is added to the balance
setBalanceAdds(bal, call) ==
    IF call.method = "setBalance" THEN [bal EXCEPT ![call.acc] = @ + call.value] ELSE bal

\* otherwise the balance is set, whatever it was, or the nonce increased
setBalance(bal, call) ==
    IF call.method = "setBalance" THEN [bal EXCEPT ![call.acc] = call.value] ELSE bal

incNonce(call) ==
    IF call.method = "incNonce" THEN [nonce EXCEPT ![call.acc] = @ + call.value] ELSE nonce

Minted(bal, call) == IF call.method = "setBalance" THEN call.value - bal[call.acc] ELSE 0

\* External: what vm.EVM does with the message.  A value that cannot be
\* transferred ends the call at once with all its gas; a creation then has not
\* advanced the nonce, which Call's caller has advanced already.  The driver
\* reverts when the EvmWriter refuses its call.
EvmResults(msg, bal, gas) ==
    LET failed == [bal |-> bal, nonce |-> nonce, minted |-> 0, gas |-> gas, refund |-> 0,
                   ok |-> FALSE, advance |-> msg.to # "create"]
        target == IF msg.to = "create" THEN Pot ELSE msg.to
        moved == [[bal EXCEPT ![msg.from] = @ - msg.value] EXCEPT ![target] = @ + msg.value]
        done == [failed EXCEPT !.bal = moved, !.ok = TRUE, !.advance = TRUE]
    IN  IF bal[msg.from] < msg.value THEN {failed}
        ELSE {[done EXCEPT !.gas = g, !.refund = r] : g \in {gas, gas \div 2}, r \in {0, MaxUint64}}
             \cup {[failed EXCEPT !.gas = g, !.advance = TRUE] : g \in {0, gas \div 2}}
             \cup {[done EXCEPT !.gas = gas - CallValueTransferGas, !.bal = setBalance(moved, call),
                                !.nonce = incNonce(call), !.minted = Minted(moved, call)] :
                       call \in {c \in WriterCalls : target = Driver /\ ~Refused(c, msg.from, gas)}}

unusedCharge(msg, gas) == IF msg.from = Zero THEN 0 ELSE gas \div 10

Smaller(a, b) == IF a < b THEN a ELSE b

\* the cap taken of the gas limit
refundGasOfLimit(msg, gas, refund) == gas + Smaller(msg.gas \div 2, refund)

\* the gas left after the refund counter, capped by half of what was used
refundGas(msg, gas, refund) == gas + Smaller((msg.gas - gas) \div 2, refund)

\* Gas is bought, the intrinsic gas is not covered: the transaction is skipped
\* and nothing returns what was bought.
SkipAfterBuying(msg) ==
    /\ balance' = buyGas(msg)
    /\ gasPool' = gasPool - msg.gas
    /\ batch' = [batch EXCEPT !.skipped = Append(@, at)]
    /\ UNCHANGED <<nonce, gasUsed>>

\* the whole of TransitionDb and the receipt of applyTransaction
Included(tx, msg, r, left) ==
    /\ balance' = [r.bal EXCEPT ![msg.from] = @ + left * msg.price]
    /\ nonce' = [r.nonce EXCEPT ![msg.from] = IF r.advance THEN @ + 1 ELSE @]
    /\ gasPool' = gasPool - msg.gas + left
    /\ gasUsed' = gasUsed + (msg.gas - left)
    /\ batch' = [batch EXCEPT !.receipts = Append(@,
                    [tx |-> tx, status |-> r.ok, gasUsed |-> msg.gas - left,
                     cumulative |-> gasUsed', index |-> at, minted |-> r.minted])]

TransitionDb(tx, msg) ==
    \E r \in EvmResults(msg, buyGas(msg), msg.gas - IntrinsicGas(msg)) :
        Included(tx, msg, r,
                 refundGas(msg, r.gas - unusedCharge(msg, r.gas), r.refund))

----------------------------------------------------------------------------
(* Process and Execute: the batches, one transaction a step.               *)

Current == Head(batches)

ApplyTransaction(tx, msg, internal) ==
    \/ /\ preCheck(msg, internal)
       /\ IF IntrinsicGas(msg) = NoGas \/ msg.gas < IntrinsicGas(msg)
          THEN SkipAfterBuying(msg)
          ELSE TransitionDb(tx, msg)
    \/ /\ ~preCheck(msg, internal)
       /\ batch' = [batch EXCEPT !.skipped = Append(@, at)]
       /\ UNCHANGED <<balance, nonce, gasPool, gasUsed>>

ProcessNext ==
    /\ events = <<>> /\ batches # <<>>
    /\ at < Len(Current.txs)
    /\ ApplyTransaction(Current.txs[at + 1], Message(Current.txs[at + 1], Current.internal),
                        Current.internal)
    /\ at' = at + 1
    /\ UNCHANGED <<events, batches, incomingTxs, skippedTxs, receipts, block>>

\* offsets left relative to the batch
ExecuteNoOffset ==
    /\ events = <<>> /\ batches # <<>>
    /\ at = Len(Current.txs)
    /\ incomingTxs' = incomingTxs \o Current.txs
    /\ skippedTxs' = skippedTxs \o batch.skipped
    /\ receipts' = receipts \o batch.receipts
    /\ batches' = Tail(batches)
    /\ at' = 0
    /\ gasPool' = MaxUint64
    /\ batch' = [skipped |-> <<>>, receipts |-> <<>>]
    /\ UNCHANGED <<events, balance, nonce, gasUsed, block>>

\* Execute after Process returned: offsets become offsets in all incoming txs
Execute ==
    /\ events = <<>> /\ batches # <<>>
    /\ at = Len(Current.txs)
    /\ incomingTxs' = incomingTxs \o Current.txs
    /\ skippedTxs' = skippedTxs \o [i \in DOMAIN batch.skipped |->
                                        batch.skipped[i] + Len(incomingTxs)]
    /\ receipts' = receipts \o batch.receipts
    /\ batches' = Tail(batches)
    /\ at' = 0
    /\ gasPool' = MaxUint64
    /\ batch' = [skipped |-> <<>>, receipts |-> <<>>]
    /\ UNCHANGED <<events, balance, nonce, gasUsed, block>>

\* One pass over the transactions with a cursor in the skipped offsets.
FilterSkippedTxs(txs, skipped) ==
    LET step(acc, i) ==
            IF acc.cursor < Len(skipped) /\ skipped[acc.cursor + 1] = i - 1
            THEN [acc EXCEPT !.cursor = @ + 1]
            ELSE [acc EXCEPT !.txs = Append(@, txs[i])]
    IN  FoldLeft(step, [cursor |-> 0, txs |-> <<>>],
                 [i \in 1 .. Len(txs) |-> i]).txs

Finalize ==
    /\ events = <<>> /\ batches = <<>> /\ ~block.done
    /\ block' = [done |-> TRUE, txs |-> FilterSkippedTxs(incomingTxs, skippedTxs),
                 gasUsed |-> gasUsed]
    /\ UNCHANGED <<events, batches, balance, nonce, gasPool, at, batch, gasUsed,
                   incomingTxs, skippedTxs, receipts>>

EvmInit(payloads, internals) ==
    /\ events \in payloads
    /\ \E pre \in internals :
           batches = <<[internal |-> TRUE, txs |-> pre], [internal |-> FALSE, txs |-> <<>>]>>
    /\ balance = [a \in Account |-> IF a \in Senders THEN Funds ELSE 0]
    /\ nonce = [a \in Account |-> 0]
    /\ gasPool = MaxUint64
    /\ at = 0
    /\ batch = [skipped |-> <<>>, receipts |-> <<>>]
    /\ gasUsed = 0
    /\ incomingTxs = <<>> /\ skippedTxs = <<>> /\ receipts = <<>>
    /\ block = [done |-> FALSE, txs |-> <<>>, gasUsed |-> 0]

EvmNext == CheckEvent \/ ProcessNext \/ Execute \/ Finalize

----------------------------------------------------------------------------
(* Properties.                                                             *)

Total(s, op(_)) == FoldLeft(LAMBDA sum, x : sum + op(x), 0, s)

AllReceipts == receipts \o batch.receipts
Price(tx) == IF tx.from = Zero THEN 0 ELSE tx.price

\* Value leaves the accounts only as the fees of the receipts, or by the
\* EvmWriter's setBalance on the driver's behalf: whatever else the EVM did, what
\* all accounts hold together differs from what they held by exactly the balances
\* it set less the gas each receipt reports times its price.  In particular what a
\* reverted call had minted is gone, and a skipped transaction, which has no
\* receipt, cost its sender nothing, although TransitionDb buys the gas before it
\* looks at the intrinsic gas and never gives it back when it then fails.
FeesMatchReceipts ==
    SumFunction(balance)
        + Total(AllReceipts, LAMBDA r : r.gasUsed * Price(r.tx))
    = Cardinality(Senders) * Funds + Total(AllReceipts, LAMBDA r : r.minted)

\* The i-th transaction of the finalized block is the i-th receipt's (the
\* receipts, positions and logs of a block are joined by that offset only), a
\* receipt's own gas is the difference of two cumulative numbers (GetReceipts
\* restores it so), and no transaction pays for less gas than its intrinsic gas
\* less the refund, or more than its limit.
BlockMatchesReceipts ==
    block.done =>
        /\ [i \in DOMAIN receipts |-> receipts[i].tx] = block.txs
        /\ \A i \in DOMAIN receipts :
               /\ receipts[i].gasUsed = receipts[i].cumulative -
                      (IF i = 1 THEN 0 ELSE receipts[i - 1].cumulative)
               /\ receipts[i].gasUsed <= receipts[i].tx.gas
               /\ 2 * receipts[i].gasUsed >= IntrinsicGas(receipts[i].tx)
        /\ block.gasUsed = Total(receipts, LAMBDA r : r.gasUsed)

\* A signed transaction is included at most once, in the order of its sender's
\* nonces, even when several events of the block carry it or the driver increased
\* the nonce in between.  The one exception is
\* a creation whose value the sender cannot pay: it is included, charged, and
\* leaves the nonce where it was.
IncludedOnce ==
    \A i, j \in DOMAIN AllReceipts :
        LET a == AllReceipts[i].tx
            b == AllReceipts[j].tx
        IN  (i < j /\ a.from = b.from /\ a.from \in Senders) =>
                \/ a.nonce < b.nonce
                \/ a.nonce = b.nonce /\ a.to = "create" /\ ~AllReceipts[i].status
============================================================================
