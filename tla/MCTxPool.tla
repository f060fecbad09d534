------------------------------ MODULE MCTxPool ------------------------------
(* The transaction pool for TLC: transactions are records of an account, a   *)
(* nonce, a price and a cost.                                                *)
EXTENDS TxPool

MCTx(from, nonce, price, cost) == [from |-> from, nonce |-> nonce, price |-> price, cost |-> cost]

MCSender == [t \in Tx |-> t.from]
MCNonce  == [t \in Tx |-> t.nonce]
MCPrice  == [t \in Tx |-> t.price]
MCCost   == [t \in Tx |-> t.cost]
MCSlots  == [t \in Tx |-> 1]

MCBlock(executed, poor, price) ==
    [executed |-> executed, balance |-> [x \in Addr |-> IF x \in poor THEN 1 ELSE 2], price |-> price]

MCGenesis == [balance |-> [x \in Addr |-> 2], price |-> 9]

(* One account, with a replacement, and blocks that use its nonces.          *)
OneAccount == {MCTx("a", 0, 10, 1), MCTx("a", 0, 11, 1), MCTx("a", 1, 10, 2)}

FewBlocks == {MCBlock(S, {}, 9) :
                S \in {{}, {MCTx("a", 0, 10, 1)}, {MCTx("a", 0, 11, 1), MCTx("a", 1, 10, 2)}}}

(* Two accounts that exceed the limits, and blocks that use their nonces,    *)
(* take a balance or raise the minimal gas price.                            *)
TwoAccounts == {MCTx("a", 0, 10, 1), MCTx("a", 1, 10, 2), MCTx("a", 2, 10, 1),
                MCTx("b", 0, 9, 1), MCTx("b", 0, 11, 1), MCTx("b", 1, 12, 1)}

SomeBlocks == {MCBlock({}, {}, 10),
               MCBlock({MCTx("a", 0, 10, 1)}, {"a"}, 9),
               MCBlock({MCTx("a", 0, 10, 1), MCTx("b", 0, 11, 1)}, {}, 9)}
=============================================================================
