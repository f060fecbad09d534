------------------------------- MODULE TxTurn -------------------------------
(***************************************************************************)
(* Which validator originates a transaction: gossip/emitter/txs.go takes   *)
(* turns, in an order drawn by utils/weighted_shuffle.go from a hash every *)
(* validator computes alike.  Each validator measures a transaction's age  *)
(* from the moment it saw it itself.  Its bounded memory of those moments   *)
(* may lose one: the transaction is then as if seen later.                  *)
(*                                                                         *)
(* The hash is external: a seed is any cyclic sequence of random numbers.  *)
(***************************************************************************)
EXTENDS Integers, Sequences, FiniteSets

CONSTANTS TxTurnPeriod, TxTurnPeriodLatency,
          Weights,      \* sequences of validator weights
          Seeds,        \* sequences of random numbers
          MaxNow

Unseen == -1

VARIABLES weights, seed, now,
          txTime        \* per validator, when it saw the transaction

tvars == <<weights, seed, now, txTime>>

----------------------------------------------------------------------------
(* The weighted shuffle: a heap-shaped tree over the weights, from 1.      *)

leftIndex(i) == 2 * i
rightIndex(i) == 2 * i + 1

RECURSIVE SubtreeWeight(_, _)
SubtreeWeight(w, i) ==
    IF i > Len(w) THEN 0
    ELSE w[i] + SubtreeWeight(w, leftIndex(i)) + SubtreeWeight(w, rightIndex(i))

build(w) == [i \in 1 .. Len(w) |-> [this |-> w[i], left |-> SubtreeWeight(w, leftIndex(i)),
                                    right |-> SubtreeWeight(w, rightIndex(i))]]

rand32(s, at) == s[(at % Len(s)) + 1]

\* the taken weight stays in the tree above it
RECURSIVE retrieveKeepsRight(_, _, _, _, _)
retrieveKeepsRight(w, s, nodes, at, i) ==
    LET node == nodes[i]
        r == rand32(s, at) % (node.this + node.left + node.right)
    IN  IF r < node.this
        THEN [chosen |-> i, nodes |-> [nodes EXCEPT ![i].this = 1], at |-> at + 1]
        ELSE IF r < node.this + node.left
        THEN retrieveKeepsRight(w, s, nodes, at + 1, leftIndex(i))
        ELSE retrieveKeepsRight(w, s, nodes, at + 1, rightIndex(i))

\* [chosen, nodes, at]: the index taken, the reduced tree, the numbers drawn
RECURSIVE retrieve(_, _, _, _, _)
retrieve(w, s, nodes, at, i) ==
    LET node == nodes[i]
        r == rand32(s, at) % (node.this + node.left + node.right)
        left == retrieve(w, s, nodes, at + 1, leftIndex(i))
        right == retrieve(w, s, nodes, at + 1, rightIndex(i))
    IN  IF r < node.this
        THEN [chosen |-> i, nodes |-> [nodes EXCEPT ![i].this = 0], at |-> at + 1]
        ELSE IF r < node.this + node.left
        THEN [left EXCEPT !.nodes[i].left = @ - w[left.chosen]]
        ELSE [right EXCEPT !.nodes[i].right = @ - w[right.chosen]]

RECURSIVE Retrieved(_, _, _)
Retrieved(w, s, size) ==
    IF size = 0 THEN [perm |-> <<>>, nodes |-> build(w), at |-> 0]
    ELSE LET prev == Retrieved(w, s, size - 1)
             next == retrieve(w, s, prev.nodes, prev.at, 1)
         IN  [perm |-> Append(prev.perm, next.chosen), nodes |-> next.nodes, at |-> next.at]

WeightedPermutation(size, w, s) == Retrieved(w, s, size).perm

----------------------------------------------------------------------------
(* Turns.                                                                  *)

Validator == 1 .. Len(weights)

getTxRoundIndex(t, seen) ==
    (IF t < seen THEN 0 ELSE (t - seen) \div TxTurnPeriod) % Len(weights)

\* the margin before the end of a round dropped
isMyTxTurnNoMargin(v, seen) ==
    LET round == getTxRoundIndex(now, seen)
    IN  WeightedPermutation(round + 1, weights, seed)[round + 1] = v

isMyTxTurn(v, seen) ==
    LET round == getTxRoundIndex(now, seen)
    IN  /\ round = getTxRoundIndex(now + TxTurnPeriodLatency, seen)
        /\ WeightedPermutation(round + 1, weights, seed)[round + 1] = v

\* memorizeTxTimes, when the pool announces the transaction, and getTxTime, when
\* the emitter asks for a time it does not know
memorizeTxTimes(v) ==
    /\ txTime[v] = Unseen
    /\ txTime' = [txTime EXCEPT ![v] = now]
    /\ UNCHANGED <<weights, seed, now>>

Clock ==
    /\ now < MaxNow
    /\ now' = now + 1
    /\ UNCHANGED <<weights, seed, txTime>>

TurnInit ==
    /\ weights \in Weights /\ seed \in Seeds
    /\ now = 0
    /\ txTime = [v \in 1 .. Len(weights) |-> Unseen]

TurnNext ==
    \/ \E v \in Validator : memorizeTxTimes(v)
    \/ Clock

----------------------------------------------------------------------------
(* Properties.                                                             *)

Seen == {v \in Validator : txTime[v] # Unseen}
Turn == {v \in Seen : isMyTxTurn(v, txTime[v])}
Distance(a, b) == IF a < b THEN b - a ELSE a - b

\* Two validators that saw a transaction within the latency of each other never
\* both take it for their turn, in whatever order they saw it, at whatever age,
\* and although each draws only as many entries of the order as it needs.
TurnIsExclusive ==
    \A u, v \in Turn : u # v => Distance(txTime[u], txTime[v]) > TxTurnPeriodLatency

\* Every validator gets a turn: the entries drawn for the successive rounds are
\* all the validators, each once, so a transaction waits at most one period per
\* validator for one that is alive.
EveryoneHasATurn ==
    {WeightedPermutation(r, weights, seed)[r] : r \in Validator} = Validator
============================================================================
