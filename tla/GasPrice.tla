------------------------------ MODULE GasPrice ------------------------------
(***************************************************************************)
(* The gas price oracle (gossip/gasprice, utils/piecefunc) as the RPC and  *)
(* the transaction pool use it: concurrent calls of SuggestPrice share a   *)
(* price cached for the latest block, while the node connects events,      *)
(* finishes blocks and seals epochs.                                       *)
(***************************************************************************)
EXTENDS Integers, FiniteSets, Sequences, FiniteSetsExt

CONSTANTS DecimalUnit,     \* 1.0, as an integer
          Configs,         \* the configurations of the oracle
          Prices,          \* the values of Economy.MinGasPrice
          MaxTotalPower,   \* LongGasPower.AllocPerSec * MaxAllocPeriod / second
          PriceCallers,    \* concurrent calls
          MaxHead          \* the number of blocks

VARIABLES cfg, head, rules, pending, power, lastHead, lastPrice, call

pricevars == <<cfg, head, rules, pending, power, lastHead, lastPrice, call>>

Nil == -1

-----------------------------------------------------------------------------
\* sanitizeBigInt: an unset parameter gets its default, another one is brought
\* into its range.
Sanitized(val, low, high, default) ==
  IF val = 0 THEN default ELSE IF val < low THEN low ELSE IF val > high THEN high ELSE val

NewOracle(raw) ==
  LET top == Sanitized(raw.max, DecimalUnit, raw.max, 10 * DecimalUnit)
  IN [maxPrice |-> Sanitized(raw.maxPrice, raw.maxPrice, raw.maxPrice, 1000),
      minPrice |-> raw.minPrice,
      wall |-> Sanitized(raw.wall, 1, DecimalUnit - 2, 1),
      max |-> top,
      middle |-> Sanitized(raw.middle, DecimalUnit, top, 2 * DecimalUnit)]

-----------------------------------------------------------------------------
(* piecefunc.                                                              *)

Mul(a, b) == (a * b) \div DecimalUnit
Ratio(a, b) == (a * DecimalUnit) \div b

PieceBefore(dots, x) ==
  LET beyond == {i \in 2..(Len(dots) - 1) : dots[i][1] >= x}
  IN IF beyond = {} THEN Len(dots) - 1 ELSE Min(beyond)

\* The last dot is never compared: what lies beyond it belongs to the last piece.
Piece(dots, x) ==
  LET beyond == {i \in 2..(Len(dots) - 1) : dots[i][1] > x}
  IN IF beyond = {} THEN Len(dots) - 1 ELSE Min(beyond) - 1

Interpolate(p, q, x) ==
  LET ratio == Ratio(x - p[1], q[1] - p[1]) IN Mul(p[2], DecimalUnit - ratio) + Mul(q[2], ratio)

Get(dots, x) == Interpolate(dots[Piece(dots, x)], dots[Piece(dots, x) + 1], x)

-----------------------------------------------------------------------------
(* The oracle.                                                             *)

minGasPrice == Max({rules, pending, cfg.minPrice})

freeRatio ==
  LET r == (power * DecimalUnit) \div MaxTotalPower IN IF r > DecimalUnit THEN DecimalUnit ELSE r

Multiplier ==
  <<<<0, cfg.max>>, <<cfg.wall, cfg.max>>,
    <<cfg.wall + (DecimalUnit - cfg.wall) \div 2, cfg.middle>>,
    <<DecimalUnit, DecimalUnit>>>>

suggestPrice == (Get(Multiplier, freeRatio) * minGasPrice) \div DecimalUnit

\* A caller remembers the lowest minimum in force since it began (history).
Idle == [pc |-> "idle", head |-> 0, price |-> Nil, rules |-> 0]

\* SuggestPrice: the head is read, then the cache.
Begin(c) ==
  /\ call[c].pc = "idle"
  /\ call' = [call EXCEPT ![c] = [pc |-> "cache", head |-> head, price |-> Nil, rules |-> rules]]
  /\ UNCHANGED <<cfg, head, rules, pending, power, lastHead, lastPrice>>

ReadCache(c) ==
  /\ call[c].pc = "cache"
  /\ call' = IF call[c].head = lastHead
             THEN [call EXCEPT ![c].pc = "return", ![c].price = lastPrice]
             ELSE [call EXCEPT ![c].pc = "suggest"]
  /\ UNCHANGED <<cfg, head, rules, pending, power, lastHead, lastPrice>>

Suggest(c) ==
  /\ call[c].pc = "suggest"
  /\ call' = [call EXCEPT ![c].pc = "store", ![c].price = Min({suggestPrice, cfg.maxPrice})]
  /\ UNCHANGED <<cfg, head, rules, pending, power, lastHead, lastPrice>>

StoreUnclamped(c) ==
  /\ call[c].pc = "store"
  /\ call' = [call EXCEPT ![c].pc = "return"]
  /\ lastPrice' = call[c].price
  /\ lastHead' = call[c].head
  /\ UNCHANGED <<cfg, head, rules, pending, power>>

\* The minimum is read again, and the price is cached for the head that was
\* read at the beginning.
Store(c) ==
  /\ call[c].pc = "store"
  /\ \E price \in {Max({call[c].price, minGasPrice})} :
       /\ call' = [call EXCEPT ![c].pc = "return", ![c].price = price]
       /\ lastPrice' = price
  /\ lastHead' = call[c].head
  /\ UNCHANGED <<cfg, head, rules, pending, power>>

Return(c) ==
  /\ call[c].pc = "return"
  /\ call' = [call EXCEPT ![c] = Idle]
  /\ UNCHANGED <<cfg, head, rules, pending, power, lastHead, lastPrice>>

\* EvmStateReader: the soft bound the pool applies, never below the hard one.
RecommendedMinGasPrice(price) == Max({rules, (price * 3) \div 4})

-----------------------------------------------------------------------------
(* The node: connected events change the validators' gas power; a block    *)
(* may first seal an epoch, which publishes the pending rules before the   *)
(* block itself, and may end with changed pending rules.                   *)

\* TotalGasPowerLeft over the last events of the validators.
EventConnected ==
  /\ power' \in {p \in 0..MaxTotalPower : p # power}
  /\ UNCHANGED <<cfg, head, rules, pending, lastHead, lastPrice, call>>

SealEpoch ==
  /\ rules # pending /\ head < MaxHead
  /\ rules' = pending
  /\ call' = [c \in PriceCallers |-> [call[c] EXCEPT !.rules = Min({@, pending})]]
  /\ UNCHANGED <<cfg, head, pending, power, lastHead, lastPrice>>

EndBlock ==
  /\ head < MaxHead
  /\ head' = head + 1
  /\ pending' \in Prices
  /\ UNCHANGED <<cfg, rules, power, lastHead, lastPrice, call>>

PriceInit ==
  /\ cfg \in {NewOracle(raw) : raw \in Configs}
  /\ head = 1 /\ rules \in Prices /\ pending = rules
  /\ power \in 0..MaxTotalPower
  /\ lastHead = 0 /\ lastPrice = Nil
  /\ call = [c \in PriceCallers |-> Idle]

PriceNext ==
  \/ \E c \in PriceCallers : Begin(c) \/ ReadCache(c) \/ Suggest(c) \/ Store(c) \/ Return(c)
  \/ EventConnected \/ SealEpoch \/ EndBlock

-----------------------------------------------------------------------------
\* A suggested price is never the unset one, and is at least the minimum of the
\* rules in force during the call and of the operator's configuration, although
\* it may come from the cache and be stored by a call that was overtaken by
\* blocks and an epoch; what the pool then applies is not below the rules of
\* the moment (SuggestPrice, RecommendedMinGasPrice).
PriceIsEnough ==
  \A c \in PriceCallers : call[c].pc = "return" =>
    /\ call[c].price >= Max({call[c].rules, cfg.minPrice})
    /\ RecommendedMinGasPrice(call[c].price) >= rules

\* The multiplier of the minimum price stays between its end points and, unless
\* an unset middle was given a default above the maximum, more free gas power
\* never raises it by more than the rounding of its two terms (piecefunc.Get,
\* suggestPrice).
MultiplierIsBounded ==
  \A x \in 0..DecimalUnit :
    LET y == Get(Multiplier, x)
    IN /\ DecimalUnit - 1 <= y /\ y <= Max({cfg.max, cfg.middle})
       /\ x < DecimalUnit /\ cfg.middle <= cfg.max => Get(Multiplier, x + 1) <= y + 1
=============================================================================
