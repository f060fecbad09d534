-------------------------------- MODULE MCRpc --------------------------------
(* The RPC calls, by what they work on: the stored chain (Reads), the index  *)
(* of logs (Topics), the accounts of the keystore and the pool (Sending),    *)
(* gas estimation and access lists (Estimate), the records of the SFC        *)
(* contract (SfcApi) and the suggested gas price (GasPrice).  The calls of   *)
(* one group share no state with those of another.  A behaviour is one of    *)
(* the group `part', whose variables are v1, v2 and so on.                   *)
EXTENDS Integers, Sequences

VARIABLES part, v1, v2, v3, v4, v5, v6, v7, v8, v9, v10, v11

vars == <<part, v1, v2, v3, v4, v5, v6, v7, v8, v9, v10, v11>>

(* What a group with so many variables leaves alone.                         *)
Rest6 == <<part, v7, v8, v9, v10, v11>>
Rest8 == <<part, v9, v10, v11>>
Rest9 == <<part, v10, v11>>

Unused == "unused"
Free10 == v10 = Unused /\ v11 = Unused
Free9 == v9 = Unused /\ Free10
Free7 == v7 = Unused /\ v8 = Unused /\ Free9
Free3 == v3 = Unused /\ v4 = Unused /\ v5 = Unused /\ v6 = Unused /\ Free7
-----------------------------------------------------------------------------
R == INSTANCE Reads WITH MaxBlock <- 2, RangeLimit <- 1,
        pos <- v1, receipts <- v2, topics <- v3, logrecs <- v4, txs <- v5, blocks <- v6,
        hashes <- v7, head <- v8, cached <- v9, step <- v10, call <- v11
-----------------------------------------------------------------------------
(* Searches of two logs of up to two topics and a third log, for no, one or  *)
(* two addresses and up to two patterns with alternatives, repeated          *)
(* alternatives, null and malformed topics.                                  *)
L == INSTANCE Topics WITH MaxTopicsCount <- 3

Vals == {"x", "y"}
LogTopics == {<<>>} \cup {<<x>> : x \in Vals} \cup (Vals \X Vals)
Log(id, block, addr, topics) == [id |-> id, block |-> block, addr |-> addr, topics |-> topics]
Logs == {{Log(1, 1, "x", t), Log(2, 2, "y", u), Log(3, 2, "x", <<"y", "x", "y">>)} :
           t \in LogTopics, u \in {<<"x">>, <<"y", "y">>}}
Variants == {<<"null">>, <<"x">>, <<"x", "y">>, <<"y", "null">>, <<"bad">>, <<"x", "x">>}
Searches ==
    {[from |-> b, to |-> 2, addr |-> a, topics |-> ts] :
       b \in {1, 2}, a \in {<<>>, <<"x">>, <<"x", "y">>, <<"bad">>},
       ts \in {<<>>} \cup {<<p>> : p \in Variants} \cup (Variants \X Variants)}
-----------------------------------------------------------------------------
M == INSTANCE Sending WITH Accounts <- {"a"}, Requests <- {1, 2}, FeeCap <- 5, Gas <- 2,
        HighPrice <- 3, MaxNonce <- 2,
        req <- v1, nonceLock <- v2, unlocked <- v3, pool <- v4, chain <- v5, sent <- v6

G == INSTANCE Estimate WITH TxGas <- 3, MaxGasLimit <- 9, Slots <- {1, 2},
        call <- v1, world <- v2, blocks <- v3, search <- v4, probes <- v5, acl <- v6

S == INSTANCE SfcApi WITH Validators <- {1, 2}, Addresses <- {"a", "b"}, Amount <- 2,
        MaxOps <- 2, MaxEpoch <- 2, Limit <- 1,
        ix <- v1, contract <- v2, logs <- v3, legacy <- v4, next <- v5, state <- v6,
        inBlock <- v7, ops <- v8, rpc <- v9

(* The oracle's defaults, bounds in force, and a middle ratio left unset.    *)
Config(maxp, minp, wall, max, middle) ==
    [maxPrice |-> maxp, minPrice |-> minp, wall |-> wall, max |-> max, middle |-> middle]
O == INSTANCE GasPrice WITH DecimalUnit <- 10, Prices <- {2, 4}, MaxTotalPower <- 1,
        Configs <- {Config(0, 0, 0, 0, 0), Config(3, 3, 5, 40, 13), Config(0, 0, 20, 15, 0)},
        PriceCallers <- {1, 2}, MaxHead <- 3,
        cfg <- v1, head <- v2, rules <- v3, pending <- v4, power <- v5, lastHead <- v6,
        lastPrice <- v7, call <- v8
-----------------------------------------------------------------------------
Init == \/ part = "reads" /\ R!ReadsInit
        \/ part = "topics" /\ v1 \in Searches /\ v2 \in Logs /\ Free3
        \/ part = "sending" /\ M!SendInit /\ Free7
        \/ part = "estimate" /\ G!EstInit /\ Free7
        \/ part = "sfc" /\ S!SfcInit /\ Free10
        \/ part = "price" /\ O!PriceInit /\ Free9

Next == \/ part = "reads" /\ R!ReadsNext /\ UNCHANGED part
        \/ part = "sending" /\ M!SendNext /\ UNCHANGED Rest6
        \/ part = "estimate" /\ G!EstNext /\ UNCHANGED Rest6
        \/ part = "sfc" /\ S!SfcNext /\ UNCHANGED Rest9
        \/ part = "price" /\ O!PriceNext /\ UNCHANGED Rest8

Spec == Init /\ [][Next]_vars
-----------------------------------------------------------------------------
(* The groups' properties; each module says what they mean.                  *)

(* No call meets a half-written block, but for the lookup of a transaction   *)
(* in it and an indexed search beyond the head (c_block_callbacks.go,        *)
(* ethapi_backend.go).                                                       *)
HalfWrittenIsHidden == part = "reads" => R!HalfWrittenIsHidden
(* A search through the index finds the logs the request means and no other, *)
(* as the filter of a subscription does (topicsdb, filters/filter.go).       *)
SearchIsExact == part = "topics" => L!SearchIsExact(v1, v2)
(* An estimate suffices and one unit less does not (api.go DoEstimateGas),   *)
(* and the search of an access list ends with a list that covers the call.   *)
EstimatesHold == part = "estimate" => G!EstimateIsTight /\ G!AccessListConverges
(* The SFC records are those a replay of the contract's logs yields          *)
(* (sfcapi/process.go), and what the SFC calls answer while no block         *)
(* is processed is true of the contract (ethapi/sfc_api.go).                 *)
SfcAnswersHold == part = "sfc" => S!IndexIsReplay /\ S!QuietAnswersAreTrue
(* A suggested price is accepted by the pool, and its multiplier keeps to    *)
(* the configured bounds (gasprice/gasprice.go).                             *)
PriceIsEnough == part = "price" => O!PriceIsEnough /\ O!MultiplierIsBounded
=============================================================================
