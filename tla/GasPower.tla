------------------------------ MODULE GasPower ------------------------------
(***************************************************************************)
(* Gas power: how much gas the events of one validator may carry.          *)
(* eventcheck/gaspowercheck allocates it over time, epochcheck and         *)
(* basiccheck check what an event claims, and the emitter                  *)
(* (gossip/emitter/control.go, txs.go, and Service.buildEvent) decides     *)
(* when to emit and how much of it to spend.                               *)
(*                                                                         *)
(* The chain of one validator is followed, an event at a time: either the  *)
(* local emitter's, tried once per unit of time, or a remote validator's,  *)
(* which may claim anything.  Time is in seconds, ratios are in tenths.    *)
(***************************************************************************)
EXTENDS Integers, Sequences, TLC

CONSTANTS MaxTime,      \* bound on the clock
          MaxEpoch      \* bound on the epochs

MaxUint64 == 63
MaxInt64 == 31
DecimalUnit == 10

\* economy rules, scaled
EventGas == 1
ParentGas == 1
ExtraDataGas == 1
MaxFreeParents == 1
MaxEventGas == 8
TxGas == 2
MaxBlockGas == 30
BlockMissedSlack == 4
Validators == 2                                \* of equal weight
Config == << [alloc |-> 8, maxPeriod |-> 4, startupPeriod |-> 1, minStartup |-> 3],
             [alloc |-> 4, maxPeriod |-> 9, startupPeriod |-> 1, minStartup |-> 5] >>
\* emitter configuration, scaled
EmergencyThreshold == 1
NoTxsThreshold == 2
LimitedTpsThreshold == 5
IntervalMin == 1
IntervalConfirming == 2
IntervalMax == 2
VersionLength == 1      \* of VersionToPublish, in the first event of an epoch
MedianLag == 3          \* the median time follows the clock within this

NoEvent == [seq |-> 0]

VARIABLES own,          \* the chain is the local emitter's
          now, epoch, epochStart,
          last,         \* the validator's last event of the epoch, or NoEvent
          prevEpochEvent, gasRefund,
          forward,      \* by how much its median times of the epoch moved forward
          spent,        \* gas its events of the epoch used
          prevEmittedAtTime, prevIdleTime,
          incorrect     \* the emitter's own event failed Check

gvars == <<own, now, epoch, epochStart, last, prevEpochEvent, gasRefund,
           forward, spent, prevEmittedAtTime, prevIdleTime, incorrect>>

Least(S) == CHOOSE x \in S : \A y \in S : x <= y
Greatest(S) == CHOOSE x \in S : \A y \in S : x >= y

\* GasPowerLeft.Min, Max and Sub
MinLeft(left) == Least({left[1], left[2]})
MaxLeft(left) == Greatest({left[1], left[2]})
Sub(left, gas) == [i \in 1 .. 2 |-> left[i] - gas]

----------------------------------------------------------------------------
(* Allocation.                                                             *)

calcValidatorGasPowerPerSec(c) ==
    LET perSec == c.alloc \div Validators
    IN  [perSec |-> perSec,
         max |-> Greatest({perSec * c.maxPeriod, MaxEventGas}),
         startup |-> Greatest({perSec * c.startupPeriod, c.minStartup})]

\* a median time before the previous one is not looked for
UncappedBackwards(first, eTime, prevTime, prevLeft, rate) ==
    (IF first THEN Greatest({prevLeft, rate.startup}) ELSE prevLeft)
        + ((eTime - prevTime) % (MaxUint64 + 1)) * rate.perSec

\* A median time before the previous one, as after a fork became visible, counts
\* as no time at all.
Uncapped(first, eTime, prevTime, prevLeft, rate) ==
    (IF first THEN Greatest({prevLeft, rate.startup}) ELSE prevLeft)
        + (eTime - Least({prevTime, eTime})) * rate.perSec

CalcValidatorGasPower(first, eTime, prevTime, prevLeft, c) ==
    Least({Uncapped(first, eTime, prevTime, prevLeft, calcValidatorGasPowerPerSec(c)),
           calcValidatorGasPowerPerSec(c).max})

calcGasPower(median, i) ==
    IF last # NoEvent
    THEN CalcValidatorGasPower(FALSE, median, last.median, last.left[i], Config[i])
    ELSE IF prevEpochEvent # NoEvent
    THEN CalcValidatorGasPower(TRUE, median, prevEpochEvent.median,
                               prevEpochEvent.left[i] + gasRefund, Config[i])
    ELSE CalcValidatorGasPower(TRUE, median, epochStart, gasRefund, Config[i])

CalcGasPower(median) == [i \in 1 .. 2 |-> calcGasPower(median, i)]

----------------------------------------------------------------------------
(* The checks of an event e: [seq, created, median, parents, extra, txsGas, *)
(* used, left], where parents and extra are how many and how long.          *)

CalcGasPowerUsed(e) ==
    e.txsGas + Greatest({0, e.parents - MaxFreeParents}) * ParentGas
        + e.extra * ExtraDataGas + EventGas

\* only the gas used is bounded
BasicValidateUsedOnly(e) == e.used < MaxInt64 - 1

BasicValidate(e) == e.used < MaxInt64 - 1 /\ MaxLeft(e.left) < MaxInt64 - 1

checkGas(e) == e.used <= MaxEventGas /\ e.used = CalcGasPowerUsed(e)

\* uint64 addition
GasPowerValidate(e) ==
    \A i \in 1 .. 2 : (e.left[i] + e.used) % (MaxUint64 + 1) = CalcGasPower(e.median)[i]

ParentsValidate(e) == last # NoEvent => e.created > last.created

Check(e) == BasicValidate(e) /\ checkGas(e) /\ ParentsValidate(e) /\ GasPowerValidate(e)

Connect(e) ==
    /\ last' = e
    /\ spent' = spent + e.used
    /\ forward' = IF last = NoEvent THEN 0 ELSE forward + Greatest({0, e.median - last.median})

----------------------------------------------------------------------------
(* Emission.                                                               *)

\* the built event has no transactions yet
buildEvent(created, env) ==
    LET bare == [seq |-> last.seq + 1, created |-> created, median |-> env.median,
                 parents |-> env.parents, txsGas |-> 0,
                 extra |-> IF last = NoEvent THEN VersionLength ELSE 0]
        used == CalcGasPowerUsed(bare)
    IN  bare @@ [used |-> used, left |-> Sub(CalcGasPower(env.median), used)]

EnoughGasPower(e) == e.used <= MinLeft(CalcGasPower(e.median))

maxBlocks ==
    LET half == BlockMissedSlack \div 2 + 1
    IN  IF BlockMissedSlack > half /\ half < BlockMissedSlack - 5
        THEN BlockMissedSlack - 5 ELSE half

\* env: [idle, metric, ratio, blocks, pending, median, parents], what the emitter reads
passedIdle(e, env) ==
    LET passed == e.created - prevEmittedAtTime
        idleFor == e.created - prevIdleTime
    IN  Least({passed,
               IF 100 * env.ratio < 35 * DecimalUnit THEN passed
               ELSE IF 10 * env.ratio < 7 * DecimalUnit THEN (idleFor + passed) \div 2
               ELSE idleFor})

Adjusted(t, metric) == (t * metric) \div DecimalUnit

PowerDecreases(e) ==
    /\ MinLeft(e.left) <= EmergencyThreshold
    /\ last # NoEvent /\ MinLeft(e.left) < MinLeft(last.left)

TooLong(e, env) ==
    \/ e.created - prevEmittedAtTime >= IntervalMax
    \/ env.blocks >= (maxBlocks * 4) \div 5 /\ 2 * env.metric >= DecimalUnit
    \/ env.blocks >= maxBlocks

SlowThreshold == (NoTxsThreshold + EmergencyThreshold) \div 2

TooSoonForPower(e) ==
    /\ MinLeft(e.left) <= SlowThreshold
    /\ e.created - prevEmittedAtTime
         < IntervalMax - ((IntervalMax - IntervalMin) * MinLeft(e.left)) \div SlowThreshold

\* the rule of the greatest interval dropped
isAllowedToEmitLazy(e, eTxs, env) ==
    /\ ~PowerDecreases(e)
    /\ ~TooSoonForPower(e)
    /\ ~env.idle \/ eTxs
    /\ e.created - prevEmittedAtTime >= IntervalMin
    /\ env.idle \/ Adjusted(e.created - prevEmittedAtTime, env.metric) >= IntervalMin
    /\ env.idle \/ eTxs \/ Adjusted(passedIdle(e, env), env.metric) >= IntervalConfirming

isAllowedToEmit(e, eTxs, env) ==
    /\ ~PowerDecreases(e)
    /\ \/ TooLong(e, env)
       \/ /\ ~TooSoonForPower(e)
          /\ e.created - prevEmittedAtTime >= IntervalMax \/ ~env.idle \/ eTxs
          /\ e.created - prevEmittedAtTime >= IntervalMin
          /\ env.idle \/ Adjusted(e.created - prevEmittedAtTime, env.metric) >= IntervalMin
          /\ env.idle \/ eTxs \/ Adjusted(passedIdle(e, env), env.metric) >= IntervalConfirming

\* of `power` the part above the limit, and half of what lies between the thresholds
smoothGas(power, use) ==
    LET x1 == Greatest({NoTxsThreshold, power - use, 0})
        x2 == Least({LimitedTpsThreshold, power})
    IN  Greatest({0, power - x2}) + Greatest({0, x2 - x1}) \div 2

estimatedAlloc(e) ==
    CalcValidatorGasPower(FALSE, e.created, e.median, 0,
        [alloc |-> (Config[2].alloc * 4) \div 5, maxPeriod |-> 60, startupPeriod |-> 0,
         minStartup |-> 0])

smoothed(e, use) ==
    IF LimitedTpsThreshold <= NoTxsThreshold THEN use
    ELSE IF MinLeft(e.left) + estimatedAlloc(e) < NoTxsThreshold THEN 0
    ELSE Least({use, smoothGas(MinLeft(e.left) + estimatedAlloc(e), use)})

maxPendingGas ==
    Greatest({(MaxBlockGas * 3) \div 5, MaxEventGas + EventGas * Validators})

\* what the two last limits leave: pending gas, and the threshold without txs
limited(e, use, env) ==
    IF maxPendingGas <= env.pending \/ MinLeft(e.left) <= NoTxsThreshold THEN 0
    ELSE Least({use, maxPendingGas - env.pending, MinLeft(e.left) - NoTxsThreshold})

maxGasPowerToUse(e, env) ==
    limited(e, smoothed(e, Least({MaxEventGas, MinLeft(e.left)})), env)

\* the gas left is not reduced
addTxKeepsLeft(e, g, maxGas) ==
    IF g >= MinLeft(e.left) \/ e.used + g >= maxGas
    THEN e
    ELSE [e EXCEPT !.used = @ + g, !.txsGas = @ + g]

\* One transaction of gas g: added, skipped, or the end of the loop (stop).
addTx(e, g, maxGas) ==
    IF g >= MinLeft(e.left) \/ e.used + g >= maxGas
    THEN e
    ELSE [e EXCEPT !.used = @ + g, !.left = Sub(@, g), !.txsGas = @ + g]

CannotOriginate(e, maxGas) == TxGas >= MinLeft(e.left) \/ e.used + TxGas >= maxGas

\* the pool offers up to two transactions of gas g
addTxs(e, g, maxGas) ==
    IF maxGas <= e.used \/ g = 0 THEN e
    ELSE LET one == addTx(e, g, maxGas)
         IN  IF one = e \/ CannotOriginate(one, maxGas) THEN one ELSE addTx(one, g, maxGas)

Emitted(e, env) == isAllowedToEmit(e, e.txsGas # 0, env) \/ e.txsGas # 0

Envs(time) ==
    {[idle |-> i, metric |-> m[1], ratio |-> m[2], blocks |-> b[1], pending |-> b[2],
      parents |-> b[3], median |-> t] :
        i \in BOOLEAN, m \in {<<1, 2>>, <<6, 5>>, <<6, 9>>},
        b \in {<<0, 0, 1>>, <<0, 0, MaxFreeParents + 1>>, <<2, 15, MaxFreeParents>>},
        t \in {Greatest({1, time - MedianLag}), time - 1}}

TryEmit(env, g) ==
    \E built \in {buildEvent(now', env)} :
    \E e \in {addTxs(built, g, maxGasPowerToUse(built, env))} :
        IF EnoughGasPower(built) /\ isAllowedToEmit(built, TRUE, env) /\ Emitted(e, env)
        THEN IF Check(e)
             THEN Connect(e) /\ prevEmittedAtTime' = now' /\ UNCHANGED incorrect
             ELSE incorrect' = TRUE /\ UNCHANGED <<last, spent, forward, prevEmittedAtTime>>
        ELSE UNCHANGED <<last, spent, forward, prevEmittedAtTime, incorrect>>

recheckIdleTime(env) == prevIdleTime' = IF env.idle THEN now' ELSE prevIdleTime

\* tick: the emitter looks at the clock every second
Tick ==
    /\ own /\ now < MaxTime
    /\ now' = now + 1
    /\ \E env \in Envs(now') :
       \E g \in {0, 2, 3} :
        /\ recheckIdleTime(env)
        /\ TryEmit(env, g)
    /\ UNCHANGED <<own, epoch, epochStart, prevEpochEvent, gasRefund>>

----------------------------------------------------------------------------
(* A remote validator's event, and the end of an epoch.                    *)

\* the claims that come near what the check computes
Claims(power, used) == {(power - used) % (MaxUint64 + 1), Greatest({0, power - used}), power}

Receive ==
    /\ ~own
    /\ \E median \in {1, now - 1, now} \ {0} : \E power \in {CalcGasPower(median)},
          shape \in {<<1, 0, 0>>, <<MaxFreeParents + 1, 1, 3>>}, used \in {1, 6} :
       \E left1 \in Claims(power[1], used), left2 \in Claims(power[2], used) :
       \E e \in {[seq |-> last.seq + 1, created |-> now, median |-> median,
                  parents |-> shape[1], extra |-> shape[2], txsGas |-> shape[3],
                  used |-> used, left |-> <<left1, left2>>]} :
           Check(e) /\ Connect(e)
    /\ UNCHANGED <<own, now, epoch, epochStart, prevEpochEvent, gasRefund,
                   prevEmittedAtTime, prevIdleTime, incorrect>>

Pass ==
    /\ ~own /\ now < MaxTime
    /\ now' = now + 1
    /\ UNCHANGED <<own, epoch, epochStart, last, prevEpochEvent, gasRefund, forward,
                   spent, prevEmittedAtTime, prevIdleTime, incorrect>>

\* SealEpoch and NewGasPowerContext: the last event and the refund of the
\* transactions it originated open the next epoch
SealEpoch ==
    /\ epoch < MaxEpoch
    /\ epoch' = epoch + 1
    /\ epochStart' \in {now, now - 1} \cap epochStart .. now
    /\ prevEpochEvent' = last
    /\ gasRefund' \in {0, 2}
    /\ last' = NoEvent
    /\ spent' = 0 /\ forward' = 0
    /\ UNCHANGED <<own, now, prevEmittedAtTime, prevIdleTime, incorrect>>

GasInit ==
    /\ own \in BOOLEAN
    /\ now = 1 /\ epoch = 1 /\ epochStart = 1
    /\ last = NoEvent /\ prevEpochEvent = NoEvent
    /\ gasRefund = 0 /\ forward = 0 /\ spent = 0
    /\ prevEmittedAtTime = 1 /\ prevIdleTime = 1
    /\ incorrect = FALSE

GasNext == Tick \/ Receive \/ Pass \/ SealEpoch

----------------------------------------------------------------------------
(* Properties.                                                             *)

\* Whatever a validator claims, the gas its accepted events of an epoch used and
\* the power it has left are paid for by one full allowance and the allocation of
\* the seconds by which its median times moved forward: a claim that wraps around
\* uint64 is refused by the bounds of basiccheck, on which gaspowercheck relies,
\* and a median time that goes back takes nothing away and gives nothing.  As
\* long as the median times do not go back, those seconds are the time between the
\* first and the last event; seconds that pass twice, after a median went back,
\* are allocated twice (CalcValidatorGasPower).
RateIsBounded ==
    last # NoEvent =>
        \A i \in 1 .. 2 :
            LET rate == calcValidatorGasPowerPerSec(Config[i])
            IN  spent + last.left[i] <= rate.max + rate.perSec * forward

\* What the emitter builds passes every check it is then given to, however the
\* limits on its transactions combine, and transactions never take the power
\* below the threshold under which the validator stops originating.
EmitsCorrectly ==
    /\ ~incorrect
    /\ (own /\ last # NoEvent /\ last.txsGas # 0) => MinLeft(last.left) > NoTxsThreshold

\* The emitter never falls silent: with a tick every second it emits within the
\* greatest interval, or one second later, when the allocation has made up for one
\* event of a validator whose power was at its end.
NeverSilent == own => now - prevEmittedAtTime <= IntervalMax + 1
============================================================================
