------------------------- MODULE BlockAccountProofs -------------------------
(* The account an epoch keeps of its events: the laws of sums that           *)
(* BlockEventProofs assumes hold, and AccountInv gives EventsAreAccounted.   *)
EXTENDS BlockEventProofs, FiniteSums

LEMMA GasLawsHold == GasLaws
<1>1. GasPowerUsed \in [Event -> Nat]
  BY Zenon, ConstantsAssumption
<1>2. \A S : GasOf(S) = Total(GasPowerUsed, S)
  BY Zenon DEF GasOf, Total
<1>3. GasOf({}) = 0
  BY Zenon, <1>2, TotalStep
<1>4. ASSUME NEW S \in SUBSET Event, IsFiniteSet(S)
      PROVE  \A R \in SUBSET S : IsFiniteSet(R)
  BY Zenon, <1>4, FS_Subset
<1>5. ASSUME NEW S \in SUBSET Event, IsFiniteSet(S), NEW e \in Event \ S
      PROVE  IsFiniteSet(S \cup {e}) /\ GasOf(S \cup {e}) = GasOf(S) + GasPowerUsed[e]
  <2>1. IsFiniteSet(S \cup {e})
    BY <1>5, FS_AddElement
  <2>2. Total(GasPowerUsed, S \cup {e}) = Total(GasPowerUsed, S) + GasPowerUsed[e]
    BY <1>1, <1>5, TotalAdd
  <2> QED
    BY Zenon, <1>2, <2>1, <2>2
<1> QED
  BY Zenon, <1>3, <1>4, <1>5, FS_EmptySet DEF GasLaws

LEMMA AccountGives ==
    ASSUME TypeOK, AccountInv
    PROVE  EventsAreAccounted
<1>1. EpochGasIsExact
  <2>1. (IF cb.active THEN cb.bs ELSE IF task.stage # "none" THEN task.bs ELSE store.bs).EpochGas
          = CurrentBs.EpochGas
    <3>1. task.stage \in Stage \cup {"none"}
      <4>1. NoTask.stage = "none"
        BY SMT DEF NoTask
      <4>2. task = NoTask \/ task.stage \in Stage
        BY Zenon DEF TypeOK, IsTask
      <4> QED
        BY Zenon, <4>1, <4>2
    <3>2. \/ task.stage = "none" /\ ~Unpublished
          \/ task.stage # "none" /\ Unpublished
          \/ task.stage \in {"notify", "commit"} /\ ~Unpublished
      BY SMT, <3>1 DEF Stage, Unpublished
    <3>3. task.stage \in {"notify", "commit"} => store.bs.EpochGas = task.bs.EpochGas
      BY Zenon DEF AccountInv, StageInv
    <3> QED
      BY Zenon, <3>2, <3>3 DEF CurrentBs
  <2> QED
    BY Zenon, <2>1 DEF AccountInv, GasInv, ConfirmedGas, GasOf, EpochGasIsExact
<1>2. ConfirmedEventInOneBlock
  <2> SUFFICES ASSUME ~cb.active, task.stage = "none",
                      NEW e \in store.confirmed, Txs[e] # {}
               PROVE  Cardinality(HeldBy(store, e)) = 1
    BY Zenon DEF ConfirmedEventInOneBlock, HeldBy
  <2>1. Pending = {}
    BY Zenon DEF Pending
  <2>2. PICK i \in DOMAIN store.blocks : HeldBy(store, e) = {i}
    BY Zenon, <2>1 DEF AccountInv, PlaceInv, Placed
  <2> QED
    BY Zenon, <2>2, FS_Singleton
<1>3. PrevEpochEventIsLast
  <2>1. \A v \in store.es.Validators \ Forker : LastIsLast(store, CurrentBs, v, Highest(v))
    BY Zenon DEF AccountInv, LastInv
  <2> QED
    BY Zenon, <2>1 DEF LastIsLast, PrevEpochEventIsLast, Precedes
<1>4. UptimeWithinEpoch
  <2> SUFFICES ASSUME task.stage # "none", \A r \in Rules : r.Berlin,
                      NEW v \in DOMAIN task.metrics \ Forker
               PROVE  task.metrics[v].Uptime + store.es.PrevEpochStart
                        <= Max({task.block.Time} \cup {MedianTime[e] : e \in
                                  {f \in store.confirmed : Creator[f] = v}})
    BY Zenon DEF UptimeWithinEpoch
  <2> DEFINE end == task.metrics[v].Uptime + store.es.PrevEpochStart
             M == {MedianTime[e] : e \in {f \in store.confirmed : Creator[f] = v}}
             S == {task.block.Time} \cup M
  <2>1. IsTask(task) /\ IsStore(store)
    BY DEF TypeOK, NoTask
  <2>2. task.block.Time \in Nat /\ store.confirmed \subseteq Event
        /\ store.es.PrevEpochStart \in Nat
    BY Zenon, <2>1 DEF IsTask, IsStore, IsEpochState
  <2>3. task.metrics[v].Uptime \in Nat /\ MetricIsBounded(v)
    BY Zenon DEF AccountInv, UptimeInv
  <2>4. end \in Nat /\ \E x \in S : end <= x
    <3>1. end \in Nat
      BY SMT, <2>2, <2>3
    <3>2. \/ end <= task.block.Time
          \/ \E e \in store.confirmed : Creator[e] = v /\ end <= MedianTime[e]
      BY Zenon, <2>3 DEF MetricIsBounded
    <3> HIDE DEF end
    <3> QED
      BY Zenon, <3>1, <3>2
  <2>5. S \in SUBSET Nat /\ S # {} /\ IsFiniteSet(S)
    <3>1. IsFiniteSet({f \in store.confirmed : Creator[f] = v})
      BY Zenon, FS_Subset DEF AccountInv, KnownInv, Known
    <3>2. IsFiniteSet(M)
      <4> DEFINE F == {f \in store.confirmed : Creator[f] = v}
      <4>1. IsFiniteSet(F) /\ M = {MedianTime[e] : e \in F}
        BY Zenon, <3>1
      <4> HIDE DEF F, M
      <4>2. IsFiniteSet({MedianTime[e] : e \in F})
        <5> DEFINE g == [e \in F |-> MedianTime[e]]
        <5>1. g \in Surjection(F, {MedianTime[e] : e \in F})
          BY Zenon DEF Surjection
        <5> HIDE DEF g
        <5> QED
          BY Zenon, <4>1, <5>1, FS_Surjection
      <4> QED
        BY Zenon, <4>1, <4>2
    <3>3. M \subseteq Nat
      BY <2>2, ConstantsAssumption
    <3> HIDE DEF M
    <3>4. S = M \cup {task.block.Time}
      BY Zenon
    <3>5. IsFiniteSet(M \cup {task.block.Time})
      BY Zenon, <3>2, FS_AddElement
    <3> QED
      BY Zenon, <2>2, <3>3, <3>4, <3>5
  <2> HIDE DEF S, end
  <2>6. Max(S) \in S /\ \A x \in S : x <= Max(S)
    BY Zenon, <2>5, MaxOfFinite
  <2>7. end <= Max(S)
    <3>1. PICK x \in S : end <= x
      BY Zenon, <2>4
    <3>2. x \in Nat /\ Max(S) \in Nat /\ x <= Max(S)
      BY Zenon, <2>5, <2>6
    <3> QED
      BY <2>4, <3>1, <3>2
  <2> QED
    BY Zenon, <2>7 DEF S, end
<1> QED
  BY Zenon, <1>1, <1>2, <1>3, <1>4 DEF EventsAreAccounted

(* What an epoch counts is right whatever is confirmed, skipped, sealed or   *)
(* lost in a crash: the gas is the sum over the confirmed events of the      *)
(* epoch, each event with transactions is in one block, the event carried    *)
(* over is the last one, and no more uptime is reported than the epoch has   *)
(* if median times do not go back (c_block_callbacks.go, eventmodule,        *)
(* sealmodule, driver_txs.go).                                               *)
THEOREM EventsAccounted ==
    ASSUME MedianTimeGrows
    PROVE  Spec => []EventsAreAccounted
<1>1. TypeOK /\ AccountInv => EventsAreAccounted
  BY Zenon, AccountGives
<1> QED
  BY <1>1, TypeCorrect, AccountInvariant, GasLawsHold, PTL
=============================================================================
