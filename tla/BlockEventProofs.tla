-------------------------- MODULE BlockEventProofs --------------------------
(* What an epoch counts (the gas of the confirmed events, the block of each, *)
(* the last event of a validator and its uptime) is what was confirmed:      *)
(* AccountInv of BlockProc is inductive.                                     *)
EXTENDS BlockProcProofs

-----------------------------------------------------------------------------
(* Counting.                                                                 *)

(* What the counts need of finite sets: no event has no gas, one event more  *)
(* adds its gas, and finite sets stay finite.  GasLawsHold derives it from   *)
(* the lemmas of FiniteSums, in BlockAccountProofs.                          *)
GasLaws ==
    /\ IsFiniteSet({}) /\ GasOf({}) = 0
    /\ \A S \in SUBSET Event : IsFiniteSet(S) =>
         /\ \A R \in SUBSET S : IsFiniteSet(R)
         /\ \A e \in Event \ S :
              IsFiniteSet(S \cup {e}) /\ GasOf(S \cup {e}) = GasOf(S) + GasPowerUsed[e]


(* Two block states that count the same.                                     *)
SameCounts(a, b) ==
    /\ a.EpochGas = b.EpochGas /\ a.EpochCheaters = b.EpochCheaters
    /\ DOMAIN a.ValidatorStates = DOMAIN b.ValidatorStates
    /\ \A v \in DOMAIN b.ValidatorStates :
         /\ a.ValidatorStates[v].LastEvent = b.ValidatorStates[v].LastEvent
         /\ a.ValidatorStates[v].Uptime = b.ValidatorStates[v].Uptime
         /\ a.ValidatorStates[v].LastOnlineTime = b.ValidatorStates[v].LastOnlineTime

LEMMA OnNewLogKeepsCounts ==
    ASSUME NEW validators, NEW bs, IsBlockState(bs, validators), NEW tx \in Tx
    PROVE  SameCounts(OnNewLog(bs, LogOf[tx]), bs)
BY ConstantsAssumption, SMTT(30) DEF OnNewLog, SameCounts, IsBlockState, Log, NoLog

(* Executing the transactions of a block changes no counts.                  *)
LEMMA ExecuteFrame ==
    ASSUME TypeOK, StartTask \/ (\E tx \in Tx : ExecuteTx(tx) \/ OnNewReceipt(tx))
    PROVE  /\ task.stage \in {"internal", "execute"} /\ task'.stage = "execute"
           /\ task'.es = task.es /\ task'.block = task.block
           /\ task'.metrics = task.metrics /\ task'.confirmedEvents = task.confirmedEvents
           /\ SameCounts(task'.bs, task.bs)
           /\ store' = store /\ cb' = cb /\ disk' = disk
<1> DEFINE Frame ==
        /\ task.stage \in {"internal", "execute"} /\ task'.stage = "execute"
        /\ task'.es = task.es /\ task'.block = task.block
        /\ task'.metrics = task.metrics /\ task'.confirmedEvents = task.confirmedEvents
        /\ SameCounts(task'.bs, task.bs)
        /\ store' = store /\ cb' = cb /\ disk' = disk
<1>0. task.stage \in {"internal", "execute"} => IsTask(task)
  BY DEF TypeOK, NoTask
<1>00. SameCounts(task.bs, task.bs)
  BY Zenon DEF SameCounts
<1>1. CASE StartTask
  <2>1. task'.bs = task.bs
    BY Zenon, <1>0, <1>1 DEF StartTask, IsTask
  <2> QED
    BY Zenon, <1>0, <1>00, <1>1, <2>1 DEF StartTask, IsTask
<1>2. ASSUME NEW tx \in Tx, ExecuteTx(tx)
      PROVE  Frame
  <2>1. SameCounts(OnNewLog(task.bs, LogOf[tx]), task.bs)
    BY <1>0, <1>2, OnNewLogKeepsCounts, Zenon DEF ExecuteTx, IsTask
  <2> QED
    BY <1>0, <1>00, <1>2, <2>1, Zenon DEF ExecuteTx, IsTask
<1>3. ASSUME NEW tx \in Tx, OnNewReceipt(tx)
      PROVE  Frame
  <2> DEFINE w == Creator[FirstEvent(tx, task.events)]
             states == task.bs.ValidatorStates
             refunded == [states[w] EXCEPT !.DirtyGasRefund = @ + NotUsedGas[tx]]
             bs == IF w \in task.es.Validators
                   THEN [task.bs EXCEPT !.ValidatorStates = [states EXCEPT ![w] = refunded]]
                   ELSE task.bs
  <2>1. IsTask(task) /\ task.stage = "execute"
    BY <1>0, <1>3, Zenon DEF OnNewReceipt
  <2>2. /\ task' = [task EXCEPT !.receipts = @ \ {tx}, !.bs = bs]
        /\ store' = store /\ cb' = cb /\ disk' = disk
    BY <1>3, Zenon DEF OnNewReceipt
  <2>3. /\ DOMAIN states = task.es.Validators
        /\ \A v \in DOMAIN states : states[v] \in ValidatorBlockState
    BY Zenon, <2>1 DEF IsTask, IsBlockState
  <2>4. w \in DOMAIN states => /\ refunded.LastEvent = states[w].LastEvent
                               /\ refunded.Uptime = states[w].Uptime
                               /\ refunded.LastOnlineTime = states[w].LastOnlineTime
    BY Zenon, <2>3 DEF ValidatorBlockState
  <2> HIDE DEF w, refunded
  <2>5. SameCounts(bs, task.bs)
    BY Zenon, <2>1, <2>3, <2>4 DEF IsTask, IsBlockState, SameCounts
  <2> HIDE DEF bs
  <2>6. /\ task'.stage = task.stage /\ task'.es = task.es /\ task'.block = task.block
        /\ task'.metrics = task.metrics /\ task'.confirmedEvents = task.confirmedEvents
        /\ task'.bs = bs
    BY Zenon, <2>1, <2>2 DEF IsTask
  <2> QED
    BY Zenon, <2>1, <2>2, <2>5, <2>6
<1> QED
  BY Zenon, <1>1, <1>2, <1>3

(* The telling of the driver contract changes no counts either.              *)
LEMMA PreInternalKeepsCounts ==
    ASSUME NEW validators, NEW bs, IsBlockState(bs, validators)
    PROVE  SameCounts(ExecutePreInternalTxs(bs), bs)
<1> DEFINE states == bs.ValidatorStates
           marked == [v \in DOMAIN states |->
                         [states[v] EXCEPT !.Cheater = @ \/ v \in bs.EpochCheaters]]
<1>1. \A v \in DOMAIN states : /\ marked[v].LastEvent = states[v].LastEvent
                               /\ marked[v].Uptime = states[v].Uptime
                               /\ marked[v].LastOnlineTime = states[v].LastOnlineTime
  BY Zenon DEF IsBlockState, ValidatorBlockState
<1>2. DOMAIN marked = DOMAIN states
  BY Zenon
<1>3. ExecutePreInternalTxs(bs) =
        [bs EXCEPT !.ValidatorStates = marked, !.NextValidatorProfiles = @ \ ToDeactivate(bs)]
  BY Zenon DEF ExecutePreInternalTxs
<1> HIDE DEF marked
<1>4. /\ ExecutePreInternalTxs(bs).EpochGas = bs.EpochGas
      /\ ExecutePreInternalTxs(bs).EpochCheaters = bs.EpochCheaters
      /\ ExecutePreInternalTxs(bs).ValidatorStates = marked
  BY Zenon, <1>3 DEF IsBlockState
<1> QED
  BY Zenon, <1>1, <1>2, <1>4 DEF SameCounts

(* EndBlock in the words of the counts.                                      *)
Sealing == EpochSealing(NextBlockCtx, FinalizedBs, cb.es)
ToldBs == ExecutePreInternalTxs(FinalizedBs)
NextBs == IF Sealing THEN SealEpochBs(NextBlockCtx, ToldBs, cb.es) ELSE ToldBs
NextEs == IF Sealing THEN SealEpochEs(NextBlockCtx, ToldBs, cb.es) ELSE cb.es
NextMetrics == IF Sealing
               THEN [v \in cb.es.Validators |->
                        EpochMetric(FinalizedBs.ValidatorStates[v], cb.es, NextBlockCtx)]
               ELSE [v \in {} |-> 0]

LEMMA EndBlockFrame ==
    ASSUME TypeOK, StageInv, EndBlock
    PROVE  /\ IsCallback(cb) /\ cb.active /\ cb' = IdleCb /\ disk' = disk
           /\ task.stage = "none" /\ cb.es = store.es /\ cb.cone = {} /\ ~SkipBlock
           /\ task'.stage = "internal" /\ task'.es = NextEs /\ task'.bs = NextBs
           /\ task'.block = NextBlockCtx /\ task'.metrics = NextMetrics
           /\ task'.confirmedEvents = cb.confirmedEvents
           /\ store'.es = NextEs /\ store'.blocks = store.blocks
           /\ store'.confirmed = store.confirmed
<1>0. IsCallback(cb) /\ cb.active
  BY DEF EndBlock, TypeOK, IdleCb
<1>1. task.stage = "none" /\ cb.es = store.es
  BY Zenon, <1>0 DEF StageInv
<1>2. /\ cb' = IdleCb /\ disk' = disk /\ cb.cone = {} /\ ~SkipBlock
      /\ store' = IF Sealing THEN [store EXCEPT !.bs = NextBs, !.es = NextEs] ELSE store
  BY Zenon DEF EndBlock, Sealing, ToldBs, NextBs, NextEs
<1>3. /\ task'.stage = "internal" /\ task'.es = NextEs /\ task'.bs = NextBs
      /\ task'.block = NextBlockCtx /\ task'.metrics = NextMetrics
      /\ task'.confirmedEvents = cb.confirmedEvents
  BY Zenon DEF EndBlock, Sealing, ToldBs, NextBs, NextEs, NextMetrics
<1>4. ~Sealing => NextEs = store.es
  BY <1>1, Zenon DEF NextEs
<1>5. /\ store'.es = NextEs /\ store'.blocks = store.blocks
      /\ store'.confirmed = store.confirmed
  BY Zenon, <1>2, <1>4 DEF TypeOK, IsStore
<1> QED
  BY Zenon, <1>0, <1>1, <1>2, <1>3, <1>5

LEMMA StageInit == Init => StageInv
BY DEF Init, StageInv, IdleCb, NoTask

LEMMA StageStep ==
    ASSUME TypeOK, StageInv, [Next]_vars
    PROVE  StageInv'
<1>0. cb.active => IsCallback(cb)
  BY DEF TypeOK, IdleCb
<1>00. task.stage # "none" => IsTask(task)
  BY DEF TypeOK, NoTask
<1>1. ASSUME NEW atropos, NEW cheaters, NEW cone, BeginBlock(atropos, cheaters, cone)
      PROVE  StageInv'
  <2>1. /\ task' = task /\ task.stage = "none" /\ cb'.es = store.es /\ store'.es = store.es
        /\ store'.bs = store.bs /\ cb'.bs.LastBlock = store.bs.LastBlock
    BY Zenon, <1>1 DEF BeginBlock, WaitBlockEnd, TypeOK, IsStore, IsBlockState
  <2> QED
    BY Zenon, <2>1 DEF StageInv
<1>2. ASSUME NEW e, ApplyEvent(e)
      PROVE  StageInv'
  <2>1. /\ task' = task /\ task.stage = "none" /\ cb'.es = cb.es /\ cb.es = store.es
        /\ store'.es = store.es /\ store'.bs = store.bs
        /\ cb.bs.LastBlock = store.bs.LastBlock
    BY Zenon, <1>0, <1>2 DEF ApplyEvent, TypeOK, IsStore, IsCallback, StageInv
  <2>2. cb'.bs.LastBlock = cb.bs.LastBlock
    BY Zenon, <1>0, <1>2 DEF ApplyEvent, IsCallback, IsBlockState
  <2> QED
    BY Zenon, <2>1, <2>2 DEF StageInv
<1>3. CASE EndSkippedBlock
  BY Zenon, <1>3 DEF EndSkippedBlock, StageInv, IdleCb
<1>4. CASE EndBlock
  BY <1>4, EndBlockFrame DEF StageInv, IdleCb
<1>5. CASE StartTask \/ (\E tx \in Tx : ExecuteTx(tx) \/ OnNewReceipt(tx))
  BY Zenon, <1>5, ExecuteFrame DEF StageInv
<1>6. CASE SetBlock
  BY Zenon, <1>00, <1>6 DEF SetBlock, StageInv, IsTask, TypeOK, IsStore
<1>7. CASE SetBlockEpochState
  <2>1. /\ store'.es = task.es /\ task'.es = task.es /\ task'.bs = task.bs
        /\ task.stage = "publish" /\ task'.stage = "notify" /\ cb' = cb
        /\ store'.bs.EpochGas = task.bs.EpochGas
    BY Zenon, <1>00, <1>7 DEF SetBlockEpochState, IsTask, IsBlockState, TypeOK, IsStore
  <2> QED
    BY Zenon, <2>1 DEF StageInv
<1>8. CASE NotifyNewBlock
  BY Zenon, <1>00, <1>8 DEF NotifyNewBlock, StageInv, IsTask
<1>9. CASE CommitEVM
  <2>1. /\ task' = NoTask /\ task.stage = "commit" /\ cb' = cb
    BY Zenon, <1>9 DEF CommitEVM
  <2> QED
    BY Zenon, <2>1 DEF StageInv, NoTask
<1>10. CASE ClearBusyFlag \/ Commit \/ UNCHANGED vars
  BY Zenon, <1>10 DEF ClearBusyFlag, Commit, vars, StageInv
<1>11. CASE Crash
  BY Zenon, <1>11 DEF Crash, StageInv, IdleCb, NoTask
<1> QED
  BY Zenon, <1>1, <1>2, <1>3, <1>4, <1>5, <1>6, <1>7, <1>8, <1>9, <1>10, <1>11
     DEF Next, Step, Engine, BlockFn

LEMMA CurrentType ==
    ASSUME TypeOK, StageInv
    PROVE  IsBlockState(CurrentBs, store.es.Validators)
<1>1. CASE cb.active
  <2>1. IsCallback(cb) /\ cb.es = store.es
    BY <1>1 DEF TypeOK, IdleCb, StageInv
  <2> QED
    BY Zenon, <1>1, <2>1 DEF CurrentBs, IsCallback
<1>2. CASE ~cb.active /\ Unpublished
  <2>1. IsTask(task) /\ task.es = store.es
    BY <1>2 DEF TypeOK, NoTask, Unpublished, StageInv
  <2> QED
    BY Zenon, <1>2, <2>1 DEF CurrentBs, IsTask
<1>3. CASE ~cb.active /\ ~Unpublished
  BY Zenon, <1>3 DEF CurrentBs, TypeOK, IsStore
<1> QED
  BY Zenon, <1>1, <1>2, <1>3

(* What a step that counts nothing keeps.                                    *)
LEMMA LastOfSame ==
    ASSUME NEW s, NEW t, NEW a, NEW b, NEW v \in DOMAIN b.ValidatorStates, NEW h,
           t.confirmed = s.confirmed, t.es = s.es, SameCounts(a, b),
           LastIsLast(s, b, v, h)
    PROVE  LastIsLast(t, a, v, h)
BY Zenon DEF LastIsLast, SameCounts

(* Arithmetic used below.                                                    *)
LEMMA LeqRefl == \A i \in Nat : i <= i
BY SMT

LEMMA LeqTrans == \A i, j, k \in Nat : i <= j /\ j <= k => i <= k
BY SMT

LEMMA LeqNext == \A i, j \in Nat : i <= j => i < j + 1 /\ i <= j + 1 /\ i # j + 1
BY SMT

LEMMA PrecedesInEpoch ==
    ASSUME NEW e, NEW f, EpochOf[f] \in Nat, EpochOf[e] = EpochOf[f], Precedes(e, f)
    PROVE  Seq[e] <= Seq[f]
BY DEF Precedes

LEMMA LeqMaxOf == \A i, j \in Nat : 0 + i <= MaxOf(i, j)
BY SMT DEF MaxOf

LEMMA OnlineLast ==
    ASSUME NEW info, NEW e, NEW es, NEW block
    PROVE  Online(info, e, es, block).LastEvent = e
BY Zenon DEF Online

LEMMA ConfirmedGasOfSame ==
    ASSUME NEW s, NEW t, t.confirmed = s.confirmed, t.es = s.es
    PROVE  ConfirmedGas(t) = ConfirmedGas(s)
BY Zenon DEF ConfirmedGas

(* Events are ordered by epoch, then by sequence number.                     *)
LEMMA PrecedesLaws ==
    /\ \A e \in Event : Precedes(e, e)
    /\ \A e, f, g \in Event : Precedes(e, f) /\ Precedes(f, g) => Precedes(e, g)
    /\ \A e, f \in Event : EpochOf[e] = EpochOf[f] =>
         /\ Seq[e] > Seq[f] => Precedes(f, e)
         /\ ~(Seq[e] > Seq[f]) => Precedes(e, f)
    /\ \A e, f \in Event :
         EpochOf[e] <= EpochOf[f] /\ ~(EpochOf[f] = EpochOf[e] /\ Seq[f] < Seq[e]) => Precedes(e, f)
<1>1. \A e \in Event : EpochOf[e] \in Nat /\ Seq[e] \in Nat
  BY Zenon, ConstantsAssumption
<1> QED
  BY SMT, <1>1 DEF Precedes

LEMMA PlacedOfSame ==
    ASSUME NEW s, NEW t, NEW pending, t.confirmed = s.confirmed, t.blocks = s.blocks,
           Placed(s, pending)
    PROVE  Placed(t, pending)
<1>1. \A e : HeldBy(t, e) = HeldBy(s, e)
  BY Zenon DEF HeldBy
<1> QED
  BY Zenon, <1>1 DEF Placed

(* The claims of a state whose highest event is the last one, and of one     *)
(* that has counted nothing.                                                 *)
LEMMA LastAtStart ==
    ASSUME NEW s, NEW bs, NEW v, NEW last,
           bs.ValidatorStates[v].LastEvent = last,
           s.es.ValidatorStates[v].PrevEpochEvent = last,
           last # NoEvent => last \in s.confirmed /\ Creator[last] = v,
           \A e \in s.confirmed : EpochOf[e] < s.es.Epoch,
           last # NoEvent => \A e \in s.confirmed : Creator[e] = v => Precedes(e, last)
    PROVE  LastIsLast(s, bs, v, NoEvent)
BY Zenon DEF LastIsLast

LEMMA UptimeAtStart ==
    ASSUME NEW s, NEW bs, NEW v, NEW time,
           bs.ValidatorStates[v].Uptime = 0,
           s.es.EpochStart \in Nat, bs.ValidatorStates[v].LastOnlineTime \in Nat,
           \/ bs.ValidatorStates[v].LastOnlineTime <= time
           \/ \E e \in s.confirmed : Creator[e] = v /\ MedianTime[e] = bs.ValidatorStates[v].LastOnlineTime
    PROVE  UptimeIsBounded(s, bs, time, v)
<1>1. 0 + s.es.EpochStart <= MaxOf(s.es.EpochStart, bs.ValidatorStates[v].LastOnlineTime)
  BY Zenon, LeqMaxOf
<1>2. ~(0 > 0)
  BY SMT
<1> QED
  BY Zenon, <1>1, <1>2 DEF UptimeIsBounded

LEMMA UptimeLater ==
    ASSUME NEW s, NEW t, NEW bs, NEW v, NEW now \in Nat, NEW time \in Nat, now <= time,
           t.confirmed = s.confirmed, t.es = s.es, bs.ValidatorStates[v].LastOnlineTime \in Nat,
           UptimeIsBounded(s, bs, now, v)
    PROVE  UptimeIsBounded(t, bs, time, v)
BY Zenon, LeqTrans DEF UptimeIsBounded

LEMMA LastOfEqual ==
    ASSUME NEW s, NEW t, NEW a, NEW b, NEW v, NEW h, t.confirmed = s.confirmed, t.es = s.es,
           a.ValidatorStates = b.ValidatorStates, LastIsLast(s, b, v, h)
    PROVE  LastIsLast(t, a, v, h)
BY Zenon DEF LastIsLast

LEMMA UptimeOfSame ==
    ASSUME NEW s, NEW t, NEW a, NEW b, NEW v \in DOMAIN b.ValidatorStates, NEW time,
           t.confirmed = s.confirmed, t.es = s.es, SameCounts(a, b),
           UptimeIsBounded(s, b, time, v)
    PROVE  UptimeIsBounded(t, a, time, v)
BY Zenon DEF UptimeIsBounded, SameCounts

LEMMA QuietStep ==
    ASSUME TypeOK, StageInv, KnownInv, GasInv, LastInv, UptimeInv,
           cb' = cb, disk' = disk, store'.es = store.es, store'.confirmed = store.confirmed,
           SameCounts(CurrentBs', CurrentBs), CurrentTime' = CurrentTime,
           task'.stage # "none" => /\ task.stage # "none" /\ task'.metrics = task.metrics
                                   /\ task'.block = task.block
    PROVE  KnownInv' /\ GasInv' /\ LastInv' /\ UptimeInv'
<1>0. /\ DOMAIN CurrentBs.ValidatorStates = store.es.Validators
      /\ \A e \in Cone : Creator[e] \in store.es.Validators
  <2>1. DOMAIN CurrentBs.ValidatorStates = store.es.Validators
    BY Zenon, CurrentType DEF IsBlockState
  <2>2. \A e \in Cone : Creator[e] \in store.es.Validators
    <3>1. ~IdleCb.active
      BY SMT DEF IdleCb
    <3>2. cb.active => IsCallback(cb)
      BY Zenon, <3>1 DEF TypeOK
    <3> QED
      BY Zenon, <3>2 DEF StageInv, IsCallback, Cone
  <2> QED
    BY Zenon, <2>1, <2>2
<1>1. Cone' = Cone /\ \A v : Highest(v)' = Highest(v)
  BY Zenon DEF Cone, Highest
<1>2. KnownInv'
  BY Zenon, <1>1 DEF KnownInv, Known
<1>3. GasInv'
  BY Zenon DEF GasInv, ConfirmedGas, SameCounts
<1>4. LastInv'
  <2>1. ASSUME NEW v \in store.es.Validators \ Forker
        PROVE  LastIsLast(store', CurrentBs', v, Highest(v)')
    <3>1. LastIsLast(store, CurrentBs, v, Highest(v))
      BY Zenon DEF LastInv
    <3> QED
      BY Zenon, <1>0, <1>1, <3>1, LastOfSame
  <2>2. /\ CurrentBs'.EpochCheaters \subseteq Forker
        /\ disk'.store.bs.EpochCheaters \subseteq Forker
    BY Zenon DEF LastInv, SameCounts
  <2>3. \A v \in disk'.store.es.Validators \ Forker :
            LastIsLast(disk'.store, disk'.store.bs, v, NoEvent)
    BY Zenon DEF LastInv
  <2>4. ASSUME NEW e \in Cone', Creator[e] \notin Forker,
               CurrentBs'.ValidatorStates[Creator[e]].LastEvent # NoEvent
        PROVE  Precedes(CurrentBs'.ValidatorStates[Creator[e]].LastEvent, e)
    BY Zenon, <1>0, <1>1, <2>4 DEF LastInv, SameCounts
  <2> QED
    BY Zenon, <2>1, <2>2, <2>3, <2>4 DEF LastInv
<1>5. UptimeInv'
  <2>1. /\ store'.es.EpochStart <= CurrentTime'
        /\ disk'.store.es.EpochStart <= disk'.store.bs.LastBlock.Time
    BY Zenon DEF UptimeInv
  <2>2. ASSUME \A r \in Rules : r.Berlin
        PROVE  /\ \A v \in store'.es.Validators \ Forker :
                    UptimeIsBounded(store', CurrentBs', CurrentTime', v)
               /\ \A v \in disk'.store.es.Validators \ Forker :
                    UptimeIsBounded(disk'.store, disk'.store.bs, disk'.store.bs.LastBlock.Time, v)
               /\ task'.stage # "none" =>
                    \A v \in DOMAIN task'.metrics \ Forker :
                        task'.metrics[v].Uptime \in Nat /\ MetricIsBounded(v)'
    <3>1. ASSUME NEW v \in store.es.Validators \ Forker
          PROVE  UptimeIsBounded(store', CurrentBs', CurrentTime', v)
      <4>1. UptimeIsBounded(store, CurrentBs, CurrentTime, v)
        BY Zenon, <2>2 DEF UptimeInv
      <4> QED
        BY Zenon, <1>0, <4>1, UptimeOfSame
    <3>2. \A v \in disk'.store.es.Validators \ Forker :
             UptimeIsBounded(disk'.store, disk'.store.bs, disk'.store.bs.LastBlock.Time, v)
      BY Zenon, <2>2 DEF UptimeInv
    <3>3. task'.stage # "none" =>
              \A v \in DOMAIN task'.metrics \ Forker :
                  task'.metrics[v].Uptime \in Nat /\ MetricIsBounded(v)'
      BY Zenon, <2>2 DEF UptimeInv, MetricIsBounded
    <3> QED
      BY Zenon, <3>1, <3>2, <3>3
  <2> QED
    BY Zenon, <2>1, <2>2 DEF UptimeInv
<1> QED
  BY Zenon, <1>2, <1>3, <1>4, <1>5

(* The worker only moves counts from place to place.                         *)
LEMMA AccountExecute ==
    ASSUME TypeOK, AccountInv, StageInv',
           StartTask \/ (\E tx \in Tx : ExecuteTx(tx) \/ OnNewReceipt(tx))
    PROVE  AccountInv'
<1>0. /\ task.stage \in {"internal", "execute"} /\ task'.stage = "execute"
      /\ task'.es = task.es /\ task'.block = task.block
      /\ task'.metrics = task.metrics /\ task'.confirmedEvents = task.confirmedEvents
      /\ SameCounts(task'.bs, task.bs)
      /\ store' = store /\ cb' = cb /\ disk' = disk
  BY Zenon, ExecuteFrame
<1>1. ~cb.active /\ ~cb'.active
  BY Zenon, <1>0 DEF AccountInv, StageInv
<1>2. /\ CurrentBs = task.bs /\ CurrentBs' = task'.bs /\ CurrentTime' = CurrentTime
      /\ Pending' = Pending
  BY Zenon, <1>0, <1>1 DEF CurrentBs, CurrentTime, Unpublished, Pending
<1>3. KnownInv' /\ GasInv' /\ LastInv' /\ UptimeInv'
  BY Zenon, <1>0, <1>2, QuietStep DEF AccountInv
<1>4. PlaceInv'
  BY Zenon, <1>0, <1>1, <1>2, PlacedOfSame DEF AccountInv, PlaceInv
<1> QED
  BY Zenon, <1>3, <1>4 DEF AccountInv

LEMMA AccountSetBlock ==
    ASSUME TypeOK, ChainInv, AccountInv, StageInv', SetBlock
    PROVE  AccountInv'
<1> DEFINE idx == task.block.Idx
           block == [Time |-> task.block.Time, Atropos |-> task.block.Atropos,
                     Events |-> task.events, Spilled |-> task.confirmedEvents \ task.events,
                     Root |-> task.root, Deactivated |-> task.deactivated]
<1>0. IsTask(task) /\ task.stage = "execute" /\ ~cb.active
  BY DEF SetBlock, TypeOK, NoTask, AccountInv, StageInv
<1>1. /\ task'.stage = "publish" /\ task'.bs = task.bs /\ task'.block = task.block
      /\ task'.metrics = task.metrics /\ cb' = cb /\ disk' = disk
  BY Zenon, <1>0 DEF SetBlock, IsTask
<1>2. /\ store'.es = store.es /\ store'.confirmed = store.confirmed /\ store'.bs = store.bs
      /\ store'.blocks = [i \in DOMAIN store.blocks \cup {idx} |->
                             IF i = idx THEN block ELSE store.blocks[i]]
  BY Zenon DEF SetBlock, TypeOK, IsStore
<1>3. idx \notin DOMAIN store.blocks
  <2>1. HeadIsLastBlock(store) /\ idx = store.bs.LastBlock.Idx + 1
    BY Zenon, <1>0 DEF ChainInv, TaskAfterHead
  <2>2. store.bs.LastBlock.Idx \in Nat
    BY Zenon DEF TypeOK, IsStore, IsBlockState, BlockCtx
  <2>3. DOMAIN store.blocks = 1..store.bs.LastBlock.Idx
    BY Zenon, <2>1 DEF HeadIsLastBlock
  <2>4. \A i \in Nat : i + 1 \notin 1..i
    BY SMT
  <2> QED
    BY Zenon, <2>1, <2>2, <2>3, <2>4
<1>4. block.Events \cup block.Spilled = task.confirmedEvents
  BY Zenon, <1>0 DEF IsTask
<1> HIDE DEF idx, block
<1>5. \A e : HeldBy(store', e) = IF e \in task.confirmedEvents THEN HeldBy(store, e) \cup {idx}
                                 ELSE HeldBy(store, e)
  BY ZenonT(60), <1>2, <1>3, <1>4 DEF HeldBy
<1>6. Pending = task.confirmedEvents /\ Pending' = {} /\ CurrentBs' = CurrentBs
      /\ CurrentTime' = CurrentTime
  BY Zenon, <1>0, <1>1, <1>2 DEF Pending, CurrentBs, CurrentTime, Unpublished
<1>7. SameCounts(CurrentBs, CurrentBs)
  BY Zenon DEF SameCounts
<1>8. KnownInv' /\ GasInv' /\ LastInv' /\ UptimeInv'
  BY Zenon, <1>0, <1>1, <1>2, <1>6, <1>7, QuietStep DEF AccountInv
<1>9. Placed(store', {})
  <2>1. Placed(store, Pending) /\ Pending \subseteq store.confirmed
    BY Zenon DEF AccountInv, PlaceInv
  <2>2. \A e \in Event : HeldBy(store', e) # {} => e \in store'.confirmed
    BY Zenon, <1>2, <1>5, <1>6, <2>1 DEF Placed
  <2>3. ASSUME NEW e \in store'.confirmed, Txs[e] # {}
        PROVE  \E i \in DOMAIN store'.blocks : HeldBy(store', e) = {i}
    <3>1. CASE e \in Pending
      <4>1. HeldBy(store, e) = {}
        BY Zenon, <1>2, <2>1, <2>3, <3>1 DEF Placed
      <4>2. HeldBy(store', e) = {idx} /\ idx \in DOMAIN store'.blocks
        BY Zenon, <1>2, <1>5, <1>6, <3>1, <4>1
      <4> QED
        BY Zenon, <4>2
    <3>2. CASE e \notin Pending
      <4>1. PICK i \in DOMAIN store.blocks : HeldBy(store, e) = {i}
        BY Zenon, <1>2, <2>1, <2>3, <3>2 DEF Placed
      <4>2. HeldBy(store', e) = {i} /\ i \in DOMAIN store'.blocks
        BY Zenon, <1>2, <1>5, <1>6, <3>2, <4>1
      <4> QED
        BY Zenon, <4>2
    <3> QED
      BY Zenon, <3>1, <3>2
  <2> QED
    BY Zenon, <2>2, <2>3 DEF Placed
<1>10. PlaceInv'
  BY Zenon, <1>0, <1>1, <1>6, <1>9 DEF AccountInv, PlaceInv
<1> QED
  BY Zenon, <1>8, <1>10 DEF AccountInv

LEMMA AccountPublish ==
    ASSUME TypeOK, AccountInv, StageInv', SetBlockEpochState
    PROVE  AccountInv'
<1>0. IsTask(task) /\ task.stage = "publish" /\ ~cb.active
  BY DEF SetBlockEpochState, TypeOK, NoTask, AccountInv, StageInv
<1>1. /\ task'.stage = "notify" /\ task'.block = task.block /\ task'.metrics = task.metrics
      /\ cb' = cb /\ disk' = disk /\ task.es = store.es
  BY Zenon, <1>0 DEF SetBlockEpochState, IsTask, AccountInv, StageInv
<1>2. /\ store'.es = store.es /\ store'.confirmed = store.confirmed
      /\ store'.blocks = store.blocks
      /\ store'.bs = [task.bs EXCEPT !.LastBlock = task.block, !.FinalizedStateRoot = task.root]
  BY Zenon, <1>1 DEF SetBlockEpochState, TypeOK, IsStore
<1>3. SameCounts(store'.bs, task.bs) /\ store'.bs.LastBlock = task.block
  BY Zenon, <1>0, <1>2 DEF SameCounts, IsTask, IsBlockState
<1>4. /\ CurrentBs' = store'.bs /\ CurrentBs = task.bs /\ CurrentTime' = CurrentTime
      /\ Pending' = Pending
  BY Zenon, <1>0, <1>1, <1>3 DEF CurrentBs, CurrentTime, Unpublished, Pending
<1>5. KnownInv' /\ GasInv' /\ LastInv' /\ UptimeInv'
  BY Zenon, <1>0, <1>1, <1>2, <1>3, <1>4, QuietStep DEF AccountInv
<1>6. PlaceInv'
  BY Zenon, <1>0, <1>1, <1>2, <1>4, PlacedOfSame DEF AccountInv, PlaceInv
<1> QED
  BY Zenon, <1>5, <1>6 DEF AccountInv

LEMMA AccountFinish ==
    ASSUME TypeOK, AccountInv, StageInv',
           NotifyNewBlock \/ CommitEVM \/ ClearBusyFlag \/ UNCHANGED vars
    PROVE  AccountInv'
<1>1. /\ cb' = cb /\ disk' = disk /\ store'.es = store.es /\ store'.bs = store.bs
      /\ store'.confirmed = store.confirmed /\ store'.blocks = store.blocks
      /\ \/ task' = task
         \/ /\ IsTask(task) /\ task.stage \in {"notify", "commit"}
            /\ task' = NoTask \/ /\ task'.stage = "commit" /\ task'.block = task.block
                                 /\ task'.metrics = task.metrics
  <2>0. task.stage # "none" => IsTask(task)
    BY DEF TypeOK, NoTask
  <2>1. CASE NotifyNewBlock
    BY Zenon, <2>0, <2>1 DEF NotifyNewBlock, IsTask
  <2>2. CASE CommitEVM
    BY Zenon, <2>0, <2>2 DEF CommitEVM, TypeOK, IsStore
  <2>3. CASE ClearBusyFlag \/ UNCHANGED vars
    BY Zenon, <2>3 DEF ClearBusyFlag, vars
  <2> QED
    BY Zenon, <2>1, <2>2, <2>3
<1>2. CurrentBs' = CurrentBs /\ CurrentTime' = CurrentTime /\ Pending' = Pending
  BY <1>1 DEF CurrentBs, CurrentTime, Unpublished, Pending, NoTask, AccountInv, StageInv
<1>3. SameCounts(CurrentBs, CurrentBs)
  BY Zenon DEF SameCounts
<1>4. task'.stage # "none" => /\ task.stage # "none" /\ task'.metrics = task.metrics
                              /\ task'.block = task.block
  BY <1>1 DEF NoTask
<1>5. KnownInv' /\ GasInv' /\ LastInv' /\ UptimeInv'
  BY Zenon, <1>1, <1>2, <1>3, <1>4, QuietStep DEF AccountInv
<1>6. PlaceInv'
  BY Zenon, <1>1, <1>2, PlacedOfSame DEF AccountInv, PlaceInv
<1> QED
  BY Zenon, <1>5, <1>6 DEF AccountInv

(* A commit and a crash exchange the store and the disk between blocks.      *)
LEMMA AccountDisk ==
    ASSUME TypeOK, AccountInv, StageInv', Commit \/ Crash
    PROVE  AccountInv'
<1>1. ASSUME Commit PROVE AccountInv'
  <2>1. /\ ~cb.active /\ task.stage = "none" /\ cb' = cb /\ task' = task /\ store' = store
        /\ disk'.store = store
    BY Zenon, <1>1 DEF Commit, WaitBlockEnd
  <2>2. /\ CurrentBs = store.bs /\ CurrentTime = store.bs.LastBlock.Time /\ Pending = {}
        /\ Cone = {} /\ \A v : Highest(v) = NoEvent
    BY Zenon, <2>1 DEF CurrentBs, CurrentTime, Unpublished, Pending, Cone, Highest
  <2>3. /\ CurrentBs' = CurrentBs /\ CurrentTime' = CurrentTime /\ Pending' = Pending
        /\ Cone' = Cone /\ \A v : Highest(v)' = Highest(v)
    BY Zenon, <2>1 DEF CurrentBs, CurrentTime, Unpublished, Pending, Cone, Highest
  <2>4. KnownInv'
    BY Zenon, <2>1, <2>2, <2>3 DEF AccountInv, KnownInv
  <2>5. GasInv'
    BY Zenon, <2>1, <2>2, <2>3 DEF AccountInv, GasInv
  <2>6. PlaceInv'
    BY Zenon, <2>1, <2>2, <2>3 DEF AccountInv, PlaceInv
  <2>7. LastInv'
    <3>1. \A v \in store.es.Validators \ Forker : LastIsLast(store, store.bs, v, NoEvent)
      BY <2>2 DEF AccountInv, LastInv
    <3> QED
      BY Zenon, <2>1, <2>2, <2>3, <3>1 DEF AccountInv, LastInv
  <2>8. UptimeInv'
    BY Zenon, <2>1, <2>2, <2>3 DEF AccountInv, UptimeInv
  <2> QED
    BY Zenon, <2>4, <2>5, <2>6, <2>7, <2>8 DEF AccountInv
<1>2. ASSUME Crash PROVE AccountInv'
  <2>1. /\ ~cb'.active /\ task'.stage = "none" /\ store' = disk.store /\ disk' = disk
    BY Zenon, <1>2 DEF Crash, IdleCb, NoTask
  <2>2. /\ CurrentBs' = disk.store.bs /\ CurrentTime' = disk.store.bs.LastBlock.Time
        /\ Pending' = {} /\ Cone' = {} /\ \A v : Highest(v)' = NoEvent
    BY Zenon, <2>1 DEF CurrentBs, CurrentTime, Unpublished, Pending, Cone, Highest
  <2>4. KnownInv'
    BY Zenon, <2>1, <2>2 DEF AccountInv, KnownInv
  <2>5. GasInv'
    BY Zenon, <2>1, <2>2 DEF AccountInv, GasInv
  <2>6. PlaceInv'
    BY Zenon, <2>1, <2>2 DEF AccountInv, PlaceInv
  <2>7. LastInv'
    BY <2>1, <2>2, Zenon DEF AccountInv, LastInv
  <2>8. UptimeInv'
    BY Zenon, <2>1, <2>2 DEF AccountInv, UptimeInv
  <2> QED
    BY Zenon, <2>4, <2>5, <2>6, <2>7, <2>8 DEF AccountInv
<1> QED
  BY Zenon, <1>1, <1>2

LEMMA AccountInit ==
    ASSUME GasLaws
    PROVE  Init => AccountInv
<1> SUFFICES ASSUME Init PROVE AccountInv
  BY Zenon
<1>1. /\ ~cb.active /\ task.stage = "none" /\ store = GenesisStore /\ disk.store = GenesisStore
  BY Zenon DEF Init, IdleCb, NoTask
<1>2. /\ CurrentBs = GenesisStore.bs /\ CurrentTime = GenesisStore.bs.LastBlock.Time
      /\ Pending = {} /\ Cone = {} /\ \A v : Highest(v) = NoEvent
  BY Zenon, <1>1 DEF CurrentBs, CurrentTime, Unpublished, Pending, Cone, Highest
<1>3. /\ GenesisStore.confirmed = {} /\ GenesisStore.es.EpochStart = GenesisTime
      /\ GenesisStore.bs.LastBlock.Time = GenesisTime
      /\ GenesisStore.bs.EpochGas = 0 /\ GenesisStore.bs.EpochCheaters = {}
      /\ GenesisStore.es.Validators = GenesisValidators
      /\ \A v \in GenesisValidators :
           /\ GenesisStore.es.ValidatorStates[v].PrevEpochEvent = NoEvent
           /\ GenesisStore.bs.ValidatorStates[v].LastEvent = NoEvent
           /\ GenesisStore.bs.ValidatorStates[v].Uptime = 0
           /\ GenesisStore.bs.ValidatorStates[v].LastOnlineTime = GenesisTime
  BY Zenon DEF GenesisStore, NewValidatorBlockState, GenesisCtx
<1>4. \A e : HeldBy(GenesisStore, e) = {}
  BY Zenon DEF GenesisStore, HeldBy
<1>5. GenesisTime \in Nat
  BY Zenon, ConstantsAssumption
<1>6. KnownInv
  BY Zenon, <1>1, <1>2, <1>3 DEF GasLaws, KnownInv, Known, ClosedUnderParents
<1>7. GasInv
  <2>1. {e \in GenesisStore.confirmed : EpochOf[e] = GenesisStore.es.Epoch} = {}
    BY Zenon, <1>3
  <2> QED
    BY Zenon, <1>1, <1>2, <1>3, <2>1 DEF GasLaws, GasInv, ConfirmedGas
<1>8. PlaceInv
  BY Zenon, <1>1, <1>2, <1>3, <1>4 DEF PlaceInv, Placed
<1>9. LastInv
  BY Zenon, <1>1, <1>2, <1>3 DEF LastInv, LastIsLast
<1>10. UptimeInv
  <2>1. GenesisTime <= GenesisTime
    BY Zenon, <1>5, LeqRefl
  <2>2. ASSUME NEW v \in GenesisStore.es.Validators
        PROVE  UptimeIsBounded(GenesisStore, GenesisStore.bs, GenesisTime, v)
    BY Zenon, <1>3, <1>5, <2>1, <2>2, UptimeAtStart
  <2> QED
    BY Zenon, <1>1, <1>2, <1>3, <2>1, <2>2 DEF UptimeInv
<1>11. StageInv
  BY Zenon, StageInit
<1> QED
  BY Zenon, <1>6, <1>7, <1>8, <1>9, <1>10, <1>11 DEF AccountInv

(* BeginBlock: an event that is about to be confirmed is ahead of those      *)
(* confirmed before, which have brought their self-parents with them.        *)
LEMMA AccountBeginBlock ==
    ASSUME TypeOK, AccountInv, StageInv', NEW atropos \in Event, NEW cheaters \in SUBSET Forker,
           NEW cone \in SUBSET Event, BeginBlock(atropos, cheaters, cone)
    PROVE  AccountInv'
<1>0. IsStore(store)
  BY Zenon DEF TypeOK
<1>1. /\ ~cb.active /\ task.stage = "none" /\ task' = task /\ disk' = disk
      /\ store'.es = store.es /\ store'.bs = store.bs /\ store'.blocks = store.blocks
      /\ store'.confirmed = store.confirmed
  BY Zenon, <1>0 DEF BeginBlock, WaitBlockEnd, IsStore
<1>2. /\ cb'.active /\ cb'.cone = cone /\ cb'.confirmedEvents = {} /\ cb'.atropos = atropos
      /\ cb'.highest = [v \in store.es.Validators |-> NoEvent]
      /\ cb'.bs = [store.bs EXCEPT !.EpochCheaters = @ \cup cheaters]
  BY Zenon DEF BeginBlock, MergeCheaters
<1>3. /\ cb'.bs.EpochGas = store.bs.EpochGas
      /\ cb'.bs.EpochCheaters = store.bs.EpochCheaters \cup cheaters
      /\ cb'.bs.ValidatorStates = store.bs.ValidatorStates
  BY <1>0, <1>2 DEF IsStore, IsBlockState
<1>4. /\ CurrentBs = store.bs /\ CurrentTime = store.bs.LastBlock.Time /\ Pending = {}
      /\ Cone = {} /\ \A v : Highest(v) = NoEvent
  BY Zenon, <1>1 DEF CurrentBs, CurrentTime, Unpublished, Pending, Cone, Highest
<1>5. /\ CurrentBs' = cb'.bs /\ CurrentTime' = CurrentTime /\ Pending' = {} /\ Cone' = cone
      /\ \A v \in store.es.Validators : Highest(v)' = NoEvent
  BY <1>1, <1>2, <1>4 DEF CurrentBs, CurrentTime, Unpublished, Pending, Cone, Highest
<1>6. /\ \A e \in cone : /\ EpochOf[e] = store.es.Epoch /\ Creator[e] \in store.es.Validators
                         /\ e \notin store.confirmed
      /\ \A e \in cone, f \in Event :
           /\ Creator[f] = Creator[e] /\ EpochOf[f] = EpochOf[e]
           /\ Seq[f] < Seq[e] /\ Creator[f] \notin Forker
           => f \in cone \cup store.confirmed
      /\ atropos \in cone \/ cone = {}
  BY Zenon DEF BeginBlock, IsCone
<1>7. /\ IsFiniteSet(store.confirmed) /\ \A e \in store.confirmed : EpochOf[e] <= store.es.Epoch
      /\ ClosedUnderParents(store.confirmed)
  BY Zenon, <1>4 DEF AccountInv, KnownInv, Known
<1>8. KnownInv'
  <2>1. ClosedUnderParents(store.confirmed \cup cone)
    BY Zenon, <1>6, <1>7 DEF ClosedUnderParents
  <2>2. Known(store', cone)
    BY Zenon, <1>1, <1>7, <2>1 DEF Known
  <2>3. Known(disk.store, {})
    BY Zenon DEF AccountInv, KnownInv
  <2> QED
    BY Zenon, <1>1, <1>5, <1>6, <2>2, <2>3 DEF KnownInv
<1>9. GasInv'
  BY Zenon, <1>1, <1>3, <1>4, <1>5 DEF AccountInv, GasInv, ConfirmedGas
<1>10. PlaceInv'
  BY Zenon, <1>1, <1>2, <1>4, <1>5, <1>6, PlacedOfSame DEF AccountInv, PlaceInv
<1>11. \A v \in store.es.Validators \ Forker : LastIsLast(store, store.bs, v, NoEvent)
  BY <1>4 DEF AccountInv, LastInv
<1>12. LastInv'
  <2>1. ASSUME NEW v \in store.es.Validators \ Forker
        PROVE  LastIsLast(store', CurrentBs', v, Highest(v)')
    <3>1. LastIsLast(store', CurrentBs', v, NoEvent)
      BY Zenon, <1>1, <1>3, <1>5, <1>11, LastOfEqual
    <3> QED
      BY Zenon, <1>5, <3>1
  <2>2. /\ CurrentBs'.EpochCheaters \subseteq Forker
        /\ disk'.store.bs.EpochCheaters \subseteq Forker
    BY Zenon, <1>1, <1>3, <1>4, <1>5 DEF AccountInv, LastInv
  <2>3. \A v \in disk'.store.es.Validators \ Forker :
            LastIsLast(disk'.store, disk'.store.bs, v, NoEvent)
    BY Zenon, <1>1 DEF AccountInv, LastInv
  <2>4. ASSUME NEW e \in cone, Creator[e] \notin Forker,
               store.bs.ValidatorStates[Creator[e]].LastEvent # NoEvent
        PROVE  Precedes(store.bs.ValidatorStates[Creator[e]].LastEvent, e)
    <3> DEFINE last == store.bs.ValidatorStates[Creator[e]].LastEvent
    <3>1. last \in store.confirmed /\ Creator[last] = Creator[e]
      BY Zenon, <1>6, <1>11, <2>4 DEF LastIsLast
    <3> HIDE DEF last
    <3>2. EpochOf[last] <= EpochOf[e] /\ e \notin store.confirmed
      BY Zenon, <1>6, <1>7, <3>1
    <3>3. last \in Event /\ e \in Event
      BY Zenon, <1>0, <3>1 DEF IsStore
    <3>4. ~(EpochOf[e] = EpochOf[last] /\ Seq[e] < Seq[last])
      BY Zenon, <1>7, <2>4, <3>1, <3>2, <3>3 DEF ClosedUnderParents
    <3>6. Precedes(last, e)
      BY Zenon, <3>2, <3>3, <3>4, PrecedesLaws
    <3> QED
      BY Zenon, <3>6 DEF last
  <2> QED
    BY Zenon, <1>1, <1>3, <1>5, <2>1, <2>2, <2>3, <2>4 DEF LastInv
<1>13. UptimeInv'
  <2>1. \A v \in store.es.Validators \ Forker :
           UptimeIsBounded(store, CurrentBs, CurrentTime, v)
           => UptimeIsBounded(store', CurrentBs', CurrentTime', v)
    BY Zenon, <1>1, <1>3, <1>4, <1>5 DEF UptimeIsBounded
  <2> QED
    BY Zenon, <1>1, <1>5, <2>1 DEF AccountInv, UptimeInv
<1> QED
  BY Zenon, <1>8, <1>9, <1>10, <1>12, <1>13 DEF AccountInv

(* Confirming an event of the epoch keeps the highest one.                   *)
LEMMA ApplyKeepsLast ==
    ASSUME NEW s, NEW t, NEW a, NEW b, NEW v, NEW h \in Event \cup {NoEvent}, NEW e \in Event,
           s.confirmed \subseteq Event, t.confirmed = s.confirmed \cup {e}, t.es = s.es,
           a.ValidatorStates = b.ValidatorStates, LastIsLast(s, b, v, h),
           EpochOf[e] = s.es.Epoch, Creator[e] = v,
           b.ValidatorStates[v].LastEvent # NoEvent
               => Precedes(b.ValidatorStates[v].LastEvent, e)
    PROVE  LastIsLast(t, a, v, HigherEvent(h, e))
<1> DEFINE last == b.ValidatorStates[v].LastEvent
           prev == s.es.ValidatorStates[v].PrevEpochEvent
           high == HigherEvent(h, e)
<1>0. \A f \in Event : f # NoEvent
  BY Zenon, ConstantsAssumption
<1>1. /\ last # NoEvent => last \in s.confirmed /\ Creator[last] = v
      /\ h # NoEvent => /\ h \in s.confirmed /\ Creator[h] = v /\ EpochOf[h] = s.es.Epoch
                        /\ last # NoEvent => Precedes(last, h)
      /\ \A f \in s.confirmed : Creator[f] = v =>
           \/ h # NoEvent /\ Precedes(f, h)
           \/ IF last = NoEvent THEN EpochOf[f] < s.es.Epoch ELSE Precedes(f, last)
      /\ prev # NoEvent =>
           /\ prev \in s.confirmed /\ Creator[prev] = v
           /\ \A f \in s.confirmed :
                Creator[f] = v /\ EpochOf[f] < s.es.Epoch => Precedes(f, prev)
  BY Zenon DEF LastIsLast
<1>2. last # NoEvent => Precedes(last, e)
  BY Zenon
<1>3. /\ high = e \/ high = h
      /\ high # NoEvent /\ high \in t.confirmed /\ Creator[high] = v /\ EpochOf[high] = s.es.Epoch
      /\ Precedes(e, high)
      /\ h # NoEvent => Precedes(h, high)
  <2>1. e \in t.confirmed /\ e # NoEvent /\ Precedes(e, e)
    BY Zenon, <1>0, PrecedesLaws
  <2>2. CASE h = NoEvent
    BY Zenon, <2>1, <2>2 DEF HigherEvent
  <2>3. CASE h # NoEvent
    <3>1. h \in t.confirmed /\ Creator[h] = v /\ EpochOf[h] = s.es.Epoch /\ Precedes(h, h)
      BY Zenon, <1>1, <2>3, PrecedesLaws
    <3>2. CASE Seq[e] > Seq[h]
      <4>1. high = e
        BY Zenon, <2>3, <3>2 DEF HigherEvent
      <4>2. Precedes(h, e)
        BY Zenon, <2>3, <3>1, <3>2, PrecedesLaws
      <4> QED
        BY Zenon, <2>1, <4>1, <4>2
    <3>3. CASE ~(Seq[e] > Seq[h])
      <4>1. high = h
        BY Zenon, <2>3, <3>3 DEF HigherEvent
      <4>2. Precedes(e, h)
        BY Zenon, <2>3, <3>1, <3>3, PrecedesLaws
      <4> QED
        BY Zenon, <2>3, <3>1, <4>1, <4>2
    <3> QED
      BY Zenon, <3>2, <3>3
  <2> QED
    BY Zenon, <2>2, <2>3
<1> HIDE DEF last, prev, high
<1>4. \A f, g, k \in Event : Precedes(f, g) /\ Precedes(g, k) => Precedes(f, k)
  BY Zenon, PrecedesLaws
<1>5. last # NoEvent => Precedes(last, high)
  BY Zenon, <1>1, <1>2, <1>3
<1>6. ASSUME NEW f \in t.confirmed, Creator[f] = v
      PROVE  \/ high # NoEvent /\ Precedes(f, high)
             \/ IF last = NoEvent THEN EpochOf[f] < s.es.Epoch ELSE Precedes(f, last)
  <2>1. CASE f = e
    BY Zenon, <1>3, <2>1
  <2>2. CASE f # e /\ h # NoEvent /\ Precedes(f, h)
    <3>1. f \in Event /\ h \in Event /\ high \in Event
      BY Zenon, <1>3, <2>2
    <3> QED
      BY Zenon, <1>3, <1>4, <2>2, <3>1
  <2>3. CASE f # e /\ ~(h # NoEvent /\ Precedes(f, h))
    BY Zenon, <1>1, <1>6, <2>3
  <2> QED
    BY Zenon, <2>1, <2>2, <2>3
<1>7. prev # NoEvent =>
         /\ prev \in t.confirmed /\ Creator[prev] = v
         /\ \A f \in t.confirmed :
              Creator[f] = v /\ EpochOf[f] < s.es.Epoch => Precedes(f, prev)
  <2>1. ~(EpochOf[e] < s.es.Epoch)
    <3>1. EpochOf[e] \in Nat
      BY Zenon, ConstantsAssumption
    <3>2. \A i \in Nat : ~(i < i)
      BY SMT
    <3> QED
      BY Zenon, <3>1, <3>2
  <2> QED
    BY Zenon, <1>1, <2>1
<1>8. last # NoEvent => last \in t.confirmed /\ Creator[last] = v
  BY Zenon, <1>1
<1> QED
  BY Zenon, <1>3, <1>5, <1>6, <1>7, <1>8 DEF LastIsLast, last, prev, high

(* Another validator's event changes nothing for v.                          *)
LEMMA OthersKeepLast ==
    ASSUME NEW s, NEW t, NEW a, NEW b, NEW v, NEW h, NEW e,
           t.confirmed = s.confirmed \cup {e}, t.es = s.es, Creator[e] # v,
           a.ValidatorStates = b.ValidatorStates, LastIsLast(s, b, v, h)
    PROVE  LastIsLast(t, a, v, h)
<1>1. \A f \in t.confirmed : Creator[f] = v => f \in s.confirmed
  BY Zenon
<1>2. s.confirmed \subseteq t.confirmed
  BY Zenon
<1> QED
  BY Zenon, <1>1, <1>2 DEF LastIsLast

LEMMA AccountApplyEvent ==
    ASSUME GasLaws, TypeOK, AccountInv, StageInv', NEW e \in Event, ApplyEvent(e)
    PROVE  AccountInv'
<1>0. IsStore(store) /\ IsCallback(cb) /\ cb.active /\ cb.es = store.es /\ task.stage = "none"
  BY DEF TypeOK, ApplyEvent, IdleCb, AccountInv, StageInv
<1>1. /\ task' = task /\ disk' = disk /\ e \in cb.cone
      /\ store'.es = store.es /\ store'.bs = store.bs /\ store'.blocks = store.blocks
      /\ store'.confirmed = store.confirmed \cup {e}
  BY Zenon, <1>0 DEF ApplyEvent, IsStore
<1>2. /\ cb'.cone = cb.cone \ {e} /\ cb'.atropos = cb.atropos
      /\ cb'.confirmedEvents = IF Txs[e] = {} THEN cb.confirmedEvents
                               ELSE cb.confirmedEvents \cup {e}
      /\ cb'.highest = [cb.highest EXCEPT ![Creator[e]] = HigherEvent(@, e)]
      /\ cb'.bs = [cb.bs EXCEPT !.EpochGas = @ + GasPowerUsed[e]]
  BY Zenon, <1>0 DEF ApplyEvent, IsCallback
<1>3. cb'.active /\ (cb'.degenerate => cb.degenerate /\ e # cb.atropos)
  BY <1>0, Zenon DEF ApplyEvent, IsCallback
<1>4. /\ cb'.bs.EpochGas = cb.bs.EpochGas + GasPowerUsed[e]
      /\ cb'.bs.EpochCheaters = cb.bs.EpochCheaters
      /\ cb'.bs.ValidatorStates = cb.bs.ValidatorStates
  BY ZenonT(60), <1>0, <1>2 DEF IsCallback, IsBlockState
<1>5. /\ CurrentBs = cb.bs /\ CurrentTime = store.bs.LastBlock.Time
      /\ Pending = cb.confirmedEvents /\ Cone = cb.cone
      /\ \A v : Highest(v) = cb.highest[v]
  BY Zenon, <1>0 DEF CurrentBs, CurrentTime, Pending, Cone, Highest
<1>6. /\ CurrentBs' = cb'.bs /\ CurrentTime' = CurrentTime
      /\ Pending' = cb'.confirmedEvents /\ Cone' = cb.cone \ {e}
      /\ \A v : Highest(v)' = cb'.highest[v]
  BY Zenon, <1>0, <1>1, <1>2, <1>3 DEF CurrentBs, CurrentTime, Pending, Cone, Highest
<1>7. /\ e \notin store.confirmed /\ EpochOf[e] = store.es.Epoch
      /\ Creator[e] \in store.es.Validators
      /\ IsFiniteSet(store.confirmed) /\ \A f \in store.confirmed : EpochOf[f] <= store.es.Epoch
      /\ store.es.Epoch \in Nat
  BY Zenon, <1>0, <1>1, <1>5 DEF AccountInv, KnownInv, Known, IsCallback, IsStore, IsEpochState
<1>8. KnownInv'
  <2>1. store'.confirmed \cup Cone' = store.confirmed \cup cb.cone
    BY Zenon, <1>1, <1>6
  <2>2. IsFiniteSet(store'.confirmed)
    BY <1>0, <1>1, <1>7 DEF GasLaws, IsStore
  <2>3. \A f \in store'.confirmed : EpochOf[f] <= store'.es.Epoch
    BY <1>1, <1>7
  <2>4. Known(store', Cone') /\ Known(disk'.store, {})
    BY Zenon, <1>1, <1>5, <2>1, <2>2, <2>3 DEF AccountInv, KnownInv, Known
  <2>5. \A f \in Cone' : f \notin store'.confirmed /\ EpochOf[f] = store'.es.Epoch
    BY Zenon, <1>1, <1>5, <1>6 DEF AccountInv, KnownInv
  <2> QED
    BY Zenon, <2>4, <2>5 DEF KnownInv
<1>9. GasInv'
  <2> DEFINE S == {f \in store.confirmed : EpochOf[f] = store.es.Epoch}
  <2>1. {f \in store'.confirmed : EpochOf[f] = store'.es.Epoch} = S \cup {e}
    BY Zenon, <1>1, <1>7
  <2>2. S \in SUBSET Event /\ IsFiniteSet(S) /\ e \in Event \ S
    BY Zenon, <1>0, <1>7 DEF GasLaws, IsStore
  <2>3. GasOf(S \cup {e}) = GasOf(S) + GasPowerUsed[e]
    <3> HIDE DEF S
    <3> QED
      BY Zenon, <2>2 DEF GasLaws
  <2>4. cb.bs.EpochGas = GasOf(S)
    BY Zenon, <1>5 DEF AccountInv, GasInv, ConfirmedGas
  <2>5. CurrentBs'.EpochGas = ConfirmedGas(store')
    BY Zenon, <1>4, <1>6, <2>1, <2>3, <2>4 DEF ConfirmedGas
  <2> QED
    BY Zenon, <1>1, <2>5 DEF AccountInv, GasInv
<1>10. PlaceInv'
  <2>1. Placed(store, Pending) /\ Pending \subseteq store.confirmed
    BY Zenon DEF AccountInv, PlaceInv
  <2>2. \A f : HeldBy(store', f) = HeldBy(store, f)
    BY Zenon, <1>1 DEF HeldBy
  <2>3. HeldBy(store, e) = {}
    BY Zenon, <1>7, <2>1 DEF Placed
  <2>4. Placed(store', Pending') /\ Pending' \subseteq store'.confirmed
    <3>1. Pending' \subseteq store'.confirmed
      BY Zenon, <1>1, <1>2, <1>5, <1>6, <2>1
    <3>2. \A f \in Event : HeldBy(store', f) # {} => f \in store'.confirmed
      BY Zenon, <1>1, <2>1, <2>2 DEF Placed
    <3>3. ASSUME NEW f \in store'.confirmed, Txs[f] # {}
          PROVE  IF f \in Pending' THEN HeldBy(store', f) = {}
                 ELSE \E i \in DOMAIN store'.blocks : HeldBy(store', f) = {i}
      <4>1. CASE f = e
        BY Zenon, <1>2, <1>6, <2>2, <2>3, <3>3, <4>1
      <4>2. CASE f # e
        BY <1>1, <1>2, <1>5, <1>6, <2>1, <2>2, <3>3, <4>2 DEF Placed
      <4> QED
        BY Zenon, <4>1, <4>2
    <3> QED
      BY Zenon, <3>1, <3>2, <3>3 DEF Placed
  <2>5. cb'.degenerate => cb'.atropos \in cb'.cone
    BY Zenon, <1>0, <1>1, <1>2, <1>3 DEF AccountInv, PlaceInv
  <2> QED
    BY Zenon, <1>1, <2>4, <2>5 DEF AccountInv, PlaceInv
<1>11. \A v \in store.es.Validators \ Forker : LastIsLast(store, cb.bs, v, cb.highest[v])
  BY Zenon, <1>5 DEF AccountInv, LastInv
<1>12. LastInv'
  <2>0. /\ cb.highest \in [store.es.Validators -> Event \cup {NoEvent}]
        /\ store.confirmed \subseteq Event
    BY Zenon, <1>0 DEF IsCallback, IsStore
  <2>1. ASSUME NEW v \in store.es.Validators \ Forker
        PROVE  LastIsLast(store', CurrentBs', v, Highest(v)')
    <3>1. CASE v = Creator[e]
      <4>1. Highest(v)' = HigherEvent(cb.highest[v], e)
        BY Zenon, <1>2, <1>6, <2>0, <3>1
      <4>2. cb.bs.ValidatorStates[v].LastEvent # NoEvent
              => Precedes(cb.bs.ValidatorStates[v].LastEvent, e)
        BY Zenon, <1>1, <1>5, <2>1, <3>1 DEF AccountInv, LastInv
      <4>3. cb.highest[v] \in Event \cup {NoEvent}
        BY Zenon, <2>0
      <4>4. LastIsLast(store', cb'.bs, v, HigherEvent(cb.highest[v], e))
        BY Zenon, <1>1, <1>4, <1>7, <1>11, <2>0, <3>1, <4>2, <4>3, ApplyKeepsLast
      <4> QED
        BY Zenon, <1>6, <4>1, <4>4
    <3>2. CASE v # Creator[e]
      <4>1. Highest(v)' = cb.highest[v]
        BY Zenon, <1>2, <1>6, <2>0, <3>2
      <4> QED
        BY ZenonT(60), <1>1, <1>4, <1>6, <1>11, <3>2, <4>1, OthersKeepLast
    <3> QED
      BY Zenon, <3>1, <3>2
  <2>2. /\ CurrentBs'.EpochCheaters \subseteq Forker
        /\ disk'.store.bs.EpochCheaters \subseteq Forker
    BY Zenon, <1>1, <1>4, <1>5, <1>6 DEF AccountInv, LastInv
  <2>3. \A v \in disk'.store.es.Validators \ Forker :
            LastIsLast(disk'.store, disk'.store.bs, v, NoEvent)
    BY Zenon, <1>1 DEF AccountInv, LastInv
  <2>4. \A f \in cb.cone :
           LET last == cb.bs.ValidatorStates[Creator[f]].LastEvent IN
           Creator[f] \notin Forker /\ last # NoEvent => Precedes(last, f)
    BY Zenon, <1>5 DEF AccountInv, LastInv
  <2> QED
    BY Zenon, <1>1, <1>4, <1>6, <2>1, <2>2, <2>3, <2>4 DEF LastInv
<1>13. UptimeInv'
  <2>1. \A v \in store.es.Validators \ Forker :
           UptimeIsBounded(store, CurrentBs, CurrentTime, v)
           => UptimeIsBounded(store', CurrentBs', CurrentTime', v)
    BY Zenon, <1>1, <1>4, <1>5, <1>6 DEF UptimeIsBounded
  <2> QED
    BY Zenon, <1>0, <1>1, <1>5, <1>6, <2>1 DEF AccountInv, UptimeInv
<1> QED
  BY Zenon, <1>8, <1>9, <1>10, <1>12, <1>13 DEF AccountInv

-----------------------------------------------------------------------------
(* The end of a frame.                                                       *)

LEMMA FinalizeFrame ==
    ASSUME NEW bs, NEW es, IsEpochState(es), IsBlockState(bs, es.Validators), NEW highest,
           NEW block
    PROVE  LET f == FinalizeEvents(bs, es, highest, block) IN
           /\ f.EpochGas = bs.EpochGas /\ f.EpochCheaters = bs.EpochCheaters
           /\ f.LastBlock = bs.LastBlock
           /\ \A v \in es.Validators :
                f.ValidatorStates[v] =
                    IF v \in bs.EpochCheaters \/ highest[v] = NoEvent THEN bs.ValidatorStates[v]
                    ELSE Online(bs.ValidatorStates[v], highest[v], es, block)
BY Zenon DEF FinalizeEvents, IsBlockState

(* Of an honest validator the highest event becomes the last one.            *)
LEMMA FinalizeKeepsLast ==
    ASSUME NEW s, IsStore(s), NEW bs, IsBlockState(bs, s.es.Validators),
           bs.EpochCheaters \subseteq Forker, NEW highest, NEW block,
           NEW v \in s.es.Validators \ Forker, LastIsLast(s, bs, v, highest[v])
    PROVE  LastIsLast(s, FinalizeEvents(bs, s.es, highest, block), v, NoEvent)
<1> DEFINE f == FinalizeEvents(bs, s.es, highest, block)
           h == highest[v]
           last == bs.ValidatorStates[v].LastEvent
<1>0. IsEpochState(s.es) /\ s.confirmed \subseteq Event /\ v \notin bs.EpochCheaters
  BY Zenon DEF IsStore
<1>1. f.ValidatorStates[v] = IF h = NoEvent THEN bs.ValidatorStates[v]
                             ELSE Online(bs.ValidatorStates[v], h, s.es, block)
  <2>1. \A w \in s.es.Validators :
           f.ValidatorStates[w] =
               IF w \in bs.EpochCheaters \/ highest[w] = NoEvent THEN bs.ValidatorStates[w]
               ELSE Online(bs.ValidatorStates[w], highest[w], s.es, block)
    BY <1>0, FinalizeFrame
  <2> QED
    BY Zenon, <1>0, <2>1
<1> HIDE DEF f, h
<1>2. f.ValidatorStates[v].LastEvent = IF h = NoEvent THEN last ELSE h
  <2>1. CASE h = NoEvent
    <3>1. f.ValidatorStates[v] = bs.ValidatorStates[v]
      BY Zenon, <1>1, <2>1
    <3> QED
      BY Zenon, <2>1, <3>1
  <2>2. CASE h # NoEvent
    <3> DEFINE n == Online(bs.ValidatorStates[v], h, s.es, block)
    <3>1. n.LastEvent = h
      BY Zenon DEF Online
    <3> HIDE DEF n
    <3>2. f.ValidatorStates[v] = n
      BY Zenon, <1>1, <2>2 DEF n
    <3> QED
      BY Zenon, <2>2, <3>1, <3>2
  <2> QED
    BY Zenon, <2>1, <2>2
<1>3. CASE h = NoEvent
  <2>1. LastIsLast(s, bs, v, NoEvent)
    BY Zenon, <1>3 DEF h
  <2>2. f.ValidatorStates[v].LastEvent = bs.ValidatorStates[v].LastEvent
    BY Zenon, <1>2, <1>3
  <2> QED
    BY Zenon, <2>1, <2>2 DEF LastIsLast, f
<1>4. CASE h # NoEvent
  <2> HIDE DEF last
  <2>0. LastIsLast(s, bs, v, h)
    BY Zenon DEF h
  <2>1. /\ last # NoEvent => last \in s.confirmed /\ Precedes(last, h)
        /\ h \in s.confirmed /\ Creator[h] = v /\ EpochOf[h] = s.es.Epoch
        /\ \A e \in s.confirmed : Creator[e] = v =>
             \/ Precedes(e, h)
             \/ IF last = NoEvent THEN EpochOf[e] < s.es.Epoch ELSE Precedes(e, last)
    BY Zenon, <1>4, <2>0 DEF LastIsLast, last
  <2>2. \A e \in Event : EpochOf[e] \in Nat /\ Seq[e] \in Nat
    BY Zenon, ConstantsAssumption
  <2>3. \A e, d \in Event : Precedes(e, d) /\ Precedes(d, h) => Precedes(e, h)
    BY <1>0, <2>1, <2>2 DEF Precedes
  <2>4. \A e \in s.confirmed : Creator[e] = v => Precedes(e, h)
    <3>1. ASSUME NEW e \in s.confirmed, Creator[e] = v, ~Precedes(e, h)
          PROVE  FALSE
      <4>1. CASE last = NoEvent
        BY Zenon, <2>1, <3>1, <4>1 DEF Precedes
      <4>2. CASE last # NoEvent
        BY Zenon, <1>0, <2>1, <2>3, <3>1, <4>2
      <4> QED
        BY Zenon, <4>1, <4>2
    <3> QED
      BY Zenon, <3>1
  <2>5. f.ValidatorStates[v].LastEvent = h
    BY Zenon, <1>2, <1>4
  <2> QED
    BY Zenon, <1>4, <2>0, <2>1, <2>4, <2>5 DEF LastIsLast, f
<1> QED
  BY Zenon, <1>3, <1>4

(* The intervals of an epoch that are counted do not overlap.                *)
LEMMA OnlineKeepsUptime ==
    ASSUME NEW st \in ValidatorBlockState, NEW h \in Event, NEW es, IsEpochState(es),
           es.Rules.Berlin, NEW block,
           st.Uptime + es.EpochStart <= MaxOf(es.EpochStart, st.LastOnlineTime),
           st.Uptime > 0 => st.LastOnlineTime <= MedianTime[h]
    PROVE  LET n == Online(st, h, es, block) IN
           /\ n.LastEvent = h /\ n.LastOnlineTime = MedianTime[h]
           /\ n.Uptime + es.EpochStart <= MaxOf(es.EpochStart, n.LastOnlineTime)
<1> DEFINE start == es.EpochStart
           lot == st.LastOnlineTime
           up == st.Uptime
           mt == MedianTime[h]
           counted == block.Idx <= st.LastBlock + es.Rules.BlockMissedSlack /\ mt > MaxOf(lot, start)
           n == Online(st, h, es, block)
<1>1. start \in Nat /\ lot \in Nat /\ up \in Nat /\ mt \in Nat
  BY Zenon, ConstantsAssumption DEF IsEpochState, ValidatorBlockState
<1>2. /\ n.LastEvent = h /\ n.LastOnlineTime = mt
      /\ n.Uptime = IF counted THEN up + (mt - MaxOf(lot, start)) ELSE up
  BY Zenon DEF Online
<1>3. up + start <= MaxOf(start, lot) /\ (up > 0 => lot <= mt)
  BY Zenon
<1>4. counted => mt > MaxOf(lot, start)
  BY Zenon
<1> HIDE DEF start, lot, up, mt, counted, n
<1>5. n.Uptime + start <= MaxOf(start, mt)
  <2>1. CASE counted
    <3>1. n.Uptime = up + (mt - MaxOf(lot, start))
      BY Zenon, <1>2, <2>1
    <3> QED
      BY <1>1, <1>3, <3>1 DEF MaxOf
  <2>2. CASE ~counted
    <3>1. n.Uptime = up
      BY Zenon, <1>2, <2>2
    <3> QED
      BY <1>1, <1>3, <3>1 DEF MaxOf
  <2> QED
    BY Zenon, <2>1, <2>2
<1> QED
  BY Zenon, <1>2, <1>5 DEF start, mt, n

LEMMA FinalizeKeepsUptime ==
    ASSUME MedianTimeGrows, NEW s, IsStore(s), s.es.Rules.Berlin,
           NEW bs, IsBlockState(bs, s.es.Validators),
           NEW highest, NEW block, NEW time, bs.EpochCheaters \subseteq Forker,
           NEW v \in s.es.Validators \ Forker, LastIsLast(s, bs, v, highest[v]),
           UptimeIsBounded(s, bs, time, v)
    PROVE  UptimeIsBounded(s, FinalizeEvents(bs, s.es, highest, block), time, v)
<1> DEFINE f == FinalizeEvents(bs, s.es, highest, block)
           h == highest[v]
           st == bs.ValidatorStates[v]
<1>0. IsEpochState(s.es) /\ s.confirmed \subseteq Event /\ st \in ValidatorBlockState
  BY Zenon DEF IsStore, IsBlockState
<1>1. f.ValidatorStates[v] = IF h = NoEvent THEN st ELSE Online(st, h, s.es, block)
  BY <1>0, FinalizeFrame
<1> HIDE DEF f, h
<1>2. CASE h = NoEvent
  <2>1. f.ValidatorStates[v] = bs.ValidatorStates[v]
    BY Zenon, <1>1, <1>2
  <2> QED
    BY Zenon, <2>1 DEF UptimeIsBounded, f
<1>3. CASE h # NoEvent
  <2> HIDE DEF st
  <2>1. /\ h \in s.confirmed /\ Creator[h] = v /\ EpochOf[h] = s.es.Epoch
        /\ st.LastEvent # NoEvent => /\ st.LastEvent \in s.confirmed /\ Creator[st.LastEvent] = v
                                     /\ Precedes(st.LastEvent, h)
    BY Zenon, <1>3 DEF LastIsLast, st, h
  <2>2. /\ st.Uptime > 0 => /\ st.LastEvent # NoEvent /\ EpochOf[st.LastEvent] = s.es.Epoch
                            /\ st.LastOnlineTime = MedianTime[st.LastEvent]
        /\ st.Uptime + s.es.EpochStart <= MaxOf(s.es.EpochStart, st.LastOnlineTime)
    BY Zenon DEF UptimeIsBounded, st
  <2>3. st.Uptime > 0 => st.LastOnlineTime <= MedianTime[h]
    <3> SUFFICES ASSUME st.Uptime > 0 PROVE st.LastOnlineTime <= MedianTime[h]
      BY Zenon
    <3>1. h \in Event /\ st.LastEvent \in Event
      BY Zenon, <1>0, <2>1, <2>2
    <3>2. EpochOf[h] \in Nat
      BY Zenon, <3>1, ConstantsAssumption
    <3>3. EpochOf[st.LastEvent] = EpochOf[h] /\ Seq[st.LastEvent] <= Seq[h]
      <4> DEFINE last == st.LastEvent
      <4>1. EpochOf[last] = EpochOf[h] /\ Precedes(last, h)
        BY Zenon, <2>1, <2>2
      <4> HIDE DEF last
      <4>2. Seq[last] <= Seq[h]
        BY <3>2, <4>1, PrecedesInEpoch
      <4> QED
        BY Zenon, <4>1, <4>2 DEF last
    <3> QED
      BY Zenon, <2>1, <2>2, <3>1, <3>3 DEF MedianTimeGrows
  <2> DEFINE n == Online(st, h, s.es, block)
  <2>4. /\ n.LastEvent = h /\ n.LastOnlineTime = MedianTime[h]
        /\ n.Uptime + s.es.EpochStart <= MaxOf(s.es.EpochStart, n.LastOnlineTime)
    BY Zenon, <1>0, <2>1, <2>2, <2>3, OnlineKeepsUptime
  <2>5. f.ValidatorStates[v] = n
    BY Zenon, <1>1, <1>3
  <2> HIDE DEF n
  <2> QED
    BY Zenon, <1>3, <2>1, <2>4, <2>5 DEF UptimeIsBounded, f
<1> QED
  BY Zenon, <1>2, <1>3

(* The end of a frame's counting, whether a block comes of it or not.        *)
LEMMA FinalizedAccount ==
    ASSUME TypeOK, AccountInv, MedianTimeGrows, cb.active
    PROVE  /\ FinalizedBs.EpochGas = ConfirmedGas(store)
           /\ FinalizedBs.EpochCheaters \subseteq Forker
           /\ \A v \in store.es.Validators \ Forker : LastIsLast(store, FinalizedBs, v, NoEvent)
           /\ store.es.EpochStart <= store.bs.LastBlock.Time
           /\ (\A r \in Rules : r.Berlin) =>
                \A v \in store.es.Validators \ Forker :
                    UptimeIsBounded(store, FinalizedBs, store.bs.LastBlock.Time, v)
           /\ FinalizedBs.LastBlock = store.bs.LastBlock
           /\ IsBlockState(FinalizedBs, store.es.Validators)
<1>0. IsStore(store) /\ IsCallback(cb) /\ cb.es = store.es /\ cb.bs.LastBlock = store.bs.LastBlock
  BY DEF TypeOK, IdleCb, AccountInv, StageInv
<1>00. IsEpochState(store.es) /\ IsBlockState(cb.bs, store.es.Validators) /\ store.es.Rules \in Rules
  BY Zenon, <1>0 DEF IsStore, IsCallback, IsEpochState
<1>1. /\ CurrentBs = cb.bs /\ CurrentTime = store.bs.LastBlock.Time
      /\ \A v : Highest(v) = cb.highest[v]
  BY Zenon DEF CurrentBs, CurrentTime, Highest
<1>2. FinalizedBs = FinalizeEvents(cb.bs, store.es, cb.highest, NextBlockCtx)
  BY Zenon, <1>0 DEF FinalizedBs
<1>3. /\ FinalizedBs.EpochGas = cb.bs.EpochGas
      /\ FinalizedBs.EpochCheaters = cb.bs.EpochCheaters
      /\ FinalizedBs.LastBlock = cb.bs.LastBlock
  BY Zenon, <1>00, <1>2 DEF FinalizeEvents, IsBlockState
<1>4. /\ cb.bs.EpochGas = ConfirmedGas(store) /\ cb.bs.EpochCheaters \subseteq Forker
      /\ store.es.EpochStart <= store.bs.LastBlock.Time
  BY Zenon, <1>1 DEF AccountInv, GasInv, LastInv, UptimeInv
<1>5. \A v \in store.es.Validators \ Forker : LastIsLast(store, cb.bs, v, cb.highest[v])
  BY Zenon, <1>1 DEF AccountInv, LastInv
<1>6. \A v \in store.es.Validators \ Forker : LastIsLast(store, FinalizedBs, v, NoEvent)
  BY Zenon, <1>0, <1>00, <1>2, <1>4, <1>5, FinalizeKeepsLast
<1>7. ASSUME \A r \in Rules : r.Berlin
      PROVE  \A v \in store.es.Validators \ Forker :
                 UptimeIsBounded(store, FinalizedBs, store.bs.LastBlock.Time, v)
  <2>1. store.es.Rules.Berlin
    BY Zenon, <1>00, <1>7
  <2>2. \A v \in store.es.Validators \ Forker :
           UptimeIsBounded(store, cb.bs, store.bs.LastBlock.Time, v)
    BY Zenon, <1>1, <1>7 DEF AccountInv, UptimeInv
  <2> QED
    BY Zenon, <1>0, <1>00, <1>2, <1>4, <1>5, <2>1, <2>2, FinalizeKeepsUptime
<1>8. IsBlockState(FinalizedBs, store.es.Validators)
  BY Zenon, <1>0, NextBlockType
<1> QED
  BY Zenon, <1>0, <1>3, <1>4, <1>6, <1>7, <1>8

LEMMA AccountEndSkippedBlock ==
    ASSUME TypeOK, AccountInv, StageInv', MedianTimeGrows, EndSkippedBlock
    PROVE  AccountInv'
<1>0. /\ IsStore(store) /\ IsCallback(cb) /\ cb.active /\ cb.es = store.es
      /\ task.stage = "none" /\ cb.cone = {}
  BY DEF TypeOK, EndSkippedBlock, IdleCb, AccountInv, StageInv
<1>1. /\ store'.bs = FinalizedBs /\ store'.es = store.es /\ store'.confirmed = store.confirmed
      /\ store'.blocks = store.blocks /\ ~cb'.active /\ task' = task /\ disk' = disk
  BY Zenon, <1>0 DEF EndSkippedBlock, IsStore, IdleCb
<1>2. cb.confirmedEvents = {}
  <2>1. CASE cb.degenerate
    BY Zenon, <1>0, <2>1 DEF AccountInv, PlaceInv
  <2>2. CASE ~cb.degenerate
    BY Zenon, <2>2 DEF EndSkippedBlock, SkipBlock, EmptyBlock
  <2> QED
    BY Zenon, <2>1, <2>2
<1>3. Cone = {} /\ Pending = {} /\ CurrentTime = store.bs.LastBlock.Time
  BY Zenon, <1>0, <1>2 DEF Cone, Pending, CurrentTime
<1>4. /\ CurrentBs' = FinalizedBs /\ CurrentTime' = FinalizedBs.LastBlock.Time
      /\ Pending' = {} /\ Cone' = {} /\ \A v : Highest(v)' = NoEvent
  BY Zenon, <1>0, <1>1 DEF CurrentBs, CurrentTime, Unpublished, Pending, Cone, Highest
<1>5. /\ FinalizedBs.EpochGas = ConfirmedGas(store)
      /\ FinalizedBs.EpochCheaters \subseteq Forker
      /\ \A v \in store.es.Validators \ Forker : LastIsLast(store, FinalizedBs, v, NoEvent)
      /\ store.es.EpochStart <= store.bs.LastBlock.Time
      /\ (\A r \in Rules : r.Berlin) =>
           \A v \in store.es.Validators \ Forker :
               UptimeIsBounded(store, FinalizedBs, store.bs.LastBlock.Time, v)
      /\ FinalizedBs.LastBlock = store.bs.LastBlock
  BY Zenon, <1>0, FinalizedAccount
<1>6. KnownInv'
  BY Zenon, <1>1, <1>3, <1>4 DEF AccountInv, KnownInv, Known
<1>7. GasInv'
  BY Zenon, <1>1, <1>4, <1>5 DEF AccountInv, GasInv, ConfirmedGas
<1>8. PlaceInv'
  BY Zenon, <1>1, <1>3, <1>4, PlacedOfSame DEF AccountInv, PlaceInv
<1>9. LastInv'
  <2>1. ASSUME NEW v \in store.es.Validators \ Forker
        PROVE  LastIsLast(store', FinalizedBs, v, NoEvent)
    BY Zenon, <1>1, <1>5, LastOfEqual
  <2> QED
    BY Zenon, <1>1, <1>4, <1>5, <2>1 DEF AccountInv, LastInv
<1>10. UptimeInv'
  <2>1. \A v \in store.es.Validators \ Forker :
           UptimeIsBounded(store, FinalizedBs, store.bs.LastBlock.Time, v)
           => UptimeIsBounded(store', FinalizedBs, store.bs.LastBlock.Time, v)
    BY Zenon, <1>1 DEF UptimeIsBounded
  <2> QED
    BY Zenon, <1>0, <1>1, <1>4, <1>5, <2>1 DEF AccountInv, UptimeInv
<1> QED
  BY Zenon, <1>6, <1>7, <1>8, <1>9, <1>10 DEF AccountInv

(* Sealing: the last event is carried over to the new epoch, in which no     *)
(* event is confirmed yet ...                                                *)
LEMMA SealKeepsLast ==
    ASSUME NEW s, IsStore(s), NEW t, NEW block, NEW bs, IsBlockState(bs, s.es.Validators),
           t.confirmed = s.confirmed, t.es = SealEpochEs(block, bs, s.es),
           \A e \in s.confirmed : EpochOf[e] <= s.es.Epoch,
           \A v \in s.es.Validators \ Forker : LastIsLast(s, bs, v, NoEvent),
           NEW v \in bs.NextValidatorProfiles \ Forker
    PROVE  LastIsLast(t, SealEpochBs(block, bs, s.es), v, NoEvent)
<1> DEFINE new == SealEpochBs(block, bs, s.es)
           last == bs.ValidatorStates[v].LastEvent
<1>0. /\ s.confirmed \subseteq Event /\ s.es.Epoch \in Nat
      /\ v \in s.es.Validators => bs.ValidatorStates[v] \in ValidatorBlockState
  BY Zenon DEF IsStore, IsEpochState, IsBlockState
<1>00. \A e \in s.confirmed : EpochOf[e] \in Nat
  BY Zenon, <1>0, ConstantsAssumption
<1>1. /\ t.es.Epoch = s.es.Epoch + 1
      /\ t.es.ValidatorStates[v] = SealedEpochState(bs, s.es, v)
  BY DEF SealEpochEs
<1>a. \A e \in s.confirmed : EpochOf[e] < t.es.Epoch
  <2> SUFFICES ASSUME NEW e \in s.confirmed PROVE EpochOf[e] < t.es.Epoch
    BY Zenon
  <2> DEFINE k == s.es.Epoch
             i == EpochOf[e]
  <2>1. t.es.Epoch = k + 1 /\ k \in Nat /\ i \in Nat /\ i <= k
    BY Zenon, <1>0, <1>00, <1>1
  <2> HIDE DEF k, i
  <2>2. i < k + 1
    BY Zenon, <2>1, LeqNext
  <2> QED
    BY Zenon, <2>1, <2>2 DEF i
<1>2. new.ValidatorStates[v] = SealedValidatorState(block, bs, s.es, v)
  BY Zenon DEF SealEpochBs, IsBlockState
<1>3. CASE v \in s.es.Validators
  <2>1. /\ new.ValidatorStates[v].LastEvent = last
        /\ t.es.ValidatorStates[v].PrevEpochEvent = last
    BY <1>0, <1>1, <1>2, <1>3
       DEF SealedValidatorState, SealedEpochState, ValidatorBlockState
  <2>2. /\ last # NoEvent => last \in s.confirmed /\ Creator[last] = v
        /\ \A e \in s.confirmed : Creator[e] = v =>
             IF last = NoEvent THEN EpochOf[e] < s.es.Epoch ELSE Precedes(e, last)
    BY Zenon, <1>3 DEF LastIsLast
  <2> HIDE DEF last, new
  <2>3. LastIsLast(t, new, v, NoEvent)
    BY Zenon, <1>a, <2>1, <2>2, LastAtStart
  <2> QED
    BY Zenon, <2>3 DEF new
<1>4. CASE v \notin s.es.Validators
  <2>1. /\ new.ValidatorStates[v].LastEvent = NoEvent
        /\ t.es.ValidatorStates[v].PrevEpochEvent = NoEvent
    BY <1>1, <1>2, <1>4 DEF SealedValidatorState, SealedEpochState, NewValidatorBlockState
  <2> HIDE DEF new
  <2> QED
    BY Zenon, <1>a, <2>1 DEF LastIsLast, new
<1> QED
  BY Zenon, <1>3, <1>4

(* ... and uptime is counted from its start.                                 *)
LEMMA SealKeepsUptime ==
    ASSUME NEW s, IsStore(s), NEW t, NEW block \in BlockCtx, NEW bs,
           IsBlockState(bs, s.es.Validators), NEW time \in Nat, time <= block.Time,
           t.confirmed = s.confirmed, t.es = SealEpochEs(block, bs, s.es),
           \A v \in s.es.Validators \ Forker : UptimeIsBounded(s, bs, time, v),
           NEW v \in bs.NextValidatorProfiles \ Forker
    PROVE  UptimeIsBounded(t, SealEpochBs(block, bs, s.es), block.Time, v)
<1> DEFINE new == SealEpochBs(block, bs, s.es).ValidatorStates[v]
<1>0. /\ block.Time \in Nat
      /\ v \in s.es.Validators => bs.ValidatorStates[v] \in ValidatorBlockState
  BY Zenon DEF IsBlockState, BlockCtx
<1>1. t.es.EpochStart = block.Time
  BY DEF SealEpochEs
<1>2. new = SealedValidatorState(block, bs, s.es, v)
  BY Zenon DEF SealEpochBs, IsBlockState
<1> HIDE DEF new
<1>3. CASE v \in s.es.Validators
  <2>1. /\ new.Uptime = 0 /\ new.LastOnlineTime = bs.ValidatorStates[v].LastOnlineTime
        /\ new.LastOnlineTime \in Nat
    BY Zenon, <1>0, <1>2, <1>3 DEF SealedValidatorState, ValidatorBlockState
  <2>2. \/ new.LastOnlineTime <= time
        \/ \E e \in s.confirmed : Creator[e] = v /\ MedianTime[e] = new.LastOnlineTime
    <3>1. UptimeIsBounded(s, bs, time, v)
      BY Zenon, <1>3
    <3> QED
      BY Zenon, <2>1, <3>1 DEF UptimeIsBounded
  <2>3. \/ new.LastOnlineTime <= block.Time
        \/ \E e \in t.confirmed : Creator[e] = v /\ MedianTime[e] = new.LastOnlineTime
    BY Zenon, <1>0, <2>1, <2>2, LeqTrans
  <2> QED
    BY Zenon, <1>0, <1>1, <2>1, <2>3, UptimeAtStart DEF new
<1>4. CASE v \notin s.es.Validators
  <2>1. new.Uptime = 0 /\ new.LastOnlineTime = block.Time
    BY Zenon, <1>2, <1>4 DEF SealedValidatorState, NewValidatorBlockState
  <2>2. block.Time <= block.Time
    BY Zenon, <1>0, LeqRefl
  <2> QED
    BY Zenon, <1>0, <1>1, <2>1, <2>2, UptimeAtStart DEF new
<1> QED
  BY Zenon, <1>3, <1>4

(* What is reported of a validator at the end of the epoch.                  *)
LEMMA MetricBound ==
    ASSUME NEW s, IsStore(s), NEW bs, IsBlockState(bs, s.es.Validators),
           NEW block \in BlockCtx, NEW time \in Nat, time <= block.Time,
           s.es.EpochStart <= time,
           NEW v \in s.es.Validators, UptimeIsBounded(s, bs, time, v)
    PROVE  LET m == EpochMetric(bs.ValidatorStates[v], s.es, block).Uptime IN
           /\ m \in Nat
           /\ \/ m + s.es.EpochStart <= block.Time
              \/ \E e \in s.confirmed : Creator[e] = v /\ m + s.es.EpochStart <= MedianTime[e]
<1> DEFINE st == bs.ValidatorStates[v]
           start == s.es.EpochStart
           up == st.Uptime
           lot == st.LastOnlineTime
           end == block.Time
           m == EpochMetric(st, s.es, block).Uptime
<1>1. start \in Nat /\ up \in Nat /\ lot \in Nat /\ end \in Nat /\ start <= end
  <2>1. st \in ValidatorBlockState /\ start \in Nat /\ end \in Nat
    BY Zenon DEF IsStore, IsEpochState, IsBlockState, BlockCtx
  <2> QED
    BY <2>1 DEF ValidatorBlockState
<1>2. up + start <= MaxOf(start, lot)
  BY Zenon DEF UptimeIsBounded
<1>3. \/ lot <= end
      \/ \E e \in s.confirmed : Creator[e] = v /\ MedianTime[e] = lot
  <2>1. \/ lot <= time
        \/ \E e \in s.confirmed : Creator[e] = v /\ MedianTime[e] = lot
    BY Zenon DEF UptimeIsBounded
  <2>2. end \in Nat /\ lot \in Nat /\ time <= end
    BY Zenon, <1>1
  <2> HIDE DEF lot, end
  <2> QED
    BY <2>1, <2>2
<1>4. \/ m = up
      \/ m = up + (MaxOf(end, MaxOf(lot, start)) - MaxOf(lot, start))
  BY Zenon DEF EpochMetric
<1> HIDE DEF st, start, up, lot, end, m
<1>5. m \in Nat /\ m + start <= MaxOf(end, lot)
  BY <1>1, <1>2, <1>4 DEF MaxOf
<1>6. \/ m + start <= end
      \/ \E e \in s.confirmed : Creator[e] = v /\ m + start <= MedianTime[e]
  <2>1. CASE m + start <= end
    BY Zenon, <2>1
  <2>2. CASE ~(m + start <= end)
    <3>1. m + start <= lot /\ ~(lot <= end)
      BY <1>1, <1>5, <2>2 DEF MaxOf
    <3> QED
      BY Zenon, <1>3, <3>1
  <2> QED
    BY Zenon, <2>1, <2>2
<1> QED
  BY Zenon, <1>5, <1>6 DEF start, end, m, st

LEMMA AccountEndBlock ==
    ASSUME GasLaws, TypeOK, AccountInv, StageInv', MedianTimeGrows, EndBlock
    PROVE  AccountInv'
<1> DEFINE block == NextBlockCtx
           time == store.bs.LastBlock.Time
<1>0. /\ IsCallback(cb) /\ cb.active /\ cb' = IdleCb /\ disk' = disk
      /\ task.stage = "none" /\ cb.es = store.es /\ cb.cone = {}
      /\ task'.stage = "internal" /\ task'.es = NextEs /\ task'.bs = NextBs
      /\ task'.block = block /\ task'.metrics = NextMetrics
      /\ task'.confirmedEvents = cb.confirmedEvents
      /\ store'.es = NextEs /\ store'.blocks = store.blocks
      /\ store'.confirmed = store.confirmed
  BY Zenon, EndBlockFrame DEF AccountInv
<1>1. ~cb'.active
  BY Zenon, <1>0 DEF IdleCb
<1>2. /\ CurrentBs' = NextBs /\ CurrentTime' = block.Time /\ Pending' = Pending
      /\ Cone' = {} /\ Cone = {} /\ \A v : Highest(v)' = NoEvent
  BY Zenon, <1>0, <1>1 DEF CurrentBs, CurrentTime, Unpublished, Pending, Cone, Highest
<1>3. /\ IsStore(store) /\ IsEpochState(store.es) /\ block \in BlockCtx
      /\ IsBlockState(FinalizedBs, store.es.Validators)
      /\ IsBlockState(ToldBs, store.es.Validators)
  BY Zenon, <1>0, NextBlockType, ExecutePreInternalTxsType DEF TypeOK, IsStore, ToldBs
<1>4. time \in Nat /\ block.Time \in Nat /\ time <= block.Time
  <2>1. cb.bs.LastBlock = store.bs.LastBlock /\ time \in Nat /\ cb.atroposTime \in Nat
    BY Zenon, <1>0, <1>3 DEF AccountInv, StageInv, IsStore, IsBlockState, BlockCtx, IsCallback
  <2> QED
    BY <2>1 DEF NextBlockCtx, BlockTime
<1>5. /\ FinalizedBs.EpochGas = ConfirmedGas(store)
      /\ FinalizedBs.EpochCheaters \subseteq Forker
      /\ \A v \in store.es.Validators \ Forker : LastIsLast(store, FinalizedBs, v, NoEvent)
      /\ store.es.EpochStart <= time
      /\ (\A r \in Rules : r.Berlin) =>
           \A v \in store.es.Validators \ Forker : UptimeIsBounded(store, FinalizedBs, time, v)
  BY Zenon, <1>0, FinalizedAccount
<1>6. SameCounts(ToldBs, FinalizedBs)
  BY Zenon, <1>3, PreInternalKeepsCounts DEF ToldBs
<1>7. /\ DOMAIN FinalizedBs.ValidatorStates = store.es.Validators
      /\ ToldBs.EpochGas = ConfirmedGas(store)
      /\ ToldBs.EpochCheaters \subseteq Forker
  BY Zenon, <1>3, <1>5, <1>6 DEF SameCounts, IsBlockState
<1>8. \A v \in store.es.Validators \ Forker : LastIsLast(store, ToldBs, v, NoEvent)
  BY Zenon, <1>5, <1>6, <1>7, LastOfSame
<1>9. (\A r \in Rules : r.Berlin) =>
        \A v \in store.es.Validators \ Forker : UptimeIsBounded(store, ToldBs, time, v)
  BY Zenon, <1>5, <1>6, <1>7, UptimeOfSame
<1>10. \A e \in store.confirmed : EpochOf[e] <= store.es.Epoch
  BY Zenon DEF AccountInv, KnownInv, Known
<1> HIDE DEF block, time
<1>11. PlaceInv'
  BY Zenon, <1>0, <1>1, <1>2, PlacedOfSame DEF AccountInv, PlaceInv
<1>12. /\ KnownInv' /\ GasInv'
       /\ NextBs.EpochCheaters \subseteq Forker
       /\ \A v \in NextEs.Validators \ Forker : LastIsLast(store', NextBs, v, NoEvent)
       /\ NextEs.EpochStart <= block.Time
       /\ (\A r \in Rules : r.Berlin) =>
            /\ \A v \in NextEs.Validators \ Forker :
                 UptimeIsBounded(store', NextBs, block.Time, v)
            /\ \A v \in DOMAIN NextMetrics \ Forker :
                 task'.metrics[v].Uptime \in Nat /\ MetricIsBounded(v)'
  <2>0. /\ IsFiniteSet(store.confirmed) /\ ClosedUnderParents(store.confirmed)
        /\ Known(disk'.store, {}) /\ disk'.store.bs.EpochGas = ConfirmedGas(disk'.store)
        /\ store.es.Epoch \in Nat /\ store.es.EpochStart \in Nat
    BY Zenon, <1>0, <1>2, <1>3 DEF AccountInv, KnownInv, Known, GasInv, IsEpochState
  <2>1. CASE ~Sealing
    <3>1. NextBs = ToldBs /\ NextEs = store.es /\ DOMAIN NextMetrics = {}
      BY Zenon, <1>0, <2>1 DEF NextBs, NextEs, NextMetrics
    <3>2. KnownInv'
      BY Zenon, <1>0, <1>2, <1>10, <2>0, <3>1 DEF KnownInv, Known
    <3>3. GasInv'
      <4>1. ConfirmedGas(store') = ConfirmedGas(store)
        BY Zenon, <1>0, <3>1, ConfirmedGasOfSame
      <4> QED
        BY Zenon, <1>2, <1>7, <2>0, <3>1, <4>1 DEF GasInv
    <3>4. ASSUME NEW v \in store.es.Validators \ Forker
          PROVE  LastIsLast(store', ToldBs, v, NoEvent)
      BY Zenon, <1>0, <1>8, <3>1, <3>4, LastOfEqual
    <3>5. store.es.EpochStart <= block.Time
      BY Zenon, <1>4, <1>5, <2>0, LeqTrans
    <3>6. ASSUME \A r \in Rules : r.Berlin, NEW v \in store.es.Validators \ Forker
          PROVE  UptimeIsBounded(store', ToldBs, block.Time, v)
      <4>1. UptimeIsBounded(store, ToldBs, time, v)
        BY Zenon, <1>9, <3>6
      <4>2. ToldBs.ValidatorStates[v].LastOnlineTime \in Nat
        BY Zenon, <1>3 DEF IsBlockState, ValidatorBlockState
      <4> QED
        BY Zenon, <1>0, <1>4, <3>1, <4>1, <4>2, UptimeLater
    <3> QED
      BY Zenon, <1>7, <3>1, <3>2, <3>3, <3>4, <3>5, <3>6
  <2>2. CASE Sealing
    <3>1. /\ NextBs = SealEpochBs(block, ToldBs, store.es)
          /\ NextEs = SealEpochEs(block, ToldBs, store.es)
          /\ NextMetrics = [v \in store.es.Validators |->
                              EpochMetric(FinalizedBs.ValidatorStates[v], store.es, block)]
      BY Zenon, <1>0, <2>2 DEF NextBs, NextEs, NextMetrics, block
    <3>2. /\ NextEs.Epoch = store.es.Epoch + 1 /\ NextEs.EpochStart = block.Time
          /\ NextEs.PrevEpochStart = store.es.EpochStart
          /\ NextEs.Validators = ToldBs.NextValidatorProfiles
      BY Zenon, <3>1 DEF SealEpochEs
    <3>3. NextBs.EpochGas = 0 /\ NextBs.EpochCheaters = {}
      BY Zenon, <1>3, <3>1 DEF SealEpochBs, IsBlockState
    <3>4. \A e \in store.confirmed : EpochOf[e] \in Nat
      BY Zenon, <1>3, ConstantsAssumption DEF IsStore
    <3>a. \A e \in store.confirmed : EpochOf[e] <= NextEs.Epoch /\ EpochOf[e] # NextEs.Epoch
      <4> SUFFICES ASSUME NEW e \in store.confirmed
                   PROVE  EpochOf[e] <= NextEs.Epoch /\ EpochOf[e] # NextEs.Epoch
        BY Zenon
      <4> DEFINE k == store.es.Epoch
                 i == EpochOf[e]
      <4>1. NextEs.Epoch = k + 1 /\ k \in Nat /\ i \in Nat /\ i <= k
        BY Zenon, <1>10, <2>0, <3>2, <3>4
      <4> HIDE DEF k, i
      <4>2. i <= k + 1 /\ i # k + 1
        BY Zenon, <4>1, LeqNext
      <4> QED
        BY Zenon, <4>1, <4>2 DEF i
    <3>5. KnownInv'
      BY Zenon, <1>0, <1>2, <2>0, <3>a DEF KnownInv, Known
    <3>6. GasInv'
      <4>1. {e \in store'.confirmed : EpochOf[e] = store'.es.Epoch} = {}
        BY Zenon, <1>0, <3>a
      <4> QED
        BY Zenon, <1>2, <2>0, <3>3, <4>1 DEF GasLaws, GasInv, ConfirmedGas
    <3>7. \A v \in NextEs.Validators \ Forker : LastIsLast(store', NextBs, v, NoEvent)
      <4>1. store'.confirmed = store.confirmed /\ store'.es = SealEpochEs(block, ToldBs, store.es)
        BY Zenon, <1>0, <2>0, <3>1
      <4>2. \A v \in ToldBs.NextValidatorProfiles \ Forker :
              LastIsLast(store', SealEpochBs(block, ToldBs, store.es), v, NoEvent)
        BY Zenon, <1>3, <1>8, <1>10, <4>1, SealKeepsLast
      <4> QED
        BY Zenon, <3>1, <3>2, <4>2
    <3>8. NextEs.EpochStart <= block.Time
      BY Zenon, <1>4, <3>2, LeqRefl
    <3>9. ASSUME \A r \in Rules : r.Berlin
          PROVE  /\ \A v \in NextEs.Validators \ Forker :
                      UptimeIsBounded(store', NextBs, block.Time, v)
                 /\ \A v \in DOMAIN NextMetrics \ Forker :
                      task'.metrics[v].Uptime \in Nat /\ MetricIsBounded(v)'
      <4>1. \A v \in store.es.Validators \ Forker : UptimeIsBounded(store, ToldBs, time, v)
        BY Zenon, <1>9, <3>9
      <4>2. \A v \in NextEs.Validators \ Forker : UptimeIsBounded(store', NextBs, block.Time, v)
        <5>1. store'.confirmed = store.confirmed /\ store'.es = SealEpochEs(block, ToldBs, store.es)
          BY Zenon, <1>0, <3>1
        <5>2. \A v \in ToldBs.NextValidatorProfiles \ Forker :
                UptimeIsBounded(store', SealEpochBs(block, ToldBs, store.es), block.Time, v)
          BY Zenon, <1>3, <1>4, <4>1, <5>1, SealKeepsUptime
        <5> QED
          BY Zenon, <3>1, <3>2, <5>2
      <4>3. ASSUME NEW v \in DOMAIN NextMetrics \ Forker
            PROVE  task'.metrics[v].Uptime \in Nat /\ MetricIsBounded(v)'
        <5> DEFINE m == EpochMetric(FinalizedBs.ValidatorStates[v], store.es, block).Uptime
        <5>1. v \in store.es.Validators \ Forker /\ task'.metrics[v].Uptime = m
          <6>1. v \in store.es.Validators
            BY Zenon, <3>1
          <6>2. NextMetrics[v] = EpochMetric(FinalizedBs.ValidatorStates[v], store.es, block)
            BY Zenon, <3>1, <6>1
          <6> QED
            BY Zenon, <1>0, <6>1, <6>2
        <5>2. UptimeIsBounded(store, FinalizedBs, time, v)
          BY Zenon, <1>5, <3>9, <5>1
        <5>3. /\ m \in Nat
              /\ \/ m + store.es.EpochStart <= block.Time
                 \/ \E e \in store.confirmed :
                        Creator[e] = v /\ m + store.es.EpochStart <= MedianTime[e]
          BY Zenon, <1>3, <1>4, <1>5, <5>1, <5>2, MetricBound
        <5> HIDE DEF m
        <5> QED
          BY Zenon, <1>0, <3>2, <5>1, <5>3 DEF MetricIsBounded
      <4> QED
        BY Zenon, <4>2, <4>3
    <3> QED
      BY Zenon, <3>3, <3>5, <3>6, <3>7, <3>8, <3>9
  <2> QED
    BY Zenon, <2>1, <2>2
<1>13. LastInv'
  BY Zenon, <1>0, <1>2, <1>12 DEF AccountInv, LastInv
<1>14. UptimeInv'
  BY Zenon, <1>0, <1>2, <1>12 DEF AccountInv, UptimeInv
<1> QED
  BY Zenon, <1>11, <1>12, <1>13, <1>14 DEF AccountInv

LEMMA AccountInvariant ==
    ASSUME GasLaws, MedianTimeGrows
    PROVE  Spec => []AccountInv
<1>1. Init => AccountInv
  BY Zenon, AccountInit
<1>2. TypeOK /\ ChainInv /\ AccountInv /\ [Next]_vars => AccountInv'
  <2> SUFFICES ASSUME TypeOK, ChainInv, AccountInv, [Next]_vars PROVE AccountInv'
    BY Zenon
  <2>0. StageInv'
    BY Zenon, StageStep DEF AccountInv
  <2>1. ASSUME NEW atropos \in Event, NEW cheaters \in SUBSET Forker,
               NEW cone \in SUBSET {e \in Event : EpochOf[e] = store.es.Epoch},
               BeginBlock(atropos, cheaters, cone)
        PROVE  AccountInv'
    BY Zenon, <2>0, <2>1, AccountBeginBlock
  <2>2. ASSUME NEW e \in Event, ApplyEvent(e)
        PROVE  AccountInv'
    BY Zenon, <2>0, <2>2, AccountApplyEvent
  <2>3. CASE EndSkippedBlock
    BY Zenon, <2>0, <2>3, AccountEndSkippedBlock
  <2>4. CASE EndBlock
    BY Zenon, <2>0, <2>4, AccountEndBlock
  <2>5. CASE StartTask \/ (\E tx \in Tx : ExecuteTx(tx) \/ OnNewReceipt(tx))
    BY Zenon, <2>0, <2>5, AccountExecute
  <2>6. CASE SetBlock
    BY Zenon, <2>0, <2>6, AccountSetBlock
  <2>7. CASE SetBlockEpochState
    BY Zenon, <2>0, <2>7, AccountPublish
  <2>8. CASE NotifyNewBlock \/ CommitEVM \/ ClearBusyFlag \/ UNCHANGED vars
    BY Zenon, <2>0, <2>8, AccountFinish
  <2>9. CASE Commit \/ Crash
    BY Zenon, <2>0, <2>9, AccountDisk
  <2> QED
    BY Zenon, <2>1, <2>2, <2>3, <2>4, <2>5, <2>6, <2>7, <2>8, <2>9
       DEF Next, Step, Engine, BlockFn
<1> QED
  BY <1>1, <1>2, TypeCorrect, ChainInvariant, PTL DEF Spec
=============================================================================
