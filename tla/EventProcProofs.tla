--------------------------- MODULE EventProcProofs ---------------------------
(* Proofs about EventProc for any set of events and any number of epochs.    *)
EXTENDS EventProc, WellFoundedInduction, TLAPS

-----------------------------------------------------------------------------
(* Types.                                                                    *)

(* The initial state is typed. *)
LEMMA TypeInit == Init => TypeOK
  <1> SUFFICES ASSUME Init PROVE TypeOK
    OBVIOUS
  <1>1. EpochData(1) \in EpochDataType
    BY DEF EpochData, EpochDataType
  <1>2. EmptyEpochDb(1) \in EpochDbType
    BY DEF EmptyEpochDb, EpochDbType
  <1>3. pipe \in [Event -> PipeStage]
    BY DEF Init, PipeStage
  <1>. QED BY Zenon, <1>1, <1>2, <1>3 DEF Init, TypeOK

(* The checks keep the types. *)
LEMMA TypeCheck == TypeOK /\ CheckEvent => TypeOK'
  <1> SUFFICES ASSUME TypeOK, NEW e \in Event, NEW ctx, NEW from, NEW to \in PipeStage,
                      Check(e, ctx, from, to), KeepNode
               PROVE  TypeOK'
    BY DEF CheckEvent, CheckValidators, CheckRules, CheckSignature, CheckGasPower, PipeStage
  <1>1. pipe' \in [Event -> PipeStage]
    BY DEF TypeOK, Check, PipeStage
  <1>. QED BY <1>1 DEF TypeOK, KeepNode

(* Beginning an event keeps the types. *)
LEMMA TypeBegin ==
    ASSUME TypeOK, NEW e \in Event, BeginPeerEvent(e) \/ BeginOwnEvent(e)
    PROVE  TypeOK'
  <1>1. /\ UNCHANGED <<es, epochDb, lamport, keys, gasCtx, emEpoch, rpc, stopped, disk>>
        /\ ProcessBegin(e)
    BY DEF BeginPeerEvent, BeginOwnEvent
  <1>2. pipe' \in [Event -> PipeStage]
    BY <1>1 DEF ProcessBegin, TypeOK, PipeStage
  <1>3. events' \in SUBSET Event
    BY <1>1 DEF ProcessBegin, TypeOK
  <1>4. proc' \in {Idle} \cup ProcType
    BY <1>1 DEF ProcessBegin, TypeOK, ProcType, EpochDataType
  <1>. QED BY <1>1, <1>2, <1>3, <1>4 DEF TypeOK

(* The engine's verdict keeps the types. *)
LEMMA TypeEngine == TypeOK /\ SaveAndProcess => TypeOK'
  <1> SUFFICES ASSUME TypeOK, SaveAndProcess PROVE TypeOK'
    OBVIOUS
  <1>1. proc \in ProcType
    BY DEF TypeOK, SaveAndProcess, Idle
  <1>2. CASE Drop(proc.event)
    <2>1. pipe' \in [Event -> PipeStage]
      BY <1>2, <1>1, Zenon DEF Drop, TypeOK, PipeStage
    <2>. QED BY <1>2, <2>1 DEF Drop, TypeOK
  <1>3. ASSUME NEW seal \in BOOLEAN, Accept(proc.event, seal)
        PROVE  TypeOK'
    <2>1. es' \in EpochDataType
      BY <1>3 DEF Accept, TypeOK, EpochDataType, EpochData
    <2>2. epochDb' \in EpochDbType
      BY <1>3, <1>1 DEF Accept, TypeOK, EpochDbType, ProcType
    <2>3. proc' \in ProcType
      BY <1>3, <1>1 DEF Accept, ProcType
    <2>. QED BY <1>3, <2>1, <2>2, <2>3 DEF Accept, TypeOK
  <1>. QED BY <1>2, <1>3 DEF SaveAndProcess

(* Indexing an event keeps the types. *)
LEMMA TypeIndex == TypeOK /\ IndexEvent => TypeOK'
  <1> SUFFICES ASSUME TypeOK, IndexEvent PROVE TypeOK'
    OBVIOUS
  <1>1. proc \in ProcType
    BY DEF TypeOK, IndexEvent, Idle
  <1>2. proc' \in ProcType
    BY <1>1 DEF IndexEvent, ProcType
  <1>3. lamport' \in Nat
    BY <1>1, EventAssumption DEF IndexEvent, HighestLamport, TypeOK, ProcType
  <1>4. ProcessEventHeads(epochDb.heads, proc.event) \in SUBSET Event
    BY <1>1 DEF ProcessEventHeads, TypeOK, EpochDbType, ProcType
  <1>5. ProcessLastEvent(epochDb.lasts, proc.event)
          \in SUBSET ({Creator[e] : e \in Event} \X Event)
    BY <1>1 DEF ProcessLastEvent, TypeOK, EpochDbType, ProcType
  <1>6. epochDb' \in EpochDbType
    BY <1>4, <1>5, Zenon DEF IndexEvent, TypeOK, EpochDbType
  <1>. QED BY <1>2, <1>3, <1>6 DEF IndexEvent, TypeOK

(* The steps of an epoch change and of the end of processEvent keep the      *)
(* types.                                                                    *)
LEMMA TypeSwitch ==
    ASSUME TypeOK, \/ ResetEpochStore \/ SetGasPowerContext \/ SetEpochPubKeys
                   \/ EmitterOnNewEpoch \/ Finish
    PROVE  TypeOK'
  <1>1. proc \in ProcType
    BY DEF TypeOK, Idle, ResetEpochStore, SetGasPowerContext, SetEpochPubKeys,
           EmitterOnNewEpoch, Finish
  <1>2. CASE ResetEpochStore
    BY <1>1, <1>2 DEF ResetEpochStore, TypeOK, ProcType, EmptyEpochDb, EpochDbType, EpochDataType
  <1>3. CASE SetGasPowerContext
    BY <1>1, <1>3 DEF SetGasPowerContext, TypeOK, ProcType
  <1>4. CASE SetEpochPubKeys
    BY <1>1, <1>4 DEF SetEpochPubKeys, TypeOK, ProcType
  <1>5. CASE EmitterOnNewEpoch
    BY <1>1, <1>5 DEF EmitterOnNewEpoch, TypeOK, ProcType, EpochDataType
  <1>6. CASE Finish
    <2>1. pipe' \in [Event -> PipeStage]
      BY <1>6, <1>1, Zenon DEF Finish, TypeOK, PipeStage
    <2>2. disk' \in [es : EpochDataType, events : SUBSET Event, epochDb : EpochDbType, lamport : Nat]
      BY <1>6 DEF Finish, Commit, TypeOK
    <2>. QED BY <1>6, <2>1, <2>2 DEF Finish, TypeOK
  <1>. QED BY <1>2, <1>3, <1>4, <1>5, <1>6

(* Stop, restart and the RPC call keep the types. *)
LEMMA TypeOther == TypeOK /\ (Stop \/ Restart \/ Rpc) => TypeOK'
  <1> SUFFICES ASSUME TypeOK, Stop \/ Restart \/ Rpc PROVE TypeOK'
    OBVIOUS
  <1>1. CASE Stop
    BY <1>1 DEF Stop, Commit, TypeOK
  <1>2. CASE Restart
    <2>1. pipe' \in [Event -> PipeStage]
      BY <1>2 DEF Restart, PipeStage
    <2>. QED BY Zenon, <1>2, <2>1 DEF Restart, TypeOK, EpochDataType
  <1>3. CASE Rpc
    <2>1. rpc' \in {NoCall} \cup CallType \cup ReturnType
      <3>1. ASSUME NEW arg \in {"pending", "latest"}, GetHeads(arg) PROVE rpc' \in CallType
        BY <3>1 DEF GetHeads, TypeOK, CallType, EpochDataType
      <3>2. CASE EpochWithDefault
        BY <3>2 DEF EpochWithDefault, TypeOK, CallType, ReturnType, NoCall
      <3>3. CASE GetHeadsSlice
        BY <3>3 DEF GetHeadsSlice, TypeOK, CallType, ReturnType, NoCall, EpochDbType
      <3>. QED BY <1>3, <3>1, <3>2, <3>3 DEF Rpc
    <2>2. RpcOnly
      BY <1>3 DEF Rpc, GetHeads, EpochWithDefault, GetHeadsSlice
    <2>. QED BY <2>1, <2>2 DEF RpcOnly, TypeOK
  <1>. QED BY <1>1, <1>2, <1>3

(* Every state of the node is typed. *)
THEOREM TypeCorrect == Spec => []TypeOK
  <1>1. TypeOK /\ [Next]_vars => TypeOK'
    <2> SUFFICES ASSUME TypeOK, [Next]_vars PROVE TypeOK'
      OBVIOUS
    <2>1. CASE UNCHANGED vars
      BY <2>1 DEF vars, TypeOK
    <2>2. CASE Next
      BY <2>2, TypeCheck, TypeBegin, TypeEngine, TypeIndex, TypeSwitch, TypeOther
         DEF Next, Step, ProcessEvent
    <2>. QED BY <2>1, <2>2
  <1>. QED BY TypeInit, <1>1, PTL DEF Spec
-----------------------------------------------------------------------------
(* What connecting an event does to the heads.                               *)

(* Adding e above its parents to a good DAG gives a good DAG: e is a head,   *)
(* its parents are not, every other head stays one because nothing stored    *)
(* refers to e yet.                                                          *)
LEMMA ConnectEvent ==
    ASSUME NEW stored \in SUBSET Event, NEW e \in Event, e \notin stored,
           NEW db \in EpochDbType, NEW highest \in Nat, NEW epoch \in Nat,
           EpochOf[e] = epoch, Parents[e] \subseteq db.index,
           Good(epoch, stored, db, highest)
    PROVE  Good(epoch, stored \cup {e},
                [epoch |-> db.epoch, heads |-> ProcessEventHeads(db.heads, e),
                 lasts |-> ProcessLastEvent(db.lasts, e), index |-> db.index \cup {e}],
                IF Lamport[e] > highest THEN Lamport[e] ELSE highest)
  <1> DEFINE new == stored \cup {e}
             ndb == [epoch |-> db.epoch, heads |-> ProcessEventHeads(db.heads, e),
                     lasts |-> ProcessLastEvent(db.lasts, e), index |-> db.index \cup {e}]
             nh == IF Lamport[e] > highest THEN Lamport[e] ELSE highest
  <1>0. /\ ndb.epoch = db.epoch /\ ndb.index = db.index \cup {e}
        /\ ndb.heads = ProcessEventHeads(db.heads, e)
        /\ ndb.lasts = ProcessLastEvent(db.lasts, e)
    OBVIOUS
  <1>1. /\ db.index = EpochEvents(stored, epoch) /\ db.heads = Tips(stored, epoch)
        /\ db.epoch = epoch
        /\ \A f \in stored : EpochOf[f] <= epoch /\ Parents[f] \subseteq stored
        /\ \A l \in db.lasts : l[2] \in db.index
    BY DEF Good, Consistent
  <1>2. EpochEvents(new, epoch) = db.index \cup {e}
    BY <1>1 DEF EpochEvents
  <1>3. ProcessEventHeads(db.heads, e) = Tips(new, epoch)
    <2>1. e \notin Parents[e]
      BY <1>1 DEF EpochEvents
    <2>2. \A f \in stored : e \notin Parents[f]
      BY <1>1
    <2>. QED BY <1>1, <2>1, <2>2 DEF ProcessEventHeads, Tips
  <1>4. nh \in Nat
    BY EventAssumption
  <1>5. \A f \in EpochEvents(new, epoch) : Lamport[f] <= nh
    <2>1. \A f \in EpochEvents(stored, epoch) : f \in Event /\ Lamport[f] <= highest
      BY DEF Good, Consistent, EpochEvents
    <2>2. ASSUME NEW f \in EpochEvents(new, epoch) PROVE Lamport[f] <= nh
      <3>1. Lamport[e] \in Nat /\ Lamport[f] \in Nat
        BY EventAssumption DEF EpochEvents
      <3>2. CASE f = e
        BY <3>1, <3>2
      <3>3. CASE f # e
        BY <3>1, <3>3, <2>1 DEF EpochEvents
      <3>. QED BY <3>2, <3>3
    <2>. QED BY <2>2
  <1>6. nh # 0 => \E f \in EpochEvents(new, epoch) : Lamport[f] = nh
    <2>1. CASE Lamport[e] > highest
      BY <2>1 DEF EpochEvents
    <2>2. CASE ~(Lamport[e] > highest)
      <3>1. highest # 0 => \E f \in EpochEvents(stored, epoch) : Lamport[f] = highest
        BY DEF Good, Consistent
      <3>. QED BY <2>2, <3>1 DEF EpochEvents
    <2>. QED BY <2>1, <2>2
  <1>7. Consistent(epoch, new, ndb, nh)
    <2> HIDE DEF new, ndb, nh
    <2>. QED BY <1>0, <1>1, <1>2, <1>3, <1>5, <1>6 DEF Consistent
  <1>8. \A f \in new : EpochOf[f] <= epoch /\ Parents[f] \subseteq new
    BY <1>1 DEF EpochEvents
  <1>9. \A l \in ndb.lasts : l[2] \in ndb.index
    <2>1. <<Creator[e], e>>[2] = e
      OBVIOUS
    <2>. QED BY <1>0, <1>1, <2>1 DEF ProcessLastEvent
  <1> HIDE DEF new, ndb, nh
  <1>10. Good(epoch, new, ndb, nh)
    BY <1>7, <1>8, <1>9 DEF Good
  <1>. QED BY <1>10 DEF new, ndb, nh

(* A new epoch starts with a good, empty DAG. *)
LEMMA EmptyEpoch ==
    ASSUME NEW stored \in SUBSET Event, NEW epoch \in Nat,
           \A f \in stored : EpochOf[f] < epoch /\ Parents[f] \subseteq stored
    PROVE  Good(epoch, stored, EmptyEpochDb(epoch), 0)
  <1>1. EpochEvents(stored, epoch) = {} /\ Tips(stored, epoch) = {}
    BY EventAssumption DEF EpochEvents, Tips
  <1>2. Consistent(epoch, stored, EmptyEpochDb(epoch), 0)
    BY <1>1 DEF Consistent, EmptyEpochDb
  <1>3. \A f \in stored : EpochOf[f] <= epoch
    BY EventAssumption
  <1>. QED BY <1>2, <1>3 DEF Good, EmptyEpochDb
-----------------------------------------------------------------------------
(* The inductive invariant, action by action.                                *)

(* An honest event is valid and its parents are honest. *)
LEMMA HonestEvents ==
    ASSUME NEW e \in Honest
    PROVE  e \in Event /\ e \notin Invalid /\ e \notin WrongHash /\ Parents[e] \subseteq Honest
  <1>1. PICK S \in SUBSET Event : /\ e \in S /\ S \cap (Invalid \cup WrongHash) = {}
                                  /\ \A f \in S : Parents[f] \subseteq S
    BY DEF Honest
  <1>2. S \subseteq Honest
    BY <1>1 DEF Honest
  <1>. QED BY <1>1, <1>2

(* The genesis state satisfies the invariant. *)
LEMMA InitInv == Init => EventInv
  <1> SUFFICES ASSUME Init PROVE EventInv
    OBVIOUS
  <1>1. Good(1, {}, EmptyEpochDb(1), 0)
    BY EmptyEpoch
  <1>2. DagInv
    BY <1>1 DEF Init, DagInv, Idle, EpochData
  <1>3. ContextInv
    BY DEF Init, ContextInv, Idle, EpochData
  <1>4. PipeInv
    BY HonestEvents DEF Init, PipeInv, Idle
  <1>5. StoppedIsFlushed
    BY DEF Init, StoppedIsFlushed
  <1>. QED BY <1>2, <1>3, <1>4, <1>5 DEF EventInv

(* Data of its own epoch never makes a check ban a peer. *)
LEMMA CheckInv ==
    ASSUME TypeOK, EventInv, NEW e \in Event,
           CheckValidators(e) \/ CheckRules(e) \/ CheckSignature(e) \/ CheckGasPower(e)
    PROVE  EventInv'
  <1>1. es.data = es.epoch /\ keys.data = keys.epoch /\ gasCtx.data = gasCtx.epoch
    <2>1. proc = Idle \/ proc \in ProcType
      BY DEF TypeOK
    <2>. QED BY <2>1 DEF EventInv, ContextInv, Idle, ProcType, EpochData
  <1>2. KeepNode
    BY DEF CheckValidators, CheckRules, CheckSignature, CheckGasPower
  <1>3. ASSUME NEW f \in Honest
        PROVE  pipe'[f] # "banned" /\ (pipe'[f] = "ready" => Parents[f] \subseteq events)
    <2>1. f \in Event /\ pipe[f] # "banned" /\ (pipe[f] = "ready" => Parents[f] \subseteq events)
      BY HonestEvents DEF EventInv, PipeInv
    <2>2. \/ CheckValidators(e) /\ Verdict(e, es) # "ban"
          \/ CheckRules(e) /\ Verdict(e, es) # "ban"
          \/ CheckSignature(e) /\ Verdict(e, keys) # "ban"
          \/ CheckGasPower(e) /\ Verdict(e, gasCtx) # "ban"
      BY <1>1 DEF Verdict
    <2>3. \/ pipe' = [pipe EXCEPT ![e] = pipe'[e]] /\ pipe'[e] \in {"new", "light", "heavy", "buffered"}
          \/ pipe' = [pipe EXCEPT ![e] = "ready"] /\ Parents[e] \subseteq events
      <3>1. ASSUME NEW ctx, NEW from, NEW to, Check(e, ctx, from, to), Verdict(e, ctx) # "ban"
            PROVE  \/ pipe' = [pipe EXCEPT ![e] = to]
                   \/ pipe' = [pipe EXCEPT ![e] = "new"]
        BY <3>1, Zenon DEF Check
      <3>2. CASE CheckGasPower(e) /\ Verdict(e, gasCtx) # "ban"
        <4>1. Parents[e] \subseteq events /\ Check(e, gasCtx, "buffered", "ready")
          BY <3>2 DEF CheckGasPower
        <4>2. \/ pipe' = [pipe EXCEPT ![e] = "ready"]
              \/ pipe' = [pipe EXCEPT ![e] = "new"]
          BY <3>2, <4>1, <3>1
        <4>. QED BY <4>1, <4>2 DEF TypeOK
      <3>3. CASE \/ CheckValidators(e) /\ Verdict(e, es) # "ban"
                 \/ CheckRules(e) /\ Verdict(e, es) # "ban"
                 \/ CheckSignature(e) /\ Verdict(e, keys) # "ban"
        <4>1. PICK to \in {"light", "heavy", "buffered"} :
                \/ pipe' = [pipe EXCEPT ![e] = to]
                \/ pipe' = [pipe EXCEPT ![e] = "new"]
          <5>1. CASE CheckValidators(e) /\ Verdict(e, es) # "ban"
            BY <5>1, <3>1 DEF CheckValidators
          <5>2. CASE CheckRules(e) /\ Verdict(e, es) # "ban"
            BY <5>2, <3>1 DEF CheckRules
          <5>3. CASE CheckSignature(e) /\ Verdict(e, keys) # "ban"
            BY <5>3, <3>1 DEF CheckSignature
          <5>. QED BY <3>3, <5>1, <5>2, <5>3
        <4>. QED BY <4>1 DEF TypeOK
      <3>. QED BY <2>2, <3>2, <3>3
    <2>. QED BY <2>1, <2>3 DEF TypeOK
  <1>4. PipeInv'
    BY <1>2, <1>3 DEF EventInv, PipeInv, KeepNode
  <1>. QED BY <1>2, <1>4 DEF EventInv, DagInv, ContextInv, StoppedIsFlushed, KeepNode

(* An event is taken up: the store is a good DAG and the event. *)
LEMMA BeginInv ==
    ASSUME TypeOK, EventInv, NEW e \in Event, BeginPeerEvent(e) \/ BeginOwnEvent(e)
    PROVE  EventInv'
  <1> DEFINE Frame == UNCHANGED <<es, epochDb, lamport, keys, gasCtx, emEpoch, rpc, stopped, disk>>
  <1>1. /\ Frame /\ ProcessBegin(e) /\ proc.step = "idle" /\ ~stopped
        /\ (pipe[e] = "ready" \/ Parents[e] \subseteq epochDb.index)
    BY DEF BeginPeerEvent, BeginOwnEvent, Locked
  <1>2. /\ Good(es.epoch, events, epochDb, lamport) /\ es.data = es.epoch
        /\ keys = es /\ gasCtx = es /\ emEpoch = es.epoch
    BY <1>1 DEF EventInv, DagInv, ContextInv
  <1>3. CASE events' = events \ {e} /\ pipe' = [pipe EXCEPT ![e] = "banned"] /\ UNCHANGED proc
             /\ e \notin events /\ e \in WrongHash
    <2>1. events' = events
      BY <1>3
    <2>2. PipeInv'
      <3>1. e \notin Honest
        BY <1>3, HonestEvents
      <3>. QED BY <1>1, <1>3, <2>1, <3>1, HonestEvents DEF EventInv, PipeInv, TypeOK
    <2>. QED BY <1>1, <1>3, <2>1, <2>2 DEF EventInv, DagInv, ContextInv, StoppedIsFlushed
  <1>4. CASE pipe' = [pipe EXCEPT ![e] = "new"] /\ UNCHANGED <<events, proc>>
    <2>1. PipeInv'
      BY <1>1, <1>4, HonestEvents DEF EventInv, PipeInv, TypeOK
    <2>. QED BY <1>1, <1>4, <2>1 DEF EventInv, DagInv, ContextInv, StoppedIsFlushed
  <1>5. CASE /\ e \notin events /\ EpochOf[e] = es.epoch
             /\ events' = events \cup {e} /\ UNCHANGED pipe
             /\ proc' = [step |-> "engine", event |-> e, oldEpoch |-> es.epoch]
    <2>1. e \notin epochDb.index
      BY <1>2, <1>5 DEF Good, Consistent, EpochEvents
    <2>2. events' \ {e} = events
      BY <1>5
    <2>3. [epochDb EXCEPT !.index = @ \ {e}] = epochDb
      <3>1. epochDb.index \ {e} = epochDb.index
        BY <2>1
      <3>. QED BY <3>1 DEF TypeOK, EpochDbType
    <2>4. DagInv'
      <3>1. Good(es.epoch, events' \ {e}, [epochDb EXCEPT !.index = @ \ {e}], lamport)
        BY <1>2, <2>2, <2>3
      <3>2. Good(disk.es.epoch, disk.events, disk.epochDb, disk.lamport)
        BY DEF EventInv, DagInv
      <3>3. proc'.step = "engine" /\ proc'.event = e /\ proc'.oldEpoch = es.epoch
        BY <1>5
      <3>. QED BY <1>1, <1>5, <2>1, <3>1, <3>2, <3>3 DEF DagInv
    <2>5. ContextInv'
      BY <1>1, <1>2, <1>5 DEF EventInv, ContextInv
    <2>6. PipeInv'
      <3>1. ASSUME e \in Honest PROVE Parents[e] \subseteq epochDb.index
        <4>1. CASE pipe[e] = "ready"
          <5>1. Parents[e] \subseteq events
            BY <3>1, <4>1 DEF EventInv, PipeInv
          <5>2. \A q \in Parents[e] : EpochOf[q] = es.epoch
            BY <1>5, EventAssumption
          <5>. QED BY <1>2, <5>1, <5>2 DEF Good, Consistent, EpochEvents
        <4>. QED BY <1>1, <4>1
      <3>. QED BY <1>1, <1>5, <3>1 DEF EventInv, PipeInv
    <2>. QED BY <1>1, <2>4, <2>5, <2>6 DEF EventInv, StoppedIsFlushed
  <1>6. Verdict(e, es) # "ban" /\ (Verdict(e, es) # "irrelevant" => EpochOf[e] = es.epoch)
    BY <1>2 DEF Verdict
  <1>. QED BY <1>1, <1>3, <1>4, <1>5, <1>6 DEF ProcessBegin
(* The engine rejects the event, which leaves nothing behind, or connects    *)
(* it.  An honest event is never rejected.                                   *)
LEMMA EngineInv == TypeOK /\ EventInv /\ SaveAndProcess => EventInv'
  <1> SUFFICES ASSUME TypeOK, EventInv, SaveAndProcess PROVE EventInv'
    OBVIOUS
  <1> DEFINE e == proc.event
  <1>1. /\ proc \in ProcType /\ proc.step = "engine" /\ ~stopped
    BY DEF TypeOK, SaveAndProcess, Idle, EventInv, ContextInv
  <1>2. /\ e \in events /\ EpochOf[e] = proc.oldEpoch /\ e \notin epochDb.index
        /\ Good(proc.oldEpoch, events \ {e}, [epochDb EXCEPT !.index = @ \ {e}], lamport)
        /\ Good(disk.es.epoch, disk.events, disk.epochDb, disk.lamport)
    BY <1>1 DEF EventInv, DagInv
  <1>3. /\ es.data = es.epoch /\ disk.es.data = disk.es.epoch /\ proc.oldEpoch = es.epoch
        /\ keys = es /\ gasCtx = es /\ emEpoch = es.epoch /\ es \in EpochDataType
    BY <1>1 DEF EventInv, ContextInv, TypeOK
  <1>4. [epochDb EXCEPT !.index = @ \ {e}] = epochDb
    <2>1. epochDb.index \ {e} = epochDb.index
      BY <1>2
    <2>. QED BY <2>1 DEF TypeOK, EpochDbType
  <1>5. CASE Drop(e) /\ (e \in Invalid \/ ~(Parents[e] \subseteq epochDb.index))
    <2>1. e \notin Honest
      BY <1>1, <1>5, HonestEvents DEF EventInv, PipeInv
    <2>2. DagInv'
      BY <1>2, <1>3, <1>4, <1>5, Zenon DEF DagInv, Drop, Idle
    <2>3. ContextInv'
      BY <1>3, <1>5 DEF ContextInv, Drop, Idle
    <2>4. PipeInv'
      <3>1. ASSUME NEW f \in Honest
            PROVE  pipe'[f] # "banned" /\ (pipe'[f] = "ready" => Parents[f] \subseteq events')
        <4>1. f # e /\ e \notin Parents[f] /\ f \in Event
          BY <2>1, HonestEvents
        <4>2. pipe'[f] = pipe[f] /\ events' = events \ {e}
          BY <1>5, <4>1 DEF Drop, TypeOK
        <4>. QED BY <4>1, <4>2 DEF EventInv, PipeInv
      <3>. QED BY <1>5, <3>1 DEF PipeInv, Drop, Idle
    <2>. QED BY <1>1, <1>5, <2>2, <2>3, <2>4 DEF EventInv, StoppedIsFlushed, Drop
  <1>6. ASSUME NEW seal \in BOOLEAN, Accept(e, seal), Parents[e] \subseteq epochDb.index
        PROVE  EventInv'
    <2>1. /\ proc'.step = "heads" /\ proc'.event = e /\ proc'.oldEpoch = proc.oldEpoch
          /\ UNCHANGED <<events, lamport, keys, gasCtx, emEpoch, pipe, rpc, stopped, disk>>
      BY <1>1, <1>6 DEF Accept, ProcType
    <2>2. /\ epochDb'.index = epochDb.index \cup {e}
          /\ [epochDb' EXCEPT !.index = @ \ {e}] = epochDb
      <3>1. (epochDb.index \cup {e}) \ {e} = epochDb.index
        BY <1>2
      <3>2. epochDb' = [epochDb EXCEPT !.index = @ \cup {e}]
        BY <1>6 DEF Accept
      <3>. QED BY Zenon, <3>1, <3>2 DEF TypeOK, EpochDbType
    <2>3. /\ es'.epoch \in {proc.oldEpoch, proc.oldEpoch + 1} /\ es'.data = es'.epoch
      BY <1>3, <1>6 DEF Accept, EpochData, EpochDataType
    <2>4. DagInv'
      BY Zenon, <1>2, <1>4, <1>6, <2>1, <2>2, <2>3 DEF DagInv
    <2>5. ContextInv'
      <3>1. es = EpochData(proc.oldEpoch)
        BY <1>3 DEF EpochData, EpochDataType
      <3>. QED BY <1>1, <1>3, <2>1, <2>3, <3>1 DEF ContextInv, EpochData
    <2>6. PipeInv'
      BY <2>1 DEF EventInv, PipeInv
    <2>. QED BY <1>1, <2>1, <2>4, <2>5, <2>6 DEF EventInv, StoppedIsFlushed
  <1>. QED BY <1>5, <1>6 DEF SaveAndProcess

(* The event becomes a head: the DAG is good again, or a new epoch begins.   *)
LEMMA IndexInv == TypeOK /\ EventInv /\ IndexEvent => EventInv'
  <1> SUFFICES ASSUME TypeOK, EventInv, IndexEvent PROVE EventInv'
    OBVIOUS
  <1> DEFINE e == proc.event
             before == [epochDb EXCEPT !.index = @ \ {e}]
  <1>1. proc \in ProcType /\ proc.step = "heads" /\ ~stopped /\ es \in EpochDataType
    BY DEF TypeOK, IndexEvent, Idle, EventInv, ContextInv
  <1>2. /\ e \in events /\ EpochOf[e] = proc.oldEpoch /\ e \in epochDb.index
        /\ Parents[e] \subseteq epochDb.index
        /\ Good(proc.oldEpoch, events \ {e}, before, lamport)
        /\ es.epoch \in {proc.oldEpoch, proc.oldEpoch + 1}
        /\ Good(disk.es.epoch, disk.events, disk.epochDb, disk.lamport)
    BY <1>1 DEF EventInv, DagInv
  <1>3. before \in EpochDbType /\ before.index = epochDb.index \ {e} /\ before.epoch = epochDb.epoch
        /\ before.heads = epochDb.heads /\ before.lasts = epochDb.lasts
    BY DEF TypeOK, EpochDbType
  <1>4. epochDb.epoch = proc.oldEpoch
    BY <1>2, <1>3 DEF Good, Consistent
  <1>5. Parents[e] \subseteq before.index
    <2>1. e \notin Parents[e]
      BY <1>1, EventAssumption DEF ProcType
    <2>. QED BY <1>2, <1>3, <2>1
  <1>6. Good(proc.oldEpoch, (events \ {e}) \cup {e},
             [epoch |-> before.epoch, heads |-> ProcessEventHeads(before.heads, e),
              lasts |-> ProcessLastEvent(before.lasts, e), index |-> before.index \cup {e}],
             IF Lamport[e] > lamport THEN Lamport[e] ELSE lamport)
    <2>1. e \in Event /\ e \notin events \ {e} /\ events \ {e} \in SUBSET Event
          /\ lamport \in Nat /\ proc.oldEpoch \in Nat
      BY <1>1 DEF TypeOK, ProcType
    <2> HIDE DEF before, e
    <2>. QED BY Zenon, <1>2, <1>3, <1>5, <2>1, ConnectEvent
  <1>7. epochDb' = [epoch |-> before.epoch, heads |-> ProcessEventHeads(before.heads, e),
                    lasts |-> ProcessLastEvent(before.lasts, e), index |-> before.index \cup {e}]
    <2>1. before.index \cup {e} = epochDb.index
      BY <1>2, <1>3
    <2>2. epochDb' = [epochDb EXCEPT !.heads = ProcessEventHeads(epochDb.heads, e),
                                     !.lasts = ProcessLastEvent(epochDb.lasts, e)]
      BY <1>4 DEF IndexEvent
    <2> HIDE DEF before, e
    <2>. QED BY Zenon, <1>3, <2>1, <2>2 DEF TypeOK, EpochDbType
  <1>8. (events \ {e}) \cup {e} = events
    BY <1>2
  <1> DEFINE higher == IF Lamport[e] > lamport THEN Lamport[e] ELSE lamport
  <1>9. Good(proc.oldEpoch, events, epochDb', higher)
    BY <1>6, <1>7, <1>8
  <1> HIDE DEF before, e
  <1>10. /\ UNCHANGED <<es, events, keys, gasCtx, emEpoch, pipe, rpc, stopped, disk>>
         /\ proc' = [proc EXCEPT !.step = IF es.epoch # proc.oldEpoch THEN "reset" ELSE "commit"]
         /\ lamport' = IF es.epoch # proc.oldEpoch THEN 0 ELSE higher
    BY DEF IndexEvent, HighestLamport, e
  <1>11. DagInv'
    <2>1. CASE es.epoch = proc.oldEpoch
      <3>1. proc'.step = "commit" /\ lamport' = higher
        BY <1>1, <1>10, <2>1 DEF ProcType
      <3>. QED BY <1>2, <1>9, <1>10, <2>1, <3>1 DEF DagInv
    <2>2. CASE es.epoch # proc.oldEpoch
      <3>1. proc'.step = "reset" /\ lamport' = 0 /\ proc'.oldEpoch = proc.oldEpoch
        BY <1>1, <1>10, <2>2 DEF ProcType
      <3>2. es.epoch = proc.oldEpoch + 1
        BY <1>2, <2>2
      <3>3. \A f \in events : EpochOf[f] < es.epoch /\ Parents[f] \subseteq events
        <4>1. \A f \in events : EpochOf[f] <= proc.oldEpoch /\ Parents[f] \subseteq events
          BY <1>9 DEF Good
        <4>2. \A f \in events : EpochOf[f] \in Nat
          BY EventAssumption DEF TypeOK
        <4>. QED BY <1>1, <3>2, <4>1, <4>2 DEF ProcType
      <3>4. epochDb'.heads \subseteq events /\ \A l \in epochDb'.lasts : l[2] \in events
        BY <1>9 DEF Good, Consistent, Tips, EpochEvents
      <3>. QED BY <1>2, <1>10, <3>1, <3>2, <3>3, <3>4 DEF DagInv
    <2>. QED BY <2>1, <2>2
  <1>12. ContextInv'
    <2>1. proc'.oldEpoch = proc.oldEpoch
          /\ proc'.step = IF es.epoch # proc.oldEpoch THEN "reset" ELSE "commit"
      BY <1>1, <1>10 DEF ProcType
    <2>2. es.epoch = proc.oldEpoch => es = EpochData(proc.oldEpoch)
      BY <1>1 DEF EventInv, ContextInv, EpochData, EpochDataType
    <2>3. keys = EpochData(proc.oldEpoch) /\ gasCtx = EpochData(proc.oldEpoch) /\ emEpoch = proc.oldEpoch
      BY <1>1 DEF EventInv, ContextInv
    <2>. QED BY <1>1, <1>10, <2>1, <2>2, <2>3 DEF EventInv, ContextInv
  <1>13. PipeInv'
    <2>1. proc'.step # "engine"
      BY <1>1, <1>10 DEF ProcType
    <2>. QED BY <1>10, <2>1 DEF EventInv, PipeInv
  <1>. QED BY <1>1, <1>10, <1>11, <1>12, <1>13 DEF EventInv, StoppedIsFlushed
(* The steps of an epoch change: the new epoch's database is empty, then the *)
(* contexts follow one by one.                                               *)
LEMMA SwitchInv ==
    ASSUME TypeOK, EventInv,
           ResetEpochStore \/ SetGasPowerContext \/ SetEpochPubKeys \/ EmitterOnNewEpoch
    PROVE  EventInv'
  <1>1. /\ proc \in ProcType /\ ~stopped /\ es \in EpochDataType /\ es.data = es.epoch
        /\ Good(disk.es.epoch, disk.events, disk.epochDb, disk.lamport)
        /\ disk.es.data = disk.es.epoch
    BY DEF TypeOK, Idle, EventInv, ContextInv, DagInv, ResetEpochStore, SetGasPowerContext,
           SetEpochPubKeys, EmitterOnNewEpoch
  <1>2. /\ UNCHANGED <<es, events, lamport, pipe, rpc, stopped, disk>>
        /\ proc'.step \in {"gas", "keys", "emitter", "commit"} /\ proc'.oldEpoch = proc.oldEpoch
    BY <1>1 DEF ProcType, ResetEpochStore, SetGasPowerContext, SetEpochPubKeys, EmitterOnNewEpoch
  <1>3. Good(es.epoch, events, epochDb', lamport)
    <2>1. CASE ResetEpochStore
      <3>1. \A f \in events : EpochOf[f] < es.epoch /\ Parents[f] \subseteq events
        BY <2>1 DEF ResetEpochStore, EventInv, DagInv
      <3>2. lamport = 0 /\ epochDb' = EmptyEpochDb(es.epoch)
        BY <2>1 DEF ResetEpochStore, EventInv, DagInv
      <3>. QED BY <1>1, <3>1, <3>2, EmptyEpoch DEF TypeOK, EpochDataType
    <2>2. CASE SetGasPowerContext \/ SetEpochPubKeys \/ EmitterOnNewEpoch
      BY <2>2 DEF SetGasPowerContext, SetEpochPubKeys, EmitterOnNewEpoch, EventInv, DagInv
    <2>. QED BY <2>1, <2>2
  <1>4. DagInv'
    BY <1>1, <1>2, <1>3 DEF DagInv
  <1>5. ContextInv'
    <2>1. CASE ResetEpochStore
      BY <1>1, <1>2, <2>1 DEF ResetEpochStore, EventInv, ContextInv, ProcType
    <2>2. CASE SetGasPowerContext
      BY <1>1, <1>2, <2>2 DEF SetGasPowerContext, EventInv, ContextInv, ProcType
    <2>3. CASE SetEpochPubKeys
      BY <1>1, <1>2, <2>3 DEF SetEpochPubKeys, EventInv, ContextInv, ProcType
    <2>4. CASE EmitterOnNewEpoch
      BY <1>1, <1>2, <2>4 DEF EmitterOnNewEpoch, EventInv, ContextInv, ProcType
    <2>. QED BY <2>1, <2>2, <2>3, <2>4
  <1>6. PipeInv'
    BY <1>2 DEF EventInv, PipeInv
  <1>. QED BY <1>1, <1>2, <1>4, <1>5, <1>6 DEF EventInv, StoppedIsFlushed

(* The end of processEvent, with or without a commit. *)
LEMMA FinishInv == TypeOK /\ EventInv /\ Finish => EventInv'
  <1> SUFFICES ASSUME TypeOK, EventInv, Finish PROVE EventInv'
    OBVIOUS
  <1>1. /\ proc \in ProcType /\ ~stopped /\ proc.step = "commit"
        /\ UNCHANGED <<es, events, epochDb, lamport, keys, gasCtx, emEpoch, rpc, stopped>>
        /\ proc' = Idle /\ pipe' = [pipe EXCEPT ![proc.event] = "new"]
    <2>1. /\ proc.step = "commit" /\ proc' = Idle /\ pipe' = [pipe EXCEPT ![proc.event] = "new"]
          /\ UNCHANGED <<es, events, epochDb, lamport, keys, gasCtx, emEpoch, rpc, stopped>>
      BY Zenon DEF Finish
    <2>2. proc # Idle
      BY SMT, <2>1 DEF Idle
    <2>3. proc \in ProcType
      BY Zenon, <2>2 DEF TypeOK
    <2>4. ~stopped
      BY Zenon, <2>2 DEF EventInv, ContextInv
    <2>. QED BY Zenon, <2>1, <2>3, <2>4
  <1>2. Good(es.epoch, events, epochDb, lamport)
    BY <1>1 DEF EventInv, DagInv
  <1>3. \/ UNCHANGED disk
        \/ disk' = [es |-> es, events |-> events, epochDb |-> epochDb, lamport |-> lamport]
    BY DEF Finish, Commit
  <1>4. DagInv'
    BY <1>1, <1>2, <1>3 DEF EventInv, DagInv, Idle
  <1>5. ContextInv'
    <2>1. /\ keys = es /\ gasCtx = es /\ emEpoch = es.epoch
          /\ es.data = es.epoch /\ disk.es.data = disk.es.epoch
      BY Zenon, <1>1 DEF EventInv, ContextInv
    <2>2. disk'.es \in {disk.es, es}
      BY SMT, <1>3
    <2>3. disk'.es.data = disk'.es.epoch
      BY Zenon, <2>1, <2>2
    <2>4. proc'.step = "idle"
      BY SMT, <1>1 DEF Idle
    <2>. QED BY SMT, <1>1, <2>1, <2>3, <2>4 DEF ContextInv
  <1>6. PipeInv'
    BY <1>1, HonestEvents DEF EventInv, PipeInv, Idle, TypeOK, ProcType
  <1>. QED BY <1>1, <1>4, <1>5, <1>6 DEF EventInv, StoppedIsFlushed

(* Stop flushes a good DAG; a restart loads one. *)
LEMMA StopRestartInv == TypeOK /\ EventInv /\ (Stop \/ Restart) => EventInv'
  <1> SUFFICES ASSUME TypeOK, EventInv, Stop \/ Restart PROVE EventInv'
    OBVIOUS
  <1>1. CASE Stop
    <2>1. /\ proc.step = "idle" /\ proc = Idle
          /\ UNCHANGED <<es, events, epochDb, lamport, keys, gasCtx, emEpoch, pipe, proc, rpc>>
          /\ disk' = [es |-> es, events |-> events, epochDb |-> epochDb, lamport |-> lamport]
      BY <1>1 DEF Stop, Locked, Commit, TypeOK, ProcType
    <2>2. DagInv'
      BY <2>1 DEF EventInv, DagInv
    <2>3. ContextInv'
      BY <2>1 DEF EventInv, ContextInv
    <2>4. PipeInv'
      BY <2>1 DEF EventInv, PipeInv
    <2>. QED BY <2>1, <2>2, <2>3, <2>4 DEF EventInv, StoppedIsFlushed
  <1>2. CASE Restart
    <2>1. DagInv'
      BY <1>2 DEF EventInv, DagInv, Restart, Idle
    <2>2. ContextInv'
      BY <1>2 DEF EventInv, ContextInv, Restart, Idle
    <2>3. PipeInv'
      BY <1>2, HonestEvents DEF PipeInv, Restart, Idle
    <2>4. StoppedIsFlushed'
      BY <1>2 DEF Restart, StoppedIsFlushed
    <2>. QED BY <2>1, <2>2, <2>3, <2>4 DEF EventInv
  <1>. QED BY <1>1, <1>2

(* The invariant holds in every reachable state. *)
LEMMA EventInvariant == Spec => []EventInv
  <1>1. TypeOK /\ EventInv /\ [Next]_vars => EventInv'
    <2> SUFFICES ASSUME TypeOK, EventInv, [Next]_vars PROVE EventInv'
      OBVIOUS
    <2>1. CASE UNCHANGED vars
      BY <2>1 DEF vars, EventInv, DagInv, ContextInv, PipeInv, StoppedIsFlushed
    <2>2. CASE Rpc
      <3>1. RpcOnly
        BY <2>2 DEF Rpc, GetHeads, EpochWithDefault, GetHeadsSlice
      <3>. QED BY <3>1 DEF RpcOnly, EventInv, DagInv, ContextInv, PipeInv, StoppedIsFlushed
    <2>3. CASE Step \/ Restart
      BY <2>3, CheckInv, BeginInv, EngineInv, IndexInv, SwitchInv, FinishInv, StopRestartInv
         DEF Step, CheckEvent, ProcessEvent
    <2>. QED BY <2>1, <2>2, <2>3 DEF Next
  <1>. QED BY InitInv, <1>1, TypeCorrect, PTL DEF Spec

-----------------------------------------------------------------------------
(* The properties.                                                           *)

(* No interleaving of checks, processing and epoch changes bans the peer of  *)
(* an honest event.                                                          *)
THEOREM HonestNotBanned == Spec => []NoFalseBan
  <1>1. EventInv => NoFalseBan
    BY DEF EventInv, PipeInv, NoFalseBan
  <1>. QED BY EventInvariant, <1>1, PTL

(* Whenever the engine's mutex is free, all parts work in the same epoch. *)
THEOREM EpochsAgree == Spec => []ContextsAgree
  <1>1. TypeOK /\ EventInv => ContextsAgree
    BY DEF EventInv, ContextInv, DagInv, Good, Consistent, ContextsAgree, Locked
  <1>. QED BY EventInvariant, TypeCorrect, <1>1, PTL

(* Between events, heads, index and highest Lamport time describe the DAG. *)
THEOREM DagConsistent == Spec => []DagIsConsistent
  <1>1. EventInv => DagIsConsistent
    BY DEF EventInv, DagInv, Good, DagIsConsistent, Locked
  <1>. QED BY EventInvariant, <1>1, PTL

(* So does what a crash at any step leaves on the disk. *)
THEOREM DiskConsistent == Spec => []DiskIsConsistent
  <1>1. EventInv => DiskIsConsistent
    BY DEF EventInv, DagInv, Good, DiskIsConsistent
  <1>. QED BY EventInvariant, <1>1, PTL

(* Heads and last events are in the store at every step of processEvent. *)
THEOREM TipsStored == Spec => []TipsAreStored
  <1>1. TypeOK /\ EventInv => TipsAreStored
    <2> SUFFICES ASSUME TypeOK, EventInv PROVE TipsAreStored
      OBVIOUS
    <2>1. proc.step \in {"idle", "gas", "keys", "emitter", "commit", "engine", "heads", "reset"}
      BY DEF TypeOK, Idle, ProcType
    <2>2. CASE proc.step \in {"idle", "gas", "keys", "emitter", "commit"}
      BY <2>2 DEF EventInv, DagInv, Good, Consistent, Tips, EpochEvents, TipsAreStored
    <2>3. CASE proc.step \in {"engine", "heads"}
      <3> DEFINE db == [epochDb EXCEPT !.index = @ \ {proc.event}]
      <3>1. Good(proc.oldEpoch, events \ {proc.event}, db, lamport)
        BY <2>3 DEF EventInv, DagInv
      <3>2. db.heads = epochDb.heads /\ db.lasts = epochDb.lasts
        BY DEF TypeOK, EpochDbType
      <3> HIDE DEF db
      <3>. QED BY <3>1, <3>2 DEF Good, Consistent, Tips, EpochEvents, TipsAreStored
    <2>4. CASE proc.step = "reset"
      BY <2>4 DEF EventInv, DagInv, TipsAreStored
    <2>. QED BY <2>1, <2>2, <2>3, <2>4
  <1>. QED BY EventInvariant, TypeCorrect, <1>1, PTL

(* A connected event has its parents. *)
THEOREM ParentsStored == Spec => []ParentsAreStored
  <1>1. TypeOK /\ EventInv => ParentsAreStored
    <2> SUFFICES ASSUME TypeOK, EventInv PROVE ParentsAreStored
      OBVIOUS
    <2>1. proc.step \in {"idle", "gas", "keys", "emitter", "commit", "engine", "heads", "reset"}
      BY DEF TypeOK, Idle, ProcType
    <2>2. CASE proc.step \in {"idle", "gas", "keys", "emitter", "commit", "reset"}
      BY <2>2 DEF EventInv, DagInv, Good, ParentsAreStored
    <2>3. CASE proc.step \in {"engine", "heads"}
      BY <2>3 DEF EventInv, DagInv, Good, ParentsAreStored, Locked
    <2>. QED BY <2>1, <2>2, <2>3
  <1>. QED BY EventInvariant, TypeCorrect, <1>1, PTL

(* After Stop nothing is left unwritten. *)
THEOREM StopFlushes == Spec => []StoppedIsFlushed
  <1>1. EventInv => StoppedIsFlushed
    BY DEF EventInv
  <1>. QED BY EventInvariant, <1>1, PTL

(* The DAG in memory is sound at every step of processEvent: one epoch       *)
(* everywhere when the lock is free, indexes that describe the stored        *)
(* events, and nothing that dangles.                                         *)
THEOREM DagSound == Spec => []DagIsSound
  <1>1. TypeOK /\ ContextsAgree /\ DagIsConsistent /\ TipsAreStored /\ ParentsAreStored => DagIsSound
    BY DEF DagIsSound
  <1> QED BY <1>1, TypeCorrect, EpochsAgree, DagConsistent, TipsStored, ParentsStored, PTL

(* A restart finds a consistent DAG, complete after Stop (Commit, Stop).     *)
THEOREM DiskSound == Spec => []DiskIsSound
  <1>1. DiskIsConsistent /\ StoppedIsFlushed => DiskIsSound
    BY DEF DiskIsSound
  <1> QED BY <1>1, DiskConsistent, StopFlushes, PTL

-----------------------------------------------------------------------------
(* Last events and heads.                                                    *)

LEMMA NoCycle ==
    ASSUME NEW x \in Nat, NEW y \in Nat, NEW z \in Nat, x = y, y <= z, z < x
    PROVE  FALSE
  OBVIOUS

(* Where nobody forks, an event that a set closed under parents lacks is     *)
(* above its creator's events in the set: of those above it, the lowest      *)
(* would be built on another one above it.                                   *)
LEMMA NewIsLast ==
    ASSUME NoForks, NEW S \in SUBSET Event, NEW e \in Event, e \notin S,
           \A f \in S : EpochOf[f] = EpochOf[e] /\ Parents[f] \subseteq S,
           NEW g \in S, Creator[g] = Creator[e]
    PROVE  Lamport[g] <= Lamport[e]
<1> USE EventAssumption
<1> SUFFICES ASSUME ~(Lamport[g] <= Lamport[e]) PROVE FALSE
  OBVIOUS
<1> DEFINE Above == {f \in S : Creator[f] = Creator[e] /\ Lamport[f] > Lamport[e]}
           T == {Lamport[f] : f \in Above}
<1>1. \A f \in Event : Lamport[f] \in Nat
  OBVIOUS
<1>2. g \in Above
  BY <1>1
<1>3. T \subseteq Nat /\ T # {}
  <2>1. T \subseteq Nat
    BY <1>1
  <2>2. T # {}
    BY <1>2
  <2> QED
    BY <2>1, <2>2
<1>4. PICK t \in T : \A u \in T : ~ (<<u, t>> \in OpToRel(<, Nat))
  <2> HIDE DEF T
  <2> QED
    BY Zenon, <1>3, WFMin, NatLessThanWellFounded
<1>5. PICK f \in Above : t = Lamport[f]
  OBVIOUS
<1>6. f \in Event /\ f \in S /\ Creator[f] = Creator[e] /\ EpochOf[f] = EpochOf[e] /\ f # e
      /\ Lamport[f] > Lamport[e]
  OBVIOUS
<1>7. ~BuiltOn(e, f)
  <2> SUFFICES ASSUME NEW p \in Parents[e], Lamport[f] <= Lamport[p] PROVE FALSE
    BY DEF BuiltOn
  <2>1. p \in Event /\ Lamport[p] < Lamport[e]
    OBVIOUS
  <2> QED
    BY <1>1, <1>6, <2>1
<1>8. PICK p \in Parents[f] : Creator[p] = Creator[f] /\ Lamport[e] <= Lamport[p]
  BY <1>6, <1>7 DEF NoForks, BuiltOn
<1>9. p \in S /\ p \in Event /\ Lamport[p] < Lamport[f] /\ EpochOf[p] = EpochOf[e] /\ p # e
  BY <1>6
<1>10. Lamport[p] # Lamport[e]
  <2> SUFFICES ASSUME Lamport[p] = Lamport[e] PROVE FALSE
    OBVIOUS
  <2>1. BuiltOn(p, e) \/ BuiltOn(e, p)
    BY <1>6, <1>8, <1>9 DEF NoForks
  <2>2. ASSUME NEW a \in Event, NEW b \in Event, Lamport[a] = Lamport[b], BuiltOn(a, b) PROVE FALSE
    <3>1. PICK q \in Parents[a] : Lamport[b] <= Lamport[q]
      BY <2>2 DEF BuiltOn
    <3>2. q \in Event /\ Lamport[q] < Lamport[a]
      OBVIOUS
    <3>3. Lamport[a] \in Nat /\ Lamport[b] \in Nat /\ Lamport[q] \in Nat
      BY Zenon, <1>1, <2>2, <3>2
    <3> QED
      BY Zenon, <2>2, <3>1, <3>2, <3>3, NoCycle
  <2> QED
    BY <1>9, <2>1, <2>2
<1>11. Lamport[p] \in T
  <2>1. p \in Above
    BY <1>1, <1>6, <1>8, <1>9, <1>10
  <2> QED
    BY <2>1
<1> HIDE DEF T, Above
<1>12. <<Lamport[p], t>> \in OpToRel(<, Nat)
  BY <1>1, <1>5, <1>6, <1>9 DEF OpToRel
<1> QED
  BY Zenon, <1>4, <1>11, <1>12

LEMMA LastIndexEvent ==
    ASSUME NoForks, TypeOK, EventInv, LastInv, IndexEvent
    PROVE  LastInv'
<1> DEFINE e == proc.event
           S == epochDb.index \ {e}
<1>1. /\ proc.step = "heads" /\ proc \in ProcType /\ e \in Event
      /\ proc'.step \in {"reset", "commit"} /\ UNCHANGED disk
  BY DEF IndexEvent, TypeOK, Idle, ProcType
<1>2. Good(proc.oldEpoch, events \ {e}, [epochDb EXCEPT !.index = @ \ {e}], lamport)
      /\ EpochOf[e] = proc.oldEpoch
  BY <1>1 DEF EventInv, DagInv
<1>3. epochDb.epoch = proc.oldEpoch /\ S = EpochEvents(events \ {e}, proc.oldEpoch)
      /\ \A f \in events \ {e} : Parents[f] \subseteq events \ {e}
  <2>1. [epochDb EXCEPT !.index = @ \ {e}].epoch = epochDb.epoch
        /\ [epochDb EXCEPT !.index = @ \ {e}].index = S
    BY DEF TypeOK, EpochDbType
  <2> HIDE DEF S
  <2> QED
    BY Zenon, <1>2, <2>1 DEF Good, Consistent
<1>4. epochDb'.index = epochDb.index /\ epochDb'.lasts = ProcessLastEvent(epochDb.lasts, e)
  BY <1>1, <1>3 DEF IndexEvent, TypeOK, EpochDbType
<1>5. S \in SUBSET Event /\ \A f \in S : EpochOf[f] = EpochOf[e] /\ Parents[f] \subseteq S
  BY <1>1, <1>2, <1>3, EventAssumption DEF EpochEvents, TypeOK
<1>6. Covered(S, epochDb.lasts)
  BY <1>1 DEF LastInv
<1>7. Covered(epochDb'.index, epochDb'.lasts)
  <2> SUFFICES ASSUME NEW f \in epochDb.index
               PROVE  \E l \in ProcessLastEvent(epochDb.lasts, e) :
                         l[1] = Creator[f] /\ Creator[l[2]] = Creator[f] /\ Lamport[f] <= Lamport[l[2]]
    BY <1>4 DEF Covered
  <2>1. CASE Creator[f] = Creator[e]
    <3>1. <<Creator[e], e>> \in ProcessLastEvent(epochDb.lasts, e)
      BY DEF ProcessLastEvent
    <3>2. Lamport[f] <= Lamport[e]
      <4>1. CASE f = e
        BY <1>1, <4>1, EventAssumption
      <4>2. CASE f # e
        <5>1. f \in S /\ e \notin S
          BY <4>2
        <5> HIDE DEF S
        <5> QED
          BY <1>1, <1>5, <2>1, <5>1, NewIsLast
      <4> QED
        BY <4>1, <4>2
    <3> QED
      BY <2>1, <3>1, <3>2
  <2>2. CASE Creator[f] # Creator[e]
    <3>1. f \in S
      BY <2>2
    <3>2. PICK l \in epochDb.lasts :
            l[1] = Creator[f] /\ Creator[l[2]] = Creator[f] /\ Lamport[f] <= Lamport[l[2]]
      BY <1>6, <3>1 DEF Covered
    <3>3. l \in ProcessLastEvent(epochDb.lasts, e)
      BY <2>2, <3>2 DEF ProcessLastEvent
    <3> QED
      BY <3>2, <3>3
  <2> QED
    BY <2>1, <2>2
<1> QED
  BY <1>1, <1>7 DEF LastInv

LEMMA LastStep == NoForks /\ TypeOK /\ EventInv /\ LastInv /\ [Next]_vars => LastInv'
<1> SUFFICES ASSUME NoForks, TypeOK, EventInv, LastInv, [Next]_vars PROVE LastInv'
  OBVIOUS
<1>1. CASE UNCHANGED vars \/ Rpc \/ CheckEvent
  <2>1. UNCHANGED <<epochDb, proc, disk>>
    BY <1>1 DEF vars, Rpc, GetHeads, EpochWithDefault, GetHeadsSlice, RpcOnly, CheckEvent,
       CheckValidators, CheckRules, CheckSignature, CheckGasPower, KeepNode
  <2> QED
    BY <2>1 DEF LastInv, Covered
<1>2. ASSUME NEW e \in Event, BeginPeerEvent(e) \/ BeginOwnEvent(e) PROVE LastInv'
  <2>1. /\ proc.step = "idle" /\ UNCHANGED <<epochDb, disk>>
        /\ proc' = proc \/ proc' = [step |-> "engine", event |-> e, oldEpoch |-> es.epoch]
    BY <1>2 DEF BeginPeerEvent, BeginOwnEvent, ProcessBegin, Locked
  <2>2. proc'.step # "heads"
    BY <2>1
  <2> QED
    BY <2>1, <2>2 DEF LastInv, Covered
<1>3. CASE SaveAndProcess
  <2>1. proc.step = "engine" /\ proc \in ProcType /\ proc.event \notin epochDb.index
    BY <1>3 DEF SaveAndProcess, TypeOK, Idle, EventInv, DagInv
  <2>2. CASE Drop(proc.event)
    BY <2>1, <2>2 DEF Drop, LastInv, Covered, Idle
  <2>3. ASSUME NEW seal \in BOOLEAN, Accept(proc.event, seal) PROVE LastInv'
    <3>1. /\ epochDb'.index = epochDb.index \cup {proc.event} /\ epochDb'.lasts = epochDb.lasts
          /\ proc'.step = "heads" /\ proc'.event = proc.event /\ UNCHANGED disk
      BY <2>1, <2>3 DEF Accept, TypeOK, EpochDbType, ProcType
    <3>2. epochDb'.index \ {proc'.event} = epochDb.index
      BY <2>1, <3>1
    <3> QED
      BY <2>1, <3>1, <3>2 DEF LastInv
  <2> QED
    BY <1>3, <2>2, <2>3 DEF SaveAndProcess
<1>4. CASE ResetEpochStore
  <2>1. epochDb'.index = {} /\ proc'.step = "gas" /\ UNCHANGED disk
    BY <1>4 DEF ResetEpochStore, EmptyEpochDb, TypeOK, Idle, ProcType
  <2> QED
    BY <2>1 DEF LastInv, Covered
<1>5. CASE SetGasPowerContext \/ SetEpochPubKeys \/ EmitterOnNewEpoch
  <2>1. UNCHANGED <<epochDb, disk>> /\ proc.step # "heads" /\ proc'.step # "heads"
    BY <1>5 DEF SetGasPowerContext, SetEpochPubKeys, EmitterOnNewEpoch, TypeOK, Idle, ProcType
  <2> QED
    BY <2>1 DEF LastInv, Covered
<1>6. CASE Finish \/ Stop
  <2>1. /\ proc.step # "heads" /\ proc'.step # "heads" /\ UNCHANGED epochDb
        /\ disk'.epochDb = epochDb \/ UNCHANGED disk
    BY <1>6 DEF Finish, Stop, Commit, Locked, Idle
  <2> QED
    BY <2>1 DEF LastInv, Covered
<1>7. CASE Restart
  BY <1>7 DEF Restart, LastInv, Covered, Idle
<1> QED
  BY <1>1, <1>2, <1>3, <1>4, <1>5, <1>6, <1>7, LastIndexEvent DEF Next, Step, ProcessEvent

(* If no validator forks, its last event is its latest connected one          *)
(* (LastEventsAreLast; c_event_callbacks.go processLastEvent).                *)
THEOREM LastEventsLast ==
    ASSUME NoForks
    PROVE  Spec => []LastEventsAreLast
<1>1. Init => LastInv
  <2> SUFFICES ASSUME Init PROVE LastInv
    BY Zenon
  <2>1. epochDb.index = {} /\ disk.epochDb.index = {} /\ proc.step # "heads"
    BY SMT DEF Init, EmptyEpochDb, Idle
  <2>2. Covered(epochDb.index, epochDb.lasts) /\ Covered(disk.epochDb.index, disk.epochDb.lasts)
    BY Zenon, <2>1 DEF Covered
  <2> QED
    BY Zenon, <2>1, <2>2 DEF LastInv
<1>2. LastInv => LastEventsAreLast
  BY DEF LastInv, Covered, LastEventsAreLast
<1>3. TypeOK /\ EventInv /\ LastInv /\ [Next]_vars => LastInv'
  BY LastStep
<1> QED
  BY <1>1, <1>2, <1>3, EventInvariant, TypeCorrect, PTL DEF Spec

LEMMA HeadsStep == TypeOK /\ EventInv /\ HeadsInv /\ [Next]_vars => HeadsInv'
<1> SUFFICES ASSUME TypeOK, EventInv, HeadsInv, [Next]_vars PROVE HeadsInv'
  OBVIOUS
<1>1. CASE UNCHANGED vars \/ CheckEvent
  <2>1. UNCHANGED <<epochDb, proc, disk, rpc>>
    BY <1>1 DEF vars, CheckEvent, CheckValidators, CheckRules, CheckSignature, CheckGasPower, KeepNode
  <2> QED
    BY <2>1 DEF HeadsInv, ValidOf
<1>2. CASE Rpc
  <2>1. UNCHANGED <<epochDb, proc, disk>>
    BY <1>2 DEF Rpc, GetHeads, EpochWithDefault, GetHeadsSlice, RpcOnly
  <2>2. rpc'.step = "returned" => rpc'.heads = epochDb.heads /\ rpc'.epoch = epochDb.epoch
    <3>1. CASE \E arg \in {"pending", "latest"} : GetHeads(arg)
      BY <3>1 DEF GetHeads
    <3>2. CASE EpochWithDefault
      BY <3>2 DEF EpochWithDefault, TypeOK, NoCall, CallType, ReturnType
    <3>3. CASE GetHeadsSlice
      BY <3>3 DEF GetHeadsSlice, TypeOK, NoCall, CallType, ReturnType
    <3> QED
      BY <1>2, <3>1, <3>2, <3>3 DEF Rpc
  <2> QED
    BY <2>1, <2>2 DEF HeadsInv, ValidOf
<1>3. ASSUME NEW e \in Event, BeginPeerEvent(e) \/ BeginOwnEvent(e) PROVE HeadsInv'
  <2>1. /\ proc.step = "idle" /\ UNCHANGED <<epochDb, disk, rpc>>
        /\ \/ proc' = proc
           \/ e \notin WrongHash /\ proc' = [step |-> "engine", event |-> e, oldEpoch |-> es.epoch]
    BY <1>3 DEF BeginPeerEvent, BeginOwnEvent, ProcessBegin, Locked
  <2> QED
    BY <2>1 DEF HeadsInv, ValidOf
<1>4. CASE SaveAndProcess
  <2>1. proc.step = "engine" /\ proc \in ProcType /\ proc.event \notin WrongHash
    BY <1>4 DEF SaveAndProcess, TypeOK, Idle, HeadsInv
  <2>2. CASE Drop(proc.event)
    BY <2>1, <2>2 DEF Drop, HeadsInv, ValidOf, Idle
  <2>3. ASSUME NEW seal \in BOOLEAN, Accept(proc.event, seal), proc.event \notin Invalid PROVE HeadsInv'
    <3>1. /\ epochDb'.heads = epochDb.heads /\ epochDb'.epoch = epochDb.epoch
          /\ proc'.event = proc.event /\ UNCHANGED <<disk, rpc>>
      BY <2>1, <2>3 DEF Accept, TypeOK, EpochDbType, ProcType
    <3> QED
      BY <2>1, <2>3, <3>1 DEF HeadsInv, ValidOf
  <2> QED
    BY <1>4, <2>2, <2>3 DEF SaveAndProcess
<1>5. CASE IndexEvent
  <2>1. /\ proc.step = "heads" /\ proc \in ProcType /\ EpochOf[proc.event] = proc.oldEpoch
        /\ proc.event \notin Invalid \cup WrongHash
    BY <1>5 DEF IndexEvent, TypeOK, Idle, EventInv, DagInv, HeadsInv
  <2>2. proc'.step \in {"reset", "commit"} /\ UNCHANGED <<disk, rpc>>
    BY <1>5, <2>1 DEF IndexEvent, ProcType
  <2>3. \/ UNCHANGED epochDb
        \/ /\ epochDb.epoch = proc.oldEpoch /\ epochDb'.epoch = epochDb.epoch
           /\ epochDb'.heads = ProcessEventHeads(epochDb.heads, proc.event)
    BY <1>5 DEF IndexEvent, TypeOK, EpochDbType
  <2>4. ValidOf(epochDb'.heads, epochDb'.epoch)
    BY <2>1, <2>3 DEF HeadsInv, ValidOf, ProcessEventHeads
  <2> QED
    BY <2>2, <2>4 DEF HeadsInv, ValidOf
<1>6. CASE ResetEpochStore
  <2>1. epochDb'.heads = {} /\ proc'.step = "gas" /\ UNCHANGED <<disk, rpc>>
    BY <1>6 DEF ResetEpochStore, EmptyEpochDb, TypeOK, Idle, ProcType
  <2> QED
    BY <2>1 DEF HeadsInv, ValidOf
<1>7. CASE SetGasPowerContext \/ SetEpochPubKeys \/ EmitterOnNewEpoch
  <2>1. UNCHANGED <<epochDb, disk, rpc>> /\ proc'.step \in {"keys", "emitter", "commit"}
    BY <1>7 DEF SetGasPowerContext, SetEpochPubKeys, EmitterOnNewEpoch, TypeOK, Idle, ProcType
  <2> QED
    BY <2>1 DEF HeadsInv, ValidOf
<1>8. CASE Finish \/ Stop
  <2>1. /\ proc'.step = "idle" /\ UNCHANGED <<epochDb, rpc>>
        /\ disk'.epochDb = epochDb \/ UNCHANGED disk
    BY <1>8 DEF Finish, Stop, Commit, Locked, Idle
  <2> QED
    BY <2>1 DEF HeadsInv, ValidOf
<1>9. CASE Restart
  BY <1>9 DEF Restart, HeadsInv, ValidOf, Idle, NoCall
<1> QED
  BY <1>1, <1>2, <1>3, <1>4, <1>5, <1>6, <1>7, <1>8, <1>9 DEF Next, Step, ProcessEvent

(* A call that returns heads returns connected, valid events of the epoch it  *)
(* asked for, however it interleaves with processEvent and epoch changes      *)
(* (GetHeadsConnected; ethapi_backend.go GetHeads, store_epoch.go).           *)
THEOREM HeadsConnected == Spec => []GetHeadsConnected
<1>1. Init => HeadsInv
  <2> SUFFICES ASSUME Init PROVE HeadsInv
    BY Zenon
  <2>1. /\ epochDb.heads = {} /\ disk.epochDb.heads = {}
        /\ proc.step = "idle" /\ rpc.step = "none"
    BY SMT DEF Init, EmptyEpochDb, Idle, NoCall
  <2> QED
    BY SMT, <2>1 DEF HeadsInv, ValidOf
<1>2. HeadsInv => GetHeadsConnected
  BY DEF HeadsInv, ValidOf, GetHeadsConnected
<1> QED
  BY <1>1, <1>2, HeadsStep, EventInvariant, TypeCorrect, PTL DEF Spec
=============================================================================
