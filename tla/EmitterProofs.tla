---------------------------- MODULE EmitterProofs ----------------------------
(* The emitter signs no two events with one sequence number: the type         *)
(* invariant of Emitter, SignInv, which says how the store, the file and the  *)
(* peers' knowledge relate.  Its counters are right: CountInv of Emitter      *)
(* relates them to sums and cardinalities over the events that await          *)
(* confirmation.                                                              *)
EXTENDS Emitter, FiniteSums

USE EmitterAssumption

-----------------------------------------------------------------------------
(* Types.                                                                     *)

(* TypeOK with the whole of the emitter's record.                             *)
Types ==
    /\ db \in DbType /\ disk \in DbType
    /\ file \in EventType \cup {None} /\ cur \in EventType \cup {None}
    /\ net \in SUBSET EventType /\ em \in EmType
    /\ up \in {"down", "up", "halted"} /\ phase \in {"idle", "processed", "written"}
    /\ synced \in BOOLEAN /\ waited \in BOOLEAN /\ young \in BOOLEAN
    /\ nextId \in 1..MaxId + 1 /\ crashes \in 0..MaxCrash /\ exposed \subseteq 1..MaxEpoch

(* What the ring buffer of senders holds stays a count per sender.            *)
Counts == UNION {[S -> Nat \ {0}] : S \in SUBSET Sender}

LEMMA CountsType ==
    ASSUME NEW c
    PROVE  c \in Counts <=> /\ c = [s \in DOMAIN c |-> c[s]]
                            /\ DOMAIN c \subseteq Sender
                            /\ \A s \in DOMAIN c : c[s] \in Nat \ {0}
  BY DEF Counts

LEMMA WithType ==
    ASSUME NEW c \in Counts, NEW s \in Sender, NEW n \in Nat \ {0}
    PROVE  With(c, s, n) \in Counts
  BY Zenon, CountsType DEF With

LEMMA WithoutType ==
    ASSUME NEW c \in Counts, NEW s
    PROVE  Without(c, s) \in Counts
  BY CountsType DEF Without

LEMMA IncType ==
    ASSUME NEW c \in Counts, NEW s \in Sender, NEW d \in Inc(c, s)
    PROVE  d \in Counts
<1>1. TotalOf(c, s) + 1 \in Nat \ {0}
  BY CountsType DEF TotalOf
<1>2. \A v : With(Without(c, v), s, 1) \in Counts
  BY WithType, WithoutType
<1> QED
  BY Zenon, <1>1, <1>2, WithType DEF Inc

LEMMA DecType ==
    ASSUME NEW c \in Counts, NEW s \in Sender
    PROVE  Dec(c, s) \in Counts
<1>1. CASE s \notin DOMAIN c
  BY Zenon, <1>1 DEF Dec
<1>2. CASE s \in DOMAIN c
  <2>1. c[s] \in Nat \ {0}
    BY Zenon, <1>2, CountsType
  <2>2. CASE c[s] <= 1
    BY Zenon, <1>2, <2>2, WithoutType DEF Dec
  <2>3. CASE ~(c[s] <= 1)
    <3>1. c[s] - 1 \in Nat \ {0}
      BY <2>1, <2>3
    <3> QED
      BY Zenon, <1>2, <2>3, <3>1, WithType DEF Dec
  <2> QED
    BY Zenon, <2>2, <2>3
<1> QED
  BY Zenon, <1>1, <1>2

LEMMA EmTypeIs ==
    EmType = [epoch : 0..MaxEpoch, isValidator : BOOLEAN, prevLocalEmittedID : 1..MaxId \cup {None},
              originatedTxs : Counts, pendingGas : Nat, exact : BOOLEAN, max : Nat, protection : Nat]
  BY Zenon DEF EmType, Counts

LEMMA NoCountsType == NoCounts \in Counts
  BY Zenon, CountsType DEF NoCounts

LEMMA NewEmitterType == NewEmitter \in EmType
  BY EmTypeIs, NoCountsType DEF NewEmitter

LEMMA RecountType ==
    ASSUME NEW m \in EmType
    PROVE  /\ RecountValidators(m) \in EmType
           /\ RecountValidators(m).epoch = m.epoch
           /\ ~young => RecountValidators(m).protection = m.protection
<1>1. MaxInterval \div 6 \in Nat /\ m.protection \in Nat /\ m.protection \div 6 \in Nat
  BY EmTypeIs
<1> QED
  BY Zenon, <1>1, EmTypeIs DEF RecountValidators

LEMMA NewEpochType ==
    ASSUME NEW m \in EmType, NEW d \in DbType
    PROVE  /\ OnNewEpoch(m, d) \in EmType
           /\ OnNewEpoch(m, d).epoch = d.epoch
           /\ ~young => OnNewEpoch(m, d).protection = m.protection
<1> DEFINE moved == [m EXCEPT !.epoch = d.epoch, !.isValidator = d.epoch \in ValidatorEpochs]
           reset == [moved EXCEPT !.originatedTxs = NoCounts, !.pendingGas = 0,
                                  !.exact = Unconfirmed(d) = {}]
<1>1. d.epoch \in 0..MaxEpoch
  BY DEF DbType
<1>2. moved \in EmType /\ moved.epoch = d.epoch /\ moved.protection = m.protection
  <2>1. \A b \in BOOLEAN : [m EXCEPT !.epoch = d.epoch, !.isValidator = b] \in EmType
    BY Zenon, <1>1, EmTypeIs
  <2>2. (d.epoch \in ValidatorEpochs) \in BOOLEAN
    OBVIOUS
  <2>3. moved \in EmType
    BY <2>1, <2>2, Zenon
  <2>4. moved.epoch = d.epoch /\ moved.protection = m.protection
    BY Zenon, EmTypeIs
  <2> QED
    BY Zenon, <2>3, <2>4
<1>3. reset \in EmType /\ reset.epoch = d.epoch /\ reset.protection = m.protection
  <2> HIDE DEF moved
  <2> QED
    BY Zenon, <1>2, EmTypeIs, NoCountsType
<1>4. OnNewEpoch(m, d) \in {moved, RecountValidators(reset)}
  BY Zenon DEF OnNewEpoch
<1> HIDE DEF moved, reset
<1> QED
  BY Zenon, <1>2, <1>3, <1>4, RecountType

LEMMA ConnectedType ==
    ASSUME NEW m \in EmType, NEW e \in EventType, NEW n \in OnEventConnected(m, e)
    PROVE  n \in EmType /\ n.epoch = m.epoch /\ n.protection = m.protection
<1>1. GasPowerUsed(e) \in Nat /\ m.pendingGas \in Nat /\ m.pendingGas + GasPowerUsed(e) \in Nat
  BY EmTypeIs DEF GasPowerUsed
<1>2. CASE ~m.isValidator
  BY <1>2, Zenon DEF OnEventConnected
<1>3. CASE m.isValidator /\ e.sender = None
  <2>1. n = [m EXCEPT !.pendingGas = @ + GasPowerUsed(e)]
    BY <1>3, Zenon DEF OnEventConnected
  <2> QED
    BY Zenon, <1>1, <2>1, EmTypeIs
<1>4. CASE m.isValidator /\ e.sender # None
  <2>1. PICK c \in Inc(m.originatedTxs, e.sender) :
          n = [m EXCEPT !.pendingGas = @ + GasPowerUsed(e), !.originatedTxs = c,
                        !.exact = @ /\ DOMAIN m.originatedTxs \subseteq DOMAIN c]
    BY <1>4, Zenon DEF OnEventConnected
  <2>2. e.sender \in Sender /\ m.originatedTxs \in Counts
    BY Zenon, <1>4, EmTypeIs DEF EventType
  <2>3. c \in Counts
    BY Zenon, <2>2, IncType
  <2> QED
    BY Zenon, <1>1, <2>1, <2>3, EmTypeIs
<1> QED
  BY Zenon, <1>2, <1>3, <1>4

LEMMA ConfirmedType ==
    ASSUME NEW m \in EmType, NEW e \in EventType
    PROVE  /\ OnEventConfirmed(m, e) \in EmType
           /\ OnEventConfirmed(m, e).epoch = m.epoch
           /\ OnEventConfirmed(m, e).protection = m.protection
<1> DEFINE gas == IF m.pendingGas > GasPowerUsed(e) THEN m.pendingGas - GasPowerUsed(e) ELSE 0
           counts == IF e.sender = None THEN m.originatedTxs ELSE Dec(m.originatedTxs, e.sender)
<1>1. gas \in Nat
  BY EmTypeIs DEF GasPowerUsed
<1>2. counts \in Counts
  BY Zenon, EmTypeIs, DecType DEF EventType
<1>3. OnEventConfirmed(m, e) \in {m, [m EXCEPT !.pendingGas = gas, !.originatedTxs = counts]}
  BY Zenon DEF OnEventConfirmed
<1> HIDE DEF gas, counts
<1> QED
  BY Zenon, <1>1, <1>2, <1>3, EmTypeIs

(* One step per action: the types hold on.                                    *)
LEMMA TypesInit == Init => Types
<1> SUFFICES ASSUME Init PROVE Types
  BY Zenon
<1>1. db \in DbType
  BY DEF Init, DbType
<1>2. em \in EmType
  BY Zenon, NewEmitterType DEF Init
<1>3. nextId \in 1..MaxId + 1 /\ crashes \in 0..MaxCrash
  BY DEF Init
<1>4. synced \in BOOLEAN /\ waited \in BOOLEAN /\ young \in BOOLEAN
  BY Zenon DEF Init
<1>5. disk = db /\ file = None /\ cur = None /\ net = {} /\ up = "down" /\ phase = "idle"
  BY Zenon DEF Init
<1>6. exposed \subseteq 1..MaxEpoch
  BY Zenon DEF Init
<1> QED
  BY <1>1, <1>2, <1>3, <1>4, <1>5, <1>6, Zenon DEF Types

LEMMA TypesGiveTypeOK == Types => TypeOK
<1>1. em \in EmType => /\ em.epoch \in 0..MaxEpoch /\ em.pendingGas \in Nat
                       /\ em.max \in Nat /\ em.protection \in Nat
                       /\ em.originatedTxs \in Counts
  BY Zenon, EmTypeIs
<1>2. em \in EmType => /\ DOMAIN em.originatedTxs \subseteq Sender
                       /\ \A s \in DOMAIN em.originatedTxs : em.originatedTxs[s] \in Nat \ {0}
  BY Zenon, <1>1, CountsType
<1> QED
  BY <1>1, <1>2, Zenon DEF Types, TypeOK

(* A new event is an event of the epoch, under the next number.               *)
LEMMA NewEventType ==
    ASSUME Types, nextId <= MaxId, NEW who \in {"me", "peer"}, NEW e \in NewEvents(who)
    PROVE  e \in EventType /\ e.by = who /\ e.epoch = db.epoch
  BY DEF Types, NewEvents, EventType, DbType

LEMMA AddEventType ==
    ASSUME NEW d \in DbType, NEW e \in EventType
    PROVE  [d EXCEPT !.events = @ \cup {e}] \in DbType
  BY Zenon DEF DbType

LEMMA TypesStep == Types /\ [Next]_vars => Types'
<1> SUFFICES ASSUME Types, [Next]_vars PROVE Types'
  BY Zenon
<1> USE DEF Types
<1>1. CASE Start
  <2>1. em' \in EmType
    BY Zenon, <1>1, NewEmitterType, NewEpochType DEF Start
  <2> QED
    BY Zenon, <1>1, <2>1 DEF Start
<1>2. CASE EmitEvent
  <2>1. PICK e \in NewEvents("me") :
          /\ CreateEvent(e)
          /\ LET m == [em EXCEPT !.prevLocalEmittedID = e.id] IN
             \/ /\ db' = [db EXCEPT !.events = @ \cup {e}]
                /\ em' \in OnEventConnected(m, e)
                /\ phase' = "processed" /\ cur' = e
             \/ em' = m /\ UNCHANGED <<db, phase, cur>>
    BY Zenon, <1>2 DEF EmitEvent
  <2> DEFINE m == [em EXCEPT !.prevLocalEmittedID = e.id]
  <2>2. nextId <= MaxId /\ nextId' = nextId + 1
        /\ UNCHANGED <<disk, file, net, up, synced, waited, young, crashes, exposed>>
    BY Zenon, <1>2 DEF EmitEvent
  <2>3. e \in EventType
    BY Zenon, <2>2, NewEventType
  <2>4. m \in EmType
    BY Zenon, <2>3, EmTypeIs DEF EventType
  <2>5. nextId' \in 1..MaxId + 1
    BY <2>2
  <2>6. CASE db' = [db EXCEPT !.events = @ \cup {e}] /\ em' \in OnEventConnected(m, e)
             /\ phase' = "processed" /\ cur' = e
    <3> HIDE DEF m
    <3>1. em' \in EmType
      BY Zenon, <2>3, <2>4, <2>6, ConnectedType
    <3>2. db' \in DbType
      BY Zenon, <2>3, <2>6, AddEventType
    <3> QED
      BY Zenon, <2>2, <2>3, <2>5, <2>6, <3>1, <3>2
  <2>7. CASE em' = m /\ UNCHANGED <<db, phase, cur>>
    <3> HIDE DEF m
    <3> QED
      BY Zenon, <2>2, <2>4, <2>5, <2>7
  <2> QED
    BY Zenon, <2>1, <2>6, <2>7
<1>3. CASE WriteLastEmittedEventID
  BY Zenon, <1>3 DEF WriteLastEmittedEventID
<1>4. CASE Broadcast \/ ServeEvent
  <2>1. \A e : Known(e) \in SUBSET EventType
    BY Zenon DEF Known, DbType
  <2> QED
    BY Zenon, <1>4, <2>1 DEF Broadcast, ServeEvent
<1>5. CASE ConnectPeerEvent
  <2>1. PICK e \in NewEvents("peer") : db' = [db EXCEPT !.events = @ \cup {e}]
                                       /\ em' \in OnEventConnected(em, e)
    BY Zenon, <1>5 DEF ConnectPeerEvent
  <2>2. nextId <= MaxId /\ nextId' = nextId + 1
        /\ UNCHANGED <<disk, file, net, up, phase, cur, synced, waited, young, crashes, exposed>>
    BY Zenon, <1>5 DEF ConnectPeerEvent
  <2>3. e \in EventType
    BY Zenon, <2>2, NewEventType
  <2>4. em' \in EmType /\ db' \in DbType /\ nextId' \in 1..MaxId + 1
    BY <2>1, <2>2, <2>3, ConnectedType, AddEventType
  <2> QED
    BY Zenon, <2>2, <2>4
<1>6. CASE ConnectOwnEvent
  <2>1. PICK e \in net : db' = [db EXCEPT !.events = @ \cup {e}]
                         /\ em' \in OnEventConnected(em, e)
                         /\ waited' \in {FALSE, waited} /\ up' \in {"up", "halted", up}
    BY Zenon, <1>6 DEF ConnectOwnEvent
  <2>2. em' \in EmType /\ db' \in DbType
    BY Zenon, <2>1, ConnectedType, AddEventType
  <2> QED
    BY Zenon, <1>6, <2>1, <2>2 DEF ConnectOwnEvent
<1>7. CASE ConfirmEvent
  <2>1. PICK e \in Unconfirmed(db) : db' = [db EXCEPT !.confirmed = @ \cup {e}]
                                     /\ em' = OnEventConfirmed(em, e)
    BY Zenon, <1>7 DEF ConfirmEvent
  <2>2. e \in EventType
    BY Zenon DEF Unconfirmed, DbType
  <2>3. db' \in DbType
    BY Zenon, <2>1, <2>2 DEF DbType
  <2> QED
    BY Zenon, <1>7, <2>1, <2>2, <2>3, ConfirmedType DEF ConfirmEvent
<1>8. CASE SealEpoch
  <2>1. db' \in DbType /\ em' = OnNewEpoch(em, db')
    BY <1>8 DEF SealEpoch, DbType
  <2> QED
    BY Zenon, <1>8, <2>1, NewEpochType DEF SealEpoch
<1>9. CASE Commit
  BY Zenon, <1>9 DEF Commit
<1>10. CASE RecheckChallenges
  BY Zenon, <1>10, RecountType DEF RecheckChallenges
<1>11. CASE SetSynced \/ WaitOver \/ NetworkAges
  <2>1. (~synced) \in BOOLEAN
    BY Zenon
  <2> QED
    BY <1>11, <2>1, Zenon DEF SetSynced, WaitOver, NetworkAges
<1>12. CASE Crash
  <2>1. crashes' \in 0..MaxCrash
    BY <1>12 DEF Crash
  <2>2. Caught \subseteq net
    BY Zenon DEF Caught
  <2>3. \A e \in Caught : e.epoch \in 1..MaxEpoch
    BY <2>2 DEF EventType
  <2>4. exposed' \subseteq 1..MaxEpoch
    BY Zenon, <1>12, <2>3 DEF Crash
  <2> QED
    BY <1>12, <2>1, <2>4, NewEmitterType, Zenon DEF Crash
<1>13. CASE UNCHANGED vars
  BY Zenon, <1>13 DEF vars
<1> QED
  BY Zenon, <1>1, <1>2, <1>3, <1>4, <1>5, <1>6, <1>7, <1>8, <1>9, <1>10, <1>11, <1>12, <1>13
     DEF Next, Emit, Process, Environment

-----------------------------------------------------------------------------
(* Signing.                                                                   *)

LEMMA LastSeqIsLast ==
    ASSUME Types
    PROVE  LastSeq(db) \in Nat /\ \A e \in Mine(db) : e.seq <= LastSeq(db)
<1> DEFINE S == {e.seq : e \in Mine(db)}
<1>1. CASE Mine(db) = {}
  BY Zenon, <1>1 DEF LastSeq
<1>2. CASE Mine(db) # {}
  <2>1. S \in SUBSET (0..MaxId)
    BY DEF Types, DbType, EventType, Mine
  <2>2. S # {}
    BY <1>2, Zenon
  <2>3. LastSeq(db) = Max(S)
    BY Zenon, <1>2 DEF LastSeq
  <2>4. \A e \in Mine(db) : e.seq \in S
    BY Zenon
  <2> HIDE DEF S
  <2>5. Max(S) \in S /\ \A x \in S : x <= Max(S)
    <3>1. IsFiniteSet(S)
      <4>1. IsFiniteSet(0..MaxId)
        BY FS_Interval
      <4> QED
        BY Zenon, <2>1, <4>1, FS_Subset
    <3>2. S \in SUBSET Nat
      BY <2>1
    <3> QED
      BY Zenon, <2>2, <3>1, <3>2, MaxOfFinite
  <2>6. Max(S) \in Nat
    <3>1. 0..MaxId \subseteq Nat
      OBVIOUS
    <3> QED
      BY <2>1, <2>5, <3>1, Zenon
  <2> QED
    BY Zenon, <2>3, <2>4, <2>5, <2>6
<1> QED
  BY Zenon, <1>1, <1>2

Strictly(f, e) == f.epoch < e.epoch \/ (f.epoch = e.epoch /\ f.seq < e.seq)

LEMMA BelowFacts ==
    ASSUME NEW f \in EventType, NEW g \in EventType, NEW e \in EventType
    PROVE  /\ Below(f, g) /\ Below(g, e) => Below(f, e)
           /\ Below(f, g) /\ Strictly(g, e) => Strictly(f, e)
           /\ Strictly(f, e) => Below(f, e) /\ ~(f.epoch = e.epoch /\ f.seq = e.seq)
           /\ Below(f, f)
<1>1. \A x \in EventType : x.epoch \in Nat /\ x.seq \in Nat
  BY DEF EventType
<1> QED
  BY <1>1 DEF Below, Strictly

(* Before a new event the protection leaves only one case: what the file      *)
(* names is below the event, and so is every event of this validator that     *)
(* the store has.  Then so is all that is recorded.                           *)
LEMMA NewEventIsAbove ==
    ASSUME Types, SignInv, em.protection # 0, phase = "idle", up = "up",
           NEW e \in EventType, CreateEvent(e)
    PROVE  /\ file # None => Below(file, e)
           /\ \A f \in net \cup Own(db) : f.epoch \notin exposed =>
                ~(f.epoch = e.epoch /\ f.seq = e.seq)
<1> USE DEF Types
<1>1. e.epoch = em.epoch /\ em.epoch = db.epoch /\ e.seq = LastSeq(db) + 1
      /\ e.epoch \in Nat /\ e.seq \in Nat
  BY DEF CreateEvent, SignInv, EventType
<1>2. file # None => file \in db.events \/ em.epoch > file.epoch
  BY Zenon DEF CreateEvent, SyncedToEmit, PrevEmittedIsConnected
<1>3. \A f \in EventType : f.epoch \in Nat /\ f.seq \in Nat
  BY DEF EventType
<1>4. \A f \in Own(db) : f \in EventType /\ f.epoch <= db.epoch
                         /\ (f.epoch = db.epoch => f \in Mine(db))
  BY Zenon DEF Own, Mine, SignInv, DbType
<1>5. \A f \in Own(db) : Strictly(f, e)
  BY <1>1, <1>3, <1>4, LastSeqIsLast DEF Strictly
<1>6. ASSUME file # None PROVE file \in EventType /\ Strictly(file, e)
  <2>1. file \in EventType
    BY Zenon, <1>6
  <2>2. CASE file \in db.events
    BY Zenon, <1>5, <1>6, <2>1, <2>2 DEF SignInv, Own
  <2>3. CASE em.epoch > file.epoch
    BY <1>1, <1>3, <2>1, <2>3 DEF Strictly
  <2> QED
    BY Zenon, <1>2, <1>6, <2>1, <2>2, <2>3
<1>7. ASSUME NEW f \in net \cup Own(db), f.epoch \notin exposed PROVE Strictly(f, e)
  <2>1. f \in EventType
    BY Zenon, <1>4
  <2>2. CASE f \in Own(db)
    BY Zenon, <1>5, <2>2
  <2>3. CASE f \in net /\ f \in disk.events
    BY Zenon, <1>5, <2>3 DEF SignInv, Own
  <2>4. CASE file # None /\ Below(f, file)
    BY Zenon, <1>6, <2>1, <2>4, BelowFacts
  <2>5. Recorded(f)
    BY Zenon DEF SignInv, AllRecorded
  <2> QED
    BY Zenon, <1>7, <2>2, <2>3, <2>4, <2>5 DEF Recorded
<1>8. \A f \in net \cup Own(db) : f \in EventType
  BY Zenon, <1>4
<1> QED
  BY Zenon, <1>6, <1>7, <1>8, BelowFacts

LEMMA SignInit == Init => SignInv
  BY DEF Init, SignInv, Own, AllRecorded, NumbersDiffer

(* A step after which peers and the store have no event that neither had      *)
(* before, and which takes nothing from the disk or the file, leaves what     *)
(* they have recorded and its numbers different.                              *)
LEMMA NoNewEvent ==
    ASSUME SignInv, net' \cup Own(db)' \subseteq net \cup Own(db), file' = file,
           disk.events \subseteq disk'.events, exposed' = exposed,
           phase # "processed" \/ (phase' = phase /\ cur' = cur)
    PROVE  AllRecorded' /\ NumbersDiffer'
<1>1. ASSUME NEW f \in net' \cup Own(db)' PROVE Recorded(f)'
  <2>1. Recorded(f)
    BY Zenon DEF SignInv, AllRecorded
  <2> QED
    BY Zenon, <2>1 DEF Recorded, Below
<1>2. NumbersDiffer'
  BY Zenon DEF SignInv, NumbersDiffer
<1> QED
  BY Zenon, <1>1, <1>2 DEF AllRecorded

LEMMA SignEmitEvent ==
    ASSUME Types, SignInv, em.protection # 0, EmitEvent
    PROVE  SignInv'
<1>1. PICK e \in NewEvents("me") :
        /\ CreateEvent(e)
        /\ LET m == [em EXCEPT !.prevLocalEmittedID = e.id] IN
           \/ /\ db' = [db EXCEPT !.events = @ \cup {e}]
              /\ em' \in OnEventConnected(m, e)
              /\ phase' = "processed" /\ cur' = e
           \/ em' = m /\ UNCHANGED <<db, phase, cur>>
  BY Zenon DEF EmitEvent
<1> DEFINE m == [em EXCEPT !.prevLocalEmittedID = e.id]
<1>2. nextId <= MaxId /\ up = "up" /\ phase = "idle"
      /\ UNCHANGED <<disk, file, net, up, exposed>>
  BY Zenon DEF EmitEvent
<1>3. e \in EventType /\ e.by = "me" /\ e.epoch = db.epoch
  BY Zenon, <1>2, NewEventType
<1>4. m \in EmType /\ m.epoch = em.epoch
  BY Zenon, <1>3, EmTypeIs DEF EventType, Types
<1>5. CASE db' = [db EXCEPT !.events = @ \cup {e}] /\ em' \in OnEventConnected(m, e)
           /\ phase' = "processed" /\ cur' = e
  <2> HIDE DEF m
  <2>1. em'.epoch = em.epoch
    BY Zenon, <1>3, <1>4, <1>5, ConnectedType
  <2>2. db'.epoch = db.epoch /\ db'.events = db.events \cup {e}
    BY Zenon, <1>5 DEF Types, DbType
  <2>3. Own(db)' = Own(db) \cup {e}
    BY Zenon, <1>3, <2>2 DEF Own
  <2>4. file # None => Below(file, e)
    BY Zenon, <1>1, <1>2, <1>3, NewEventIsAbove
  <2>5. \A f \in net \cup Own(db) : f.epoch \notin exposed => ~(f.epoch = e.epoch /\ f.seq = e.seq)
    BY Zenon, <1>1, <1>2, <1>3, NewEventIsAbove
  <2>6. NumbersDiffer'
    BY Zenon, <1>2, <2>3, <2>5 DEF SignInv, NumbersDiffer
  <2>7. AllRecorded'
    <3>1. ASSUME NEW f \in net \cup Own(db) PROVE Recorded(f)'
      <4>1. Recorded(f)
        BY Zenon DEF SignInv, AllRecorded
      <4> QED
        BY Zenon, <1>2, <4>1 DEF Recorded, Below
    <3>2. Recorded(e)'
      BY Zenon, <1>5 DEF Recorded
    <3> QED
      BY Zenon, <1>2, <2>3, <3>1, <3>2 DEF AllRecorded
  <2>8. \A f \in db'.events : f.epoch <= db'.epoch
    BY <1>3, <2>2 DEF SignInv, Types, DbType
  <2>9. (file # None => Below(file, cur))'
    BY Zenon, <1>2, <1>5, <2>4 DEF Below
  <2> QED
    BY Zenon, <1>2, <1>5, <2>1, <2>2, <2>3, <2>6, <2>7, <2>8, <2>9 DEF SignInv
<1>6. CASE em' = m /\ UNCHANGED <<db, phase, cur>>
  <2> HIDE DEF m
  <2>1. AllRecorded' /\ NumbersDiffer'
    BY Zenon, <1>2, <1>6, NoNewEvent DEF Own
  <2> QED
    BY Zenon, <1>2, <1>4, <1>6, <2>1 DEF SignInv, Own
<1> QED
  BY Zenon, <1>1, <1>5, <1>6

(* The file moves to the new event, which is above what it named.             *)
LEMMA SignWrite ==
    ASSUME Types, SignInv, WriteLastEmittedEventID
    PROVE  SignInv'
<1>1. phase = "processed" /\ file' = cur /\ phase' = "written"
      /\ UNCHANGED <<db, disk, net, em, up, cur, exposed>>
  BY Zenon DEF WriteLastEmittedEventID
<1>2. cur \in Own(db) /\ cur.by = "me" /\ cur \in EventType /\ cur # None
  BY Zenon, <1>1, NoneIsNoEvent DEF SignInv, Own, Types, DbType
<1>3. ASSUME NEW f \in net \cup Own(db) PROVE Recorded(f)'
  <2>1. f \in EventType
    BY Zenon DEF Own, Types, DbType
  <2>2. CASE file # None /\ Below(f, file)
    <3>1. file \in EventType /\ Below(file, cur)
      BY Zenon, <1>1, <2>2 DEF SignInv, Types
    <3>2. Below(f, cur)
      BY Zenon, <1>2, <2>1, <2>2, <3>1, BelowFacts
    <3> QED
      BY Zenon, <1>1, <1>2, <3>2 DEF Recorded, Below
  <2>3. CASE f = cur
    <3>1. Below(f, cur)
      BY Zenon, <2>1, <2>3, BelowFacts
    <3> QED
      BY Zenon, <1>1, <1>2, <3>1 DEF Recorded, Below
  <2>4. Recorded(f)
    BY Zenon DEF SignInv, AllRecorded
  <2> QED
    BY Zenon, <1>1, <2>2, <2>3, <2>4 DEF Recorded
<1>4. AllRecorded' /\ NumbersDiffer'
  BY Zenon, <1>1, <1>3 DEF AllRecorded, SignInv, NumbersDiffer, Own
<1> QED
  BY Zenon, <1>1, <1>2, <1>4 DEF SignInv, Own

(* What peers receive or fetch is what the store has.                         *)
LEMMA SignServe ==
    ASSUME Types, SignInv, Broadcast \/ ServeEvent
    PROVE  SignInv'
<1>1. \A e : Known(e) \subseteq Own(db)
  BY Zenon DEF Known, Own
<1>2. net' \subseteq net \cup Own(db)
  BY Zenon, <1>1 DEF Broadcast, ServeEvent
<1>3. UNCHANGED <<db, disk, file, em, up, exposed>>
  BY Zenon DEF Broadcast, ServeEvent
<1>4. \/ phase = "written" /\ phase' = "idle"
      \/ phase' = phase /\ cur' = cur
  BY Zenon DEF Broadcast, ServeEvent
<1>5. AllRecorded' /\ NumbersDiffer'
  <2>1. net' \cup Own(db)' \subseteq net \cup Own(db)
    BY Zenon, <1>2, <1>3 DEF Own
  <2> QED
    BY Zenon, <1>3, <1>4, <2>1, NoNewEvent
<1>6. \A f \in net' : f.by = "me"
  BY Zenon, <1>2 DEF SignInv, Own
<1>7. (phase # "idle" => up = "up" /\ cur \in Own(db))'
  BY Zenon, <1>3, <1>4 DEF SignInv, Own
<1>8. (phase = "processed" /\ file # None => Below(file, cur))'
  BY Zenon, <1>3, <1>4 DEF SignInv, Below
<1> QED
  BY Zenon, <1>3, <1>5, <1>6, <1>7, <1>8 DEF SignInv

LEMMA SignConnectPeer ==
    ASSUME Types, SignInv, ConnectPeerEvent
    PROVE  SignInv'
<1>1. PICK e \in NewEvents("peer") : db' = [db EXCEPT !.events = @ \cup {e}]
                                     /\ em' \in OnEventConnected(em, e)
  BY Zenon DEF ConnectPeerEvent
<1>2. nextId <= MaxId /\ phase = "idle" /\ UNCHANGED <<disk, file, net, up, phase, cur, exposed>>
  BY Zenon DEF ConnectPeerEvent, Free
<1>3. e \in EventType /\ e.by = "peer" /\ e.epoch = db.epoch
  BY Zenon, <1>2, NewEventType
<1>4. em'.epoch = em.epoch
  BY Zenon, <1>1, <1>3, ConnectedType DEF Types
<1>5. db'.epoch = db.epoch /\ db'.events = db.events \cup {e}
  BY Zenon, <1>1 DEF Types, DbType
<1>6. Own(db)' = Own(db)
  BY Zenon, <1>3, <1>5 DEF Own
<1>7. \A f \in db'.events : f.epoch <= db'.epoch
  BY <1>3, <1>5 DEF SignInv, Types, DbType
<1>8. AllRecorded' /\ NumbersDiffer'
  BY Zenon, <1>2, <1>6, NoNewEvent
<1> QED
  BY Zenon, <1>2, <1>4, <1>5, <1>6, <1>7, <1>8 DEF SignInv

LEMMA SignConnectOwn ==
    ASSUME Types, SignInv, ConnectOwnEvent
    PROVE  SignInv'
<1>1. PICK e \in net : e.epoch = db.epoch /\ db' = [db EXCEPT !.events = @ \cup {e}]
                       /\ em' \in OnEventConnected(em, e) /\ up' \in {"up", "halted", up}
  BY Zenon DEF ConnectOwnEvent
<1>2. phase = "idle" /\ up = "up" /\ UNCHANGED <<disk, file, net, phase, cur, exposed>>
  BY Zenon DEF ConnectOwnEvent, Free
<1>3. e \in EventType /\ e.by = "me"
  BY Zenon DEF Types, SignInv
<1>4. em'.epoch = em.epoch
  BY Zenon, <1>1, <1>3, ConnectedType DEF Types
<1>5. db'.epoch = db.epoch /\ db'.events = db.events \cup {e}
  BY Zenon, <1>1 DEF Types, DbType
<1>6. net' \cup Own(db)' \subseteq net \cup Own(db)
  BY Zenon, <1>2, <1>3, <1>5 DEF Own
<1>7. \A f \in db'.events : f.epoch <= db'.epoch
  BY <1>1, <1>5 DEF SignInv, Types, DbType
<1>8. AllRecorded' /\ NumbersDiffer'
  BY Zenon, <1>2, <1>6, NoNewEvent
<1> QED
  BY Zenon, <1>1, <1>2, <1>4, <1>5, <1>7, <1>8 DEF SignInv

(* Steps that only change which epoch the node is in, what is confirmed, the  *)
(* emitter or the environment.                                                *)
LEMMA SignSame ==
    ASSUME Types, SignInv, UNCHANGED <<disk, file, net, phase, cur, exposed>>,
           db'.events = db.events, db.epoch <= db'.epoch, db'.epoch \in Nat,
           up' # "down" => em'.epoch = db'.epoch, phase # "idle" => up' = "up"
    PROVE  SignInv'
<1>1. Own(db)' = Own(db)
  BY Zenon DEF Own
<1>2. \A f \in db'.events : f.epoch <= db'.epoch
  BY DEF SignInv, Types, DbType, EventType
<1>3. AllRecorded' /\ NumbersDiffer'
  BY Zenon, <1>1, NoNewEvent
<1>4. (phase = "processed" /\ file # None => Below(file, cur))'
  BY Zenon DEF SignInv, Below
<1> QED
  BY Zenon, <1>1, <1>2, <1>3, <1>4 DEF SignInv

(* What a crash leaves is on disk or with peers.  The event that EmitEvent    *)
(* was about to record is on disk, or no peer has it, or its epoch is         *)
(* exposed from now on.                                                       *)
LEMMA SignCrash ==
    ASSUME Types, SignInv, Crash
    PROVE  SignInv'
<1>1. db' = disk /\ phase' = "idle" /\ up' = "down" /\ UNCHANGED <<disk, file, net>>
      /\ exposed' = exposed \cup {e.epoch : e \in Caught}
  BY Zenon DEF Crash
<1>2. Own(db)' \subseteq Own(db) /\ Own(db)' \subseteq disk.events
  BY Zenon, <1>1 DEF Own, SignInv
<1>3. ASSUME NEW f \in net' \cup Own(db)' PROVE Recorded(f)'
  <2>1. Recorded(f)
    BY Zenon, <1>1, <1>2 DEF SignInv, AllRecorded
  <2>2. CASE f \in disk.events \/ f.epoch \in exposed \/ (file # None /\ Below(f, file))
    BY Zenon, <1>1, <2>2 DEF Recorded, Below
  <2>3. CASE f \notin disk.events /\ phase = "processed" /\ f = cur
    <3>1. f \in Caught
      BY Zenon, <1>1, <1>2, <2>3 DEF Caught
    <3> QED
      BY Zenon, <1>1, <3>1 DEF Recorded
  <2> QED
    BY Zenon, <2>1, <2>2, <2>3 DEF Recorded
<1>4. NumbersDiffer'
  BY Zenon, <1>1, <1>2 DEF SignInv, NumbersDiffer
<1>5. AllRecorded'
  BY Zenon, <1>3 DEF AllRecorded
<1> QED
  BY Zenon, <1>1, <1>4, <1>5 DEF SignInv

LEMMA SignStep ==
    Types /\ SignInv /\ em.protection # 0 /\ [Next]_vars => SignInv'
<1> SUFFICES ASSUME Types, SignInv, em.protection # 0, [Next]_vars PROVE SignInv'
  BY Zenon
<1>0. db.epoch \in Nat /\ db.epoch <= db.epoch
  BY DEF Types, DbType
<1>1. CASE Start
  <2>1. em'.epoch = db.epoch
    BY Zenon, <1>1, NewEmitterType, NewEpochType DEF Start, Types
  <2> QED
    BY Zenon, <1>0, <1>1, <2>1, SignSame DEF Start
<1>2. CASE RecheckChallenges
  <2>1. em'.epoch = em.epoch
    BY Zenon, <1>2, RecountType DEF RecheckChallenges, Types
  <2> QED
    BY Zenon, <1>0, <1>2, <2>1, SignSame DEF RecheckChallenges, SignInv
<1>3. CASE Commit
  <2>1. disk' = db /\ UNCHANGED <<db, file, net, em, up, phase, cur, exposed>>
    BY Zenon, <1>3 DEF Commit
  <2>2. Own(db)' = Own(db)
    BY Zenon, <2>1 DEF Own
  <2>3. AllRecorded' /\ NumbersDiffer'
    BY Zenon, <2>1, <2>2, NoNewEvent DEF SignInv
  <2> QED
    BY Zenon, <2>1, <2>2, <2>3 DEF SignInv, Below
<1>4. CASE SetSynced \/ WaitOver \/ NetworkAges \/ UNCHANGED vars
  <2>1. UNCHANGED <<db, disk, file, net, em, up, phase, cur, exposed>>
    BY Zenon, <1>4 DEF SetSynced, WaitOver, NetworkAges, vars
  <2> QED
    BY Zenon, <1>0, <2>1, SignSame DEF SignInv
<1>5. CASE ConfirmEvent
  <2>1. PICK e \in Unconfirmed(db) : db' = [db EXCEPT !.confirmed = @ \cup {e}]
                                     /\ em' = OnEventConfirmed(em, e)
    BY Zenon, <1>5 DEF ConfirmEvent
  <2>2. e \in EventType
    BY Zenon DEF Unconfirmed, Types, DbType
  <2>3. em'.epoch = em.epoch
    BY Zenon, <2>1, <2>2, ConfirmedType DEF Types
  <2>4. db'.epoch = db.epoch /\ db'.events = db.events
    BY Zenon, <2>1 DEF Types, DbType
  <2>5. up = "up" /\ UNCHANGED <<disk, file, net, up, phase, cur, exposed>>
    BY Zenon, <1>5 DEF ConfirmEvent, Processing
  <2> QED
    BY Zenon, <1>0, <2>3, <2>4, <2>5, SignSame DEF SignInv
<1>6. CASE SealEpoch
  <2>1. db' \in DbType /\ em' = OnNewEpoch(em, db')
    BY <1>6 DEF SealEpoch, Types, DbType
  <2>2. up = "up" /\ UNCHANGED <<disk, file, net, up, phase, cur, exposed>>
    BY Zenon, <1>6 DEF SealEpoch, Processing
  <2>3. db'.epoch = db.epoch + 1 /\ db'.events = db.events
    BY Zenon, <1>6 DEF SealEpoch, Types, DbType
  <2>4. em'.epoch = db'.epoch
    BY Zenon, <2>1, NewEpochType DEF Types
  <2>5. db.epoch <= db'.epoch /\ db'.epoch \in Nat
    BY <1>0, <2>3
  <2> QED
    BY Zenon, <2>2, <2>3, <2>4, <2>5, SignSame
<1> QED
  BY Zenon, <1>1, <1>2, <1>3, <1>4, <1>5, <1>6, SignEmitEvent, SignWrite, SignServe, SignConnectPeer,
     SignConnectOwn, SignCrash DEF Next, Emit, Process, Environment

(* The type invariant holds (TypeOK of Emitter; gossip/emitter).              *)
THEOREM TypeCorrect == Spec => []TypeOK
<1>1. Spec => []Types
  BY TypesInit, TypesStep, PTL DEF Spec
<1> QED
  BY <1>1, TypesGiveTypeOK, PTL

(* Peers, which are sent events and fetch them at any moment, never see two   *)
(* events of the validator with one sequence number, through any number of    *)
(* crashes, except in an epoch in which a crash fell between a peer's         *)
(* fetching of an unflushed event and writeLastEmittedEventID, and as long as *)
(* the protection interval has not been divided down to zero: with zero,      *)
(* isSyncedToEmit does not look at the file (NoDoubleSign of Emitter;         *)
(* emitter.go EmitEvent, sync.go).                                            *)
THEOREM SignsOnce == Spec /\ [](em.protection # 0) => []NoDoubleSign
<1>1. SignInv => NoDoubleSign
  BY Zenon DEF SignInv, NumbersDiffer, NoDoubleSign
<1>2. Spec => []Types
  BY TypesInit, TypesStep, PTL DEF Spec
<1>3. Spec /\ [](em.protection # 0) => []SignInv
  BY <1>2, SignInit, SignStep, PTL DEF Spec
<1> QED
  BY <1>1, <1>3, PTL

(* In a network that is not young, no step changes the protection interval.   *)
LEMMA ProtectionStays ==
    Types /\ ~young /\ em.protection = Protection /\ [Next]_vars
      => ~young' /\ em'.protection = Protection
<1> SUFFICES ASSUME Types, ~young, em.protection = Protection, [Next]_vars
             PROVE  ~young' /\ em'.protection = Protection
  BY Zenon
<1>1. ~young'
  BY Zenon DEF Next, vars, Start, Emit, EmitEvent, WriteLastEmittedEventID, Broadcast, ServeEvent, Process,
     ConnectPeerEvent, ConnectOwnEvent, ConfirmEvent, SealEpoch, Commit, RecheckChallenges,
     Environment, SetSynced, WaitOver, NetworkAges, Crash
<1>2. NewEmitter.protection = Protection
  BY Zenon DEF NewEmitter
<1>3. CASE Start
  BY Zenon, <1>2, <1>3, NewEmitterType, NewEpochType DEF Start, Types
<1>4. CASE EmitEvent
  <2>1. PICK e \in NewEvents("me") :
          LET m == [em EXCEPT !.prevLocalEmittedID = e.id] IN em' \in OnEventConnected(m, e) \cup {m}
    BY Zenon, <1>4 DEF EmitEvent
  <2> DEFINE m == [em EXCEPT !.prevLocalEmittedID = e.id]
  <2>2. e \in EventType
    BY Zenon, <1>4, NewEventType DEF EmitEvent
  <2>3. m \in EmType /\ m.protection = em.protection
    BY Zenon, <2>2, EmTypeIs DEF EventType, Types
  <2> HIDE DEF m
  <2> QED
    BY Zenon, <1>1, <2>1, <2>2, <2>3, ConnectedType DEF m
<1>5. CASE ConnectPeerEvent \/ ConnectOwnEvent
  <2>2. CASE ConnectPeerEvent
    <3>1. PICK f \in NewEvents("peer") : em' \in OnEventConnected(em, f)
      BY Zenon, <2>2 DEF ConnectPeerEvent
    <3>2. f \in EventType
      BY Zenon, <2>2, NewEventType DEF ConnectPeerEvent
    <3> QED
      BY Zenon, <1>1, <3>1, <3>2, ConnectedType DEF Types
  <2>3. CASE ConnectOwnEvent
    <3>1. PICK f \in net : em' \in OnEventConnected(em, f)
      BY Zenon, <2>3 DEF ConnectOwnEvent
    <3> QED
      BY Zenon, <1>1, <3>1, ConnectedType DEF Types
  <2> QED
    BY Zenon, <1>5, <2>2, <2>3
<1>6. CASE ConfirmEvent
  <2>1. PICK e \in Unconfirmed(db) : em' = OnEventConfirmed(em, e)
    BY Zenon, <1>6 DEF ConfirmEvent
  <2>2. e \in EventType
    BY Zenon DEF Unconfirmed, Types, DbType
  <2> QED
    BY Zenon, <1>1, <2>1, <2>2, ConfirmedType DEF Types
<1>7. CASE SealEpoch
  <2>1. db' \in DbType /\ em' = OnNewEpoch(em, db')
    BY <1>7 DEF SealEpoch, Types, DbType
  <2> QED
    BY Zenon, <1>1, <2>1, NewEpochType DEF Types
<1>8. CASE RecheckChallenges
  BY Zenon, <1>8, RecountType DEF RecheckChallenges, Types
<1>9. CASE Crash
  BY Zenon, <1>2, <1>9 DEF Crash
<1>10. CASE UNCHANGED em
  BY Zenon, <1>1, <1>10
<1> QED
  BY Zenon, <1>1, <1>3, <1>4, <1>5, <1>6, <1>7, <1>8, <1>9, <1>10 DEF Next, Emit, Process, Environment,
     WriteLastEmittedEventID, Broadcast, ServeEvent, Commit, SetSynced, WaitOver, NetworkAges, vars

(* In a network past its first hours, with whatever protection interval, the  *)
(* emitter is typed and peers never see two of its events with one sequence   *)
(* number, unless that interval is zero or a crash of the epoch fell between  *)
(* a peer's fetching of an unflushed event and the writing of the file        *)
(* (SignedOnce of Emitter; emitter.go writeLastEmittedEventID,                *)
(* isSyncedToEmit).                                                           *)
THEOREM SignedOnceHolds ==
    ASSUME ~YoungNetwork
    PROVE  Spec => []SignedOnce
<1> DEFINE Inv == Types /\ ~young /\ em.protection = Protection /\ (Protection # 0 => SignInv)
<1>1. Init => Inv
  <2> SUFFICES ASSUME Init PROVE Inv
    BY Zenon
  <2>1. ~young
    BY Zenon DEF Init
  <2>2. em.protection = Protection
    BY Zenon DEF Init, NewEmitter
  <2> QED
    BY Zenon, <2>1, <2>2, TypesInit, SignInit
<1>2. Inv /\ [Next]_vars => Inv'
  BY Zenon, TypesStep, SignStep, ProtectionStays
<1>3. Inv => SignedOnce
  BY Zenon, TypesGiveTypeOK DEF SignedOnce, SignInv, NumbersDiffer, NoDoubleSign
<1> HIDE DEF Inv
<1> QED
  BY <1>1, <1>2, <1>3, PTL DEF Spec

-----------------------------------------------------------------------------
(* Counters: sums and cardinalities one event at a time.                      *)

(* GasPowerUsed as a function on a set of events.                             *)
GasMap(Ev) == [e \in Ev |-> GasPowerUsed(e)]

LEMMA GasMapType == \A Ev : GasMap(Ev) \in [Ev -> Nat]
<1>1. \A e : GasPowerUsed(e) \in Nat
  BY DEF GasPowerUsed
<1> QED
  BY <1>1 DEF GasMap

LEMMA GasInIsTotal ==
    ASSUME NEW Ev, NEW U \in SUBSET Ev
    PROVE  GasIn(U) = Total(GasMap(Ev), U)
<1> DEFINE Summing(g) == g = [s \in SUBSET U |->
             IF s = {} THEN 0 ELSE GasPowerUsed(Pick(s)) + g[s \ {Pick(s)}]]
<1>1. GasIn(U) = (CHOOSE g : Summing(g))[U]
  BY DEF GasIn, MapThenSumSet, MapThenFoldSet, Pick
<1>2. Total(GasMap(Ev), U) = (CHOOSE g : IsSummer(g, GasMap(Ev), U))[U]
  BY Zenon, TotalUnfolds
<1>3. \A s \in SUBSET U : s # {} => GasPowerUsed(Pick(s)) = GasMap(Ev)[Pick(s)]
  BY DEF GasMap, Pick
<1>4. ASSUME NEW g PROVE Summing(g) <=> IsSummer(g, GasMap(Ev), U)
  <2>1. [s \in SUBSET U |-> IF s = {} THEN 0 ELSE GasPowerUsed(Pick(s)) + g[s \ {Pick(s)}]]
        = [s \in SUBSET U |-> IF s = {} THEN 0 ELSE GasMap(Ev)[Pick(s)] + g[s \ {Pick(s)}]]
    BY <1>3
  <2> QED
    BY Zenon, <2>1 DEF IsSummer
<1>5. (CHOOSE g : Summing(g)) = (CHOOSE g : IsSummer(g, GasMap(Ev), U))
  BY Zenon, <1>4
<1> QED
  BY Zenon, <1>1, <1>2, <1>5

LEMMA GasInAdd ==
    ASSUME NEW U, IsFiniteSet(U), NEW e, e \notin U
    PROVE  GasIn(U) \in Nat /\ GasIn(U \cup {e}) = GasIn(U) + GasPowerUsed(e)
<1> DEFINE Ev == U \cup {e}
<1>1. U \in SUBSET Ev /\ Ev \in SUBSET Ev /\ e \in Ev \ U
  OBVIOUS
<1>2. GasMap(Ev)[e] = GasPowerUsed(e)
  BY <1>1 DEF GasMap
<1> HIDE DEF Ev
<1>3. GasIn(U) = Total(GasMap(Ev), U) /\ GasIn(Ev) = Total(GasMap(Ev), Ev)
  BY Zenon, <1>1, GasInIsTotal
<1>4. GasMap(Ev) \in [Ev -> Nat]
  BY Zenon, GasMapType
<1>5. Total(GasMap(Ev), U) \in Nat
  BY Zenon, <1>1, <1>4, TotalType
<1>6. Total(GasMap(Ev), U \cup {e}) = Total(GasMap(Ev), U) + GasMap(Ev)[e]
  BY <1>1, <1>4, TotalAdd
<1> QED
  BY Zenon, <1>2, <1>3, <1>5, <1>6 DEF Ev

LEMMA SentByAdd ==
    ASSUME NEW U, IsFiniteSet(U), NEW e, e \notin U, NEW s
    PROVE  /\ Cardinality(SentBy(U, s)) \in Nat
           /\ Cardinality(SentBy(U \cup {e}, s))
                = Cardinality(SentBy(U, s)) + IF e.sender = s THEN 1 ELSE 0
<1>1. SentBy(U, s) \subseteq U /\ e \notin SentBy(U, s)
  BY DEF SentBy
<1>2. IsFiniteSet(SentBy(U, s))
  BY Zenon, <1>1, FS_Subset
<1>3. Cardinality(SentBy(U, s)) \in Nat
  BY Zenon, <1>2, FS_CardinalityType
<1>4. CASE e.sender = s
  <2>1. SentBy(U \cup {e}, s) = SentBy(U, s) \cup {e}
    BY <1>4 DEF SentBy
  <2>2. Cardinality(SentBy(U, s) \cup {e}) = Cardinality(SentBy(U, s)) + 1
    BY <1>1, <1>2, FS_AddElement
  <2> QED
    BY Zenon, <1>3, <1>4, <2>1, <2>2
<1>5. CASE e.sender # s
  <2>1. SentBy(U \cup {e}, s) = SentBy(U, s)
    BY <1>5 DEF SentBy
  <2> QED
    BY <1>3, <1>5, <2>1
<1> QED
  BY <1>4, <1>5

(* No event, nothing to count.                                                *)
LEMMA NothingToCount ==
    /\ GasIn({}) = 0 /\ \A s : Cardinality(SentBy({}, s)) = 0
<1>1. GasIn({}) = Total(GasMap({}), {})
  BY Zenon, GasInIsTotal
<1>2. \A s : SentBy({}, s) = {}
  BY DEF SentBy
<1> QED
  BY Zenon, <1>1, <1>2, TotalStep, FS_EmptySet

LEMMA CountsAreNat ==
    ASSUME NEW U, IsFiniteSet(U)
    PROVE  GasIn(U) \in Nat /\ \A s : Cardinality(SentBy(U, s)) \in Nat
<1>1. GasIn(U) = Total(GasMap(U), U) /\ GasMap(U) \in [U -> Nat] /\ U \in SUBSET U
  BY Zenon, GasInIsTotal, GasMapType
<1>2. GasIn(U) \in Nat
  BY <1>1, TotalType
<1>3. \A s : SentBy(U, s) \subseteq U
  BY DEF SentBy
<1> QED
  BY Zenon, <1>2, <1>3, FS_Subset, FS_CardinalityType

-----------------------------------------------------------------------------
(* The ring buffer.                                                           *)

LEMMA IncCounts ==
    ASSUME NEW counts, NEW s, NEW c \in Inc(counts, s),
           \A t \in DOMAIN counts : counts[t] \in Nat \ {0}
    PROVE  /\ \A t \in DOMAIN c : c[t] \in Nat \ {0}
           /\ TotalOf(c, s) = TotalOf(counts, s) + 1
           /\ \A t : t # s => TotalOf(c, t) = TotalOf(counts, t) \/ TotalOf(c, t) = 0
           /\ DOMAIN counts \subseteq DOMAIN c =>
                \A t : t # s => TotalOf(c, t) = TotalOf(counts, t)
<1>1. TotalOf(counts, s) \in Nat
  BY DEF TotalOf
<1>2. CASE c = With(counts, s, TotalOf(counts, s) + 1)
  BY <1>1, <1>2 DEF With, TotalOf
<1>3. ASSUME s \notin DOMAIN counts, NEW v \in DOMAIN counts,
             c = With(Without(counts, v), s, 1)
      PROVE  /\ \A t \in DOMAIN c : c[t] \in Nat \ {0}
             /\ TotalOf(c, s) = 1 /\ TotalOf(counts, s) = 0
             /\ \A t : t # s => TotalOf(c, t) = TotalOf(counts, t) \/ TotalOf(c, t) = 0
             /\ v \notin DOMAIN c
  BY <1>3 DEF With, Without, TotalOf
<1> QED
  BY <1>1, <1>2, <1>3 DEF Inc

LEMMA DecCounts ==
    ASSUME NEW counts, NEW s, \A t \in DOMAIN counts : counts[t] \in Nat \ {0}
    PROVE  /\ \A t \in DOMAIN Dec(counts, s) : Dec(counts, s)[t] \in Nat \ {0}
           /\ TotalOf(counts, s) \in Nat
           /\ TotalOf(Dec(counts, s), s)
                = IF TotalOf(counts, s) = 0 THEN 0 ELSE TotalOf(counts, s) - 1
           /\ \A t : t # s => TotalOf(Dec(counts, s), t) = TotalOf(counts, t)
<1>1. CASE s \notin DOMAIN counts
  BY <1>1 DEF Dec, TotalOf
<1>2. CASE s \in DOMAIN counts /\ counts[s] <= 1
  BY <1>2 DEF Dec, TotalOf, Without
<1>3. CASE s \in DOMAIN counts /\ ~(counts[s] <= 1)
  BY <1>3 DEF Dec, TotalOf, With
<1> QED
  BY <1>1, <1>2, <1>3

-----------------------------------------------------------------------------
(* The hooks.                                                                 *)

LEMMA ConnectCounts ==
    ASSUME NEW U, IsFiniteSet(U), NEW e, e \notin U, NEW X, None \notin X,
           NEW m, IsEmitter(m), m.isValidator => Counted(U, m, X),
           NEW r \in OnEventConnected(m, e)
    PROVE  IsEmitter(r) /\ (r.isValidator => Counted(U \cup {e}, r, X))
<1> DEFINE g == GasPowerUsed(e)
           V == U \cup {e}
<1>1. CASE ~m.isValidator
  BY Zenon, <1>1 DEF OnEventConnected
<1>2. CASE m.isValidator
  <2>1. g \in Nat /\ GasIn(U) \in Nat /\ GasIn(V) = GasIn(U) + g
    <3>1. g \in Nat
      BY DEF GasPowerUsed
    <3> QED
      BY Zenon, <3>1, GasInAdd
  <2>2. \A s : /\ Cardinality(SentBy(U, s)) \in Nat
               /\ Cardinality(SentBy(V, s))
                    = Cardinality(SentBy(U, s)) + IF e.sender = s THEN 1 ELSE 0
    BY Zenon, SentByAdd
  <2>3. Counted(U, m, X)
    BY Zenon, <1>2
  <2> HIDE DEF g, V
  <2>4. CASE e.sender = None
    <3>1. r = [m EXCEPT !.pendingGas = @ + g]
      BY Zenon, <1>2, <2>4 DEF OnEventConnected, g
    <3>2. /\ DOMAIN r = DOMAIN m /\ r.originatedTxs = m.originatedTxs
          /\ r.pendingGas = m.pendingGas + g
      BY <3>1 DEF IsEmitter
    <3>3. r.exact = m.exact
      BY <3>1, Zenon DEF IsEmitter
    <3>4. r.pendingGas \in Nat /\ r.pendingGas <= GasIn(V)
          /\ (m.pendingGas = GasIn(U) => r.pendingGas = GasIn(V))
      BY <2>1, <2>3, <3>2 DEF Counted
    <3>5. \A s \in X : Cardinality(SentBy(V, s)) = Cardinality(SentBy(U, s))
      BY <2>2, <2>4
    <3> QED
      BY Zenon, <2>3, <3>2, <3>3, <3>4, <3>5 DEF Counted, IsEmitter, V
  <2>5. CASE e.sender # None
    <3>1. PICK c \in Inc(m.originatedTxs, e.sender) :
            r = [m EXCEPT !.pendingGas = @ + g, !.originatedTxs = c,
                          !.exact = @ /\ DOMAIN m.originatedTxs \subseteq DOMAIN c]
      BY Zenon, <1>2, <2>5 DEF OnEventConnected, g
    <3>2. DOMAIN r = DOMAIN m /\ r.originatedTxs = c /\ r.pendingGas = m.pendingGas + g
      BY <3>1 DEF IsEmitter
    <3>3. r.exact => m.exact /\ DOMAIN m.originatedTxs \subseteq DOMAIN c
      BY <3>1, Zenon DEF IsEmitter
    <3>4. r.pendingGas \in Nat /\ r.pendingGas <= GasIn(V)
          /\ (m.pendingGas = GasIn(U) => r.pendingGas = GasIn(V))
      BY <2>1, <2>3, <3>2 DEF Counted
    <3>5. \A s \in DOMAIN m.originatedTxs : m.originatedTxs[s] \in Nat \ {0}
      BY Zenon, <2>3 DEF Counted
    <3>6. /\ \A t \in DOMAIN c : c[t] \in Nat \ {0}
          /\ TotalOf(c, e.sender) = TotalOf(m.originatedTxs, e.sender) + 1
          /\ \A t : t # e.sender =>
               TotalOf(c, t) = TotalOf(m.originatedTxs, t) \/ TotalOf(c, t) = 0
          /\ DOMAIN m.originatedTxs \subseteq DOMAIN c =>
               \A t : t # e.sender => TotalOf(c, t) = TotalOf(m.originatedTxs, t)
      BY <3>5, IncCounts
    <3>7. \A s : TotalOf(m.originatedTxs, s) \in Nat
      BY <3>5 DEF TotalOf
    <3>8. \A s \in X : TotalOf(c, s) <= Cardinality(SentBy(V, s))
      <4> SUFFICES ASSUME NEW s \in X PROVE TotalOf(c, s) <= Cardinality(SentBy(V, s))
        BY Zenon
      <4>1. TotalOf(m.originatedTxs, s) <= Cardinality(SentBy(U, s))
        BY Zenon, <2>3 DEF Counted
      <4>2. CASE s = e.sender
        BY <2>2, <3>6, <3>7, <4>1, <4>2
      <4>3. CASE s # e.sender
        BY <2>2, <3>6, <3>7, <4>1, <4>3
      <4> QED
        BY Zenon, <4>2, <4>3
    <3>9. ASSUME m.exact, DOMAIN m.originatedTxs \subseteq DOMAIN c, NEW s \in X
          PROVE  TotalOf(c, s) = Cardinality(SentBy(V, s))
      <4>1. TotalOf(m.originatedTxs, s) = Cardinality(SentBy(U, s))
        BY Zenon, <2>3, <3>9 DEF Counted
      <4>2. CASE s = e.sender
        BY <2>2, <3>6, <4>1, <4>2
      <4>3. CASE s # e.sender
        BY <2>2, <3>6, <3>9, <4>1, <4>3
      <4> QED
        BY Zenon, <4>2, <4>3
    <3>10. m.exact => m.pendingGas = GasIn(U)
      BY Zenon, <2>3 DEF Counted
    <3>11. Counted(V, r, X)
      BY Zenon, <3>2, <3>3, <3>4, <3>6, <3>8, <3>9, <3>10 DEF Counted
    <3> QED
      BY Zenon, <3>2, <3>11 DEF IsEmitter, V
  <2> QED
    BY Zenon, <2>4, <2>5
<1> QED
  BY Zenon, <1>1, <1>2

LEMMA ConfirmCounts ==
    ASSUME NEW U, IsFiniteSet(U), NEW e \in U, NEW X, None \notin X,
           NEW m, IsEmitter(m), m.isValidator => Counted(U, m, X)
    PROVE  LET r == OnEventConfirmed(m, e)
           IN  IsEmitter(r) /\ (r.isValidator => Counted(U \ {e}, r, X))
<1> DEFINE g == GasPowerUsed(e)
           V == U \ {e}
           r == OnEventConfirmed(m, e)
<1>1. CASE ~m.isValidator
  BY Zenon, <1>1 DEF OnEventConfirmed
<1>2. CASE m.isValidator
  <2>0. IsFiniteSet(V) /\ e \notin V /\ U = V \cup {e}
    <3>1. V \subseteq U /\ e \notin V /\ U = V \cup {e}
      OBVIOUS
    <3> QED
      BY Zenon, <3>1, FS_Subset
  <2>00. g \in Nat
    BY DEF GasPowerUsed
  <2> HIDE DEF g, V
  <2>1. GasIn(V) \in Nat /\ GasIn(U) = GasIn(V) + g
    BY Zenon, <2>0, GasInAdd DEF g
  <2>2. \A s : /\ Cardinality(SentBy(V, s)) \in Nat
               /\ Cardinality(SentBy(U, s))
                    = Cardinality(SentBy(V, s)) + IF e.sender = s THEN 1 ELSE 0
    BY Zenon, <2>0, SentByAdd
  <2>3. Counted(U, m, X)
    BY Zenon, <1>2
  <2> DEFINE c == IF e.sender = None THEN m.originatedTxs ELSE Dec(m.originatedTxs, e.sender)
  <2>4. r = [m EXCEPT !.pendingGas = IF @ > g THEN @ - g ELSE 0, !.originatedTxs = c]
    BY Zenon, <1>2 DEF OnEventConfirmed, g
  <2>5. DOMAIN r = DOMAIN m /\ r.originatedTxs = c
        /\ r.pendingGas = IF m.pendingGas > g THEN m.pendingGas - g ELSE 0
    <3> HIDE DEF c, r
    <3> QED
      BY <2>4 DEF IsEmitter
  <2>6. r.exact = m.exact
    <3> HIDE DEF c, r
    <3> QED
      BY <2>4, Zenon DEF IsEmitter
  <2> HIDE DEF r
  <2>7. r.pendingGas \in Nat /\ r.pendingGas <= GasIn(V)
        /\ (m.pendingGas = GasIn(U) => r.pendingGas = GasIn(V))
    <3>1. m.pendingGas \in Nat /\ m.pendingGas <= GasIn(U)
      BY Zenon, <2>3 DEF Counted
    <3> QED
      BY <2>00, <2>1, <2>5, <3>1
  <2>8. \A s \in DOMAIN m.originatedTxs : m.originatedTxs[s] \in Nat \ {0}
    BY Zenon, <2>3 DEF Counted
  <2>9. \A s : TotalOf(m.originatedTxs, s) \in Nat
    BY <2>8 DEF TotalOf
  <2>10. /\ \A t \in DOMAIN c : c[t] \in Nat \ {0}
         /\ \A s \in X : s # e.sender => TotalOf(c, s) = TotalOf(m.originatedTxs, s)
         /\ \A s \in X : s = e.sender => TotalOf(c, s) =
              IF TotalOf(m.originatedTxs, s) = 0 THEN 0 ELSE TotalOf(m.originatedTxs, s) - 1
    <3>1. CASE e.sender = None
      BY Zenon, <2>8, <3>1
    <3>2. CASE e.sender # None
      <4> DEFINE o == m.originatedTxs
                 k == e.sender
      <4>1. \A t \in DOMAIN o : o[t] \in Nat \ {0}
        BY Zenon, <2>8
      <4> HIDE DEF o, k
      <4>2. /\ \A t \in DOMAIN Dec(o, k) : Dec(o, k)[t] \in Nat \ {0}
            /\ TotalOf(Dec(o, k), k) = IF TotalOf(o, k) = 0 THEN 0 ELSE TotalOf(o, k) - 1
            /\ \A t : t # k => TotalOf(Dec(o, k), t) = TotalOf(o, t)
        BY <4>1, DecCounts
      <4>3. c = Dec(o, k)
        BY Zenon, <3>2 DEF o, k
      <4> HIDE DEF c
      <4> QED
        BY Zenon, <4>2, <4>3 DEF o, k
    <3> QED
      BY Zenon, <3>1, <3>2
  <2> HIDE DEF c
  <2>11. ASSUME NEW s \in X
         PROVE  /\ TotalOf(c, s) <= Cardinality(SentBy(V, s))
                /\ TotalOf(m.originatedTxs, s) = Cardinality(SentBy(U, s)) =>
                     TotalOf(c, s) = Cardinality(SentBy(V, s))
    <3>1. TotalOf(m.originatedTxs, s) <= Cardinality(SentBy(U, s))
      BY Zenon, <2>3 DEF Counted
    <3>2. CASE s = e.sender
      BY <2>2, <2>9, <2>10, <3>1, <3>2
    <3>3. CASE s # e.sender
      BY <2>2, <2>10, <3>1, <3>3
    <3> QED
      BY Zenon, <3>2, <3>3
  <2>12. Counted(V, r, X)
    BY Zenon, <2>3, <2>5, <2>6, <2>7, <2>10, <2>11 DEF Counted
  <2> QED
    BY Zenon, <2>5, <2>12 DEF IsEmitter, V, r
<1> QED
  BY Zenon, <1>1, <1>2

(* Start and the hook of a new epoch begin to count anew.                     *)
Renewed(d, m) ==
    /\ IsEmitter(m)
    /\ m.isValidator => /\ m.originatedTxs = NoCounts /\ m.pendingGas = 0
                        /\ m.exact = (Unconfirmed(d) = {})

LEMMA RenewCounts ==
    ASSUME NEW d, IsFiniteSet(d.events), NEW X, NEW m, Renewed(d, m)
    PROVE  m.isValidator => Counted(Unconfirmed(d), m, X)
<1> DEFINE U == Unconfirmed(d)
<1>1. IsFiniteSet(U)
  <2>1. U \subseteq d.events
    BY DEF Unconfirmed
  <2> QED
    BY Zenon, <2>1, FS_Subset
<1>2. GasIn(U) \in Nat /\ \A s : Cardinality(SentBy(U, s)) \in Nat
  BY Zenon, <1>1, CountsAreNat
<1>3. \A n \in Nat : 0 <= n
  OBVIOUS
<1>4. DOMAIN NoCounts = {} /\ \A s : TotalOf(NoCounts, s) = 0
  BY DEF NoCounts, TotalOf
<1>5. U = {} => GasIn(U) = 0 /\ \A s : Cardinality(SentBy(U, s)) = 0
  BY Zenon, NothingToCount
<1>6. 0 \in Nat
  OBVIOUS
<1> QED
  BY Zenon, <1>2, <1>3, <1>4, <1>5, <1>6 DEF Counted, Renewed

-----------------------------------------------------------------------------
(* What the steps of the emitter, with any constants, do to the counters.     *)

SameCounters(m, n) ==
    /\ DOMAIN m = DOMAIN n /\ m.isValidator = n.isValidator /\ m.exact = n.exact
    /\ m.originatedTxs = n.originatedTxs /\ m.pendingGas = n.pendingGas

Resting ==
    /\ db' = db /\ up' = up /\ disk' \in {disk, db} /\ net' \subseteq net \cup db.events
    /\ SameCounters(em', em) /\ nextId' \in {nextId, nextId + 1}

Connecting(e, m) ==
    /\ up = "up" /\ SameCounters(m, em) /\ em' \in OnEventConnected(m, e)
    /\ e.epoch = db.epoch /\ db' = [db EXCEPT !.events = @ \cup {e}]
    /\ \/ e.id = nextId /\ nextId' = nextId + 1
       \/ e \in net \ db.events /\ nextId' = nextId
    /\ UNCHANGED <<disk, net>>

Confirming(e) ==
    /\ up = "up" /\ e \in Unconfirmed(db)
    /\ db' = [db EXCEPT !.confirmed = @ \cup {e}] /\ em' = OnEventConfirmed(em, e)
    /\ UNCHANGED <<disk, net, up, nextId>>

Renewing ==
    /\ db' = db \/ \E n : db' = [db EXCEPT !.epoch = n]
    /\ Renewed(db', em')
    /\ UNCHANGED <<disk, net, nextId>>

Crashing == db' = disk /\ up' = "down" /\ IsEmitter(em') /\ UNCHANGED <<disk, net, nextId>>

CountStep ==
    \/ Resting \/ (\E e, m : Connecting(e, m)) \/ (\E e : Confirming(e)) \/ Renewing \/ Crashing

LEMMA SameCounted ==
    ASSUME NEW U, NEW X, NEW m, NEW n, SameCounters(m, n)
    PROVE  /\ IsEmitter(n) => IsEmitter(m)
           /\ (n.isValidator => Counted(U, n, X)) => (m.isValidator => Counted(U, m, X))
BY Zenon DEF SameCounters, Counted, IsEmitter

LEMMA CountStepKeeps ==
    ASSUME NEW X, None \notin X, CountInv(X), CountStep
    PROVE  CountInv(X)'
<1>0. nextId \in Nat /\ IsEmitter(em) /\ IsFiniteSet(db.events) /\ IsFiniteSet(disk.events)
  BY Zenon DEF CountInv, Keeps
<1>00. \A i \in 0..nextId - 1 : i \in 0..(nextId + 1) - 1
  BY <1>0
<1>1. CASE Resting
  <2>1. nextId' \in Nat
    BY <1>0, <1>1 DEF Resting
  <2>2. \A e \in db.events \cup disk.events \cup net : e.id \in 0..nextId' - 1
    BY Zenon, <1>00, <1>1 DEF Resting, CountInv, Keeps
  <2>3. Keeps(db)' /\ Keeps(disk)' /\ \A e \in net' : e.id \in 0..nextId' - 1
    BY Zenon, <1>1, <2>2 DEF Resting, CountInv, Keeps
  <2>4. IsEmitter(em') /\ (up' = "up" /\ em'.isValidator => Counted(Unconfirmed(db'), em', X))
    BY Zenon, <1>1, SameCounted DEF Resting, CountInv
  <2> QED
    BY Zenon, <2>1, <2>3, <2>4 DEF CountInv
<1>2. ASSUME NEW e, NEW m, Connecting(e, m) PROVE CountInv(X)'
  <2>1. nextId' \in Nat
    BY <1>0, <1>2 DEF Connecting
  <2>2. e \notin db.events /\ e.id \in 0..nextId' - 1
    <3>1. CASE e.id = nextId /\ nextId' = nextId + 1
      BY <1>0, <3>1 DEF CountInv, Keeps
    <3>2. CASE e \in net \ db.events /\ nextId' = nextId
      BY Zenon, <3>2 DEF CountInv
    <3> QED
      BY Zenon, <1>2, <3>1, <3>2 DEF Connecting
  <2>3. \A f \in db.events \cup disk.events \cup net : f.id \in 0..nextId' - 1
    BY Zenon, <1>00, <1>2 DEF Connecting, CountInv, Keeps
  <2>4. /\ db'.events = db.events \cup {e} /\ db'.confirmed = db.confirmed
        /\ db'.epoch = db.epoch /\ DOMAIN db' = DOMAIN db
    BY Zenon, <1>2 DEF Connecting, CountInv, Keeps
  <2>5. IsFiniteSet(db'.events)
    <3>1. IsFiniteSet(db.events \cup {e})
      BY <1>0, FS_AddElement
    <3> QED
      BY Zenon, <2>4, <3>1
  <2>6. Keeps(db)' /\ Keeps(disk)' /\ \A f \in net' : f.id \in 0..nextId' - 1
    BY Zenon, <1>2, <2>2, <2>3, <2>4, <2>5 DEF Connecting, CountInv, Keeps
  <2>7. /\ Unconfirmed(db') = Unconfirmed(db) \cup {e} /\ e \notin Unconfirmed(db)
        /\ Unconfirmed(db) \subseteq db.events
    BY Zenon, <1>2, <2>2, <2>4 DEF Connecting, CountInv, Keeps, Unconfirmed
  <2>8. IsFiniteSet(Unconfirmed(db))
    BY Zenon, <1>0, <2>7, FS_Subset
  <2>9. IsEmitter(m) /\ (m.isValidator => Counted(Unconfirmed(db), m, X))
    BY Zenon, <1>2, SameCounted DEF Connecting, CountInv
  <2>10. em' \in OnEventConnected(m, e)
    BY Zenon, <1>2 DEF Connecting
  <2>11. IsEmitter(em') /\ (em'.isValidator => Counted(Unconfirmed(db'), em', X))
    BY <2>7, <2>8, <2>9, <2>10, ConnectCounts
  <2> QED
    BY Zenon, <2>1, <2>6, <2>11 DEF CountInv
<1>3. ASSUME NEW e, Confirming(e) PROVE CountInv(X)'
  <2>1. /\ db'.events = db.events /\ db'.confirmed = db.confirmed \cup {e}
        /\ db'.epoch = db.epoch /\ DOMAIN db' = DOMAIN db
    BY Zenon, <1>3 DEF Confirming, CountInv, Keeps
  <2>2. /\ Unconfirmed(db') = Unconfirmed(db) \ {e} /\ e \in Unconfirmed(db)
        /\ Unconfirmed(db) \subseteq db.events
    BY <1>3, <2>1 DEF Confirming, Unconfirmed
  <2>3. IsFiniteSet(Unconfirmed(db))
    BY Zenon, <1>0, <2>2, FS_Subset
  <2>4. em.isValidator => Counted(Unconfirmed(db), em, X)
    BY Zenon, <1>3 DEF Confirming, CountInv
  <2>5. em' = OnEventConfirmed(em, e)
    BY Zenon, <1>3 DEF Confirming
  <2>6. IsEmitter(em') /\ (em'.isValidator => Counted(Unconfirmed(db'), em', X))
    BY <1>0, <2>2, <2>3, <2>4, <2>5, ConfirmCounts
  <2>7. Keeps(db)' /\ Keeps(disk)'
    BY Zenon, <1>3, <2>1, <2>2 DEF Confirming, CountInv, Keeps
  <2> QED
    BY Zenon, <1>3, <2>6, <2>7 DEF Confirming, CountInv
<1>4. CASE Renewing
  <2>1. /\ db'.events = db.events /\ db'.confirmed = db.confirmed /\ DOMAIN db' = DOMAIN db
    BY Zenon, <1>4 DEF Renewing, CountInv, Keeps
  <2>2. Keeps(db)' /\ Keeps(disk)'
    BY Zenon, <1>4, <2>1 DEF Renewing, CountInv, Keeps
  <2>3. IsEmitter(em') /\ (em'.isValidator => Counted(Unconfirmed(db'), em', X))
    BY Zenon, <1>0, <1>4, <2>1, RenewCounts DEF Renewing, Renewed
  <2> QED
    BY Zenon, <1>4, <2>2, <2>3 DEF Renewing, CountInv
<1>5. CASE Crashing
  BY Zenon, <1>5 DEF Crashing, CountInv, Keeps
<1> QED
  BY Zenon, <1>1, <1>2, <1>3, <1>4, <1>5 DEF CountStep

-----------------------------------------------------------------------------
(* The steps of Emitter, and of the two instances of MCEmitter.               *)

LEMMA RecountSame ==
    ASSUME NEW m, IsEmitter(m)
    PROVE  SameCounters(RecountValidators(m), m)
BY Zenon DEF RecountValidators, SameCounters, IsEmitter

LEMMA EpochRenews ==
    ASSUME NEW m, IsEmitter(m), NEW d
    PROVE  Renewed(d, OnNewEpoch(m, d))
<1> DEFINE moved == [m EXCEPT !.epoch = d.epoch, !.isValidator = d.epoch \in ValidatorEpochs]
           reset == [moved EXCEPT !.originatedTxs = NoCounts, !.pendingGas = 0,
                                  !.exact = Unconfirmed(d) = {}]
<1>1. IsEmitter(moved)
  BY Zenon DEF IsEmitter
<1>2. /\ IsEmitter(reset) /\ reset.originatedTxs = NoCounts /\ reset.pendingGas = 0
      /\ reset.exact = (Unconfirmed(d) = {})
  BY Zenon, <1>1 DEF IsEmitter
<1>3. OnNewEpoch(m, d) = IF ~moved.isValidator THEN moved ELSE RecountValidators(reset)
  BY Zenon DEF OnNewEpoch
<1> HIDE DEF reset, moved
<1>4. SameCounters(RecountValidators(reset), reset)
  BY Zenon, <1>2, RecountSame
<1> QED
  BY Zenon, <1>1, <1>2, <1>3, <1>4 DEF SameCounters, Renewed, IsEmitter

LEMMA StepsCount ==
    ASSUME CountInv(Sender), [Next]_vars
    PROVE  CountStep
<1>0. IsEmitter(em) /\ IsEmitter(NewEmitter) /\ nextId \in Nat
  BY Zenon DEF CountInv, IsEmitter, NewEmitter
<1>1. ASSUME UNCHANGED <<db, up, disk, net, em, nextId>> PROVE Resting
  BY Zenon, <1>1 DEF Resting, SameCounters
<1>2. CASE Start
  BY Zenon, <1>0, <1>2, EpochRenews DEF Start, Renewing, CountStep
<1>3. CASE EmitEvent
  <2>1. PICK e \in NewEvents("me") :
          LET m == [em EXCEPT !.prevLocalEmittedID = e.id] IN
          \/ db' = [db EXCEPT !.events = @ \cup {e}] /\ em' \in OnEventConnected(m, e)
          \/ em' = m /\ db' = db
    BY Zenon, <1>3 DEF EmitEvent
  <2>2. e.epoch = db.epoch /\ e.id = nextId
    BY Zenon, <2>1 DEF NewEvents
  <2> DEFINE m == [em EXCEPT !.prevLocalEmittedID = e.id]
  <2>3. SameCounters(m, em)
    BY Zenon, <1>0 DEF SameCounters, IsEmitter
  <2>4. up = "up" /\ up' = up /\ nextId' = nextId + 1 /\ UNCHANGED <<disk, net>>
    BY Zenon, <1>3 DEF EmitEvent
  <2>5. Resting \/ Connecting(e, m)
    BY Zenon, <2>1, <2>2, <2>3, <2>4 DEF Resting, Connecting
  <2> QED
    BY Zenon, <2>5 DEF CountStep
<1>4. CASE WriteLastEmittedEventID
  BY Zenon, <1>1, <1>4 DEF WriteLastEmittedEventID, CountStep
<1>5. CASE Broadcast \/ ServeEvent
  <2>1. net' \subseteq net \cup db.events
    BY Zenon, <1>5 DEF Broadcast, ServeEvent, Known
  <2>2. UNCHANGED <<db, up, disk, em, nextId>>
    BY Zenon, <1>5 DEF Broadcast, ServeEvent
  <2> QED
    BY Zenon, <2>1, <2>2 DEF Resting, SameCounters, CountStep
<1>6. CASE ConnectPeerEvent
  <2>1. PICK e \in NewEvents("peer") :
          db' = [db EXCEPT !.events = @ \cup {e}] /\ em' \in OnEventConnected(em, e)
    BY Zenon, <1>6 DEF ConnectPeerEvent
  <2>2. e.epoch = db.epoch /\ e.id = nextId
    BY Zenon, <2>1 DEF NewEvents
  <2>3. Connecting(e, em)
    BY Zenon, <1>6, <2>1, <2>2 DEF ConnectPeerEvent, Free, Connecting, SameCounters
  <2> QED
    BY Zenon, <2>3 DEF CountStep
<1>7. CASE ConnectOwnEvent
  <2>1. PICK e \in net \ db.events :
          /\ e.epoch = db.epoch
          /\ db' = [db EXCEPT !.events = @ \cup {e}] /\ em' \in OnEventConnected(em, e)
    BY Zenon, <1>7 DEF ConnectOwnEvent
  <2>2. Connecting(e, em)
    BY Zenon, <1>7, <2>1 DEF ConnectOwnEvent, Free, Connecting, SameCounters
  <2> QED
    BY Zenon, <2>2 DEF CountStep
<1>8. CASE ConfirmEvent
  BY Zenon, <1>8 DEF ConfirmEvent, Processing, Confirming, CountStep
<1>9. CASE SealEpoch
  BY Zenon, <1>0, <1>9, EpochRenews DEF SealEpoch, Renewing, CountStep
<1>10. CASE Commit
  BY Zenon, <1>10 DEF Commit, Resting, SameCounters, CountStep
<1>11. CASE RecheckChallenges
  BY Zenon, <1>0, <1>11, RecountSame DEF RecheckChallenges, Resting, CountStep
<1>12. CASE Crash
  BY Zenon, <1>0, <1>12 DEF Crash, Crashing, CountStep
<1>13. CASE NetworkAges
  BY Zenon, <1>1, <1>13 DEF NetworkAges, CountStep
<1>14. CASE UNCHANGED vars
  BY Zenon, <1>1, <1>14 DEF vars, CountStep
<1>15. CASE SetSynced \/ WaitOver
  BY Zenon, <1>1, <1>15 DEF SetSynced, WaitOver, CountStep
<1> QED
  BY Zenon, <1>2, <1>3, <1>4, <1>5, <1>6, <1>7, <1>8, <1>9, <1>10, <1>11, <1>12, <1>13, <1>14,
     <1>15 DEF Next, Emit, Process, Environment
-----------------------------------------------------------------------------
LEMMA CountsBegin ==
    ASSUME NEW X, db = [epoch |-> 1, events |-> {}, confirmed |-> {}], disk = db, net = {},
           IsEmitter(em), up = "down", nextId = 1
    PROVE  CountInv(X)
<1>1. nextId \in Nat
  OBVIOUS
<1> QED
  BY Zenon, <1>1, FS_EmptySet DEF CountInv, Keeps

LEMMA CountsInit == Init => CountInv(Sender)
  BY Zenon, CountsBegin DEF Init, NewEmitter, IsEmitter

LEMMA CountsGive == CountInv(Sender) => NeverOvercounts /\ CountsAreExact
  BY Zenon DEF CountInv, Counted, SentBy, GasIn, PendingGas, PendingOf, NeverOvercounts, CountsAreExact

(* The pending counters never claim more than what awaits confirmation, and   *)
(* are exact without a restart or an eviction, whatever the capacity of the   *)
(* ring buffer (CountersHold of Emitter; emitter/hooks.go, originatedtxs).    *)
THEOREM CountsRight == Spec => []CountersHold
<1>1. CountInv(Sender) /\ [Next]_vars => CountInv(Sender)'
  BY Zenon, EmitterAssumption, StepsCount, CountStepKeeps
<1> QED
  BY <1>1, CountsInit, CountsGive, PTL DEF Spec, CountersHold
=============================================================================
