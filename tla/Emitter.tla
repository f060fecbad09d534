------------------------------- MODULE Emitter -------------------------------
(* The emitter of one validator (gossip/emitter): how it creates, connects,  *)
(* records and broadcasts its events, the protection against signing two     *)
(* events with one sequence number after a crash, the counters of            *)
(* transactions and gas that await confirmation, and the emit intervals.     *)
(* The node's store is db, of which a crash leaves what disk holds; net is   *)
(* what peers have of the validator's events.                                *)
EXTENDS Integers, FiniteSets, FiniteSetsExt

CONSTANTS Sender,          \* transaction senders
          None,            \* no sender, no event
          MaxInterval,     \* config.EmitIntervals.Max
          Protection,      \* config.EmitIntervals.DoublesignProtection
          Capacity,        \* SenderCountBufferSize
          ValidatorEpochs, \* the epochs in which I am a validator
          YoungNetwork,    \* the genesis is less than networkStartPeriod old
          MaxId, MaxEpoch, MaxCrash   \* bounds

ASSUME EmitterAssumption ==
    /\ None \notin Sender /\ IsFiniteSet(Sender)
    /\ MaxInterval \in Nat /\ Protection \in Nat /\ Capacity \in Nat \ {0}
    /\ YoungNetwork \in BOOLEAN /\ ValidatorEpochs \subseteq Nat
    /\ MaxId \in Nat /\ MaxEpoch \in Nat \ {0} /\ MaxCrash \in Nat

VARIABLES db,       \* the store: epoch, events of all epochs, the confirmed ones
          disk,     \* the part of the store that is flushed
          file,     \* the file with the last emitted event
          net,      \* events of this validator that peers have
          em,       \* the emitter
          up,       \* "down", "up" or "halted" by the parallel instance detection
          phase,    \* how far EmitEvent is: idle, processed or written
          cur,      \* the event EmitEvent works on
          synced,   \* pm.synced, with peers
          waited,   \* DoublesignProtection has passed since all what SyncedToEmit looks at
          young, nextId, crashes,
          exposed   \* history: epochs in which a crash caught an event that a peer had
                    \* fetched, but neither the file nor the disk had

vars == <<db, disk, file, net, em, up, phase, cur, synced, waited, young, nextId, crashes,
          exposed>>
-----------------------------------------------------------------------------
(* The originatedtxs ring buffer: counts per sender, at most Capacity.       *)

NoCounts == [s \in {} |-> 0]

TotalOf(counts, s) == IF s \in DOMAIN counts THEN counts[s] ELSE 0

Without(counts, s) == [t \in DOMAIN counts \ {s} |-> counts[t]]

With(counts, s, n) == [t \in DOMAIN counts \cup {s} |-> IF t = s THEN n ELSE counts[t]]

(* What Inc may leave: a new sender in a full buffer evicts another one.     *)
Inc(counts, s) ==
    IF s \in DOMAIN counts \/ Cardinality(DOMAIN counts) < Capacity
    THEN {With(counts, s, TotalOf(counts, s) + 1)}
    ELSE {With(Without(counts, v), s, 1) : v \in DOMAIN counts}

Dec(counts, s) ==
    IF s \notin DOMAIN counts THEN counts
    ELSE IF counts[s] <= 1 THEN Without(counts, s)
    ELSE With(counts, s, counts[s] - 1)

-----------------------------------------------------------------------------
GasPowerUsed(e) == IF e.sender = None THEN 1 ELSE 2

Mine(d) == {e \in d.events : e.by = "me" /\ e.epoch = d.epoch}

(* Events of the epoch that no block has confirmed yet.                      *)
Unconfirmed(d) == {e \in d.events : e.epoch = d.epoch /\ e \notin d.confirmed}

LastSeq(d) == IF Mine(d) = {} THEN 0 ELSE Max({e.seq : e \in Mine(d)})

(* Two of my events with one sequence number: chooseParents and createEvent  *)
(* refuse to go on.                                                          *)
Forked(d) == \E a, b \in Mine(d) : a.seq = b.seq /\ a # b

(* recountValidators: the intervals.                                         *)
RecountValidators(m) ==
    IF young THEN [m EXCEPT !.max = MaxInterval \div 6, !.protection = @ \div 6]
    ELSE [m EXCEPT !.max = MaxInterval]

(* Mutant: the counters survive the epoch. *)
OnNewEpochKeepsGas(m, d) ==
    LET moved == [m EXCEPT !.epoch = d.epoch, !.isValidator = d.epoch \in ValidatorEpochs] IN
    IF ~moved.isValidator THEN moved
    ELSE RecountValidators([moved EXCEPT !.exact = Unconfirmed(d) = {}])

(* exact records that no connected event is missing in the counters.         *)
OnNewEpoch(m, d) ==
    LET moved == [m EXCEPT !.epoch = d.epoch, !.isValidator = d.epoch \in ValidatorEpochs] IN
    IF ~moved.isValidator THEN moved
    ELSE RecountValidators([moved EXCEPT !.originatedTxs = NoCounts, !.pendingGas = 0,
                                         !.exact = Unconfirmed(d) = {}])

(* Mutant: this validator's events are not counted. *)
OnPeerEventConnected(m, e) ==
    IF ~m.isValidator \/ e.by = "me" THEN {m}
    ELSE IF e.sender = None THEN {[m EXCEPT !.pendingGas = @ + GasPowerUsed(e)]}
    ELSE {[m EXCEPT !.pendingGas = @ + GasPowerUsed(e), !.originatedTxs = c]
            : c \in Inc(m.originatedTxs, e.sender)}

(* What OnEventConnected may leave.                                          *)
OnEventConnected(m, e) ==
    IF ~m.isValidator THEN {m}
    ELSE IF e.sender = None THEN {[m EXCEPT !.pendingGas = @ + GasPowerUsed(e)]}
    ELSE {[m EXCEPT !.pendingGas = @ + GasPowerUsed(e), !.originatedTxs = c,
                    !.exact = @ /\ DOMAIN m.originatedTxs \subseteq DOMAIN c]
            : c \in Inc(m.originatedTxs, e.sender)}

(* Mutant: the pending gas is not clamped at zero. *)
OnEventConfirmedUnclamped(m, e) ==
    IF ~m.isValidator THEN m
    ELSE [m EXCEPT !.pendingGas = @ - GasPowerUsed(e),
                   !.originatedTxs = IF e.sender = None THEN @ ELSE Dec(@, e.sender)]

OnEventConfirmed(m, e) ==
    IF ~m.isValidator THEN m
    ELSE [m EXCEPT !.pendingGas = IF @ > GasPowerUsed(e) THEN @ - GasPowerUsed(e) ELSE 0,
                   !.originatedTxs = IF e.sender = None THEN @ ELSE Dec(@, e.sender)]

NewEmitter == [epoch |-> 0, isValidator |-> FALSE, prevLocalEmittedID |-> None,
               originatedTxs |-> NoCounts, pendingGas |-> 0, exact |-> TRUE,
               max |-> MaxInterval, protection |-> Protection]

-----------------------------------------------------------------------------
Init ==
    /\ db = [epoch |-> 1, events |-> {}, confirmed |-> {}]
    /\ disk = db
    /\ file = None /\ net = {}
    /\ em = NewEmitter
    /\ up = "down" /\ phase = "idle" /\ cur = None
    /\ synced = FALSE /\ waited = FALSE
    /\ young = YoungNetwork
    /\ nextId = 1 /\ crashes = 0 /\ exposed = {}

(* Start and init: the timers start anew.                                    *)
Start ==
    /\ up = "down"
    /\ up' = "up"
    /\ em' = OnNewEpoch(NewEmitter, db)
    /\ waited' = FALSE
    /\ UNCHANGED <<db, disk, file, net, phase, cur, synced, young, nextId, crashes, exposed>>

(* tick: while there are no peers or the node is not synced, the timers are  *)
(* set to now.                                                               *)
SetSynced ==
    /\ up = "up"
    /\ synced' = ~synced
    /\ waited' = FALSE
    /\ UNCHANGED <<db, disk, file, net, em, up, phase, cur, young, nextId, crashes, exposed>>

WaitOver ==
    /\ up = "up" /\ synced /\ ~waited
    /\ waited' = TRUE
    /\ UNCHANGED <<db, disk, file, net, em, up, phase, cur, synced, young, nextId, crashes,
                   exposed>>

(* networkStartPeriod is over.                                               *)
NetworkAges ==
    /\ young
    /\ young' = FALSE
    /\ UNCHANGED <<db, disk, file, net, em, up, phase, cur, synced, waited, nextId, crashes,
                   exposed>>

(* recheckChallenges: a validator missed its challenge.                      *)
RecheckChallenges ==
    /\ up = "up" /\ phase = "idle"
    /\ em.originatedTxs # NoCounts
    /\ em' = RecountValidators(em)
    /\ UNCHANGED <<db, disk, file, net, up, phase, cur, synced, waited, young, nextId, crashes,
                   exposed>>

-----------------------------------------------------------------------------
(* Mutant: the file is not looked at. *)
PrevEmittedIgnored == TRUE

(* Mutant: that the event is connected again does not count. *)
PrevEmittedIsOld == file # None => em.epoch > file.epoch

(* currentSyncStatus: the last event this validator signed is known again, or *)
(* of an epoch that is over.                                                 *)
PrevEmittedIsConnected ==
    file # None => file \in db.events \/ em.epoch > file.epoch

(* isSyncedToEmit.                                                           *)
SyncedToEmit ==
    em.protection = 0 \/ (synced /\ waited /\ PrevEmittedIsConnected)

(* Transactions of a sender that has one in a connected event are left out.  *)
AddTxs == {None} \cup {s \in Sender : TotalOf(em.originatedTxs, s) = 0}

CreateEvent(e) ==
    /\ em.isValidator /\ SyncedToEmit /\ ~Forked(db)
    /\ e.by = "me" /\ e.epoch = em.epoch /\ e.seq = LastSeq(db) + 1
    /\ e.id = nextId /\ e.sender \in AddTxs

NewEvents(by) == [by : {by}, epoch : {db.epoch}, seq : 0..MaxId, id : {nextId},
                  sender : Sender \cup {None}]

(* EmitEvent until Process returns, with success or an error.                *)
EmitEvent ==
    /\ up = "up" /\ phase = "idle" /\ nextId <= MaxId
    /\ \E e \in NewEvents("me") :
         /\ CreateEvent(e)
         /\ LET m == [em EXCEPT !.prevLocalEmittedID = e.id] IN
            \/ /\ db' = [db EXCEPT !.events = @ \cup {e}]
               /\ em' \in OnEventConnected(m, e)
               /\ phase' = "processed" /\ cur' = e
            \/ em' = m /\ UNCHANGED <<db, phase, cur>>
    /\ nextId' = nextId + 1
    /\ UNCHANGED <<disk, file, net, up, synced, waited, young, crashes, exposed>>

WriteLastEmittedEventID ==
    /\ up = "up" /\ phase = "processed"
    /\ file' = cur
    /\ phase' = "written"
    /\ UNCHANGED <<db, disk, net, em, up, cur, synced, waited, young, nextId, crashes,
                   exposed>>

(* A peer that gets the event gets its ancestors.                            *)
Known(e) == {f \in db.events : f.by = "me" /\ f.epoch = e.epoch /\ f.seq <= e.seq}

Broadcast ==
    /\ up = "up" /\ phase = "written"
    /\ net' = net \cup Known(cur) \/ UNCHANGED net
    /\ phase' = "idle" /\ cur' = None
    /\ UNCHANGED <<db, disk, file, em, up, synced, waited, young, nextId, crashes, exposed>>

(* A peer's request for an event, answered from the store without the lock:  *)
(* also while EmitEvent has yet to write the file.                           *)
ServeEvent ==
    /\ up = "up"
    /\ \E e \in db.events : e.by = "me" /\ net' = net \cup Known(e)
    /\ UNCHANGED <<db, disk, file, em, up, phase, cur, synced, waited, young, nextId, crashes,
                   exposed>>

-----------------------------------------------------------------------------
(* processEvent of other events, under the lock.                             *)

Free == up = "up" /\ phase = "idle"

ConnectPeerEvent ==
    /\ Free /\ nextId <= MaxId
    /\ \E e \in NewEvents("peer") :
         /\ e.seq = 0
         /\ db' = [db EXCEPT !.events = @ \cup {e}]
         /\ em' \in OnEventConnected(em, e)
    /\ nextId' = nextId + 1
    /\ UNCHANGED <<disk, file, net, up, phase, cur, synced, waited, young, crashes, exposed>>

(* An event of mine that this instance does not know: onNewExternalEvent     *)
(* stops the node for a recent one, otherwise it restarts the waiting.       *)
ConnectOwnEvent ==
    /\ Free
    /\ \E e \in net \ db.events :
         /\ e.epoch = db.epoch
         /\ \A n \in 1..e.seq - 1 : \E f \in Mine(db) : f.seq = n
         /\ db' = [db EXCEPT !.events = @ \cup {e}]
         /\ em' \in OnEventConnected(em, e)
         /\ IF em.isValidator /\ em.prevLocalEmittedID # e.id
            THEN waited' = FALSE /\ up' \in {"up", "halted"}
            ELSE UNCHANGED <<waited, up>>
    /\ UNCHANGED <<disk, file, net, phase, cur, synced, young, nextId, crashes, exposed>>

(* A block confirms an event; within the processing of an event, my own      *)
(* included.                                                                 *)
Processing == up = "up" /\ phase \in {"idle", "processed"}

ConfirmEvent ==
    /\ Processing
    /\ \E e \in Unconfirmed(db) \ {cur} :
         /\ db' = [db EXCEPT !.confirmed = @ \cup {e}]
         /\ em' = OnEventConfirmed(em, e)
    /\ UNCHANGED <<disk, file, net, up, phase, cur, synced, waited, young, nextId, crashes,
                   exposed>>

SealEpoch ==
    /\ Processing /\ db.epoch < MaxEpoch
    /\ LET d == [db EXCEPT !.epoch = @ + 1] IN
       db' = d /\ em' = OnNewEpoch(em, d)
    /\ UNCHANGED <<disk, file, net, up, phase, cur, synced, waited, young, nextId, crashes,
                   exposed>>

Commit ==
    /\ Processing
    /\ disk' = db
    /\ UNCHANGED <<db, file, net, em, up, phase, cur, synced, waited, young, nextId, crashes,
                   exposed>>

(* The event a peer fetched between Process and writeLastEmittedEventID.      *)
Caught == IF phase = "processed" THEN {cur} \cap (net \ disk.events) ELSE {}

Crash ==
    /\ up = "up" /\ crashes < MaxCrash
    /\ up' = "down"
    /\ db' = disk
    /\ em' = NewEmitter
    /\ phase' = "idle" /\ cur' = None
    /\ synced' = FALSE /\ waited' = FALSE
    /\ crashes' = crashes + 1
    /\ exposed' = exposed \cup {e.epoch : e \in Caught}
    /\ UNCHANGED <<disk, file, net, young, nextId>>

-----------------------------------------------------------------------------
Emit == EmitEvent \/ WriteLastEmittedEventID \/ Broadcast \/ ServeEvent

Process == ConnectPeerEvent \/ ConnectOwnEvent \/ ConfirmEvent \/ SealEpoch \/ Commit

Environment == SetSynced \/ WaitOver \/ NetworkAges \/ Crash

Next == Start \/ Emit \/ Process \/ RecheckChallenges \/ Environment

Spec == Init /\ [][Next]_vars

(* The counters alone: whether the node is synced plays no part.             *)
CountNext == Start \/ Emit \/ Process \/ RecheckChallenges \/ NetworkAges \/ Crash

(* Peers have events of a later epoch than the node.                         *)
CatchUp == SealEpoch /\ \E e \in net : e.epoch > db.epoch

(* EmitEvent, once begun, goes on, and peers deliver what they have.         *)
Fairness ==
    /\ WF_vars(Start) /\ WF_vars(WriteLastEmittedEventID) /\ WF_vars(Broadcast)
    /\ SF_vars(ConnectOwnEvent) /\ SF_vars(CatchUp)

FairSpec == Spec /\ Fairness
-----------------------------------------------------------------------------
(* Properties.                                                               *)

EventType == [by : {"me", "peer"}, epoch : 1..MaxEpoch, seq : 0..MaxId, id : 1..MaxId,
              sender : Sender \cup {None}]

ASSUME NoneIsNoEvent == None \notin EventType

DbType == [epoch : 1..MaxEpoch, events : SUBSET EventType, confirmed : SUBSET EventType]

(* Type invariant.                                                           *)
TypeOK ==
    /\ db \in DbType /\ disk \in DbType
    /\ file \in EventType \cup {None} /\ cur \in EventType \cup {None}
    /\ net \in SUBSET EventType
    /\ em.epoch \in 0..MaxEpoch /\ em.pendingGas \in Nat
    /\ em.max \in Nat /\ em.protection \in Nat
    /\ DOMAIN em.originatedTxs \subseteq Sender
    /\ \A s \in DOMAIN em.originatedTxs : em.originatedTxs[s] \in Nat \ {0}
    /\ up \in {"down", "up", "halted"} /\ phase \in {"idle", "processed", "written"}
    /\ synced \in BOOLEAN /\ waited \in BOOLEAN /\ young \in BOOLEAN
    /\ nextId \in 1..MaxId + 1 /\ crashes \in 0..MaxCrash /\ exposed \subseteq 1..MaxEpoch

(* Peers never see two events of the validator with one sequence number,     *)
(* wherever the node crashed and whatever it had flushed, with one window    *)
(* excepted: a peer fetches the event after Process has stored it and before *)
(* writeLastEmittedEventID, and a crash then takes it from a store that was  *)
(* not flushed.  Such a crash costs the guarantee for that epoch alone.      *)
NoDoubleSign ==
    \A a, b \in net :
      a.epoch = b.epoch /\ a.seq = b.seq /\ a.epoch \notin exposed => a = b

(* The connected, unconfirmed events of a sender.                            *)
PendingOf(s) == Cardinality({e \in Unconfirmed(db) : e.sender = s})

PendingGas == MapThenSumSet(GasPowerUsed, Unconfirmed(db))

(* The counters never claim more than what awaits confirmation, so a sender  *)
(* is not locked out and gas is not held back for events long confirmed.     *)
NeverOvercounts ==
    up = "up" /\ em.isValidator =>
      /\ em.pendingGas <= PendingGas
      /\ \A s \in Sender : TotalOf(em.originatedTxs, s) <= PendingOf(s)

(* Without a restart or an eviction in the epoch they are exact.             *)
CountsAreExact ==
    up = "up" /\ em.isValidator /\ em.exact =>
      /\ em.pendingGas = PendingGas
      /\ \A s \in Sender : TotalOf(em.originatedTxs, s) = PendingOf(s)

(* Peers never see two events of the validator with one sequence number as   *)
(* long as there is a protection interval (with zero, isSyncedToEmit does    *)
(* not look at what was emitted), in every epoch in which no crash fell      *)
(* between a peer's fetching of an event and the writing of the file         *)
(* (emitter.go:246-251 EmitEvent, readLastEmittedEventID, sync.go).          *)
SignedOnce == TypeOK /\ (em.protection # 0 => NoDoubleSign)

(* The pending counters never claim more than what awaits confirmation, and  *)
(* are exact without a restart or an eviction (emitter/hooks.go,             *)
(* originatedtxs).                                                           *)
CountersHold == NeverOvercounts /\ CountsAreExact

(* "should be greater than MaxEmitInterval" (config.go:64), for the          *)
(* intervals in use.                                                         *)
ProtectionExceedsMax ==
    up = "up" /\ em.isValidator => em.protection > em.max

(* The last signed event is missing, in an epoch that is not over.           *)
Blocked == up = "up" /\ ~PrevEmittedIsConnected

(* If a peer has the last signed event, the emitter does not stay blocked.   *)
NotBlockedForever == []<>(~Blocked \/ file \notin net)
-----------------------------------------------------------------------------
(* Inductive invariants.                                                     *)

(* The type of the emitter's record, of which TypeOK names some fields.      *)
EmType == [epoch : 0..MaxEpoch, isValidator : BOOLEAN, prevLocalEmittedID : 1..MaxId \cup {None},
           originatedTxs : UNION {[S -> Nat \ {0}] : S \in SUBSET Sender},
           pendingGas : Nat, exact : BOOLEAN, max : Nat, protection : Nat]

Own(d) == {e \in d.events : e.by = "me"}

Below(f, e) == f.epoch < e.epoch \/ (f.epoch = e.epoch /\ f.seq <= e.seq)

(* An event that peers or the store have is on disk, or below what the file  *)
(* names, or the one that EmitEvent is about to write there; or a crash has  *)
(* exposed its epoch.                                                        *)
Recorded(f) ==
    \/ f.epoch \in exposed \/ f \in disk.events
    \/ file # None /\ Below(f, file)
    \/ phase = "processed" /\ f = cur

AllRecorded == \A f \in net \cup Own(db) : Recorded(f)

(* Neither peers nor the store, nor both together, have two events of one    *)
(* number in an epoch that is not exposed.                                   *)
NumbersDiffer ==
    \A a, b \in net \cup Own(db) :
      a.epoch = b.epoch /\ a.seq = b.seq /\ a.epoch \notin exposed => a = b

(* Every new event is above all that is recorded.                            *)
SignInv ==
    /\ up # "down" => em.epoch = db.epoch
    /\ phase # "idle" => up = "up" /\ cur \in Own(db)
    /\ disk.events \subseteq db.events
    /\ \A e \in db.events : e.epoch <= db.epoch
    /\ \A e \in disk.events : e.epoch <= disk.epoch
    /\ file # None => file.by = "me"
    /\ \A f \in net : f.by = "me"
    /\ phase = "processed" /\ file # None => Below(file, cur)
    /\ AllRecorded /\ NumbersDiffer

(* The counters of m against the unconfirmed events U and the senders X.     *)
SentBy(U, s) == {e \in U : e.sender = s}

GasIn(U) == MapThenSumSet(GasPowerUsed, U)

Counted(U, m, X) ==
    /\ m.pendingGas \in Nat /\ m.pendingGas <= GasIn(U)
    /\ \A s \in DOMAIN m.originatedTxs : m.originatedTxs[s] \in Nat \ {0}
    /\ \A s \in X : TotalOf(m.originatedTxs, s) <= Cardinality(SentBy(U, s))
    /\ m.exact => /\ m.pendingGas = GasIn(U)
                  /\ \A s \in X : TotalOf(m.originatedTxs, s) = Cardinality(SentBy(U, s))

(* What a store keeps: a new event, whose number is nextId, is in none.      *)
Keeps(d) ==
    /\ DOMAIN d = {"epoch", "events", "confirmed"}
    /\ IsFiniteSet(d.events) /\ d.confirmed \subseteq d.events
    /\ \A e \in d.events : e.id \in 0..nextId - 1

IsEmitter(m) ==
    DOMAIN m = {"epoch", "isValidator", "prevLocalEmittedID", "originatedTxs", "pendingGas",
                "exact", "max", "protection"}

(* While the node is up its counters are right, and no event is counted      *)
(* twice or confirmed before it is connected, whatever a crash brings back.  *)
CountInv(X) ==
    /\ nextId \in Nat /\ Keeps(db) /\ Keeps(disk) /\ \A e \in net : e.id \in 0..nextId - 1
    /\ IsEmitter(em)
    /\ up = "up" /\ em.isValidator => Counted(Unconfirmed(db), em, X)
=============================================================================
