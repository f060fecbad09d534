------------------------------ MODULE EventProc ------------------------------
(* How an event gets into the DAG of a node: the checks a peer's event goes  *)
(* through (gossip/handler.go makeProcessor, eventcheck), Service.           *)
(* processEvent under engineMu (gossip/c_event_callbacks.go), the epoch      *)
(* database with the heads and last events (gossip/store_epoch.go), Commit,  *)
(* crash, restart and Stop.  Checks, RPC calls and the gas price oracle read *)
(* the store without the mutex, so processEvent is a sequence of steps.      *)
EXTENDS Integers, FiniteSets

CONSTANTS Event,      \* events that peers or the emitter may deliver
          Own,        \* events of this node's emitter
          EpochOf,    \* [Event -> epoch]
          Creator,    \* [Event -> validator]
          Parents,    \* [Event -> SUBSET Event]
          Lamport,    \* [Event -> Nat]
          WrongHash,  \* events with a wrong hash of the epoch state
          Invalid,    \* events that processSavedEvent rejects
          MaxEpoch    \* bound on the number of epochs

ASSUME EventAssumption ==
    /\ Own \subseteq Event /\ MaxEpoch \in Nat
    /\ Invalid \subseteq Event /\ WrongHash \subseteq Event
    /\ EpochOf \in [Event -> Nat \ {0}] /\ Lamport \in [Event -> Nat \ {0}]
    /\ Parents \in [Event -> SUBSET Event]
    /\ \A e \in Event : \A p \in Parents[e] :
         EpochOf[p] = EpochOf[e] /\ Lamport[p] < Lamport[e]

VARIABLES es,        \* the published epoch state: its epoch and the data it carries
          events,    \* table Events
          epochDb,   \* the epoch's database: heads, last events and the DAG index
          lamport,   \* HighestLamport
          keys,      \* heavyCheckReader: public keys and their epoch
          gasCtx,    \* gasPowerCheckReader: gas power data and its epoch
          emEpoch,   \* the epoch the emitter works in
          pipe,      \* how far the checks of a peer's event have got
          proc,      \* the running processEvent
          rpc,       \* a call of EthAPIBackend.GetHeads
          stopped,
          disk       \* what the last Commit wrote

vars == <<es, events, epochDb, lamport, keys, gasCtx, emEpoch, pipe, proc, rpc, stopped, disk>>

(* Checking data of an epoch.  Readers get data and epoch as one pair.       *)
EpochData(epoch) == [epoch |-> epoch, data |-> epoch]

EmptyEpochDb(epoch) == [epoch |-> epoch, heads |-> {}, lasts |-> {}, index |-> {}]

Idle == [step |-> "idle"]
NoCall == [step |-> "none"]

PipeStage == {"new", "light", "heavy", "buffered", "ready", "banned"}
-----------------------------------------------------------------------------
Init ==
    /\ es = EpochData(1)
    /\ events = {}
    /\ epochDb = EmptyEpochDb(1)
    /\ lamport = 0
    /\ keys = EpochData(1)
    /\ gasCtx = EpochData(1)
    /\ emEpoch = 1
    /\ pipe = [e \in Event |-> "new"]
    /\ proc = Idle
    /\ rpc = NoCall
    /\ stopped = FALSE
    /\ disk = [es |-> EpochData(1), events |-> {}, epochDb |-> EmptyEpochDb(1), lamport |-> 0]

-----------------------------------------------------------------------------
(* The checks.  A checker compares the epoch of its data with the event's    *)
(* first; data of another epoch would make an honest event look wrong.       *)

(* Mutant: the epoch of the data is not compared. *)
VerdictOfAnyEpoch(e, ctx) == IF ctx.data # EpochOf[e] THEN "ban" ELSE "ok"

Verdict(e, ctx) ==
    IF ctx.epoch # EpochOf[e] THEN "irrelevant"
    ELSE IF ctx.data # EpochOf[e] THEN "ban" ELSE "ok"

(* One check of e at stage from: passed on, dropped (a peer may deliver it   *)
(* again) or its peer banned.                                                *)
Check(e, ctx, from, to) ==
    /\ pipe[e] = from
    /\ pipe' = [pipe EXCEPT ![e] = CASE Verdict(e, ctx) = "ok" -> to
                                     [] Verdict(e, ctx) = "ban" -> "banned"
                                     [] OTHER -> "new"]

KeepNode == UNCHANGED <<es, events, epochDb, lamport, keys, gasCtx, emEpoch, proc, rpc, stopped, disk>>

(* lightCheck: epochcheck reads the validators, then the rules.              *)
CheckValidators(e) ==
    /\ e \notin events
    /\ Check(e, es, "new", "light")
    /\ KeepNode

CheckRules(e) == Check(e, es, "light", "heavy") /\ KeepNode

(* heavycheck.Validate, on a worker of its own.                              *)
CheckSignature(e) == Check(e, keys, "heavy", "buffered") /\ KeepNode

(* bufferedCheck, once the ordering buffer finds all parents in the store.   *)
CheckGasPower(e) ==
    /\ Parents[e] \subseteq events
    /\ Check(e, gasCtx, "buffered", "ready")
    /\ KeepNode

-----------------------------------------------------------------------------
(* processEvent, with engineMu held from Begin to the return to Idle.        *)

Locked == proc.step # "idle"

(* Mutant: the event is not saved. *)
ProcessBeginUnsaved(e) ==
    IF e \in events \/ Verdict(e, es) # "ok" \/ e \in WrongHash
    THEN /\ pipe' = [pipe EXCEPT ![e] = "new"]
         /\ UNCHANGED <<events, proc>>
    ELSE /\ proc' = [step |-> "engine", event |-> e, oldEpoch |-> es.epoch]
         /\ UNCHANGED <<events, pipe>>

(* The repeated checks; the event is saved before it is validated.           *)
ProcessBegin(e) ==
    IF e \in events \/ Verdict(e, es) = "irrelevant"
    THEN /\ pipe' = [pipe EXCEPT ![e] = "new"]
         /\ UNCHANGED <<events, proc>>
    ELSE IF Verdict(e, es) = "ban" \/ e \in WrongHash
    THEN /\ events' = events \ {e}
         /\ pipe' = [pipe EXCEPT ![e] = "banned"]
         /\ UNCHANGED proc
    ELSE /\ events' = events \cup {e}
         /\ proc' = [step |-> "engine", event |-> e, oldEpoch |-> es.epoch]
         /\ UNCHANGED pipe

BeginPeerEvent(e) ==
    /\ ~Locked /\ ~stopped
    /\ pipe[e] = "ready"
    /\ ProcessBegin(e)
    /\ UNCHANGED <<es, epochDb, lamport, keys, gasCtx, emEpoch, rpc, stopped, disk>>

(* The emitter's event, checked and processed under the same lock.           *)
BeginOwnEvent(e) ==
    /\ ~Locked /\ ~stopped
    /\ e \in Own \ events /\ EpochOf[e] = emEpoch
    /\ Parents[e] \subseteq epochDb.index
    /\ \A ctx \in {es, keys, gasCtx} : Verdict(e, ctx) = "ok"
    /\ ProcessBegin(e)
    /\ UNCHANGED <<es, epochDb, lamport, keys, gasCtx, emEpoch, rpc, stopped, disk>>

(* Mutant: a rejected event stays in the store. *)
DropKeepsEvent(e) ==
    /\ proc' = Idle
    /\ pipe' = [pipe EXCEPT ![e] = "banned"]
    /\ UNCHANGED <<es, events, epochDb, lamport, keys, gasCtx, emEpoch, rpc, stopped, disk>>

(* The event failed: DelEvent and DropNotFlushed undo SetEvent and Add.      *)
Drop(e) ==
    /\ events' = events \ {e}
    /\ proc' = Idle
    /\ pipe' = [pipe EXCEPT ![e] = "banned"]
    /\ UNCHANGED <<es, epochDb, lamport, keys, gasCtx, emEpoch, rpc, stopped, disk>>

(* The engine took the event, perhaps deciding a block that seals the epoch  *)
(* (EndBlock publishes the new epoch state before it returns).               *)
Accept(e, seal) ==
    /\ seal => es.epoch < MaxEpoch
    /\ es' = IF seal THEN EpochData(es.epoch + 1) ELSE es
    /\ epochDb' = [epochDb EXCEPT !.index = @ \cup {e}]
    /\ proc' = [proc EXCEPT !.step = "heads"]
    /\ UNCHANGED <<events, lamport, keys, gasCtx, emEpoch, pipe, rpc, stopped, disk>>

(* Mutant: the event is connected before all its parents are. *)
SaveAndProcessUnordered ==
    /\ proc.step = "engine"
    /\ LET e == proc.event IN
       IF e \in Invalid THEN Drop(e) ELSE \E seal \in BOOLEAN : Accept(e, seal)

(* processSavedEvent rejects an event with an unindexed parent, a wrong      *)
(* median time or frame.                                                     *)
SaveAndProcess ==
    /\ proc.step = "engine"
    /\ LET e == proc.event IN
       IF e \in Invalid \/ ~(Parents[e] \subseteq epochDb.index) THEN Drop(e)
       ELSE \E seal \in BOOLEAN : Accept(e, seal)

ProcessEventHeads(heads, e) == (heads \ Parents[e]) \cup {e}

(* Mutant: the validator's first event is kept. *)
KeepLastEvent(lasts, e) ==
    IF \E l \in lasts : l[1] = Creator[e] THEN lasts ELSE lasts \cup {<<Creator[e], e>>}

(* Last events as pairs <<validator, event>>.                                *)
ProcessLastEvent(lasts, e) == {l \in lasts : l[1] # Creator[e]} \cup {<<Creator[e], e>>}

(* Mutant: "none yet" is stored as -1. *)
HighestLamportNone(e) ==
    IF es.epoch # proc.oldEpoch THEN -1
    ELSE IF Lamport[e] > lamport THEN Lamport[e] ELSE lamport

HighestLamport(e) ==
    IF es.epoch # proc.oldEpoch THEN 0
    ELSE IF Lamport[e] > lamport THEN Lamport[e] ELSE lamport

IndexEvent ==
    LET e == proc.event IN
    /\ proc.step = "heads"
    /\ epochDb' = IF epochDb.epoch = proc.oldEpoch
                  THEN [epochDb EXCEPT !.heads = ProcessEventHeads(@, e),
                                       !.lasts = ProcessLastEvent(@, e)]
                  ELSE epochDb
    /\ lamport' = HighestLamport(e)
    /\ proc' = [proc EXCEPT !.step = IF es.epoch # proc.oldEpoch THEN "reset" ELSE "commit"]
    /\ UNCHANGED <<es, events, keys, gasCtx, emEpoch, pipe, rpc, stopped, disk>>

(* Mutant: the new epoch's database starts with the old heads. *)
ResetEpochStoreKeepsHeads ==
    /\ proc.step = "reset"
    /\ epochDb' = [epochDb EXCEPT !.epoch = es.epoch, !.index = {}]
    /\ proc' = [proc EXCEPT !.step = "gas"]
    /\ UNCHANGED <<es, events, lamport, keys, gasCtx, emEpoch, pipe, rpc, stopped, disk>>

(* A new epoch: the epoch's database is replaced, then the checkers and the  *)
(* emitter are told, each in a step of its own.                              *)
ResetEpochStore ==
    /\ proc.step = "reset"
    /\ epochDb' = EmptyEpochDb(es.epoch)
    /\ proc' = [proc EXCEPT !.step = "gas"]
    /\ UNCHANGED <<es, events, lamport, keys, gasCtx, emEpoch, pipe, rpc, stopped, disk>>

SetGasPowerContext ==
    /\ proc.step = "gas"
    /\ gasCtx' = es
    /\ proc' = [proc EXCEPT !.step = "keys"]
    /\ UNCHANGED <<es, events, epochDb, lamport, keys, emEpoch, pipe, rpc, stopped, disk>>

(* Mutant: the public keys are published under the previous epoch. *)
SetStaleEpochPubKeys ==
    /\ proc.step = "keys"
    /\ keys' = [epoch |-> proc.oldEpoch, data |-> es.data]
    /\ proc' = [proc EXCEPT !.step = "emitter"]
    /\ UNCHANGED <<es, events, epochDb, lamport, gasCtx, emEpoch, pipe, rpc, stopped, disk>>

SetEpochPubKeys ==
    /\ proc.step = "keys"
    /\ keys' = es
    /\ proc' = [proc EXCEPT !.step = "emitter"]
    /\ UNCHANGED <<es, events, epochDb, lamport, gasCtx, emEpoch, pipe, rpc, stopped, disk>>

EmitterOnNewEpoch ==
    /\ proc.step = "emitter"
    /\ emEpoch' = es.epoch
    /\ proc' = [proc EXCEPT !.step = "commit"]
    /\ UNCHANGED <<es, events, epochDb, lamport, keys, gasCtx, pipe, rpc, stopped, disk>>

(* Mutant: the caches of heads and last events are not written. *)
CommitWithoutCaches ==
    disk' = [es |-> es, events |-> events, lamport |-> lamport,
             epochDb |-> [epochDb EXCEPT !.heads = disk.epochDb.heads]]

(* Store.Commit writes the caches and flushes all databases together.        *)
Commit == disk' = [es |-> es, events |-> events, epochDb |-> epochDb, lamport |-> lamport]

(* IsCommitNeeded depends on the time and the size of what is not flushed.   *)
Finish ==
    /\ proc.step = "commit"
    /\ Commit \/ UNCHANGED disk
    /\ proc' = Idle
    /\ pipe' = [pipe EXCEPT ![proc.event] = "new"]
    /\ UNCHANGED <<es, events, epochDb, lamport, keys, gasCtx, emEpoch, rpc, stopped>>

-----------------------------------------------------------------------------
(* Mutant: Stop does not flush. *)
StopUnflushed ==
    /\ ~Locked /\ ~stopped
    /\ stopped' = TRUE
    /\ UNCHANGED <<es, events, epochDb, lamport, keys, gasCtx, emEpoch, pipe, proc, rpc, disk>>

(* Service.Stop, once it has the lock.                                       *)
Stop ==
    /\ ~Locked /\ ~stopped
    /\ stopped' = TRUE
    /\ Commit
    /\ UNCHANGED <<es, events, epochDb, lamport, keys, gasCtx, emEpoch, pipe, proc, rpc>>

(* The process ends, by a crash or after Stop, and newService loads what was *)
(* committed.                                                                *)
Restart ==
    /\ es' = disk.es
    /\ events' = disk.events
    /\ epochDb' = disk.epochDb
    /\ lamport' = disk.lamport
    /\ keys' = disk.es
    /\ gasCtx' = disk.es
    /\ emEpoch' = disk.es.epoch
    /\ pipe' = [e \in Event |-> "new"]
    /\ proc' = Idle
    /\ rpc' = NoCall
    /\ stopped' = FALSE
    /\ UNCHANGED disk

-----------------------------------------------------------------------------
(* EthAPIBackend.GetHeads reads the current epoch, then (epochWithDefault)   *)
(* the epoch again, then the epoch's database.                               *)
RpcOnly == UNCHANGED <<es, events, epochDb, lamport, keys, gasCtx, emEpoch, pipe, proc, stopped, disk>>

GetHeads(arg) ==
    /\ rpc.step \notin {"current", "requested"}
    /\ rpc' = [step |-> "current", arg |-> arg, epoch |-> es.epoch]
    /\ RpcOnly

EpochWithDefault ==
    LET requested == IF rpc.arg = "pending" THEN es.epoch ELSE es.epoch - 1 IN
    /\ rpc.step = "current"
    /\ rpc' = [rpc EXCEPT !.step = IF requested = rpc.epoch THEN "requested" ELSE "unavailable"]
    /\ RpcOnly

(* GetHeadsSlice dereferences the heads of a database that may be missing.   *)
GetHeadsSlice ==
    /\ rpc.step = "requested"
    /\ rpc' = IF epochDb.epoch = rpc.epoch
              THEN [step |-> "returned", arg |-> rpc.arg, epoch |-> rpc.epoch, heads |-> epochDb.heads]
              ELSE [rpc EXCEPT !.step = "nil"]
    /\ RpcOnly

-----------------------------------------------------------------------------
CheckEvent ==
    \E e \in Event : CheckValidators(e) \/ CheckRules(e) \/ CheckSignature(e) \/ CheckGasPower(e)

ProcessEvent ==
    \/ \E e \in Event : BeginPeerEvent(e) \/ BeginOwnEvent(e)
    \/ SaveAndProcess
    \/ IndexEvent
    \/ ResetEpochStore
    \/ SetGasPowerContext
    \/ SetEpochPubKeys
    \/ EmitterOnNewEpoch
    \/ Finish

Rpc ==
    \/ \E arg \in {"pending", "latest"} : GetHeads(arg)
    \/ EpochWithDefault
    \/ GetHeadsSlice

Step == CheckEvent \/ ProcessEvent \/ Stop

Next == Step \/ Rpc \/ Restart

Spec == Init /\ [][Next]_vars
-----------------------------------------------------------------------------
(* Properties.                                                               *)

EpochDataType == [epoch : Nat, data : Nat]

EpochDbType == [epoch : Nat, heads : SUBSET Event, index : SUBSET Event,
                lasts : SUBSET ({Creator[e] : e \in Event} \X Event)]

ProcType == [step : {"engine", "heads", "reset", "gas", "keys", "emitter", "commit"},
             event : Event, oldEpoch : Nat]

CallType == [step : {"current", "requested", "unavailable", "nil"},
             arg : {"pending", "latest"}, epoch : Nat]

ReturnType == [step : {"returned"}, arg : {"pending", "latest"}, epoch : Nat,
               heads : SUBSET Event]

(* Type invariant.                                                           *)
TypeOK ==
    /\ es \in EpochDataType /\ keys \in EpochDataType /\ gasCtx \in EpochDataType
    /\ events \in SUBSET Event
    /\ epochDb \in EpochDbType
    /\ lamport \in Nat /\ emEpoch \in Nat
    /\ pipe \in [Event -> PipeStage]
    /\ proc \in {Idle} \cup ProcType
    /\ rpc \in {NoCall} \cup CallType \cup ReturnType
    /\ stopped \in BOOLEAN
    /\ disk \in [es : EpochDataType, events : SUBSET Event, epochDb : EpochDbType, lamport : Nat]

(* The events that are valid and have only valid ancestors.                  *)
Honest == UNION {S \in SUBSET Event : /\ S \cap (Invalid \cup WrongHash) = {}
                                      /\ \A e \in S : Parents[e] \subseteq S}

(* The peer of an honest event is never banned, however the checks of the    *)
(* event interleave with an epoch change: epochcheck compares epochs again   *)
(* "to prevent a race condition", as do heavycheck and gaspowercheck.        *)
NoFalseBan == \A e \in Honest : pipe[e] # "banned"

(* Whenever engineMu is free, the store, the epoch's database, the checkers  *)
(* and the emitter all work in the same epoch.                               *)
ContextsAgree ==
    ~Locked => /\ epochDb.epoch = es.epoch /\ emEpoch = es.epoch
               /\ keys = es /\ gasCtx = es

(* Stored events of the epoch that no other stored event has as parent.      *)
Tips(stored, epoch) ==
    {e \in stored : EpochOf[e] = epoch /\ \A f \in stored : e \notin Parents[f]}

EpochEvents(stored, epoch) == {e \in stored : EpochOf[e] = epoch}

(* A consistent state of the DAG: the index holds the epoch's events, heads  *)
(* are its tips, the highest Lamport time is that of its events.             *)
Consistent(epoch, stored, db, highest) ==
    /\ db.epoch = epoch
    /\ db.index = EpochEvents(stored, epoch)
    /\ db.heads = Tips(stored, epoch)
    /\ \A e \in EpochEvents(stored, epoch) : Lamport[e] <= highest
    /\ highest # 0 => \E e \in EpochEvents(stored, epoch) : Lamport[e] = highest

(* Between events the indexes describe exactly the stored DAG: nothing is    *)
(* left of a rejected event and nothing is lost at an epoch change.          *)
DagIsConsistent == ~Locked => Consistent(es.epoch, events, epochDb, lamport)

(* What a restart finds is such a state, wherever the node crashed.          *)
DiskIsConsistent == Consistent(disk.es.epoch, disk.events, disk.epochDb, disk.lamport)

(* Every head and last event is in the store at any moment, also for readers *)
(* without the lock: GPOBackend.TotalGasPowerLeft dereferences the last      *)
(* events, createEvent exits the process for a head that is not found.       *)
TipsAreStored ==
    /\ epochDb.heads \subseteq events
    /\ \A l \in epochDb.lasts : l[2] \in events

(* A stored event that is not being processed has all its parents stored.    *)
ParentsAreStored ==
    \A e \in events : (Locked => e # proc.event) => Parents[e] \subseteq events

(* The last event of a validator that does not fork is its latest connected *)
(* event, which the emitter continues and the gas price oracle reads.        *)
LastEventsAreLast ==
    proc.step # "heads" =>
      \A e \in epochDb.index : \E l \in epochDb.lasts :
         l[1] = Creator[e] /\ Creator[l[2]] = Creator[e] /\ Lamport[e] <= Lamport[l[2]]

(* After Stop the disk has everything: nothing is processed after the flush. *)
StoppedIsFlushed ==
    stopped => disk = [es |-> es, events |-> events, epochDb |-> epochDb, lamport |-> lamport]

(* GetHeads returns only connected events of the epoch asked for, never one  *)
(* that is still being validated or of a database that was replaced.         *)
GetHeadsConnected ==
    rpc.step = "returned" => /\ rpc.heads \cap (Invalid \cup WrongHash) = {}
                             /\ \A e \in rpc.heads : EpochOf[e] = rpc.epoch

(* The DAG in memory at any step: the type invariant, one epoch everywhere,  *)
(* indexes that describe the stored events, and no dangling head, last event *)
(* or parent.                                                                *)
DagIsSound ==
    /\ TypeOK /\ ContextsAgree
    /\ DagIsConsistent /\ TipsAreStored /\ ParentsAreStored

(* The DAG on disk, wherever the node crashes or is stopped.                 *)
DiskIsSound == DiskIsConsistent /\ StoppedIsFlushed

(* "When epoch is -2 the heads for latest epoch are returned"                *)
(* (ethapi_backend.go:178): no such call fails.                              *)
PendingHeadsReturned ==
    rpc.step \in {"unavailable", "nil"} => rpc.arg # "pending"

-----------------------------------------------------------------------------
(* The inductive invariant behind the properties.                            *)

(* A consistent DAG that is closed under parents and ends in the epoch.      *)
Good(epoch, stored, db, highest) ==
    /\ Consistent(epoch, stored, db, highest)
    /\ \A f \in stored : EpochOf[f] <= epoch /\ Parents[f] \subseteq stored
    /\ \A l \in db.lasts : l[2] \in db.index

(* How far the store is from a good DAG at each step of processEvent: before *)
(* the engine's verdict and before the heads are updated it is one without   *)
(* the event; between the heads and the new epoch's database the old         *)
(* database still shows.                                                     *)
DagInv ==
    /\ proc.step \in {"idle", "gas", "keys", "emitter", "commit"} =>
         Good(es.epoch, events, epochDb, lamport)
    /\ proc.step \in {"engine", "heads"} =>
         /\ proc.event \in events /\ EpochOf[proc.event] = proc.oldEpoch
         /\ Good(proc.oldEpoch, events \ {proc.event},
                 [epochDb EXCEPT !.index = @ \ {proc.event}], lamport)
    /\ proc.step = "engine" => proc.event \notin epochDb.index
    /\ proc.step = "heads" =>
         /\ proc.event \in epochDb.index /\ Parents[proc.event] \subseteq epochDb.index
         /\ es.epoch \in {proc.oldEpoch, proc.oldEpoch + 1}
    /\ proc.step = "reset" =>
         /\ es.epoch = proc.oldEpoch + 1 /\ lamport = 0
         /\ \A f \in events : EpochOf[f] < es.epoch /\ Parents[f] \subseteq events
         /\ epochDb.heads \subseteq events
         /\ \A l \in epochDb.lasts : l[2] \in events
    /\ Good(disk.es.epoch, disk.events, disk.epochDb, disk.lamport)

(* The pairs of data and epoch match, and which of them have moved on.       *)
ContextInv ==
    /\ es.data = es.epoch /\ disk.es.data = disk.es.epoch
    /\ proc.step \in {"idle", "engine", "commit"} =>
         keys = es /\ gasCtx = es /\ emEpoch = es.epoch
    /\ proc.step = "engine" => proc.oldEpoch = es.epoch
    /\ proc.step \in {"heads", "reset", "gas"} =>
         /\ keys = EpochData(proc.oldEpoch) /\ gasCtx = EpochData(proc.oldEpoch)
         /\ emEpoch = proc.oldEpoch
    /\ proc.step = "keys" => keys = EpochData(proc.oldEpoch) /\ gasCtx = es
    /\ proc.step = "emitter" => keys = es /\ gasCtx = es
    /\ stopped => proc = Idle

(* An honest event that may be processed has its parents, and keeps them.    *)
PipeInv ==
    /\ \A e \in Honest :
         /\ pipe[e] # "banned"
         /\ pipe[e] = "ready" => Parents[e] \subseteq events
    /\ proc.step = "engine" /\ proc.event \in Honest => Parents[proc.event] \subseteq epochDb.index

EventInv == DagInv /\ ContextInv /\ PipeInv /\ StoppedIsFlushed

(* No validator forks: of two of its events in an epoch, one is built on the *)
(* other or on a later one of its own.                                       *)
BuiltOn(f, e) == \E p \in Parents[f] : Creator[p] = Creator[f] /\ Lamport[e] <= Lamport[p]

NoForks ==
    \A e, f \in Event : Creator[e] = Creator[f] /\ EpochOf[e] = EpochOf[f] /\ e # f =>
        BuiltOn(e, f) \/ BuiltOn(f, e)

(* The last events cover the events of the index.                            *)
Covered(index, lasts) ==
    \A e \in index : \E l \in lasts :
       l[1] = Creator[e] /\ Creator[l[2]] = Creator[e] /\ Lamport[e] <= Lamport[l[2]]

LastInv ==
    /\ proc.step # "heads" => Covered(epochDb.index, epochDb.lasts)
    /\ proc.step = "heads" => Covered(epochDb.index \ {proc.event}, epochDb.lasts)
    /\ Covered(disk.epochDb.index, disk.epochDb.lasts)

(* Heads are valid events of the database's epoch, also those on disk and    *)
(* those that a call has read.                                               *)
ValidOf(heads, epoch) ==
    \A e \in heads : e \notin Invalid \cup WrongHash /\ EpochOf[e] = epoch

HeadsInv ==
    /\ ValidOf(epochDb.heads, epochDb.epoch) /\ ValidOf(disk.epochDb.heads, disk.epochDb.epoch)
    /\ rpc.step = "returned" => ValidOf(rpc.heads, rpc.epoch)
    /\ proc.step \in {"engine", "heads"} => proc.event \notin WrongHash
    /\ proc.step = "heads" => proc.event \notin Invalid
=============================================================================
