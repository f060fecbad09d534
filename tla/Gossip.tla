-------------------------------- MODULE Gossip --------------------------------
(* Two connected nodes exchange events and transactions: handleMsg and the   *)
(* broadcasts (gossip/handler.go), the send queue with its semaphore and the *)
(* sets of what the other side knows (gossip/peer.go).  Broadcasts never     *)
(* wait and are dropped when the queue is full; answers wait for the queue;  *)
(* requests, streams and transaction syncs are written directly.  The        *)
(* fetchers, the leecher and the seeder are external.                        *)
EXTENDS Integers, Sequences, FiniteSets

CONSTANTS Event, Parents, Lamport,  \* events, [Event -> SUBSET Event], [Event -> Nat]
          Tx,
          Window,      \* Lamport distance beyond which events are too high
          SoftLimit,   \* events in one answer
          MaxQueued,   \* PeerCacheConfig.MaxQueuedItems
          MaxKnown,    \* MaxKnownEvents, MaxKnownTxs
          WireCap,     \* messages the connection takes before Send blocks
          MaxFaults    \* bound: semaphore timeouts

Node == {"a", "b"}
Other(n) == CHOOSE o \in Node : o # n

ASSUME GossipAssumption ==
    /\ Parents \in [Event -> SUBSET Event] /\ Lamport \in [Event -> Nat]
    /\ {Window, SoftLimit, MaxQueued, MaxKnown, WireCap, MaxFaults} \subseteq Nat
    /\ MaxQueued > 0 /\ MaxKnown > 1 /\ WireCap > 0 /\ SoftLimit > 0

VARIABLES todo,      \* events and transactions that node a will originate
          store, pool,
          synced,    \* whether announcements and transactions are processed
          progress,  \* whether the other side's progress has arrived
          known,     \* knownEvents and knownTxs of the other side, as one set
          queue, sem, writer,  \* the send queue, its semaphore, the broadcast goroutine
          answer,    \* what the message handler is waiting to enqueue
          wire,      \* messages on their way to a node
          wanted,    \* announced items the fetchers are after
          buffer,    \* events in the processor, waiting for their parents
          stream,    \* the leecher's session and the seeder's pending request
          faults

node == <<store, pool, synced, progress, wanted, buffer>>
vars == <<todo, store, pool, synced, progress, known, queue, sem, writer, answer, wire,
          wanted, buffer, stream, faults>>

Nothing == [kind |-> "none", items |-> {}]
Msg(kind, items) == [kind |-> kind, items |-> items]
Highest(n) == IF store[n] = {} THEN 0
              ELSE CHOOSE l \in {Lamport[e] : e \in store[n]} : \A e \in store[n] : Lamport[e] <= l
-----------------------------------------------------------------------------
(* Node a has handled b's first progress; the one a has sent after its       *)
(* handshake is on its way.                                                  *)
Init ==
    /\ todo \in {Event, Tx}
    /\ store = [n \in Node |-> {}] /\ pool = [n \in Node |-> {}]
    /\ synced = [n \in Node |-> n = "a"] /\ progress = [n \in Node |-> n = "a"]
    /\ known = [n \in Node |-> {}]
    /\ queue = [n \in Node |-> <<>>] /\ sem = [n \in Node |-> 0]
    /\ writer = [n \in Node |-> Nothing] /\ answer = [n \in Node |-> Nothing]
    /\ wire = [n \in Node |-> IF n = "a" THEN <<>> ELSE <<Msg("progress", {})>>]
    /\ wanted = [n \in Node |-> {}] /\ buffer = [n \in Node |-> {}]
    /\ stream = [asked |-> FALSE, seed |-> FALSE]
    /\ faults = 0
-----------------------------------------------------------------------------
(* The sets of known items.  Which items Pop drops is arbitrary.             *)

(* MarkEvent, MarkTransaction: make room, then add.                          *)
Marked(n, items) ==
    {k \in SUBSET (known[n] \cup items) :
        /\ items \subseteq k
        /\ Cardinality(k) = IF Cardinality(known[n] \cup items) <= MaxKnown
                            THEN Cardinality(known[n] \cup items) ELSE MaxKnown}

(* The senders: add, then drop until the set is below its limit.             *)
SentKnown(n, items) ==
    {k \in SUBSET (known[n] \cup items) :
        Cardinality(k) = IF Cardinality(known[n] \cup items) < MaxKnown
                         THEN Cardinality(known[n] \cup items) ELSE MaxKnown - 1}

-----------------------------------------------------------------------------
(* The send queue.                                                           *)

(* asyncSendEncodedItem with the senders' bookkeeping: known only if queued. *)
AsyncSend(n, msg) ==
    IF sem[n] < MaxQueued /\ Len(queue[n]) < MaxQueued
    THEN /\ sem' = [sem EXCEPT ![n] = @ + 1]
         /\ queue' = [queue EXCEPT ![n] = Append(@, msg)]
         /\ \E k \in SentKnown(n, msg.items) : known' = [known EXCEPT ![n] = k]
    ELSE UNCHANGED <<sem, queue, known>>

(* Mutant: the semaphore is released before the item is written. *)
TakeReleases(n) ==
    /\ writer[n] = Nothing /\ queue[n] # <<>>
    /\ writer' = [writer EXCEPT ![n] = Head(queue[n])]
    /\ queue' = [queue EXCEPT ![n] = Tail(@)]
    /\ sem' = [sem EXCEPT ![n] = @ - 1]
    /\ UNCHANGED <<todo, node, known, answer, wire, stream, faults>>

(* broadcast: takes an item, writes it, releases the semaphore.              *)
Take(n) ==
    /\ writer[n] = Nothing /\ queue[n] # <<>>
    /\ writer' = [writer EXCEPT ![n] = Head(queue[n])]
    /\ queue' = [queue EXCEPT ![n] = Tail(@)]
    /\ UNCHANGED <<todo, node, known, sem, answer, wire, stream, faults>>

Write(n) ==
    /\ writer[n] # Nothing /\ Len(wire[Other(n)]) < WireCap
    /\ wire' = [wire EXCEPT ![Other(n)] = Append(@, writer[n])]
    /\ writer' = [writer EXCEPT ![n] = Nothing]
    /\ sem' = [sem EXCEPT ![n] = @ - 1]
    /\ UNCHANGED <<todo, node, known, queue, answer, stream, faults>>

(* enqueueSendEncodedItem in the message handler: acquire, then push.        *)
Acquire(n) ==
    /\ answer[n].kind \in {"events", "txs"} /\ sem[n] < MaxQueued
    /\ sem' = [sem EXCEPT ![n] = @ + 1]
    /\ answer' = [answer EXCEPT ![n] = Msg("push", @)]
    /\ UNCHANGED <<todo, node, known, queue, writer, wire, stream, faults>>

Push(n) ==
    /\ answer[n].kind = "push" /\ Len(queue[n]) < MaxQueued
    /\ queue' = [queue EXCEPT ![n] = Append(@, answer[n].items)]
    /\ \E k \in SentKnown(n, answer[n].items.items) : known' = [known EXCEPT ![n] = k]
    /\ answer' = [answer EXCEPT ![n] = Nothing]
    /\ UNCHANGED <<todo, node, sem, writer, wire, stream, faults>>

(* The semaphore was not free in time: nothing is sent, and the items are    *)
(* marked as known all the same.                                             *)
AcquireTimeout(n) ==
    /\ answer[n].kind \in {"events", "txs"} /\ sem[n] = MaxQueued /\ faults < MaxFaults
    /\ faults' = faults + 1
    /\ \E k \in SentKnown(n, answer[n].items) : known' = [known EXCEPT ![n] = k]
    /\ answer' = [answer EXCEPT ![n] = Nothing]
    /\ UNCHANGED <<todo, node, queue, sem, writer, wire, stream>>

-----------------------------------------------------------------------------
(* Broadcasts.  decideBroadcastAggressiveness picks who gets the full item.  *)

AsyncSendTransactions(n, txs) == AsyncSend(n, Msg("txs", txs))
AsyncSendTransactionHashes(n, txs) == AsyncSend(n, Msg("hashes", txs))
AsyncSendEventIDs(n, ids) == AsyncSend(n, Msg("ids", ids))
AsyncSendEvents(n, events) == AsyncSend(n, Msg("events", events))
AsyncSendProgress(n) == AsyncSend(n, Msg("progress", {}))

InterestedIn(n, e) == progress[n] /\ e \notin known[n]

BroadcastEvent(n, e) ==
    IF InterestedIn(n, e)
    THEN AsyncSendEvents(n, {e}) \/ AsyncSendEventIDs(n, {e})
    ELSE UNCHANGED <<sem, queue, known>>

BroadcastTxs(n, txs) ==
    IF txs \ known[n] # {}
    THEN AsyncSendTransactions(n, txs \ known[n]) \/ AsyncSendTransactionHashes(n, txs \ known[n])
    ELSE UNCHANGED <<sem, queue, known>>

(* broadcastProgress.                                                        *)
BroadcastProgress(n) ==
    /\ sem[n] < MaxQueued
    /\ AsyncSendProgress(n)
    /\ UNCHANGED <<todo, node, writer, answer, wire, stream, faults>>

(* An event of the processor whose parents are connected (or one the node    *)
(* emits itself) is connected, and broadcast if the node is synced.          *)
Connect(n, e) ==
    /\ Parents[e] \subseteq store[n]
    /\ store' = [store EXCEPT ![n] = @ \cup {e}]
    /\ buffer' = [buffer EXCEPT ![n] = @ \ {e}]
    /\ IF synced[n] THEN BroadcastEvent(n, e) ELSE UNCHANGED <<sem, queue, known>>
    /\ UNCHANGED <<pool, synced, progress, wanted, writer, answer, wire, stream, faults>>

Originate(e) ==
    /\ e \in todo \cap Event /\ todo' = todo \ {e}
    /\ Connect("a", e)

Process(n, e) == e \in buffer[n] /\ Connect(n, e) /\ UNCHANGED todo

OriginateTx(t) ==
    /\ t \in todo \cap Tx /\ todo' = todo \ {t}
    /\ pool' = [pool EXCEPT !["a"] = @ \cup {t}]
    /\ BroadcastTxs("a", {t})
    /\ UNCHANGED <<store, synced, progress, wanted, buffer, writer, answer, wire, stream, faults>>

-----------------------------------------------------------------------------
(* Direct writes: requests of the fetchers, streams, transaction syncs.      *)

Send(n, msg) ==
    /\ Len(wire[Other(n)]) < WireCap
    /\ wire' = [wire EXCEPT ![Other(n)] = Append(@, msg)]

(* The fetchers (external) ask again until the items have arrived.           *)
RequestEvents(n) ==
    /\ wanted[n] \cap Event # {}
    /\ Send(n, Msg("getEvents", wanted[n] \cap Event))
    /\ UNCHANGED <<todo, node, known, queue, sem, writer, answer, stream, faults>>

RequestTransactions(n) ==
    /\ wanted[n] \cap Tx # {}
    /\ Send(n, Msg("getTxs", wanted[n] \cap Tx))
    /\ UNCHANGED <<todo, node, known, queue, sem, writer, answer, stream, faults>>

(* Mutant: hashes the other side is marked to know are left out. *)
SyncUnknownTransactions(n) ==
    /\ synced[n] /\ pool[n] \ known[n] # {}
    /\ Send(n, Msg("hashes", pool[n] \ known[n]))
    /\ \E k \in SentKnown(n, pool[n]) : known' = [known EXCEPT ![n] = k]
    /\ UNCHANGED <<todo, node, queue, sem, writer, answer, stream, faults>>

(* A tick of txBroadcastLoop and the sync loop: SendTransactionHashes.       *)
SyncTransactions(n) ==
    /\ synced[n] /\ pool[n] # {}
    /\ Send(n, Msg("hashes", pool[n]))
    /\ \E k \in SentKnown(n, pool[n]) : known' = [known EXCEPT ![n] = k]
    /\ UNCHANGED <<todo, node, queue, sem, writer, answer, stream, faults>>

(* Node b's leecher (external) asks for a stream of the epoch's events; it   *)
(* gives up a session that makes no progress.                                *)
RequestEventsStream ==
    /\ ~stream.asked /\ Send("b", Msg("getStream", {}))
    /\ stream' = [stream EXCEPT !.asked = TRUE]
    /\ UNCHANGED <<todo, node, known, queue, sem, writer, answer, faults>>

(* Node a's seeder (external) answers with SendEventsStream: the events.  A  *)
(* chunk of their IDs, which the leecher may ask for instead, would be       *)
(* handled as an announcement is.                                            *)
SendEventsStream ==
    /\ stream.seed /\ Send("a", Msg("chunk", store["a"]))
    /\ \E k \in SentKnown("a", store["a"]) : known' = [known EXCEPT !["a"] = k]
    /\ stream' = [stream EXCEPT !.seed = FALSE]
    /\ UNCHANGED <<todo, node, queue, sem, writer, answer, faults>>

RestartStream ==
    /\ stream.asked /\ ~stream.seed
    /\ stream' = [stream EXCEPT !.asked = FALSE]
    /\ UNCHANGED <<todo, node, known, queue, sem, writer, answer, wire, faults>>

-----------------------------------------------------------------------------
(* handleMsg.                                                                *)

Receive(n, kinds) ==
    /\ answer[n] = Nothing /\ wire[n] # <<>> /\ Head(wire[n]).kind \in kinds
    /\ wire' = [wire EXCEPT ![n] = Tail(@)]

(* The message semaphore was not free in time: the message is dropped.       *)
DropMsg(n) ==
    /\ Receive(n, {"progress", "ids", "events", "hashes", "txs", "getEvents", "getTxs", "getStream", "chunk"})
    /\ faults < MaxFaults /\ faults' = faults + 1
    /\ UNCHANGED <<todo, node, known, queue, sem, writer, answer, stream>>

(* The other side is in our epoch: synced.                                   *)
HandleProgress(n) ==
    /\ Receive(n, {"progress"})
    /\ progress' = [progress EXCEPT ![n] = TRUE]
    /\ synced' = [synced EXCEPT ![n] = TRUE]
    /\ UNCHANGED <<todo, store, pool, wanted, buffer, known, queue, sem, writer, answer, stream, faults>>

Ignore(n) ==
    /\ Receive(n, {"ids", "hashes", "txs"}) /\ ~synced[n]
    /\ UNCHANGED <<todo, node, known, queue, sem, writer, answer, stream, faults>>

(* Mutant: the window ends one Lamport time early. *)
NotTooHighStrict(n, events) == {e \in events : Lamport[e] < Highest(n) + Window}

NotTooHigh(n, events) == {e \in events : Lamport[e] <= Highest(n) + Window}
Interesting(n, events) == events \ (store[n] \cup buffer[n])

(* handleEventHashes.                                                        *)
HandleEventHashes(n) ==
    /\ Receive(n, {"ids"}) /\ synced[n]
    /\ LET ids == Head(wire[n]).items
       IN  /\ \E k \in Marked(n, ids) : known' = [known EXCEPT ![n] = k]
           /\ wanted' = [wanted EXCEPT ![n] = @ \cup Interesting(n, NotTooHigh(n, ids))]
    /\ UNCHANGED <<todo, store, pool, synced, progress, buffer, queue, sem, writer, answer, stream, faults>>

(* handleEvents, of an EventsMsg or a chunk of a stream: events that are not *)
(* too high go to the processor, which announces their missing parents.      *)
HandleEvents(n) ==
    /\ Receive(n, {"events", "chunk"})
    /\ LET events == Head(wire[n]).items
           fresh == Interesting(n, NotTooHigh(n, events))
           missing == Interesting(n, UNION {Parents[e] : e \in fresh}) \ fresh
       IN  /\ \E k \in Marked(n, events) : known' = [known EXCEPT ![n] = k]
           /\ buffer' = [buffer EXCEPT ![n] = @ \cup fresh]
           /\ wanted' = [wanted EXCEPT ![n] = (@ \ events) \cup missing]
           /\ stream' = IF Head(wire[n]).kind = "chunk" THEN [stream EXCEPT !.asked = FALSE] ELSE stream
    /\ UNCHANGED <<todo, store, pool, synced, progress, queue, sem, writer, answer, faults>>

HandleTxHashes(n) ==
    /\ Receive(n, {"hashes"}) /\ synced[n]
    /\ LET ids == Head(wire[n]).items
       IN  /\ \E k \in Marked(n, ids) : known' = [known EXCEPT ![n] = k]
           /\ wanted' = [wanted EXCEPT ![n] = @ \cup (ids \ pool[n])]
    /\ UNCHANGED <<todo, store, pool, synced, progress, buffer, queue, sem, writer, answer, stream, faults>>

(* handleTxs: what the other side has just sent is not broadcast back.       *)
HandleTxs(n) ==
    /\ Receive(n, {"txs"}) /\ synced[n]
    /\ LET txs == Head(wire[n]).items
       IN  /\ \E k \in Marked(n, txs) : known' = [known EXCEPT ![n] = k]
           /\ wanted' = [wanted EXCEPT ![n] = @ \ txs]
           /\ pool' = [pool EXCEPT ![n] = @ \cup txs]
    /\ UNCHANGED <<todo, store, synced, progress, buffer, queue, sem, writer, answer, stream, faults>>

(* GetEvmTxsMsg and GetEventsMsg: what is present is answered, events up to  *)
(* the soft limit, in the order asked for.                                   *)
HandleGetTxs(n) ==
    /\ Receive(n, {"getTxs"})
    /\ LET found == Head(wire[n]).items \cap pool[n]
       IN  answer' = IF found = {} THEN answer ELSE [answer EXCEPT ![n] = Msg("txs", found)]
    /\ UNCHANGED <<todo, node, known, queue, sem, writer, stream, faults>>

HandleGetEvents(n) ==
    /\ Receive(n, {"getEvents"})
    /\ LET found == Head(wire[n]).items \cap store[n]
       IN  \E part \in SUBSET found :
              /\ Cardinality(part) = IF Cardinality(found) < SoftLimit THEN Cardinality(found) ELSE SoftLimit
              /\ answer' = IF part = {} THEN answer ELSE [answer EXCEPT ![n] = Msg("events", part)]
    /\ UNCHANGED <<todo, node, known, queue, sem, writer, stream, faults>>

HandleGetStream(n) ==
    /\ Receive(n, {"getStream"})
    /\ stream' = [stream EXCEPT !.seed = TRUE]
    /\ UNCHANGED <<todo, node, known, queue, sem, writer, answer, faults>>
-----------------------------------------------------------------------------
HandleMsg(n) ==
    \/ HandleProgress(n) \/ Ignore(n) \/ HandleEventHashes(n) \/ HandleEvents(n)
    \/ HandleTxHashes(n) \/ HandleTxs(n) \/ HandleGetTxs(n) \/ HandleGetEvents(n) \/ HandleGetStream(n)

(* The goroutines of a node: message handler, broadcaster, fetchers.         *)
Handler(n) == HandleMsg(n) \/ Acquire(n) \/ Push(n)
Broadcaster(n) == Take(n) \/ Write(n)
Fetcher(n) == RequestEvents(n) \/ RequestTransactions(n)
Processor(n) == \E e \in Event : Process(n, e)

(* Node a originates everything; b's progress is only that of the handshake. *)
Next ==
    \/ \E n \in Node : \/ Handler(n) \/ DropMsg(n) \/ AcquireTimeout(n)
                       \/ Broadcaster(n) \/ Fetcher(n) \/ Processor(n)
    \/ BroadcastProgress("a") \/ SyncTransactions("a")
    \/ \E e \in Event : Originate(e)
    \/ \E t \in Tx : OriginateTx(t)
    \/ RequestEventsStream \/ SendEventsStream \/ RestartStream

(* Goroutines that can run do.  The tickers, the fetchers and the leecher    *)
(* keep coming back, and find room in the queue or on the wire again and     *)
(* again (strong fairness); so does an answer, which is tried for 10 s.      *)
Fairness ==
    /\ SF_vars(Handler("a")) /\ WF_vars(Handler("b")) /\ SF_vars(Broadcaster("a"))
    /\ SF_vars(Fetcher("b")) /\ WF_vars(Processor("b"))
    /\ SF_vars(BroadcastProgress("a")) /\ SF_vars(SyncTransactions("a"))
    /\ SF_vars(RequestEventsStream \/ RestartStream) /\ SF_vars(SendEventsStream)

Spec == Init /\ [][Next]_vars /\ Fairness
-----------------------------------------------------------------------------
(* Properties.                                                               *)

(* The semaphore of the send queue counts exactly the items in the queue,    *)
(* the one being written and the one about to be pushed.  So the handler's   *)
(* push, which waits for nothing but a place in the queue or the end of the  *)
(* session, always finds a place: a handler waiting there could not see the  *)
(* end of its own session.                                                   *)
QueueHasRoom ==
    \A n \in Node :
        /\ sem[n] = Len(queue[n]) + (IF writer[n] = Nothing THEN 0 ELSE 1)
                                  + (IF answer[n].kind = "push" THEN 1 ELSE 0)
        /\ sem[n] <= MaxQueued

(* An event connected at one node reaches the other: broadcasts are dropped  *)
(* when the queue is full, announcements ignored before the first progress,  *)
(* items marked as known that were never sent, answers cut at the soft       *)
(* limit, yet the fetchers and the stream bring everything.  So does a       *)
(* transaction, by the periodic sync of hashes.                              *)
EverythingPropagates ==
    /\ \A e \in Event : (e \in store["a"]) ~> (e \in store["b"])
    /\ \A t \in Tx : (t \in pool["a"]) ~> (t \in pool["b"])
=============================================================================
