---------------------------- MODULE GossipProofs ----------------------------
(* The send queue of a peer and its semaphore: the semaphore counts exactly   *)
(* what is queued, being written or about to be pushed, so a push finds room. *)
EXTENDS Gossip, SequenceTheorems, TLAPS

LEMMA LimitIsNat == MaxQueued \in Nat
  BY GossipAssumption

Item == Event \cup Tx

Message == [kind : {"progress", "ids", "events", "hashes", "txs", "getEvents", "getTxs",
                    "getStream", "chunk"}, items : SUBSET Item]

(* Types of what the queues are filled from and with.                         *)
QueueTypes ==
    /\ store \in [Node -> SUBSET Item] /\ pool \in [Node -> SUBSET Item]
    /\ queue \in [Node -> Seq(Message)] /\ wire \in [Node -> Seq(Message)]
    /\ sem \in [Node -> Int]
    /\ writer \in [Node -> Message \cup {Nothing}]
    /\ answer \in [Node -> Message \cup {Nothing} \cup [kind : {"push"}, items : Message]]

LEMMA OtherNode == \A n \in Node : Other(n) \in Node
  BY DEF Node, Other

LEMMA NothingIsNoMessage == Nothing \notin Message /\ Nothing.kind = "none"
  BY DEF Nothing, Message

LEMMA AppendOne ==
    ASSUME NEW S, NEW s \in Seq(S), NEW e \in S
    PROVE  Append(s, e) \in Seq(S) /\ Len(Append(s, e)) = Len(s) + 1
  BY AppendProperties

LEMMA QueueInit == Init => QueueTypes /\ QueueHasRoom
<1> SUFFICES ASSUME Init PROVE QueueTypes /\ QueueHasRoom
  OBVIOUS
<1>1. <<>> \in Seq(Message) /\ Len(<<>>) = 0
  BY EmptySeq
<1>2. Msg("progress", {}) \in Message
  BY DEF Msg, Message
<1>3. <<Msg("progress", {})>> \in Seq(Message)
  BY <1>2
<1>4. QueueTypes
  BY <1>1, <1>3 DEF Init, QueueTypes
<1>5. QueueHasRoom
  BY <1>1, LimitIsNat, NothingIsNoMessage DEF Init, QueueHasRoom
<1> QED
  BY <1>4, <1>5

-----------------------------------------------------------------------------
(* What the equation counts for the writer and for the answer.                *)
Writing(w) == IF w = Nothing THEN 0 ELSE 1
Pushing(a) == IF a.kind = "push" THEN 1 ELSE 0

LEMMA Counts ==
    ASSUME NEW w, NEW a
    PROVE  Writing(w) \in Nat /\ Pushing(a) \in Nat
  BY DEF Writing, Pushing

(* The equation of one node.                                                  *)
RoomOf(s, q, w, a) == s = Len(q) + Writing(w) + Pushing(a) /\ s <= MaxQueued

LEMMA RoomAtEach == QueueHasRoom => \A n \in Node : RoomOf(sem[n], queue[n], writer[n], answer[n])
  BY Zenon DEF QueueHasRoom, RoomOf, Writing, Pushing

(* A step that changes the queue of one node only.                            *)
LEMMA RoomAtOne ==
    ASSUME QueueHasRoom, NEW n \in Node,
           RoomOf(sem'[n], queue'[n], writer'[n], answer'[n]),
           \A m \in Node \ {n} : /\ sem'[m] = sem[m] /\ queue'[m] = queue[m]
                                 /\ writer'[m] = writer[m] /\ answer'[m] = answer[m]
    PROVE  QueueHasRoom'
<1>1. ASSUME NEW m \in Node PROVE RoomOf(sem'[m], queue'[m], writer'[m], answer'[m])
  <2>1. CASE m = n
    BY <2>1
  <2>2. CASE m # n
    <3>1. RoomOf(sem[m], queue[m], writer[m], answer[m])
      BY RoomAtEach
    <3> QED
      BY <2>2, <3>1, Zenon
  <2> QED
    BY <2>1, <2>2
<1> QED
  BY <1>1, Zenon DEF QueueHasRoom, RoomOf, Writing, Pushing

(* A broadcast takes the semaphore and a place in the queue, or nothing.      *)
LEMMA AsyncSendRoom ==
    ASSUME QueueTypes, QueueHasRoom, NEW n \in Node, NEW msg \in Message, AsyncSend(n, msg),
           UNCHANGED <<writer, answer>>
    PROVE  /\ QueueHasRoom'
           /\ queue' \in [Node -> Seq(Message)] /\ sem' \in [Node -> Int]
<1> USE DEF QueueTypes
<1>1. CASE UNCHANGED <<sem, queue>>
  BY Zenon, <1>1 DEF QueueHasRoom
<1>2. CASE /\ sem[n] < MaxQueued /\ sem' = [sem EXCEPT ![n] = @ + 1]
           /\ queue' = [queue EXCEPT ![n] = Append(@, msg)]
  <2>1. Append(queue[n], msg) \in Seq(Message) /\ Len(Append(queue[n], msg)) = Len(queue[n]) + 1
        /\ Len(queue[n]) \in Nat
    BY AppendOne, LenProperties
  <2>2. queue' \in [Node -> Seq(Message)] /\ sem' \in [Node -> Int]
    BY <1>2, <2>1
  <2>3. sem'[n] = sem[n] + 1 /\ Len(queue'[n]) = Len(queue[n]) + 1 /\ sem[n] \in Int
        /\ writer'[n] = writer[n] /\ answer'[n] = answer[n] /\ sem[n] < MaxQueued
    BY <1>2, <2>1
  <2>4. \A m \in Node \ {n} : /\ sem'[m] = sem[m] /\ queue'[m] = queue[m]
                              /\ writer'[m] = writer[m] /\ answer'[m] = answer[m]
    BY <1>2
  <2> HIDE DEF QueueTypes
  <2>5. RoomOf(sem'[n], queue'[n], writer'[n], answer'[n])
    <3>1. Writing(writer'[n]) = Writing(writer[n]) /\ Pushing(answer'[n]) = Pushing(answer[n])
      BY <2>3
    <3>2. sem[n] = Len(queue[n]) + Writing(writer[n]) + Pushing(answer[n])
      BY RoomAtEach DEF RoomOf
    <3> QED
      BY <2>1, <2>3, <3>1, <3>2, LimitIsNat, Counts DEF RoomOf
  <2> QED
    BY <2>2, <2>4, <2>5, RoomAtOne
<1> QED
  BY <1>1, <1>2 DEF AsyncSend

LEMMA TakeRoom ==
    ASSUME QueueTypes, QueueHasRoom, NEW n \in Node, Take(n)
    PROVE  QueueTypes' /\ QueueHasRoom'
<1> USE DEF QueueTypes
<1>1. /\ writer[n] = Nothing /\ queue[n] # <<>>
      /\ writer' = [writer EXCEPT ![n] = Head(queue[n])]
      /\ queue' = [queue EXCEPT ![n] = Tail(@)]
      /\ UNCHANGED <<store, pool, sem, answer, wire>>
  BY DEF Take, node
<1>2. Head(queue[n]) \in Message /\ Tail(queue[n]) \in Seq(Message)
      /\ Len(Tail(queue[n])) = Len(queue[n]) - 1 /\ Len(queue[n]) \in Nat
  BY <1>1, HeadTailProperties, LenProperties
<1>3. QueueTypes'
  BY <1>1, <1>2
<1>4. writer'[n] # Nothing /\ queue'[n] = Tail(queue[n]) /\ sem'[n] = sem[n] /\ answer'[n] = answer[n]
  BY <1>1, <1>2, NothingIsNoMessage
<1>5. Writing(writer[n]) = 0 /\ Writing(writer'[n]) = 1
  BY <1>1, <1>4 DEF Writing
<1>6. RoomOf(sem'[n], queue'[n], writer'[n], answer'[n])
  <2> HIDE DEF QueueTypes
  <2> QED
    BY <1>2, <1>4, <1>5, RoomAtEach, LimitIsNat, Counts DEF RoomOf
<1>7. \A m \in Node \ {n} : /\ sem'[m] = sem[m] /\ queue'[m] = queue[m]
                            /\ writer'[m] = writer[m] /\ answer'[m] = answer[m]
  BY <1>1
<1> QED
  BY <1>3, <1>6, <1>7, RoomAtOne

LEMMA WriteRoom ==
    ASSUME QueueTypes, QueueHasRoom, NEW n \in Node, Write(n)
    PROVE  QueueTypes' /\ QueueHasRoom'
<1> USE DEF QueueTypes
<1>1. /\ writer[n] # Nothing
      /\ wire' = [wire EXCEPT ![Other(n)] = Append(@, writer[n])]
      /\ writer' = [writer EXCEPT ![n] = Nothing]
      /\ sem' = [sem EXCEPT ![n] = @ - 1]
      /\ UNCHANGED <<store, pool, queue, answer>>
  BY DEF Write, node
<1>2. writer[n] \in Message /\ Other(n) \in Node /\ Len(queue[n]) \in Nat /\ sem[n] \in Int
  BY <1>1, OtherNode, LenProperties
<1>3. Append(wire[Other(n)], writer[n]) \in Seq(Message)
  BY <1>2, AppendOne
<1>4. QueueTypes'
  BY <1>1, <1>2, <1>3
<1>5. writer'[n] = Nothing /\ sem'[n] = sem[n] - 1 /\ queue'[n] = queue[n] /\ answer'[n] = answer[n]
  BY <1>1
<1>6. Writing(writer[n]) = 1 /\ Writing(writer'[n]) = 0
  BY <1>1, <1>5 DEF Writing
<1>7. RoomOf(sem'[n], queue'[n], writer'[n], answer'[n])
  <2> HIDE DEF QueueTypes
  <2> QED
    BY <1>2, <1>5, <1>6, RoomAtEach, LimitIsNat, Counts DEF RoomOf
<1>8. \A m \in Node \ {n} : /\ sem'[m] = sem[m] /\ queue'[m] = queue[m]
                            /\ writer'[m] = writer[m] /\ answer'[m] = answer[m]
  BY <1>1
<1> QED
  BY <1>4, <1>7, <1>8, RoomAtOne

LEMMA AcquireRoom ==
    ASSUME QueueTypes, QueueHasRoom, NEW n \in Node, Acquire(n)
    PROVE  QueueTypes' /\ QueueHasRoom'
<1> USE DEF QueueTypes
<1>1. /\ answer[n].kind \in {"events", "txs"} /\ sem[n] < MaxQueued
      /\ sem' = [sem EXCEPT ![n] = @ + 1]
      /\ answer' = [answer EXCEPT ![n] = Msg("push", @)]
      /\ UNCHANGED <<store, pool, queue, writer, wire>>
  BY DEF Acquire, node
<1>2. answer[n] \in Message /\ Len(queue[n]) \in Nat /\ sem[n] \in Int
  BY Zenon, <1>1, NothingIsNoMessage, LenProperties
<1>3. Msg("push", answer[n]) \in [kind : {"push"}, items : Message] /\ Msg("push", answer[n]).kind = "push"
  BY <1>2 DEF Msg
<1>4. QueueTypes'
  BY <1>1, <1>2, <1>3
<1>5. answer'[n].kind = "push" /\ sem'[n] = sem[n] + 1 /\ queue'[n] = queue[n] /\ writer'[n] = writer[n]
  BY <1>1, <1>3
<1>6. Pushing(answer[n]) = 0 /\ Pushing(answer'[n]) = 1
  BY <1>1, <1>5 DEF Pushing
<1>7. RoomOf(sem'[n], queue'[n], writer'[n], answer'[n])
  <2> HIDE DEF QueueTypes
  <2> QED
    BY <1>1, <1>2, <1>5, <1>6, RoomAtEach, LimitIsNat, Counts DEF RoomOf
<1>8. \A m \in Node \ {n} : /\ sem'[m] = sem[m] /\ queue'[m] = queue[m]
                            /\ writer'[m] = writer[m] /\ answer'[m] = answer[m]
  BY <1>1
<1> QED
  BY <1>4, <1>7, <1>8, RoomAtOne

LEMMA PushRoom ==
    ASSUME QueueTypes, QueueHasRoom, NEW n \in Node, Push(n)
    PROVE  QueueTypes' /\ QueueHasRoom'
<1> USE DEF QueueTypes
<1>1. /\ answer[n].kind = "push"
      /\ queue' = [queue EXCEPT ![n] = Append(@, answer[n].items)]
      /\ answer' = [answer EXCEPT ![n] = Nothing]
      /\ UNCHANGED <<store, pool, sem, writer, wire>>
  BY DEF Push, node
<1>2. answer[n].items \in Message
  BY Zenon, <1>1, NothingIsNoMessage DEF Message
<1>3. Append(queue[n], answer[n].items) \in Seq(Message)
      /\ Len(Append(queue[n], answer[n].items)) = Len(queue[n]) + 1 /\ Len(queue[n]) \in Nat
  BY <1>2, AppendOne, LenProperties
<1>4. QueueTypes'
  BY <1>1, <1>3
<1>5. Len(queue'[n]) = Len(queue[n]) + 1 /\ answer'[n].kind # "push" /\ sem'[n] = sem[n]
      /\ writer'[n] = writer[n]
  BY <1>1, <1>3, NothingIsNoMessage
<1>6. Pushing(answer[n]) = 1 /\ Pushing(answer'[n]) = 0
  BY <1>1, <1>5 DEF Pushing
<1>7. RoomOf(sem'[n], queue'[n], writer'[n], answer'[n])
  <2> HIDE DEF QueueTypes
  <2> QED
    BY <1>3, <1>5, <1>6, RoomAtEach, LimitIsNat, Counts DEF RoomOf
<1>8. \A m \in Node \ {n} : /\ sem'[m] = sem[m] /\ queue'[m] = queue[m]
                            /\ writer'[m] = writer[m] /\ answer'[m] = answer[m]
  BY <1>1
<1> QED
  BY <1>4, <1>7, <1>8, RoomAtOne

(* A step that leaves the queue, the semaphore and the writer alone, and does *)
(* not begin or end a push.                                                   *)
LEMMA RoomUnchanged ==
    ASSUME QueueHasRoom, UNCHANGED <<sem, queue, writer>>,
           \A n \in Node : (answer'[n].kind = "push") <=> (answer[n].kind = "push")
    PROVE  QueueHasRoom'
  BY Zenon DEF QueueHasRoom

(* Direct writes and received messages keep the wire a sequence of messages.  *)
LEMMA SendType ==
    ASSUME QueueTypes, NEW n \in Node, NEW msg \in Message, Send(n, msg)
    PROVE  wire' \in [Node -> Seq(Message)]
<1>1. Other(n) \in Node /\ wire' = [wire EXCEPT ![Other(n)] = Append(@, msg)]
  BY OtherNode DEF Send
<1>2. Append(wire[Other(n)], msg) \in Seq(Message)
  BY <1>1, AppendOne DEF QueueTypes
<1> QED
  BY <1>1, <1>2 DEF QueueTypes

LEMMA ReceiveType ==
    ASSUME QueueTypes, NEW n \in Node, NEW kinds, Receive(n, kinds)
    PROVE  /\ wire' \in [Node -> Seq(Message)]
           /\ Head(wire[n]) \in Message /\ Head(wire[n]).items \in SUBSET Item
           /\ answer[n] = Nothing
<1>1. /\ answer[n] = Nothing /\ wire[n] # <<>> /\ wire' = [wire EXCEPT ![n] = Tail(@)]
  BY DEF Receive
<1>2. Head(wire[n]) \in Message /\ Tail(wire[n]) \in Seq(Message)
  BY <1>1, HeadTailProperties DEF QueueTypes
<1>3. Head(wire[n]).items \in SUBSET Item
  BY <1>2 DEF Message
<1> QED
  BY <1>1, <1>2, <1>3 DEF QueueTypes

-----------------------------------------------------------------------------
(* One lemma per kind of step.                                                *)

LEMMA BroadcastRoom ==
    ASSUME QueueTypes, QueueHasRoom, NEW n \in Node, NEW e \in Event, Connect(n, e)
    PROVE  QueueTypes' /\ QueueHasRoom'
<1>1. /\ store' = [store EXCEPT ![n] = @ \cup {e}]
      /\ UNCHANGED <<pool, writer, answer, wire>>
  BY DEF Connect
<1>2. Msg("events", {e}) \in Message /\ Msg("ids", {e}) \in Message
  BY DEF Msg, Message, Item
<1>3. AsyncSend(n, Msg("events", {e})) \/ AsyncSend(n, Msg("ids", {e})) \/ UNCHANGED <<sem, queue>>
  BY DEF Connect, BroadcastEvent, AsyncSendEvents, AsyncSendEventIDs
<1>4. QueueHasRoom' /\ queue' \in [Node -> Seq(Message)] /\ sem' \in [Node -> Int]
  <2>1. CASE UNCHANGED <<sem, queue>>
    BY <1>1, <2>1, RoomUnchanged DEF QueueTypes
  <2> QED
    BY <1>1, <1>2, <1>3, <2>1, AsyncSendRoom
<1>5. store' \in [Node -> SUBSET Item]
  BY <1>1 DEF QueueTypes, Item
<1> QED
  BY <1>1, <1>4, <1>5 DEF QueueTypes

LEMMA BroadcastTxRoom ==
    ASSUME QueueTypes, QueueHasRoom, NEW t \in Tx, OriginateTx(t)
    PROVE  QueueTypes' /\ QueueHasRoom'
<1>0. "a" \in Node
  BY DEF Node
<1>1. /\ pool' = [pool EXCEPT !["a"] = @ \cup {t}]
      /\ UNCHANGED <<store, writer, answer, wire>>
  BY DEF OriginateTx
<1> DEFINE txs == {t} \ known["a"]
<1>2. Msg("txs", txs) \in Message /\ Msg("hashes", txs) \in Message
  BY DEF Msg, Message, Item
<1>3. AsyncSend("a", Msg("txs", txs)) \/ AsyncSend("a", Msg("hashes", txs)) \/ UNCHANGED <<sem, queue>>
  BY DEF OriginateTx, BroadcastTxs, AsyncSendTransactions, AsyncSendTransactionHashes
<1> HIDE DEF txs
<1>4. QueueHasRoom' /\ queue' \in [Node -> Seq(Message)] /\ sem' \in [Node -> Int]
  <2>1. CASE UNCHANGED <<sem, queue>>
    BY <1>1, <2>1, RoomUnchanged DEF QueueTypes
  <2> QED
    BY <1>0, <1>1, <1>2, <1>3, <2>1, AsyncSendRoom
<1>5. pool' \in [Node -> SUBSET Item]
  BY Zenon, <1>1 DEF QueueTypes, Item
<1> QED
  BY <1>1, <1>4, <1>5 DEF QueueTypes

LEMMA ProgressRoom ==
    ASSUME QueueTypes, QueueHasRoom, NEW n \in Node, BroadcastProgress(n)
    PROVE  QueueTypes' /\ QueueHasRoom'
<1>1. AsyncSend(n, Msg("progress", {})) /\ UNCHANGED <<store, pool, writer, answer, wire>>
  BY DEF BroadcastProgress, AsyncSendProgress, node
<1>2. Msg("progress", {}) \in Message
  BY DEF Msg, Message
<1>3. QueueHasRoom' /\ queue' \in [Node -> Seq(Message)] /\ sem' \in [Node -> Int]
  BY <1>1, <1>2, AsyncSendRoom
<1> QED
  BY <1>1, <1>3 DEF QueueTypes

LEMMA DirectRoom ==
    ASSUME QueueTypes, QueueHasRoom, NEW n \in Node,
           \/ RequestEvents(n) \/ RequestTransactions(n) \/ SyncTransactions(n)
           \/ RequestEventsStream \/ SendEventsStream \/ RestartStream
    PROVE  QueueTypes' /\ QueueHasRoom'
<1>1. UNCHANGED <<store, pool, queue, sem, writer, answer>>
  BY DEF RequestEvents, RequestTransactions, SyncTransactions, RequestEventsStream,
         SendEventsStream, RestartStream, node
<1>2. wire' \in [Node -> Seq(Message)]
  <2>0. "a" \in Node /\ "b" \in Node
    BY DEF Node
  <2>1. CASE RequestEvents(n)
    <3>1. Msg("getEvents", wanted[n] \cap Event) \in Message
      BY DEF Msg, Message, Item
    <3> QED
      BY <2>1, <3>1, SendType DEF RequestEvents
  <2>2. CASE RequestTransactions(n)
    <3>1. Msg("getTxs", wanted[n] \cap Tx) \in Message
      BY DEF Msg, Message, Item
    <3> QED
      BY <2>2, <3>1, SendType DEF RequestTransactions
  <2>3. CASE SyncTransactions(n)
    <3>1. Msg("hashes", pool[n]) \in Message
      BY DEF Msg, Message, QueueTypes
    <3> QED
      BY <2>3, <3>1, SendType DEF SyncTransactions
  <2>4. CASE RequestEventsStream
    <3>1. Msg("getStream", {}) \in Message
      BY DEF Msg, Message
    <3> QED
      BY <2>0, <2>4, <3>1, SendType DEF RequestEventsStream
  <2>5. CASE SendEventsStream
    <3>1. Msg("chunk", store["a"]) \in Message
      BY <2>0 DEF Msg, Message, QueueTypes
    <3> QED
      BY <2>0, <2>5, <3>1, SendType DEF SendEventsStream
  <2>6. CASE RestartStream
    BY <2>6 DEF RestartStream, QueueTypes
  <2> QED
    BY <2>1, <2>2, <2>3, <2>4, <2>5, <2>6
<1>3. QueueHasRoom'
  BY <1>1, RoomUnchanged
<1> QED
  BY <1>1, <1>2, <1>3 DEF QueueTypes

LEMMA HandleRoom ==
    ASSUME QueueTypes, QueueHasRoom, NEW n \in Node,
           \/ HandleProgress(n) \/ Ignore(n) \/ HandleEventHashes(n) \/ HandleEvents(n)
           \/ HandleTxHashes(n) \/ HandleGetStream(n) \/ DropMsg(n)
    PROVE  QueueTypes' /\ QueueHasRoom'
<1>1. UNCHANGED <<store, pool, queue, sem, writer, answer>>
  BY DEF HandleProgress, Ignore, HandleEventHashes, HandleEvents, HandleTxHashes,
         HandleGetStream, DropMsg, node
<1>2. \E kinds : Receive(n, kinds)
  BY DEF HandleProgress, Ignore, HandleEventHashes, HandleEvents, HandleTxHashes,
         HandleGetStream, DropMsg
<1>3. wire' \in [Node -> Seq(Message)]
  BY <1>2, ReceiveType
<1>4. QueueHasRoom'
  BY <1>1, RoomUnchanged
<1> QED
  BY <1>1, <1>3, <1>4 DEF QueueTypes

LEMMA HandleTxsRoom ==
    ASSUME QueueTypes, QueueHasRoom, NEW n \in Node, HandleTxs(n)
    PROVE  QueueTypes' /\ QueueHasRoom'
<1>1. UNCHANGED <<store, queue, sem, writer, answer>>
      /\ Receive(n, {"txs"}) /\ pool' = [pool EXCEPT ![n] = @ \cup Head(wire[n]).items]
  BY DEF HandleTxs
<1>2. wire' \in [Node -> Seq(Message)] /\ Head(wire[n]).items \in SUBSET Item
  BY <1>1, ReceiveType
<1>3. pool' \in [Node -> SUBSET Item]
  BY <1>1, <1>2 DEF QueueTypes
<1>4. QueueHasRoom'
  BY <1>1, RoomUnchanged
<1> QED
  BY <1>1, <1>2, <1>3, <1>4 DEF QueueTypes

(* An answer begins only where none is waiting.                               *)
LEMMA AnswerRoom ==
    ASSUME QueueTypes, QueueHasRoom, NEW n \in Node, HandleGetTxs(n) \/ HandleGetEvents(n)
    PROVE  QueueTypes' /\ QueueHasRoom'
<1>1. UNCHANGED <<store, pool, queue, sem, writer>>
  BY DEF HandleGetTxs, HandleGetEvents, node
<1>2. \E kinds : Receive(n, kinds)
  BY DEF HandleGetTxs, HandleGetEvents
<1>3. wire' \in [Node -> Seq(Message)] /\ answer[n] = Nothing
  BY <1>2, ReceiveType
<1>4. PICK msg \in Message : msg.kind # "push" /\ answer' \in {answer, [answer EXCEPT ![n] = msg]}
  <2>1. CASE HandleGetTxs(n)
    <3> DEFINE found == Head(wire[n]).items \cap pool[n]
    <3>1. Msg("txs", found) \in Message /\ Msg("txs", found).kind # "push"
      BY DEF Msg, Message, QueueTypes
    <3>2. answer' \in {answer, [answer EXCEPT ![n] = Msg("txs", found)]}
      BY <2>1 DEF HandleGetTxs
    <3> HIDE DEF found
    <3> QED
      BY <3>1, <3>2
  <2>2. CASE HandleGetEvents(n)
    <3>1. PICK part \in SUBSET (Head(wire[n]).items \cap store[n]) :
            answer' \in {answer, [answer EXCEPT ![n] = Msg("events", part)]}
      BY Zenon, <2>2 DEF HandleGetEvents
    <3>2. Msg("events", part) \in Message /\ Msg("events", part).kind # "push"
      BY DEF Msg, Message, QueueTypes
    <3> QED
      BY <3>1, <3>2
  <2> QED
    BY <2>1, <2>2
<1>5. answer[n].kind # "push"
  BY <1>3, NothingIsNoMessage
<1>6. \A m \in Node : (answer'[m].kind = "push") <=> (answer[m].kind = "push")
  BY Zenon, <1>4, <1>5 DEF QueueTypes
<1>7. QueueHasRoom'
  BY <1>1, <1>6, RoomUnchanged
<1> DEFINE Answers == Message \cup {Nothing} \cup [kind : {"push"}, items : Message]
<1>8. answer \in [Node -> Answers] /\ msg \in Answers
  BY Zenon, <1>4 DEF QueueTypes
<1>9. answer' \in [Node -> Answers]
  <2> HIDE DEF Answers
  <2> QED
    BY SMT, <1>4, <1>8
<1> QED
  BY SMT, <1>1, <1>3, <1>7, <1>9 DEF QueueTypes

LEMMA TimeoutRoom ==
    ASSUME QueueTypes, QueueHasRoom, NEW n \in Node, AcquireTimeout(n)
    PROVE  QueueTypes' /\ QueueHasRoom'
<1>1. /\ UNCHANGED <<store, pool, queue, sem, writer, wire>>
      /\ answer[n].kind \in {"events", "txs"} /\ answer' = [answer EXCEPT ![n] = Nothing]
  BY DEF AcquireTimeout, node
<1>2. \A m \in Node : (answer'[m].kind = "push") <=> (answer[m].kind = "push")
  BY <1>1, NothingIsNoMessage DEF QueueTypes
<1>3. QueueHasRoom'
  BY <1>1, <1>2, RoomUnchanged
<1> QED
  BY <1>1, <1>3 DEF QueueTypes

LEMMA QueueStep == QueueTypes /\ QueueHasRoom /\ [Next]_vars => QueueTypes' /\ QueueHasRoom'
<1> SUFFICES ASSUME QueueTypes, QueueHasRoom, [Next]_vars
             PROVE  QueueTypes' /\ QueueHasRoom'
  OBVIOUS
<1>0. "a" \in Node
  BY DEF Node
<1>1. ASSUME NEW n \in Node, Handler(n) \/ DropMsg(n) \/ AcquireTimeout(n)
      PROVE  QueueTypes' /\ QueueHasRoom'
  BY <1>1, HandleRoom, HandleTxsRoom, AnswerRoom, TimeoutRoom, AcquireRoom, PushRoom
     DEF Handler, HandleMsg
<1>2. ASSUME NEW n \in Node, Broadcaster(n) \/ Fetcher(n)
      PROVE  QueueTypes' /\ QueueHasRoom'
  BY <1>2, TakeRoom, WriteRoom, DirectRoom DEF Broadcaster, Fetcher
<1>3. ASSUME NEW n \in Node, Processor(n)
      PROVE  QueueTypes' /\ QueueHasRoom'
  BY <1>3, BroadcastRoom DEF Processor, Process
<1>4. CASE BroadcastProgress("a") \/ SyncTransactions("a")
           \/ RequestEventsStream \/ SendEventsStream \/ RestartStream
  BY <1>0, <1>4, ProgressRoom, DirectRoom
<1>5. CASE \E e \in Event : Originate(e)
  BY <1>0, <1>5, BroadcastRoom DEF Originate
<1>6. CASE \E t \in Tx : OriginateTx(t)
  BY <1>6, BroadcastTxRoom
<1>7. CASE UNCHANGED vars
  <2>1. UNCHANGED <<store, pool, queue, sem, writer, answer, wire>>
    BY <1>7 DEF vars
  <2> QED
    BY <2>1, RoomUnchanged DEF QueueTypes
<1> QED
  BY <1>1, <1>2, <1>3, <1>4, <1>5, <1>6, <1>7 DEF Next

(* The semaphore of the send queue counts exactly what is queued, being       *)
(* written or about to be pushed, and stays within its limit (QueueHasRoom    *)
(* of Gossip; peer.go asyncSendEncodedItem, enqueueSendEncodedItem and        *)
(* broadcast).                                                                *)
THEOREM QueueRoom == Spec => []QueueHasRoom
<1>1. Spec => [](QueueTypes /\ QueueHasRoom)
  BY QueueInit, QueueStep, PTL DEF Spec
<1> QED
  BY <1>1, PTL

(* A handler that holds the semaphore never waits for a place in the queue    *)
(* (peer.go enqueueSendEncodedItem: the push after the acquire).              *)
THEOREM PushNeverWaits ==
    Spec => [](\A n \in Node : answer[n].kind = "push" => Len(queue[n]) < MaxQueued)
<1>1. QueueTypes /\ QueueHasRoom
        => \A n \in Node : answer[n].kind = "push" => Len(queue[n]) < MaxQueued
  <2> SUFFICES ASSUME QueueTypes, QueueHasRoom, NEW n \in Node, answer[n].kind = "push"
               PROVE  Len(queue[n]) < MaxQueued
    OBVIOUS
  <2>1. Len(queue[n]) \in Nat
    BY LenProperties DEF QueueTypes
  <2>2. Pushing(answer[n]) = 1
    BY DEF Pushing
  <2>3. sem[n] = Len(queue[n]) + Writing(writer[n]) + Pushing(answer[n]) /\ sem[n] <= MaxQueued
    BY RoomAtEach DEF RoomOf
  <2> QED
    BY <2>1, <2>2, <2>3, LimitIsNat, Counts
<1>2. Spec => [](QueueTypes /\ QueueHasRoom)
  BY QueueInit, QueueStep, PTL DEF Spec
<1> QED
  BY <1>1, <1>2, PTL
=============================================================================
