------------------------------- MODULE TxPool -------------------------------
(* The transaction pool (evmcore/tx_pool.go, tx_list.go, tx_noncer.go and    *)
(* tx_journal.go).  The fields that pool.mu guards are one record, pool, and *)
(* a section of code under the lock is an operator on such records.  What    *)
(* runs concurrently are the callers of AddLocal and AddRemotes, the main    *)
(* loop, scheduleReorgLoop and the runReorg goroutine it starts.             *)
(* Transactions that fail a check of their own (size, signature, intrinsic   *)
(* gas) never enter the pool: Tx are the others.  The gas limit is checked   *)
(* where the cost is and in the same way, and is not told apart from it.     *)
(* Heartbeats are times: which of them expired, and their order, is open.    *)
EXTENDS Integers, FiniteSets, Sequences, FiniteSetsExt, SequencesExt

CONSTANTS Addr, Tx,                    \* accounts, transactions
          Sender, Nonce, Price, Cost, Slots,   \* of a transaction
          PriceBump, AccountSlots, GlobalSlots, AccountQueue, GlobalQueue, PriceLimit,
          Journaling,                  \* config.Journal is set
          StateErrors,                 \* whether StateAt may fail
          Restarts, Shutdowns,         \* whether the process may restart, and stop
          Genesis,                     \* the balances and the minimal gas price at first
          NextBlocks,                  \* what a block may execute and leave behind
          GasPrices,                   \* the gas prices the chain may recommend
          MaxBlocks                    \* bound on the chain

ASSUME TxPoolAssumption ==
    /\ IsFiniteSet(Addr) /\ IsFiniteSet(Tx)
    /\ Sender \in [Tx -> Addr] /\ Nonce \in [Tx -> Nat] /\ Price \in [Tx -> Nat]
    /\ Cost \in [Tx -> Nat] /\ Slots \in [Tx -> Nat \ {0}]
    /\ \A t, u \in Tx : Sender[t] = Sender[u] /\ Nonce[t] = Nonce[u] /\ Price[t] = Price[u] => t = u
    /\ PriceBump \in Nat \ {0} /\ PriceLimit \in Nat \ {0}
    /\ AccountSlots \in Nat \ {0} /\ GlobalSlots \in Nat \ {0}
    /\ AccountQueue \in Nat \ {0} /\ GlobalQueue \in Nat \ {0}
    /\ {Journaling, StateErrors, Restarts, Shutdowns} \subseteq BOOLEAN
    /\ Genesis \in [balance : [Addr -> Nat], price : Nat]
    /\ \A b \in NextBlocks :
        b.executed \subseteq Tx /\ b.balance \in [Addr -> Nat] /\ b.price \in Nat
    /\ GasPrices \subseteq Nat
    /\ MaxBlocks \in Nat \ {0}

VARIABLES blocks,     \* the states after the blocks of the chain
          minPrice,   \* Rules.Economy.MinGasPrice
          pool,       \* what pool.mu guards
          sched,      \* scheduleReorgLoop: its requests and whether it runs
          run,        \* the runReorg goroutine
          callers,    \* the callers of addTxs
          loopHead,   \* the last block the main loop has asked a reset for
          closed,     \* reorgShutdownCh is closed
          announced   \* the pooled transactions that txFeed has sent

vars == <<blocks, minPrice, pool, sched, run, callers, loopHead, closed, announced>>

Caller == {"rpc", "p2p"}

(* Orders of the accounts: of a map iteration or of heartbeats.              *)
Orders == SetToSeqs(Addr)

Position(ord, a) == CHOOSE i \in DOMAIN ord : ord[i] = a

ByNonce(S) == SetToSortSeq(S, LAMBDA t, u : Nonce[t] < Nonce[u])
-----------------------------------------------------------------------------
(* txList: the transactions of an account, by nonce, with the cost above     *)
(* which it holds none.  An empty list is deleted from its map.              *)

NoList == [txs |-> {}, costcap |-> 0]

At(list, n) == {t \in list.txs : Nonce[t] = n}

Drop(list, S) == IF list.txs \subseteq S THEN NoList ELSE [list EXCEPT !.txs = @ \ S]

(* Add replaces a transaction only for a price PriceBump percent higher.     *)
Outbids(t, old) ==
    /\ Price[t] > Price[old]
    /\ Price[t] >= (Price[old] * (100 + PriceBump)) \div 100

Accepts(list, t) == \A old \in At(list, Nonce[t]) : Outbids(t, old)

(* Mutant: the cost cap is not raised. *)
AddedBelowCap(list, t) == [list EXCEPT !.txs = (@ \ At(list, Nonce[t])) \cup {t}]

Added(list, t) ==
    [txs     |-> (list.txs \ At(list, Nonce[t])) \cup {t},
     costcap |-> Max({list.costcap, Cost[t]})]

(* Filter drops what costs more than limit; in a strict list, what follows a *)
(* dropped transaction becomes invalid.                                      *)
Filter(list, limit, strict) ==
    LET drops    == {t \in list.txs : Cost[t] > limit}
        invalids == {t \in list.txs \ drops : strict /\ \E d \in drops : Nonce[d] < Nonce[t]}
    IN  IF list.costcap <= limit THEN [list |-> list, drops |-> {}, invalids |-> {}]
        ELSE [list |-> Drop([list EXCEPT !.costcap = limit], drops \cup invalids),
              drops |-> drops, invalids |-> invalids]

(* Cap: what exceeds the size lowest nonces.                                 *)
Excess(list, size) ==
    {t \in list.txs : Cardinality({u \in list.txs : Nonce[u] < Nonce[t]}) >= size}

(* Ready: the consecutive nonces from the lowest one, if that is not above   *)
(* start.                                                                    *)
Ready(list, start) ==
    {t \in list.txs :
        LET least == Min({Nonce[u] : u \in list.txs})
        IN  least <= start /\ \A n \in least..Nonce[t] : At(list, n) # {}}
-----------------------------------------------------------------------------
(* txLookup and txPricedList: all transactions, and a heap of the remote     *)
(* ones by price that may hold stale entries.                                *)

All(p) == p.remotes \cup p.localTxs

Record(p, t, local) ==
    IF local THEN [p EXCEPT !.localTxs = @ \cup {t}] ELSE [p EXCEPT !.remotes = @ \cup {t}]

Forget(p, S) == [p EXCEPT !.localTxs = @ \ S, !.remotes = @ \ S]

SlotsUsed(p) == MapThenSumSet(LAMBDA t : Slots[t], All(p))

(* An entry is a transaction and which of its copies it is: one that comes   *)
(* back before its stale entry is popped has two.                            *)
Entries(heap) == {e[1] : e \in heap}

Copies(heap, t) == Cardinality({e \in heap : e[1] = t})

Put(p, t, local) ==
    IF local THEN p ELSE [p EXCEPT !.heap = @ \cup {<<t, Copies(p.heap, t) + 1>>}]

Reheap(p) == [p EXCEPT !.heap = {<<t, 1>> : t \in p.remotes}, !.stales = 0]

Removed(p, count) ==
    LET q == [p EXCEPT !.stales = @ + count]
    IN  IF q.stales <= Cardinality(q.heap) \div 4 THEN q ELSE Reheap(q)

(* The order of the heap: cheap first, then high nonces.                     *)
Cheaper(t, u, ord) ==
    \/ Price[t] < Price[u]
    \/ Price[t] = Price[u] /\ Nonce[t] > Nonce[u]
    \/ /\ Price[t] = Price[u] /\ Nonce[t] = Nonce[u]
       /\ Position(ord, Sender[t]) < Position(ord, Sender[u])

(* The entries popped before one of stop is on top, and the pops.            *)
Above(p, stop, ord) == {t \in Entries(p.heap) : \A u \in stop : Cheaper(t, u, ord)}

PopAll(p, S) ==
    LET popped == {e \in p.heap : e[1] \in S}
    IN  [p EXCEPT !.heap = @ \ popped,
                  !.stales = @ - Cardinality({e \in popped : e[1] \notin p.remotes})]

Live(p) == Entries(p.heap) \cap p.remotes

(* Underpriced first pops the stale entries on top.                          *)
PopStale(p, ord) == PopAll(p, Above(p, Live(p), ord))

Underpriced(p, t) == Live(p) # {} /\ \A u \in Live(p) : Price[u] >= Price[t]

(* Discard: pops the cheapest until they free the slots.                     *)
Discard(p, slots, force, ord) ==
    LET size == Cardinality(p.heap)
        popped[n \in 0..size] ==
            IF n = 0 THEN [pool |-> p, slots |-> slots, drop |-> <<>>]
            ELSE LET d == popped[n - 1]
                     t == CHOOSE t \in Entries(d.pool.heap) :
                            \A u \in Entries(d.pool.heap) \ {t} : Cheaper(t, u, ord)
                     q == [d.pool EXCEPT !.heap = @ \ {<<t, Copies(d.pool.heap, t)>>}]
                 IN  IF d.slots <= 0 THEN d
                     ELSE IF t \in p.remotes
                     THEN [pool |-> q, slots |-> d.slots - Slots[t], drop |-> Append(d.drop, t)]
                     ELSE [d EXCEPT !.pool = [q EXCEPT !.stales = @ - 1]]
        last == popped[size]
    IN  IF last.slots > 0 /\ ~force
        THEN [pool |-> PopAll(p, Entries(p.heap) \ p.remotes), drop |-> <<>>, ok |-> FALSE]
        ELSE [pool |-> last.pool, drop |-> last.drop, ok |-> TRUE]
-----------------------------------------------------------------------------
(* The operations under pool.mu.                                             *)

State(p) == blocks[p.head]

PendingTxs(p) == UNION {p.pending[a].txs : a \in Addr}

QueuedTxs(p) == UNION {p.queue[a].txs : a \in Addr}

SetIfLower(p, a, n) == [p EXCEPT !.nonces[a] = Min({@, n})]

(* Mutant: a replaced transaction stays in the lookup. *)
EnqueueForgetsNothing(p, t, local, addAll) ==
    LET a == Sender[t]
        q == [p EXCEPT !.queue[a] = Added(p.queue[a], t), !.beats = @ \cup {a}]
    IN  IF ~Accepts(p.queue[a], t) THEN [pool |-> p, ok |-> FALSE, replaced |-> FALSE]
        ELSE [pool |-> IF addAll THEN Put(Record(q, t, local), t, local) ELSE q,
              ok |-> TRUE, replaced |-> At(p.queue[a], Nonce[t]) # {}]

(* Mutant: a transaction put back sets no heartbeat. *)
EnqueueWithoutBeat(p, t, local, addAll) ==
    LET a   == Sender[t]
        old == At(p.queue[a], Nonce[t])
        q   == [p EXCEPT !.queue[a] = Added(p.queue[a], t), !.beats = IF addAll THEN @ \cup {a} ELSE @]
        r   == IF old = {} THEN q ELSE Removed(Forget(q, old), 1)
    IN  IF ~Accepts(p.queue[a], t) THEN [pool |-> p, ok |-> FALSE, replaced |-> FALSE]
        ELSE [pool |-> IF addAll THEN Put(Record(r, t, local), t, local) ELSE r,
              ok |-> TRUE, replaced |-> old # {}]

(* enqueueTx: into the queue; into the lookup unless it is there already.    *)
Enqueue(p, t, local, addAll) ==
    LET a   == Sender[t]
        old == At(p.queue[a], Nonce[t])
        q   == [p EXCEPT !.queue[a] = Added(p.queue[a], t), !.beats = @ \cup {a}]
        r   == IF old = {} THEN q ELSE Removed(Forget(q, old), 1)
    IN  IF ~Accepts(p.queue[a], t) THEN [pool |-> p, ok |-> FALSE, replaced |-> FALSE]
        ELSE [pool |-> IF addAll THEN Put(Record(r, t, local), t, local) ELSE r,
              ok |-> TRUE, replaced |-> old # {}]

Requeue(p, S) == FoldSet(LAMBDA t, q : Enqueue(q, t, FALSE, FALSE).pool, p, S)

(* Mutant: the followers of a removed transaction stay pending. *)
RemoveTxLeavesGap(p, t, outofbound) ==
    LET a        == Sender[t]
        q        == IF outofbound THEN Removed(Forget(p, {t}), 1) ELSE Forget(p, {t})
        executed == At(p.pending[a], Nonce[t])
        rest     == Drop(p.queue[a], At(p.queue[a], Nonce[t]))
    IN  IF t \notin All(p) THEN p
        ELSE IF executed # {}
        THEN SetIfLower([q EXCEPT !.pending[a] = Drop(p.pending[a], executed)], a, Nonce[t])
        ELSE [q EXCEPT !.queue[a] = rest,
                       !.beats = IF p.queue[a] # NoList /\ rest = NoList THEN @ \ {a} ELSE @]

(* removeTx: the lists are searched by nonce.                                *)
RemoveTx(p, t, outofbound) ==
    LET a        == Sender[t]
        q        == IF outofbound THEN Removed(Forget(p, {t}), 1) ELSE Forget(p, {t})
        executed == At(p.pending[a], Nonce[t])
        invalids == {u \in p.pending[a].txs : Nonce[u] > Nonce[t]}
        rest     == Drop(p.queue[a], At(p.queue[a], Nonce[t]))
    IN  IF t \notin All(p) THEN p
        ELSE IF executed # {}
        THEN SetIfLower(Requeue([q EXCEPT !.pending[a] = Drop(p.pending[a], executed \cup invalids)],
                                invalids), a, Nonce[t])
        ELSE [q EXCEPT !.queue[a] = rest,
                       !.beats = IF p.queue[a] # NoList /\ rest = NoList THEN @ \ {a} ELSE @]

RemoveTxs(p, seq, outofbound) == FoldLeft(LAMBDA q, t : RemoveTx(q, t, outofbound), p, seq)

(* The remote transactions below the cap go.                                 *)
SetGasPriceWithCap(p, price, cap, ord) ==
    LET floor   == {t \in Live(p) : Price[t] >= cap}
        S       == Above(p, floor, ord)
        dropped == SetToSortSeq(S \cap p.remotes, LAMBDA t, u : Cheaper(t, u, ord))
    IN  RemoveTxs(PopAll([p EXCEPT !.gasPrice = price], S), dropped, FALSE)

(* validateTx, against the state of the last reset and the chain of now.     *)
Valid(p, t, local) ==
    /\ local \/ Price[t] >= p.gasPrice
    /\ Nonce[t] >= State(p).nonce[Sender[t]]
    /\ Cost[t] <= State(p).balance[Sender[t]]
    /\ Price[t] >= minPrice
    /\ t \notin Last(blocks).included

(* add, up to the insertion: a full pool gives up its cheapest remotes.      *)
MakeRoom(p, t, local, ord) ==
    LET limit == GlobalSlots + GlobalQueue
        q     == IF local THEN p ELSE PopStale(p, ord)
        d     == Discard(q, SlotsUsed(q) - limit + Slots[t], local, ord)
    IN  IF Cardinality(All(p)) + Slots[t] <= limit THEN [pool |-> p, ok |-> TRUE]
        ELSE IF ~local /\ Underpriced(q, t) THEN [pool |-> q, ok |-> FALSE]
        ELSE [pool |-> RemoveTxs(d.pool, d.drop, FALSE), ok |-> d.ok]

JournalTx(p, t) ==
    IF Journaling /\ Sender[t] \in p.locals THEN [p EXCEPT !.journal = @ \cup {t}] ELSE p

(* Mutant: the remote transactions of a new local account stay priced. *)
WhitelistMovesNothing(p, a) == [p EXCEPT !.locals = @ \cup {a}]

(* A first local transaction makes the account local.                        *)
Whitelist(p, a) ==
    LET moved == {t \in p.remotes : Sender[t] \in p.locals \cup {a}}
    IN  IF a \in p.locals THEN p
        ELSE Removed([p EXCEPT !.locals = @ \cup {a}, !.remotes = @ \ moved,
                               !.localTxs = @ \cup moved], Cardinality(moved))

Refused(p) == [pool |-> p, dirty |-> {}, event |-> {}]

(* A pending transaction is replaced at once.                                *)
ReplacePending(p, t, isLocal) ==
    LET a == Sender[t]
        q == [Removed(Forget(p, At(p.pending[a], Nonce[t])), 1)
                EXCEPT !.pending[a] = Added(p.pending[a], t), !.beats = @ \cup {a}]
    IN  IF ~Accepts(p.pending[a], t) THEN Refused(p)
        ELSE [pool  |-> JournalTx(Put(Record(q, t, isLocal), t, isLocal), t),
              dirty |-> {}, event |-> {t}]

(* What add does after enqueueTx returned queued.                            *)
Listed(p, queued, t, local) ==
    IF ~queued.ok THEN Refused(p)
    ELSE [pool  |-> JournalTx(IF local THEN Whitelist(queued.pool, Sender[t]) ELSE queued.pool, t),
          dirty |-> IF queued.replaced THEN {} ELSE {Sender[t]}, event |-> {}]

Insert(room, t, local, isLocal) ==
    IF ~room.ok THEN Refused(room.pool)
    ELSE IF At(room.pool.pending[Sender[t]], Nonce[t]) # {} THEN ReplacePending(room.pool, t, isLocal)
    ELSE Listed(room.pool, Enqueue(room.pool, t, isLocal, TRUE), t, local)

(* add: the pool, the account to promote and the event to send.              *)
Add(p, t, local, ord) ==
    LET isLocal == local \/ Sender[t] \in p.locals
    IN  IF t \in All(p) \/ ~Valid(p, t, isLocal) THEN Refused(p)
        ELSE Insert(MakeRoom(p, t, isLocal, ord), t, local, isLocal)

(* promoteTx.                                                                *)
PromoteTx(p, t) ==
    LET a   == Sender[t]
        old == At(p.pending[a], Nonce[t])
        q   == [p EXCEPT !.pending[a] = Added(p.pending[a], t)]
        r   == IF old = {} THEN q ELSE Removed(Forget(q, old), 1)
    IN  IF ~Accepts(p.pending[a], t) THEN Removed(Forget(p, {t}), 1)
        ELSE [r EXCEPT !.nonces[a] = Nonce[t] + 1, !.beats = @ \cup {a}]

(* Mutant: the queue limit holds for local accounts too. *)
PromoteCapsLocals(p, a) ==
    LET old     == {t \in p.queue[a].txs : Nonce[t] < State(p).nonce[a]}
        kept    == Filter(Drop(p.queue[a], old), State(p).balance[a], FALSE)
        readies == Ready(kept.list, p.nonces[a])
        future  == Drop(kept.list, readies)
        caps    == Excess(future, AccountQueue)
        left    == Drop(future, caps)
        moved   == FoldLeft(PromoteTx, Forget(p, old \cup kept.drops), ByNonce(readies))
        r       == Removed(Forget(moved, caps), Cardinality(old \cup kept.drops \cup caps))
    IN  IF p.queue[a] = NoList THEN p
        ELSE [r EXCEPT !.queue[a] = left, !.beats = IF left = NoList THEN @ \ {a} ELSE @]

(* promoteExecutables for one account.                                       *)
Promote(p, a) ==
    LET old     == {t \in p.queue[a].txs : Nonce[t] < State(p).nonce[a]}
        kept    == Filter(Drop(p.queue[a], old), State(p).balance[a], FALSE)
        readies == Ready(kept.list, p.nonces[a])
        future  == Drop(kept.list, readies)
        caps    == IF a \in p.locals THEN {} ELSE Excess(future, AccountQueue)
        left    == Drop(future, caps)
        moved   == FoldLeft(PromoteTx, Forget(p, old \cup kept.drops), ByNonce(readies))
        r       == Removed(Forget(moved, caps), Cardinality(old \cup kept.drops \cup caps))
    IN  IF p.queue[a] = NoList THEN p
        ELSE [r EXCEPT !.queue[a] = left, !.beats = IF left = NoList THEN @ \ {a} ELSE @]

(* demoteUnexecutables for one account.                                      *)
Demote(p, a) ==
    LET nonce  == State(p).nonce[a]
        olds   == {t \in p.pending[a].txs : Nonce[t] < nonce}
        kept   == Filter(Drop(p.pending[a], olds), State(p).balance[a], TRUE)
        gapped == IF At(kept.list, nonce) = {} THEN kept.list.txs ELSE {}
        q      == Removed(Forget(p, olds \cup kept.drops), Cardinality(olds \cup kept.drops))
    IN  IF p.pending[a] = NoList THEN p
        ELSE Requeue([q EXCEPT !.pending[a] = Drop(kept.list, gapped)], kept.invalids \cup gapped)

PendingCount(p) == Cardinality(PendingTxs(p))

QueuedCount(p) == Cardinality(QueuedTxs(p))

(* The last pending transaction of an account goes.                          *)
DropLast(p, a) ==
    LET last == Excess(p.pending[a], Cardinality(p.pending[a].txs) - 1)
    IN  Removed(SetIfLower([Forget(p, last) EXCEPT !.pending[a] = Drop(p.pending[a], last)],
                           a, Min({Nonce[t] : t \in last})), 1)

(* truncatePending: the largest remote accounts are cut down to the next     *)
(* largest one, one transaction each at a time, and last to AccountSlots.    *)
TruncatePending(p, ord) ==
    LET size(q, a) == Cardinality(q.pending[a].txs)
        offender == SetToSortSeq({a \in Addr \ p.locals : size(p, a) > AccountSlots},
                        LAMBDA a, b : \/ size(p, a) > size(p, b)
                                      \/ size(p, a) = size(p, b) /\ Position(ord, a) < Position(ord, b))
        cut(q, n) == FoldLeft(DropLast, q, SubSeq(offender, 1, n))
        step[i \in 0..2 * PendingCount(p)] ==
            IF i = 0 THEN [pool |-> p, n |-> 0]
            ELSE LET s == step[i - 1]
                     q == s.pool
                 IN  IF PendingCount(q) <= GlobalSlots THEN s
                     ELSE IF s.n >= 2 /\ size(q, offender[s.n - 1]) > size(q, offender[s.n])
                     THEN [s EXCEPT !.pool = cut(q, s.n - 1)]
                     ELSE IF s.n < Len(offender) THEN [s EXCEPT !.n = @ + 1]
                     ELSE IF s.n > 0 /\ size(q, offender[s.n]) > AccountSlots
                     THEN [s EXCEPT !.pool = cut(q, s.n)]
                     ELSE s
    IN  step[2 * PendingCount(p)].pool

(* truncateQueue: whole accounts go, the one with the latest heartbeat       *)
(* first, and the highest nonces of the last of them.                        *)
TruncateQueue(p, beat) ==
    LET cut(s, a) ==
            LET size    == Cardinality(p.queue[a].txs)
                victims == Excess(p.queue[a], IF size <= s.drop THEN 0 ELSE size - s.drop)
                order   == IF size <= s.drop THEN ByNonce(victims) ELSE Reverse(ByNonce(victims))
            IN  IF s.drop <= 0 \/ a \in p.locals THEN s
                ELSE [pool |-> RemoveTxs(s.pool, order, TRUE), drop |-> s.drop - Cardinality(victims)]
    IN  FoldLeft(cut, [pool |-> p, drop |-> QueuedCount(p) - GlobalQueue], beat).pool

(* reset, if one is requested, to the state of the new head.  Blocks are     *)
(* final: what is reinjected when requests were merged is nothing.           *)
Reset(p, head, readable) ==
    IF head = 0 \/ ~readable THEN p
    ELSE [p EXCEPT !.head = head, !.nonces = blocks[head].nonce]

(* Mutant: the next nonce is the last one's. *)
LastNonces(p) ==
    [p EXCEPT !.nonces = [a \in Addr |-> IF p.pending[a] = NoList THEN p.nonces[a]
                                         ELSE Max({Nonce[t] : t \in p.pending[a].txs})]]

NextNonces(p) ==
    [p EXCEPT !.nonces = [a \in Addr |-> IF p.pending[a] = NoList THEN p.nonces[a]
                                         ELSE Max({Nonce[t] : t \in p.pending[a].txs}) + 1]]

(* What runReorg does after promoteExecutables, from the pool q it left.     *)
AfterPromote(q, reset, ord, beat) ==
    NextNonces(TruncateQueue(TruncatePending(IF reset = 0 THEN q ELSE FoldLeft(Demote, q, ord), ord), beat))

(* Mutant: only a reset enforces the limits. *)
RunReorgTruncatesOnReset(p, reset, dirty, readable, ord, beat) ==
    LET promote    == SelectSeq(ord, LAMBDA a : reset # 0 \/ a \in dirty)
        outcome(q) == [pool     |-> IF reset = 0 THEN NextNonces(q) ELSE AfterPromote(q, reset, ord, beat),
                       promoted |-> PendingTxs(q) \ PendingTxs(p)]
    IN  outcome(FoldLeft(Promote, Reset(p, reset, readable), promote))

(* The part of runReorg under the lock: the pool and what was promoted.      *)
RunReorg(p, reset, dirty, readable, ord, beat) ==
    LET promote    == SelectSeq(ord, LAMBDA a : reset # 0 \/ a \in dirty)
        outcome(q) == [pool     |-> AfterPromote(q, reset, ord, beat),
                       promoted |-> PendingTxs(q) \ PendingTxs(p)]
    IN  outcome(FoldLeft(Promote, Reset(p, reset, readable), promote))

(* Mutant: the journal is rewritten without the queue. *)
RotatedPending(p) ==
    [p EXCEPT !.journal = {t \in PendingTxs(p) : Journaling /\ Sender[t] \in p.locals}]

Rotated(p) ==
    [p EXCEPT !.journal = {t \in PendingTxs(p) \cup QueuedTxs(p) : Journaling /\ Sender[t] \in p.locals}]

(* NewTxPool: an empty pool on the last block, then the journal, of which an *)
(* order is taken.                                                           *)
EmptyPool ==
    [pending |-> [a \in Addr |-> NoList], queue |-> [a \in Addr |-> NoList],
     remotes |-> {}, localTxs |-> {}, locals |-> {}, beats |-> {},
     heap |-> {}, stales |-> 0, gasPrice |-> PriceLimit,
     head |-> Len(blocks), nonces |-> Last(blocks).nonce, journal |-> {}]

Load(p, journal, ord) ==
    LET file == SetToSortSeq(journal, LAMBDA t, u : Cheaper(t, u, ord))
        with(dirty, r) == [pool |-> r.pool, dirty |-> dirty \cup r.dirty]
        load(s, t) == with(s.dirty, Add(s.pool, t, TRUE, ord))
    IN  FoldLeft(load, [pool |-> p, dirty |-> {}], file)

Loaded(journal, ord, beat) ==
    LET promoted(s) == RunReorg(s.pool, 0, s.dirty, TRUE, ord, beat).pool
    IN  Rotated(promoted(Load(EmptyPool, journal, ord)))
-----------------------------------------------------------------------------
(* The chain, external to the pool: a block executes consecutive nonces of   *)
(* some accounts, may move balances and may change the rules.                *)
Executed(S) ==
    \A t \in S :
        /\ Nonce[t] >= Last(blocks).nonce[Sender[t]]
        /\ \A n \in Last(blocks).nonce[Sender[t]]..Nonce[t] :
            Cardinality({u \in S : Sender[u] = Sender[t] /\ Nonce[u] = n}) = 1

Block(b) ==
    /\ Len(blocks) < MaxBlocks /\ ~closed
    /\ Executed(b.executed)
    /\ blocks' = Append(blocks,
            [nonce    |-> [a \in Addr |-> Last(blocks).nonce[a]
                                            + Cardinality({t \in b.executed : Sender[t] = a})],
             balance  |-> b.balance,
             included |-> Last(blocks).included \cup b.executed])
    /\ minPrice' = b.price
    /\ UNCHANGED <<pool, sched, run, callers, loopHead, closed, announced>>
-----------------------------------------------------------------------------
NoRun == [phase |-> "none", reset |-> 0, dirty |-> {}, events |-> {}]

NoRequests == [phase |-> "running", launch |-> FALSE, reset |-> 0, dirty |-> {}, events |-> {}]

Idle == [pc |-> "idle", dirty |-> {}]

Init ==
    /\ blocks = <<[nonce |-> [a \in Addr |-> 0], balance |-> Genesis.balance, included |-> {}]>>
    /\ minPrice = Genesis.price
    /\ pool = EmptyPool
    /\ sched = NoRequests
    /\ run = NoRun
    /\ callers = [c \in Caller |-> Idle]
    /\ loopHead = 1
    /\ closed = FALSE
    /\ announced = {}

(* queueTxEvent and Put: the latest event of a nonce.                        *)
PutEvents(events, S) ==
    {e \in events : \A t \in S : Sender[t] # Sender[e] \/ Nonce[t] # Nonce[e]} \cup S

(* addTxs up to the unlock.  The rpc caller is AddLocal.                     *)
Submit(c, t, ord) ==
    /\ callers[c].pc = "idle" /\ (c = "p2p" => ~closed)
    /\ t \notin All(pool)
    /\ \E r \in {Add(pool, t, c = "rpc", ord)} :
        /\ pool' = r.pool
        /\ \/ /\ sched.phase = "running"
              /\ sched' = [sched EXCEPT !.events = PutEvents(@, r.event)]
           \/ closed /\ UNCHANGED sched
        /\ callers' = [callers EXCEPT ![c] = [pc |-> "request", dirty |-> r.dirty]]
        /\ announced' = announced \cap All(r.pool)
    /\ UNCHANGED <<blocks, minPrice, run, loopHead, closed>>

(* requestPromoteExecutables, received by scheduleReorgLoop; AddLocal waits  *)
(* for the next run.                                                         *)
RequestPromote(c) ==
    /\ callers[c].pc = "request"
    /\ sched.phase = "running"
    /\ sched' = [sched EXCEPT !.dirty = @ \cup callers[c].dirty, !.launch = TRUE]
    /\ callers' = [callers EXCEPT ![c] = [pc |-> IF c = "rpc" THEN "next" ELSE "idle", dirty |-> {}]]
    /\ UNCHANGED <<blocks, minPrice, pool, run, loopHead, closed, announced>>

(* After the shutdown the caller returns.                                    *)
RequestRefused(c) ==
    /\ callers[c].pc = "request"
    /\ closed
    /\ callers' = [callers EXCEPT ![c] = Idle]
    /\ UNCHANGED <<blocks, minPrice, pool, sched, run, loopHead, closed, announced>>

(* Mutant: a head is taken before it is there. *)
ChainHeadUnread ==
    /\ ~closed /\ loopHead <= Len(blocks)
    /\ loopHead' = loopHead + 1
    /\ sched' = [sched EXCEPT !.reset = loopHead', !.launch = TRUE]
    /\ UNCHANGED <<blocks, minPrice, pool, run, callers, closed, announced>>

(* loop: ChainHeadNotify, and requestReset.                                  *)
ChainHead ==
    /\ ~closed /\ loopHead < Len(blocks)
    /\ loopHead' = loopHead + 1
    /\ sched' = [sched EXCEPT !.reset = loopHead', !.launch = TRUE]
    /\ UNCHANGED <<blocks, minPrice, pool, run, callers, closed, announced>>

(* Mutant: the queued announcements are dropped at launch. *)
LaunchDropsEvents ==
    /\ sched.phase = "running" /\ sched.launch /\ run.phase = "none"
    /\ run' = [phase |-> "launched", reset |-> sched.reset, dirty |-> sched.dirty, events |-> {}]
    /\ sched' = NoRequests
    /\ callers' = [c \in Caller |-> IF callers[c].pc = "next" THEN [callers[c] EXCEPT !.pc = "cur"]
                                    ELSE callers[c]]
    /\ UNCHANGED <<blocks, minPrice, pool, loopHead, closed, announced>>

(* scheduleReorgLoop: the next run.                                          *)
Launch ==
    /\ sched.phase = "running" /\ sched.launch /\ run.phase = "none"
    /\ run' = [phase |-> "launched", reset |-> sched.reset, dirty |-> sched.dirty, events |-> sched.events]
    /\ sched' = NoRequests
    /\ callers' = [c \in Caller |-> IF callers[c].pc = "next" THEN [callers[c] EXCEPT !.pc = "cur"]
                                    ELSE callers[c]]
    /\ UNCHANGED <<blocks, minPrice, pool, loopHead, closed, announced>>

(* runReorg up to the unlock; events below the nonces of a reset are stale.  *)
Reorg(readable, ord, beat) ==
    LET p     == Reset(pool, run.reset, readable)
        fresh == IF run.reset = 0 THEN run.events
                 ELSE {t \in run.events : Nonce[t] >= p.nonces[Sender[t]]}
    IN
    /\ run.phase = "launched"
    /\ \E r \in {RunReorg(pool, run.reset, run.dirty, readable, ord, beat)} :
        /\ pool' = r.pool
        /\ run' = [run EXCEPT !.phase = "unlocked", !.events = PutEvents(fresh, r.promoted)]
        /\ announced' = announced \cap All(r.pool)
    /\ UNCHANGED <<blocks, minPrice, sched, callers, loopHead, closed>>

(* The rest of runReorg: the events are sent and done is closed.             *)
ReorgDone ==
    /\ run.phase = "unlocked"
    /\ announced' = (announced \cup run.events) \cap All(pool)
    /\ run' = NoRun
    /\ callers' = [c \in Caller |-> IF callers[c].pc = "cur" THEN Idle ELSE callers[c]]
    /\ UNCHANGED <<blocks, minPrice, pool, sched, loopHead, closed>>

(* loop: evict.  The accounts in S have no heartbeat within Lifetime.        *)
Evict(S, ord) ==
    /\ ~closed
    /\ S # {} /\ S \subseteq {a \in Addr \ pool.locals : pool.queue[a] # NoList}
    /\ \A a \in Addr \ (S \cup pool.locals) : pool.queue[a] # NoList => a \in pool.beats
    /\ pool' = FoldLeft(LAMBDA p, a : RemoveTxs(p, ByNonce(p.queue[a].txs), TRUE), pool,
                        SelectSeq(ord, LAMBDA a : a \in S))
    /\ announced' = announced \cap All(pool')
    /\ UNCHANGED <<blocks, minPrice, sched, run, callers, loopHead, closed>>

(* loop: SetGasPriceWithCap(the price the oracle recommends, never below the *)
(* minimum of the rules, and that minimum).                                  *)
UpdateGasPrice(recommended, ord) ==
    LET price == Max({recommended, PriceLimit})
    IN  /\ ~closed
        /\ recommended >= minPrice /\ price # pool.gasPrice
        /\ pool' = SetGasPriceWithCap(pool, price, minPrice, ord)
        /\ announced' = announced \cap All(pool')
        /\ UNCHANGED <<blocks, minPrice, sched, run, callers, loopHead, closed>>

(* loop: the journal is rewritten from the pool.                             *)
Rotate ==
    /\ ~closed
    /\ pool' = Rotated(pool)
    /\ UNCHANGED <<blocks, minPrice, sched, run, callers, loopHead, closed, announced>>

(* Service.Stop ends the subscription when the peers' handlers are gone;     *)
(* loop closes reorgShutdownCh.                                              *)
Shutdown ==
    /\ Shutdowns /\ ~closed
    /\ callers["p2p"].pc = "idle"
    /\ closed' = TRUE
    /\ UNCHANGED <<blocks, minPrice, pool, sched, run, callers, loopHead, announced>>

(* scheduleReorgLoop sees the shutdown only with nothing to launch, ...      *)
SchedulerStops ==
    /\ closed /\ sched.phase = "running"
    /\ sched.launch => run.phase # "none"
    /\ sched' = [sched EXCEPT !.phase = "stopping"]
    /\ UNCHANGED <<blocks, minPrice, pool, run, callers, loopHead, closed, announced>>

(* Mutant: nextDone is not closed. *)
SchedulerForgetsWaiters ==
    /\ sched.phase = "stopping" /\ run.phase = "none"
    /\ sched' = [sched EXCEPT !.phase = "done"]
    /\ UNCHANGED <<blocks, minPrice, pool, run, callers, loopHead, closed, announced>>

(* ... awaits the run and closes nextDone.                                   *)
SchedulerDone ==
    /\ sched.phase = "stopping" /\ run.phase = "none"
    /\ sched' = [sched EXCEPT !.phase = "done"]
    /\ callers' = [c \in Caller |-> IF callers[c].pc = "next" THEN Idle ELSE callers[c]]
    /\ UNCHANGED <<blocks, minPrice, pool, run, loopHead, closed, announced>>

(* The process ends at any point and starts again: NewTxPool.                *)
Restart(ord, beat) ==
    /\ Restarts
    /\ pool' = Loaded(pool.journal, ord, beat)
    /\ sched' = NoRequests
    /\ run' = NoRun
    /\ callers' = [c \in Caller |-> Idle]
    /\ loopHead' = Len(blocks)
    /\ closed' = FALSE
    /\ announced' = PendingTxs(pool')
    /\ UNCHANGED <<blocks, minPrice>>
-----------------------------------------------------------------------------
Next ==
    \/ \E b \in NextBlocks : Block(b)
    \/ \E c \in Caller, t \in Tx, ord \in Orders : Submit(c, t, ord)
    \/ \E c \in Caller : RequestPromote(c)
    \/ \E c \in Caller : RequestRefused(c)
    \/ ChainHead
    \/ Launch
    \/ \E readable \in {TRUE, ~StateErrors}, ord, beat \in Orders : Reorg(readable, ord, beat)
    \/ ReorgDone
    \/ \E S \in SUBSET Addr, ord \in Orders : Evict(S, ord)
    \/ \E price \in GasPrices, ord \in Orders : UpdateGasPrice(price, ord)
    \/ Rotate
    \/ Shutdown
    \/ SchedulerStops
    \/ SchedulerDone
    \/ \E ord, beat \in Orders : Restart(ord, beat)

Spec == Init /\ [][Next]_vars

Quiet == sched = NoRequests /\ run = NoRun /\ callers = [c \in Caller |-> Idle] /\ loopHead = Len(blocks)

(* One operation after another: what they do to the pool.                    *)
SerialNext ==
    \/ Quiet /\ \E b \in NextBlocks : Block(b)
    \/ Quiet /\ \E c \in Caller, t \in Tx, ord \in Orders : Submit(c, t, ord)
    \/ \E c \in Caller : RequestPromote(c)
    \/ ChainHead
    \/ Launch
    \/ \E readable \in {TRUE, ~StateErrors}, ord, beat \in Orders : Reorg(readable, ord, beat)
    \/ ReorgDone
    \/ Quiet /\ \E S \in SUBSET Addr, ord \in Orders : Evict(S, ord)
    \/ Quiet /\ \E price \in GasPrices, ord \in Orders : UpdateGasPrice(price, ord)
    \/ Quiet /\ Rotate
    \/ Quiet /\ \E ord, beat \in Orders : Restart(ord, beat)

SerialSpec == Init /\ [][SerialNext]_vars

(* Goroutines run: a caller is received or sees the shutdown, runs are       *)
(* launched, get pool.mu and end.                                            *)
Fairness ==
    /\ \A c \in Caller : WF_vars(RequestPromote(c) \/ RequestRefused(c))
    /\ WF_vars(Launch)
    /\ []<>(run.phase # "launched")
    /\ WF_vars(ReorgDone)
    /\ WF_vars(SchedulerStops)
    /\ WF_vars(SchedulerDone)

FairSpec == Spec /\ Fairness
-----------------------------------------------------------------------------
Lists == [txs : SUBSET Tx, costcap : Nat]

(* Every field has its type.                                                 *)
TypeOK ==
    /\ \A i \in DOMAIN blocks : blocks[i].nonce \in [Addr -> Nat] /\ blocks[i].balance \in [Addr -> Nat]
    /\ minPrice \in Nat
    /\ pool.pending \in [Addr -> Lists] /\ pool.queue \in [Addr -> Lists]
    /\ pool.remotes \subseteq Tx /\ pool.localTxs \subseteq Tx /\ pool.journal \subseteq Tx
    /\ pool.locals \subseteq Addr /\ pool.beats \subseteq Addr
    /\ pool.heap \subseteq Tx \X (Nat \ {0}) /\ pool.stales \in Int
    /\ pool.head \in DOMAIN blocks /\ pool.nonces \in [Addr -> Nat]
    /\ sched.phase \in {"running", "stopping", "done"} /\ run.phase \in {"none", "launched", "unlocked"}
    /\ \A c \in Caller : callers[c].pc \in {"idle", "request", "next", "cur"}
    /\ loopHead \in DOMAIN blocks /\ closed \in BOOLEAN /\ announced \subseteq Tx

(* The lookup holds exactly the listed transactions, each in one list of its *)
(* own account and once per nonce: no replacement, promotion, demotion or    *)
(* eviction loses track of a transaction (validateTxPoolInternals).          *)
LookupMatchesLists ==
    /\ All(pool) = PendingTxs(pool) \cup QueuedTxs(pool)
    /\ pool.remotes \cap pool.localTxs = {}
    /\ \A a \in Addr :
        LET listed == pool.pending[a].txs \cup pool.queue[a].txs
        IN  /\ pool.pending[a].txs \cap pool.queue[a].txs = {}
            /\ \A t \in listed : Sender[t] = a /\ \A u \in listed : Nonce[t] = Nonce[u] => t = u

(* The pending transactions of an account are executable one after another   *)
(* on the state of the last reset, without a gap, and Nonce(addr) is the     *)
(* next one: whatever order promotions, demotions and truncations take.      *)
PendingIsExecutable ==
    \A a \in Addr : {Nonce[t] : t \in pool.pending[a].txs} = State(pool).nonce[a]..(pool.nonces[a] - 1)

(* No transaction stays in the pool that the state of the last reset has     *)
(* executed or cannot pay: the cached costcap never hides one from Filter.   *)
PoolIsPayable ==
    \A t \in All(pool) :
        Nonce[t] >= State(pool).nonce[Sender[t]] /\ Cost[t] <= State(pool).balance[Sender[t]]

(* Each remote transaction can be found by price, the stale entries of the   *)
(* heap are counted, and the transactions of local accounts are not remote.  *)
PricedIsComplete ==
    /\ pool.remotes \subseteq Entries(pool.heap)
    /\ Cardinality({e \in pool.heap : e[1] \notin pool.remotes}) <= pool.stales
    /\ \A t \in pool.remotes : Sender[t] \notin pool.locals

(* An account with queued transactions has a heartbeat, or the next eviction *)
(* would take it for three hours old.                                        *)
QueuedHaveBeat == \A a \in Addr : pool.queue[a] # NoList => a \in pool.beats

(* More than GlobalSlots are pending only if no remote account has more than *)
(* the AccountSlots it is guaranteed.                                        *)
PendingIsBounded ==
    \/ PendingCount(pool) <= GlobalSlots
    \/ \A a \in Addr \ pool.locals : Cardinality(pool.pending[a].txs) <= AccountSlots

(* While the pool runs, each pending transaction has been announced or is    *)
(* among the events of a run that is active, launched or certain to be       *)
(* requested.                                                                *)
EventsAreNotLost ==
    ~closed => \A t \in PendingTxs(pool) :
        \/ t \in announced \cup run.events
        \/ t \in sched.events /\ (sched.launch \/ \E c \in Caller : callers[c].pc = "request")

(* A transaction of a local account leaves the pool only when its nonce is   *)
(* used, its sender cannot pay, a better one replaces it, or a restart finds *)
(* it not journaled or no longer valid.                                      *)
LocalsStay ==
    \A t \in All(pool) \ All(pool') :
        Sender[t] \in pool.locals =>
            \/ Nonce[t] < blocks[pool'.head].nonce[Sender[t]]
            \/ Cost[t] > blocks[pool'.head].balance[Sender[t]]
            \/ \E u \in All(pool') : Sender[u] = Sender[t] /\ Nonce[u] = Nonce[t] /\ Outbids(u, t)
            \/ /\ t \notin pool.journal \/ Price[t] < minPrice
               /\ \E ord, beat \in Orders : Restart(ord, beat)

(* A transaction a local account adds is journaled at once, and only what    *)
(* has left the pool leaves the journal.                                     *)
JournalKeepsUp ==
    /\ \A t \in All(pool') \ All(pool) : Journaling /\ Sender[t] \in pool'.locals => t \in pool'.journal
    /\ \A t \in pool.journal \ pool'.journal : t \notin All(pool')

(* Transactions of local accounts stay in the pool and in the journal.       *)
LocalsAreSafe == [][LocalsStay /\ JournalKeepsUp]_vars

(* AddLocal returns: the run it waits for ends, or the shutdown releases it. *)
AddLocalReturns == callers["rpc"].pc # "idle" ~> callers["rpc"].pc = "idle"

(* The lists, the lookup, the price heap and the limits, after each          *)
(* operation.                                                                *)
ListsAreSound ==
    /\ LookupMatchesLists /\ PendingIsExecutable /\ PoolIsPayable
    /\ PricedIsComplete /\ PendingIsBounded /\ QueuedHaveBeat

(* The pool stays typed and executable between the steps of its goroutines,  *)
(* and no announcement is lost.                                              *)
NothingIsLost == TypeOK /\ PendingIsExecutable /\ EventsAreNotLost

(* "If a newly added transaction is marked as local, its sending account     *)
(* will be whitelisted" (add).                                               *)
LocalIsWhitelisted ==
    [][\A t \in All(pool') \ All(pool) : t \in pool'.localTxs => Sender[t] \in pool'.locals]_vars
=============================================================================
