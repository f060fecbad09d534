-------------------------------- MODULE Filters --------------------------------
(* The filter system (gossip/filters): the event loop that forwards chain     *)
(* events to filters, the polled filters with their buffers and deadlines,   *)
(* the subscriptions pushed to RPC clients, and the timeout loop.            *)
(* Channels without a buffer are rendezvous: both sides move in one step.    *)
EXTENDS Naturals, Sequences, FiniteSets

CONSTANTS Filter, Kind,      \* [Filter -> {"logs", "txs", "blocks"}]
          Polled,            \* filters that are polled; the others are subscriptions
          Matching,          \* [Filter -> set of events], what filterLogs lets through
          Cap,               \* [Filter -> Nat], buffer of the filter's channel
          ChanSize,          \* logsChanSize, blocksChanSize, txChanSize
          Together,          \* bound: the sets of filters that clients create
          MaxEvents,         \* bound: events published
          MaxTicks           \* bound: ticks of the timeout loop

VARIABLES pc,        \* the goroutine of each filter
          held,      \* what it has received and not yet stored
          chan,      \* the filter's channel
          index,     \* the event loop's index
          loop,      \* the event loop: the event in hand, filters still to be sent it
          filters,   \* api.filters
          buffer,    \* hashes or logs of a polled filter
          expired,   \* filters whose deadline has fired
          timeout,   \* the timeout loop: filters still to be looked at, the one unsubscribed
          unsub,     \* filters with an Unsubscribe under way outside the timeout loop
          ch,        \* txsCh, logsCh, blocksCh
          count,     \* events published
          due, reported,  \* history: events a filter was to be sent, events a poll returned
          ticks

fvars == <<pc, held, chan, index, loop, filters, buffer, expired, timeout, unsub, ch,
           count, due, reported, ticks>>

Kinds == {Kind[f] : f \in Filter}
Idle == [ev |-> 0, kind |-> "none", todo |-> {}, at |-> "none"]
Waiting == [on |-> FALSE, todo |-> {}, at |-> "none"]
Free == ~timeout.on   \* filtersMu: only the timeout loop keeps it while it waits

FiltersInit ==
    /\ \E use \in Together : pc = [f \in Filter |-> IF f \in use THEN "none" ELSE "unused"]
    /\ held = [f \in Filter |-> <<>>]
    /\ chan = [f \in Filter |-> <<>>] /\ index = {} /\ loop = Idle
    /\ filters = {} /\ buffer = [f \in Filter |-> <<>>] /\ expired = {}
    /\ timeout = Waiting /\ unsub = {}
    /\ ch = [k \in Kinds |-> <<>>] /\ count = 0
    /\ due = [f \in Filter |-> <<>>] /\ reported = [f \in Filter |-> <<>>]
    /\ ticks = 0
-----------------------------------------------------------------------------
(* The event system.                                                         *)

(* The chain or the pool publishes an event (external; feeds block when the  *)
(* channel is full).                                                         *)
Publish(k) ==
    /\ count < MaxEvents /\ Len(ch[k]) < ChanSize
    /\ \E f \in Filter : Kind[f] = k /\ pc[f] # "unused"   \* bound: others have no effect
    /\ count' = count + 1
    /\ ch' = [ch EXCEPT ![k] = Append(@, count + 1)]
    /\ UNCHANGED <<pc, held, chan, index, loop, filters, buffer, expired, timeout, unsub, due, reported, ticks>>

(* The six ways to make a filter: subscribe, which waits for the event loop. *)
Create(f, kind, polled) ==
    /\ pc[f] = "none" /\ Kind[f] = kind /\ polled = (f \in Polled)
    /\ pc' = [pc EXCEPT ![f] = "installing"]
    /\ UNCHANGED <<held, chan, index, loop, filters, buffer, expired, timeout, unsub, ch, count, due, reported, ticks>>

NewFilter(f) == Create(f, "logs", TRUE)
NewBlockFilter(f) == Create(f, "blocks", TRUE)
NewPendingTransactionFilter(f) == Create(f, "txs", TRUE)
Logs(f) == Create(f, "logs", FALSE)
NewHeads(f) == Create(f, "blocks", FALSE)
NewPendingTransactions(f) == Create(f, "txs", FALSE)

Install(f) ==
    /\ pc[f] = "installing" /\ loop = Idle
    /\ index' = index \cup {f}
    /\ pc' = [pc EXCEPT ![f] = IF f \in Polled THEN "registering" ELSE "idle"]
    /\ UNCHANGED <<held, chan, loop, filters, buffer, expired, timeout, unsub, ch, count, due, reported, ticks>>

(* The entry in api.filters, with its deadline; the goroutine starts.        *)
Register(f) ==
    /\ pc[f] = "registering" /\ Free
    /\ filters' = filters \cup {f} /\ pc' = [pc EXCEPT ![f] = "idle"]
    /\ UNCHANGED <<held, chan, index, loop, buffer, expired, timeout, unsub, ch, count, due, reported, ticks>>

(* The event loop takes an event and broadcasts it to the filters of its     *)
(* kind that match.                                                          *)
Broadcast(k) ==
    /\ loop = Idle /\ ch[k] # <<>>
    /\ ch' = [ch EXCEPT ![k] = Tail(@)]
    /\ LET ev == Head(ch[k])
           todo == {f \in index : Kind[f] = k /\ (k = "logs" => ev \in Matching[f])}
       IN  /\ loop' = IF todo = {} THEN Idle ELSE [ev |-> ev, kind |-> k, todo |-> todo, at |-> "none"]
           /\ due' = [f \in Filter |-> IF f \in todo THEN Append(due[f], ev) ELSE due[f]]
    /\ UNCHANGED <<pc, held, chan, index, filters, buffer, expired, timeout, unsub, count, reported, ticks>>

(* The map is walked in any order; the send to the filter it is at blocks.   *)
NextFilter(f) ==
    /\ loop.at = "none" /\ f \in loop.todo
    /\ loop' = [loop EXCEPT !.at = f]
    /\ UNCHANGED <<pc, held, chan, index, filters, buffer, expired, timeout, unsub, ch, count, due, reported, ticks>>

AfterSend(f) == IF loop.todo = {f} THEN Idle ELSE [loop EXCEPT !.todo = @ \ {f}, !.at = "none"]

(* The goroutine receives straight from the loop, or the channel has room.   *)
Deliver(f) ==
    /\ loop.at = f
    /\ \/ /\ pc[f] = "idle" /\ chan[f] = <<>>
          /\ held' = [held EXCEPT ![f] = <<loop.ev>>] /\ pc' = [pc EXCEPT ![f] = "got"] /\ UNCHANGED chan
       \/ /\ Len(chan[f]) < Cap[f]
          /\ chan' = [chan EXCEPT ![f] = Append(@, loop.ev)] /\ UNCHANGED <<held, pc>>
    /\ loop' = AfterSend(f)
    /\ UNCHANGED <<index, filters, buffer, expired, timeout, unsub, ch, count, due, reported, ticks>>
-----------------------------------------------------------------------------
(* The goroutine of a filter.                                                *)

Receive(f) ==
    /\ pc[f] = "idle" /\ chan[f] # <<>>
    /\ held' = [held EXCEPT ![f] = <<Head(chan[f])>>] /\ chan' = [chan EXCEPT ![f] = Tail(@)]
    /\ pc' = [pc EXCEPT ![f] = "got"]
    /\ UNCHANGED <<index, loop, filters, buffer, expired, timeout, unsub, ch, count, due, reported, ticks>>

(* A polled filter appends under the lock if it still has its entry; a       *)
(* subscription notifies its client.                                         *)
Store(f) ==
    /\ pc[f] = "got" /\ pc' = [pc EXCEPT ![f] = "idle"]
    /\ held' = [held EXCEPT ![f] = <<>>]
    /\ IF f \in Polled
       THEN /\ Free
            /\ buffer' = IF f \in filters THEN [buffer EXCEPT ![f] = @ \o held[f]] ELSE buffer
            /\ UNCHANGED reported
       ELSE /\ reported' = [reported EXCEPT ![f] = @ \o held[f]]
            /\ UNCHANGED buffer
    /\ UNCHANGED <<chan, index, loop, filters, expired, timeout, unsub, ch, count, due, ticks>>

(* The filter's err channel is closed: the goroutine removes the entry.      *)
Finish(f) ==
    /\ f \in Polled /\ pc[f] = "idle" /\ f \notin index /\ Free
    /\ filters' = filters \ {f} /\ pc' = [pc EXCEPT ![f] = "done"]
    /\ UNCHANGED <<held, chan, index, loop, buffer, expired, timeout, unsub, ch, count, due, reported, ticks>>

(* The client of a subscription unsubscribes, or its connection drops.       *)
Close(f) ==
    /\ f \notin Polled /\ pc[f] = "idle"
    /\ pc' = [pc EXCEPT ![f] = "closing"] /\ unsub' = unsub \cup {f}
    /\ UNCHANGED <<held, chan, index, loop, filters, buffer, expired, timeout, ch, count, due, reported, ticks>>
-----------------------------------------------------------------------------
(* Polling.                                                                  *)

(* Mutant: the buffer is handed over and kept. *)
GetFilterChangesKeeps(f) ==
    /\ f \in filters /\ Free
    /\ buffer[f] # <<>> \/ f \in expired
    /\ expired' = expired \ {f}
    /\ reported' = [reported EXCEPT ![f] = @ \o buffer[f]]
    /\ UNCHANGED <<pc, held, chan, index, loop, filters, buffer, timeout, unsub, ch, count, due, ticks>>

(* GetFilterChanges: the deadline starts again, the buffer is handed over.   *)
GetFilterChanges(f) ==
    /\ f \in filters /\ Free
    /\ buffer[f] # <<>> \/ f \in expired
    /\ expired' = expired \ {f}
    /\ reported' = [reported EXCEPT ![f] = @ \o buffer[f]]
    /\ buffer' = [buffer EXCEPT ![f] = <<>>]
    /\ UNCHANGED <<pc, held, chan, index, loop, filters, timeout, unsub, ch, count, due, ticks>>

(* UninstallFilter: the entry goes under the lock, Unsubscribe comes after.  *)
UninstallFilter(f) ==
    /\ f \in filters /\ Free
    /\ filters' = filters \ {f} /\ unsub' = unsub \cup {f}
    /\ UNCHANGED <<pc, held, chan, index, loop, buffer, expired, timeout, ch, count, due, reported, ticks>>

Expire(f) ==
    /\ f \in filters \ expired /\ ticks < MaxTicks
    /\ expired' = expired \cup {f}
    /\ UNCHANGED <<pc, held, chan, index, loop, filters, buffer, timeout, unsub, ch, count, due, reported, ticks>>

(* timeoutLoop: takes the lock for a whole round over the filters.           *)
Tick ==
    /\ ~timeout.on /\ ticks < MaxTicks /\ expired # {}
    /\ ticks' = ticks + 1
    /\ timeout' = [on |-> TRUE, todo |-> filters, at |-> "none"]
    /\ UNCHANGED <<pc, held, chan, index, loop, filters, buffer, expired, unsub, ch, count, due, reported>>

TickFilter(f) ==
    /\ timeout.on /\ timeout.at = "none" /\ f \in timeout.todo
    /\ timeout' = [timeout EXCEPT !.todo = @ \ {f}, !.at = IF f \in expired THEN f ELSE "none"]
    /\ expired' = expired \ {f}
    /\ UNCHANGED <<pc, held, chan, index, loop, filters, buffer, unsub, ch, count, due, reported, ticks>>

TickEnd ==
    /\ timeout.on /\ timeout.at = "none" /\ timeout.todo = {}
    /\ timeout' = Waiting
    /\ UNCHANGED <<pc, held, chan, index, loop, filters, buffer, expired, unsub, ch, count, due, reported, ticks>>
-----------------------------------------------------------------------------
(* Unsubscribe, by whoever runs it.                                          *)

Unsubscribing(f) == f \in unsub \/ timeout.at = f

(* The loop takes the uninstall request and closes err: Unsubscribe returns. *)
Uninstall(f) ==
    /\ Unsubscribing(f) /\ loop = Idle
    /\ index' = index \ {f}
    /\ unsub' = unsub \ {f}
    /\ IF timeout.at = f
       THEN timeout' = [timeout EXCEPT !.at = "none"] /\ filters' = filters \ {f}
       ELSE UNCHANGED <<timeout, filters>>
    /\ pc' = IF f \in Polled THEN pc ELSE [pc EXCEPT ![f] = "done"]
    /\ UNCHANGED <<held, chan, loop, buffer, expired, ch, count, due, reported, ticks>>

(* Mutant: nothing is consumed while the request to uninstall waits. *)
ConsumeNothing(f) == Unsubscribing(f) /\ FALSE /\ UNCHANGED fvars

(* Meanwhile it consumes, and drops, what the loop sends to the filter.      *)
Consume(f) ==
    /\ Unsubscribing(f)
    /\ \/ chan[f] # <<>> /\ chan' = [chan EXCEPT ![f] = Tail(@)] /\ UNCHANGED loop
       \/ chan[f] = <<>> /\ loop.at = f /\ loop' = AfterSend(f) /\ UNCHANGED chan
    /\ UNCHANGED <<pc, held, index, filters, buffer, expired, timeout, unsub, ch, count, due, reported, ticks>>
-----------------------------------------------------------------------------
EventLoop == \/ \E k \in Kinds : Broadcast(k)
             \/ \E f \in Filter : NextFilter(f) \/ Deliver(f) \/ Install(f) \/ Uninstall(f)
Goroutine(f) == Receive(f) \/ Store(f) \/ Finish(f) \/ Register(f)
TimeoutLoop == Tick \/ TickEnd \/ \E f \in Filter : TickFilter(f)

FiltersNext ==
    \/ EventLoop \/ TimeoutLoop
    \/ \E k \in Kinds : Publish(k)
    \/ \E f \in Filter : \/ NewFilter(f) \/ NewBlockFilter(f) \/ NewPendingTransactionFilter(f)
                         \/ Logs(f) \/ NewHeads(f) \/ NewPendingTransactions(f)
                         \/ Goroutine(f) \/ Close(f) \/ GetFilterChanges(f)
                         \/ UninstallFilter(f) \/ Expire(f) \/ Consume(f)

-----------------------------------------------------------------------------
(* Properties.                                                               *)

InHand(f) == IF f \in loop.todo THEN <<loop.ev>> ELSE <<>>

(* What a filter's polls have returned (a subscription's client been         *)
(* notified of), followed by what is buffered, held by its goroutine, in its *)
(* channel and in the event loop's hand, is exactly the sequence of matching *)
(* events since the filter was installed: nothing is lost, doubled or        *)
(* reordered until somebody unsubscribes it, whatever the polls, deadlines   *)
(* and other filters do.                                                     *)
ChangesAreExact ==
    \A f \in index :
        (f \in Polled => f \in filters \/ pc[f] = "registering") /\ ~Unsubscribing(f) =>
            reported[f] \o buffer[f] \o held[f] \o chan[f] \o InHand(f) = due[f]

(* An event published is broadcast in the end, unless the timeout loop waits  *)
(* in Unsubscribe: clients that come, go and do not poll cannot block the    *)
(* event loop, nor the chain behind it.                                      *)
OnlyTimeoutsBlock ==
    \A k \in Kinds : (ch[k] # <<>>) ~> (ch[k] = <<>> \/ timeout.at # "none")

(* "This prevents the eventLoop broadcast method to deadlock when writing to *)
(* the filter event channel": whatever is published is broadcast in the end. *)
EventLoopNeverDeadlocks == \A k \in Kinds : (ch[k] # <<>>) ~> (ch[k] = <<>>)
=============================================================================
