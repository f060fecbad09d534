------------------------------ MODULE MCServices ------------------------------
(* Services made of goroutines that hand work to each other over channels:   *)
(* the filters and subscriptions of the RPC server (Filters) and the checks  *)
(* of events (HeavyCheck).  A behaviour is one of the service `part'; the    *)
(* other one is at rest.                                                     *)
(*                                                                           *)
(* Polled filters: l and m of logs, b of blocks, t of transactions.          *)
(* Subscriptions: g of logs, h of blocks, s of transactions, whose channel   *)
(* has a buffer.                                                             *)
EXTENDS Naturals, Sequences

VARIABLES part,
          pc, held, chan, index, loop, filters, buffer, expired, timeout, unsub, ch, count, due,
          reported, ticks,
          caller, tasksQ, worker, checked, epoch, quit

All == {"l", "m", "b", "t", "g", "h", "s"}
KindOf(f) == CASE f \in {"l", "m", "g"} -> "logs" [] f \in {"b", "h"} -> "blocks" [] OTHER -> "txs"
Ticks == 1

F == INSTANCE Filters WITH Filter <- All, Polled <- {"l", "m", "b", "t"},
        Kind <- [f \in All |-> KindOf(f)],
        Matching <- [f \in All |-> IF f = "l" THEN {1, 3} ELSE {1, 2, 3}],
        Cap <- [f \in All |-> IF f = "s" THEN 1 ELSE 0],
        Together <- {{"l", "m"}, {"l", "h"}, {"s"}, {"b"}, {"t"}, {"g"}},
        ChanSize <- 1, MaxEvents <- 2, MaxTicks <- Ticks

(* One caller has three tasks, more than a batch, the other one; the epoch   *)
(* of a task is the first of its two numbers.                                *)
MCBatches == << {<< <<1, 1>>, <<1, 2>>, <<1, 3>> >>}, {<< <<2, 4>> >>} >>
H == INSTANCE HeavyCheck WITH Callers <- {1, 2}, Workers <- {1, 2}, MaxBatch <- 2,
        MaxQueuedBatches <- 1, Batches <- MCBatches

fvars == <<pc, held, chan, index, loop, filters, buffer, expired, timeout, unsub, ch, count, due,
           reported, ticks>>
heavyvars == <<caller, tasksQ, worker, checked, epoch, quit>>
vars == <<part, fvars, heavyvars>>
-----------------------------------------------------------------------------
(* No filter is created and the timeout loop makes no tick any more.         *)
FiltersAtRest ==
    /\ pc = [f \in All |-> "unused"] /\ held = [f \in All |-> <<>>]
    /\ chan = [f \in All |-> <<>>] /\ index = {} /\ loop = F!Idle /\ filters = {}
    /\ buffer = [f \in All |-> <<>>] /\ expired = {} /\ timeout = F!Waiting /\ unsub = {}
    /\ ch = [k \in F!Kinds |-> <<>>] /\ count = 0
    /\ due = [f \in All |-> <<>>] /\ reported = [f \in All |-> <<>>] /\ ticks = Ticks

Init == \/ part = "filters" /\ F!FiltersInit /\ H!HeavyInit
        \/ part = "checks" /\ FiltersAtRest /\ H!HeavyInit

Next == \/ part = "filters" /\ F!FiltersNext /\ UNCHANGED <<part, heavyvars>>
        \/ part = "checks" /\ H!HeavyNext /\ UNCHANGED <<part, fvars>>

(* Goroutines that can run do; clients, deadlines and Stop need not act.     *)
Spec ==
    /\ Init /\ [][Next]_vars
    /\ WF_fvars(F!EventLoop) /\ WF_fvars(F!TimeoutLoop)
    /\ \A f \in All : WF_fvars(F!Goroutine(f)) /\ WF_fvars(F!Consume(f))
    /\ \A c \in {1, 2} : WF_heavyvars(H!CallerNext(c))
    /\ \A w \in {1, 2} : WF_heavyvars(H!WorkerNext(w))
-----------------------------------------------------------------------------
(* A filter's polls and a subscription's notifications bring each matching   *)
(* event once and in order (filters/api.go, filter_system.go), and each task *)
(* of the checkers is reported once (heavycheck, parentlesscheck).           *)
DeliveredOnce == F!ChangesAreExact /\ H!ReportedOnce

(* What is published is broadcast in the end, unless the timeout loop waits  *)
(* in Unsubscribe (filter_system.go eventLoop, Unsubscribe).                 *)
OnlyTimeoutsBlock == F!OnlyTimeoutsBlock

(* Every task given to the checkers is answered and every call returns,      *)
(* unless they are stopped (heavy_check.go Enqueue, loop, Stop).             *)
TasksAreAnswered == H!TasksAreAnswered

(* "This prevents the eventLoop broadcast method to deadlock when writing to *)
(* the filter event channel while the subscription loop is waiting for this  *)
(* method to return" (filter_system.go:152-155): whatever is published is    *)
(* broadcast in the end.                                                     *)
EventLoopNeverDeadlocks == F!EventLoopNeverDeadlocks
=============================================================================
