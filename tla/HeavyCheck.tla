----------------------------- MODULE HeavyCheck -----------------------------
(***************************************************************************)
(* The checks an event passes before its parents are known                 *)
(* (eventcheck/parentlesscheck, eventcheck/heavycheck): light checks run   *)
(* at once in the caller, the events that pass them are cut into batches   *)
(* for a bounded queue that several workers empty.  The epoch may change   *)
(* and the checker may be stopped at any time.                             *)
(***************************************************************************)
EXTENDS Integers, FiniteSets, Sequences

CONSTANTS Callers,            \* goroutines that call Enqueue
          Workers,            \* config.Threads
          MaxBatch,           \* config.MaxBatch
          MaxQueuedBatches,   \* config.MaxQueuedBatches
          Batches             \* the tasks each caller may be given: sequences of tasks

VARIABLES caller, tasksQ, worker, checked, epoch, quit

heavyvars == <<caller, tasksQ, worker, checked, epoch, quit>>

\* A task is the epoch of its event and a number.
EpochOf(t) == t[1]
NotRelevant == "not relevant"
Ok == "ok"

-----------------------------------------------------------------------------
(* parentlesscheck.Checker.Enqueue.                                        *)

Call(c, tasks) ==
  /\ caller[c].pc = "idle"
  /\ caller' = [caller EXCEPT ![c] = [pc |-> "light", tasks |-> tasks, passed |-> <<>>, start |-> 1]]
  /\ UNCHANGED <<tasksQ, worker, checked, epoch, quit>>

\* The result of a task is reported: checked(tasks).
Report(tasks, results) ==
  checked' = [t \in DOMAIN checked \cup {tasks[i] : i \in DOMAIN tasks} |->
                (IF t \in DOMAIN checked THEN checked[t] ELSE <<>>)
                \o (IF \E i \in DOMAIN tasks : tasks[i] = t
                    THEN <<results[CHOOSE i \in DOMAIN tasks : tasks[i] = t]>> ELSE <<>>)]

\* onlyInterestedEvents and lightCheck of the next task, both against the
\* current epoch.
LightCheck(c) ==
  /\ caller[c].pc = "light" /\ caller[c].tasks # <<>>
  /\ \E t \in {Head(caller[c].tasks)} :
       IF EpochOf(t) = epoch
       THEN /\ caller' = [caller EXCEPT ![c].tasks = Tail(@), ![c].passed = Append(@, t)]
            /\ UNCHANGED checked
       ELSE /\ caller' = [caller EXCEPT ![c].tasks = Tail(@)]
            /\ Report(<<t>>, <<NotRelevant>>)
  /\ UNCHANGED <<tasksQ, worker, epoch, quit>>

EnterHeavy(c) ==
  /\ caller[c].pc = "light" /\ caller[c].tasks = <<>>
  /\ caller' = [caller EXCEPT ![c].pc = "heavy"]
  /\ UNCHANGED <<tasksQ, worker, checked, epoch, quit>>

-----------------------------------------------------------------------------
(* heavycheck.Checker.                                                     *)

EndBeyond(c) ==
  LET n == Len(caller[c].passed) IN IF n > caller[c].start + MaxBatch THEN caller[c].start + MaxBatch ELSE n

\* The end of the batch that begins at start.
End(c) ==
  LET n == Len(caller[c].passed)
  IN IF n > caller[c].start + MaxBatch - 1 THEN caller[c].start + MaxBatch - 1 ELSE n

PushBlocks(c) ==
  /\ caller[c].pc = "heavy" /\ caller[c].start <= Len(caller[c].passed)
  /\ Len(tasksQ) < MaxQueuedBatches
  /\ tasksQ' = Append(tasksQ, SubSeq(caller[c].passed, caller[c].start, End(c)))
  /\ caller' = [caller EXCEPT ![c].start = @ + MaxBatch]
  /\ UNCHANGED <<worker, checked, epoch, quit>>

\* Send one batch, or give up when the checker has been stopped.
Push(c) ==
  /\ caller[c].pc = "heavy" /\ caller[c].start <= Len(caller[c].passed)
  /\ \/ /\ Len(tasksQ) < MaxQueuedBatches
        /\ tasksQ' = Append(tasksQ, SubSeq(caller[c].passed, caller[c].start, End(c)))
        /\ caller' = [caller EXCEPT ![c].start = @ + MaxBatch]
     \/ /\ quit /\ UNCHANGED tasksQ
        /\ caller' = [caller EXCEPT ![c].pc = "returned"]
  /\ UNCHANGED <<worker, checked, epoch, quit>>

Return(c) ==
  /\ caller[c].pc = "heavy" /\ caller[c].start > Len(caller[c].passed)
  /\ caller' = [caller EXCEPT ![c].pc = "returned"]
  /\ UNCHANGED <<tasksQ, worker, checked, epoch, quit>>

Take(w) ==
  /\ worker[w].pc = "wait" /\ tasksQ # <<>>
  /\ worker' = [worker EXCEPT ![w] = [pc |-> "validate", op |-> Head(tasksQ), results |-> <<>>]]
  /\ tasksQ' = Tail(tasksQ)
  /\ UNCHANGED <<caller, checked, epoch, quit>>

\* The epoch and its public keys are read anew for each event.
Validate(w) ==
  /\ worker[w].pc = "validate" /\ Len(worker[w].results) < Len(worker[w].op)
  /\ \E t \in {worker[w].op[Len(worker[w].results) + 1]} :
       worker' = [worker EXCEPT ![w].results = Append(@, IF EpochOf(t) = epoch THEN Ok ELSE NotRelevant)]
  /\ UNCHANGED <<caller, tasksQ, checked, epoch, quit>>

OnValidated(w) ==
  /\ worker[w].pc = "validate" /\ Len(worker[w].results) = Len(worker[w].op)
  /\ Report(worker[w].op, worker[w].results)
  /\ worker' = [worker EXCEPT ![w] = [pc |-> "wait", op |-> <<>>, results |-> <<>>]]
  /\ UNCHANGED <<caller, tasksQ, epoch, quit>>

\* A worker that waits sees the quit channel closed, even if the queue is not
\* empty.
Leave(w) ==
  /\ worker[w].pc = "wait" /\ quit
  /\ worker' = [worker EXCEPT ![w].pc = "left"]
  /\ UNCHANGED <<caller, tasksQ, checked, epoch, quit>>

Stop ==
  /\ ~quit
  /\ quit' = TRUE
  /\ UNCHANGED <<caller, tasksQ, worker, checked, epoch>>

NewEpoch ==
  /\ epoch = 1
  /\ epoch' = 2
  /\ UNCHANGED <<caller, tasksQ, worker, checked, quit>>

HeavyInit ==
  /\ caller = [c \in Callers |-> [pc |-> "idle", tasks |-> <<>>, passed |-> <<>>, start |-> 1]]
  /\ tasksQ = <<>>
  /\ worker = [w \in Workers |-> [pc |-> "wait", op |-> <<>>, results |-> <<>>]]
  /\ checked = <<>>
  /\ epoch = 1
  /\ quit = FALSE

CallerNext(c) == LightCheck(c) \/ EnterHeavy(c) \/ Push(c) \/ Return(c)
WorkerNext(w) == Take(w) \/ Validate(w) \/ OnValidated(w) \/ Leave(w)

HeavyNext ==
  \/ \E c \in Callers : CallerNext(c) \/ \E tasks \in Batches[c] : Call(c, tasks)
  \/ \E w \in Workers : WorkerNext(w)
  \/ Stop \/ NewEpoch

-----------------------------------------------------------------------------
\* Each task is reported at most once, although a big call is cut into batches
\* that different workers take, and an event is reported as valid only once its
\* epoch has begun (Enqueue, Validate).
ReportedOnce ==
  \A t \in DOMAIN checked :
    Len(checked[t]) = 1 /\ (checked[t][1] = Ok => EpochOf(t) <= epoch)

\* Every call returns and every task it was given is reported, unless the
\* checker is stopped; when it is stopped the callers that wait for room in the
\* queue and the workers leave (Enqueue, loop, Stop).
TasksAreAnswered ==
  /\ \A c \in Callers : caller[c].pc # "idle" ~> caller[c].pc = "returned"
  /\ \A c \in Callers : caller[c].pc = "returned" ~>
       quit \/ \A i \in DOMAIN caller[c].passed : caller[c].passed[i] \in DOMAIN checked
  /\ quit ~> \A w \in Workers : worker[w].pc = "left"
=============================================================================
