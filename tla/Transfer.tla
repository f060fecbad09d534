------------------------------ MODULE Transfer ------------------------------
(***************************************************************************)
(* "export events" and "import events" (launcher/export.go, import.go):    *)
(* one node's events are written to a file in the order of the store, by   *)
(* epoch and Lamport time, and fed to another node in batches that never   *)
(* span two epochs.  An import may be interrupted, killed and run again,   *)
(* with several files.                                                     *)
(*                                                                         *)
(* The event processor of the importing node is external: it checks the    *)
(* events of a batch concurrently against the node's current epoch and     *)
(* connects them in order.                                                 *)
(***************************************************************************)
EXTENDS Integers, FiniteSets, Sequences, SequencesExt

CONSTANTS MaxBatch,       \* maxBatchSize, in events
          MaxCrashes      \* the number of times an import is interrupted or killed

\* store: the exporting node's events in the order of their keys, each with its
\* epoch, the positions of its parents, and whether the decision that seals its
\* epoch needs it.
VARIABLES store, export, files, import, tasks, node, disk, crashes

transvars == <<store, export, files, import, tasks, node, disk, crashes>>

Idle == "idle"
\* signal: Ctrl-C is in the file's channel; stopped: it has closed the node
NoImport == [pc |-> Idle, args |-> <<>>, pos |-> 0, batch |-> <<>>, epoch |-> 0,
             first |-> 0, ok |-> FALSE, signal |-> FALSE, stopped |-> FALSE]
NoTasks == [checked |-> <<>>, processed |-> 0]

Epochs == {store[i].epoch : i \in DOMAIN store}
LastEpoch == CHOOSE k \in Epochs : \A j \in Epochs : j <= k

-----------------------------------------------------------------------------
(* exportEvents and exportTo.                                              *)

\* The file is created with its header, or is given up before that.
ExportStart(from, to) ==
  /\ export.pc = Idle /\ Len(files) < 2
  /\ files' = Append(files, [header |-> TRUE, events |-> <<>>, cut |-> FALSE,
                             from |-> from, to |-> to])
  /\ export' = [pc |-> "write", pos |-> 1]
  /\ UNCHANGED <<store, import, tasks, node, disk, crashes>>

InRange(f, e) == e.epoch >= f.from /\ ~(f.to >= f.from /\ e.epoch > f.to)

Writing == files[Len(files)]

\* ForEachEventRLP starts at the first epoch's prefix.
ExportEvent ==
  /\ export.pc = "write" /\ export.pos <= Len(store)
  /\ files' = IF InRange(Writing, store[export.pos])
              THEN [files EXCEPT ![Len(files)].events = Append(@, export.pos)]
              ELSE files
  /\ export' = [export EXCEPT !.pos = @ + 1]
  /\ UNCHANGED <<store, import, tasks, node, disk, crashes>>

\* The end of the store; or the export is killed, or fails to write, between two
\* events, which a reader of the file cannot tell from the end, in the header, or
\* in the middle of an event.
ExportEnd ==
  /\ export.pc = "write"
  /\ \/ UNCHANGED files
     \/ Writing.events = <<>> /\ files' = [files EXCEPT ![Len(files)].header = FALSE]
     \/ files' = [files EXCEPT ![Len(files)].cut = TRUE]
  /\ export' = [pc |-> Idle, pos |-> 0]
  /\ UNCHANGED <<store, import, tasks, node, disk, crashes>>

-----------------------------------------------------------------------------
(* importEvents: a node without peers, emitter and APIs.                   *)

ImportStart(args) ==
  /\ import.pc = Idle /\ export.pc = Idle /\ args # <<>>
  /\ import' = [NoImport EXCEPT !.pc = "open", !.args = args]
  /\ UNCHANGED <<store, export, files, tasks, node, disk, crashes>>

File == files[Head(import.args)]

\* importEvents returns and nodeClose flushes the node's stores.
Close(ok) ==
  /\ import' = [import EXCEPT !.pc = "closed", !.ok = ok]
  /\ disk' = node

checkEventsFileHeader == File.header

OpenFile ==
  /\ import.pc = "open"
  /\ IF checkEventsFileHeader
     THEN import' = [import EXCEPT !.pc = "decode", !.pos = 1, !.epoch = 0,
                                   !.first = node.epoch] /\ disk' = disk
     ELSE Close(FALSE)
  /\ UNCHANGED <<store, export, files, tasks, node, crashes>>

\* The batch is processed before an event of another epoch is added to it.
Boundary(e) == e.epoch # import.epoch \/ Len(import.batch) >= MaxBatch

\* The loop goes on: Ctrl-C is looked at before each event is decoded.
Decoding == import.pc = "decode" /\ ~import.signal

\* Decode one event; processBatch first if the event does not fit.
Decode ==
  /\ Decoding /\ import.pos <= Len(File.events)
  /\ \E i \in {File.events[import.pos]} :
       import' = IF Boundary(store[i]) /\ import.batch # <<>>
                 THEN [import EXCEPT !.pc = "wait"]
                 ELSE [import EXCEPT !.batch = Append(@, i), !.pos = @ + 1,
                                     !.epoch = store[i].epoch]
  /\ UNCHANGED <<store, export, files, tasks, node, disk, crashes>>

Broken ==
  /\ Decoding /\ import.pos > Len(File.events) /\ File.cut
  /\ Close(FALSE)
  /\ UNCHANGED <<store, export, files, tasks, node, crashes>>

EndOfFileDropsBatch ==
  /\ Decoding /\ import.pos > Len(File.events) /\ ~File.cut
  /\ import' = [import EXCEPT !.pc = "end", !.batch = <<>>]
  /\ UNCHANGED <<store, export, files, tasks, node, disk, crashes>>

\* At the end of the file the last batch is processed, and the loop is left.
EndOfFile ==
  /\ Decoding /\ import.pos > Len(File.events) /\ ~File.cut
  /\ import' = [import EXCEPT !.pc = IF import.batch = <<>> THEN "end" ELSE "last"]
  /\ UNCHANGED <<store, export, files, tasks, node, disk, crashes>>

\* What was decoded is dropped.
Interrupted ==
  /\ import.pc = "decode" /\ import.signal
  /\ Close(FALSE)
  /\ UNCHANGED <<store, export, files, tasks, node, crashes>>

\* Ctrl-C, at any time: the file's channel receives it, and startNode's does.
Interrupt ==
  /\ import.pc \notin {Idle, "closed"} /\ ~import.signal /\ crashes < MaxCrashes
  /\ import' = [import EXCEPT !.signal = TRUE]
  /\ crashes' = crashes + 1
  /\ UNCHANGED <<store, export, files, tasks, node, disk>>

\* startNode closes the node, whatever the import is doing: Service.Stop stops
\* the event processor and flushes the stores.
StopNode ==
  /\ import.signal /\ import.pc # "closed" /\ ~import.stopped
  /\ import' = [import EXCEPT !.stopped = TRUE]
  /\ disk' = node
  /\ UNCHANGED <<store, export, files, tasks, node, crashes>>

Waiting == import.pc \in {"wait", "last"}

\* lightCheck of the next event of the batch: its epoch is the node's.
Check ==
  /\ Waiting /\ Len(tasks.checked) < Len(import.batch)
  /\ \E i \in {import.batch[Len(tasks.checked) + 1]} :
       tasks' = [tasks EXCEPT !.checked =
                   Append(@, i \notin node.connected /\ store[i].epoch = node.epoch)]
  /\ UNCHANGED <<store, export, files, import, node, disk, crashes>>

\* The events the consensus needs to decide the last block of epoch k.
Decision(k) == {i \in DOMAIN store : store[i].epoch = k /\ store[i].decides}

Connected(i) ==
  LET c == node.connected \cup {i}
      k == node.epoch
  IN [connected |-> c,
      epoch |-> IF k # LastEpoch /\ Decision(k) \subseteq c THEN k + 1 ELSE k]

\* processEvent, which refuses every event once the service is stopped; the
\* stores may be flushed afterwards.
Process ==
  /\ Waiting /\ tasks.processed < Len(tasks.checked)
  /\ \E i \in {import.batch[tasks.processed + 1]} :
       node' = IF /\ ~import.stopped
                  /\ tasks.checked[tasks.processed + 1]
                  /\ store[i].epoch = node.epoch
                  /\ store[i].parents \subseteq node.connected
               THEN Connected(i) ELSE node
  /\ disk' \in {disk, node'}
  /\ tasks' = [tasks EXCEPT !.processed = @ + 1]
  /\ UNCHANGED <<store, export, files, import, crashes>>

\* processBatch does not wait for the processor
DoneUnwaited ==
  /\ Waiting
  /\ tasks' = NoTasks
  /\ import' = [import EXCEPT !.pc = IF @ = "last" THEN "end" ELSE "decode", !.batch = <<>>]
  /\ UNCHANGED <<store, export, files, node, disk, crashes>>

\* processBatch goes on when the processor is done with the whole batch, or was
\* stopped.
Done ==
  /\ Waiting /\ (tasks.processed = Len(import.batch) \/ import.stopped)
  /\ tasks' = NoTasks
  /\ import' = [import EXCEPT !.pc = IF @ = "last" THEN "end" ELSE "decode", !.batch = <<>>]
  /\ UNCHANGED <<store, export, files, node, disk, crashes>>

\* A stopped processor takes no more batches.
NotEnqueued ==
  /\ Waiting /\ import.stopped /\ tasks = NoTasks
  /\ Close(FALSE)
  /\ UNCHANGED <<store, export, files, tasks, node, crashes>>

\* WaitBlockEnd, then the next file, with a channel of its own.
NextFile ==
  /\ import.pc = "end"
  /\ IF Len(import.args) = 1
     THEN Close(TRUE)
     ELSE /\ import' = [import EXCEPT !.pc = "open", !.args = Tail(@), !.signal = FALSE]
          /\ disk' = disk
  /\ UNCHANGED <<store, export, files, tasks, node, crashes>>

Exit ==
  /\ import.pc = "closed"
  /\ import' = NoImport
  /\ UNCHANGED <<store, export, files, tasks, node, disk, crashes>>

Kill ==
  /\ import.pc \notin {Idle, "closed"} /\ crashes < MaxCrashes
  /\ crashes' = crashes + 1
  /\ import' = NoImport
  /\ tasks' = NoTasks
  /\ node' = disk
  /\ UNCHANGED <<store, export, files, disk>>

\* A node that has no events yet.
TransInit(stores) ==
  /\ store \in stores
  /\ export = [pc |-> Idle, pos |-> 0]
  /\ files = <<>>
  /\ import = NoImport
  /\ tasks = NoTasks
  /\ node = [connected |-> {}, epoch |-> 1]
  /\ disk = node
  /\ crashes = 0

TransNext ==
  \/ \E r \in {<<1, 0>>, <<1, 1>>, <<2, 1>>} : ExportStart(r[1], r[2])
  \/ ExportEvent \/ ExportEnd
  \/ \E args \in {<<i>> : i \in DOMAIN files} \cup (IF Len(files) = 2 THEN {<<1, 2>>} ELSE {}) :
       ImportStart(args)
  \/ OpenFile \/ Decode \/ Broken \/ EndOfFile \/ Interrupt \/ Interrupted \/ StopNode
  \/ Check \/ Process \/ Done \/ NotEnqueued \/ NextFile \/ Exit \/ Kill

-----------------------------------------------------------------------------
\* The events a file must bring to a node that has reached its first epoch:
\* those the sealing of their epoch depends on, and all of the last epoch.
Expected(f) ==
  {i \in ToSet(f.events) : store[i].decides \/ store[i].epoch = LastEpoch}

\* An import that reports success has brought the node all that the file contains
\* and that can still be connected, however often it was interrupted or killed
\* before, wherever the export ended, and whichever files were imported first
\* (importEventsFile: the batches, the wait for each and the epoch boundary).  The
\* exception is a node that Ctrl-C closed while the last batch was processed: the
\* loop is left without a look at the channel, and success is reported.
ImportIsComplete ==
  /\ import.pc = "end" /\ ~import.stopped
  /\ File.events # <<>> /\ store[File.events[1]].epoch <= import.first
  => Expected(File) \subseteq node.connected
=============================================================================
