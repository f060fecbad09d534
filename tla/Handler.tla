------------------------------- MODULE Handler -------------------------------
(* The life of peer sessions in gossip/handler.go: MakeProtocols' Run, the   *)
(* syncer, handle, the peer set (gossip/peer.go), removePeer from the        *)
(* handler itself and from the event processor, the transaction sync loop    *)
(* (gossip/sync.go) and ProtocolManager.Stop.  Every goroutine has its own   *)
(* program counter; the peer set, the leecher and the channels are shared.   *)
EXTENDS Integers, FiniteSets, Functions

CONSTANTS Peer,         \* remote nodes, one id each
          Trusted,      \* the trusted ones
          MaxPeers,     \* limit given to Start
          MaxSessions,  \* bound: connections of all nodes together
          MaxBlames,    \* bound: late removals by the event processor
          MaxTicks,     \* bound: ticks of the random transaction sync
          MaxPacks      \* bound: packs of hashes in one transaction sync

ASSUME HandlerAssumption ==
    /\ Trusted \subseteq Peer
    /\ {MaxPeers, MaxSessions, MaxBlames, MaxTicks} \subseteq Nat /\ MaxPacks \in Nat \ {0}

VARIABLES session,  \* [Peer -> Nat] number of the current or last session
          pc,       \* [Peer -> step] where the session's Run is
          peers,    \* peerSet.peers: id -> session, 0 when absent
          closed,   \* peerSet.closed
          term,     \* sessions whose term channel is closed
          cut,      \* sessions that the network layer has disconnected
          leecher,  \* ids registered with the leecher
          up,       \* what Stop has not yet shut down
          remover,  \* removePeer called by the event processor
          blames,   \* how often it was called
          loop,     \* txBroadcastLoop
          ticks,
          sync,     \* txsyncLoop: pending syncs, sending, running senders, the pack
          stop      \* where Stop is

vars == <<session, pc, peers, closed, term, cut, leecher, up, remover, blames, loop, ticks, sync, stop>>

HandlerStep == {"none", "dialed", "accepted", "added", "handshake", "register", "leech",
                "sync", "loop", "lookup", "unregister", "disconnect"}
StopStep == {"no", "leecher", "processor", "loops", "syncer", "quitSync", "peers", "wait", "done"}
Service == {"leecher", "processor", "feeds", "syncer", "txsync"}

(* A sync of packs of transaction hashes for session s of a peer.            *)
Sync(id, s, packs) == [peer |-> id, session |-> s, packs |-> packs]
Absent == [peer |-> "none", session |-> 0, packs |-> 0]

(* Steps between wg.Add(1) and the deferred wg.Done().                       *)
Counted == HandlerStep \ {"none", "dialed", "accepted"}

Me(id) == <<id, session[id]>>
-----------------------------------------------------------------------------
(* ProtocolManager after Start: no peers, all services and loops running.    *)
Init ==
    /\ session = [id \in Peer |-> 0]
    /\ pc = [id \in Peer |-> "none"]
    /\ peers = [id \in Peer |-> 0]
    /\ closed = FALSE
    /\ term = {} /\ cut = {} /\ leecher = {}
    /\ up = Service
    /\ remover = [step |-> "idle"] /\ blames = 0
    /\ loop = [step |-> "idle"] /\ ticks = 0
    /\ sync = [pending |-> {}, sending |-> FALSE, running |-> 0, pack |-> Absent]
    /\ stop = "no"
-----------------------------------------------------------------------------
(* p2p (external): one session of a node at a time; the remote side or the   *)
(* network may end a session whenever it likes.                              *)

Connect(id) ==
    /\ pc[id] = "none" /\ FoldFunction(+, 0, session) < MaxSessions
    /\ session' = [session EXCEPT ![id] = @ + 1]
    /\ pc' = [pc EXCEPT ![id] = "dialed"]
    /\ UNCHANGED <<peers, closed, term, cut, leecher, up, remover, blames, loop, ticks, sync, stop>>

RemoteCut(id) ==
    /\ pc[id] # "none" /\ Me(id) \notin cut
    /\ cut' = cut \cup {Me(id)}
    /\ UNCHANGED <<session, pc, peers, closed, term, leecher, up, remover, blames, loop, ticks, sync, stop>>

-----------------------------------------------------------------------------
(* Run and handle, the goroutine of a session.                               *)

OnlyPc == UNCHANGED <<session, peers, closed, term, cut, leecher, up, remover, blames, loop, ticks, sync, stop>>

Goto(id, from, to) ==
    /\ pc[id] = from
    /\ pc' = [pc EXCEPT ![id] = to]

(* newPeerCh <- peer, received by the syncer.                                *)
Accept(id) == "syncer" \in up /\ Goto(id, "dialed", "accepted") /\ OnlyPc

(* <-quitSync: DiscQuitting.                                                 *)
Refuse(id) == "txsync" \notin up /\ Goto(id, "dialed", "none") /\ OnlyPc

WgAdd(id) == Goto(id, "accepted", "added") /\ OnlyPc

(* The limit is read before the handshake, the peer is added after it.       *)
CheckMaxPeers(id) ==
    /\ IF Cardinality({q \in Peer : peers[q] # 0}) >= MaxPeers /\ id \notin Trusted
       THEN Goto(id, "added", "none")
       ELSE Goto(id, "added", "handshake")
    /\ OnlyPc

HandshakeOk(id) == Me(id) \notin cut /\ Goto(id, "handshake", "register") /\ OnlyPc

(* A mismatch, a broken connection or the timeout.                           *)
HandshakeFailed(id) == Goto(id, "handshake", "none") /\ OnlyPc

(* Mutant: a closed set still accepts peers. *)
RegisterUngated(id) ==
    /\ IF peers[id] # 0
       THEN Goto(id, "register", "none") /\ UNCHANGED peers
       ELSE /\ Goto(id, "register", "leech")
            /\ peers' = [peers EXCEPT ![id] = session[id]]
    /\ UNCHANGED <<session, closed, term, cut, leecher, up, remover, blames, loop, ticks, sync, stop>>

Register(id) ==
    /\ IF closed \/ peers[id] # 0
       THEN Goto(id, "register", "none") /\ UNCHANGED peers
       ELSE /\ Goto(id, "register", "leech")
            /\ peers' = [peers EXCEPT ![id] = session[id]]
    /\ UNCHANGED <<session, closed, term, cut, leecher, up, remover, blames, loop, ticks, sync, stop>>

(* A stopped leecher refuses; handle then returns before removePeer has been *)
(* deferred, so the session stays in the peer set.                           *)
RegisterLeecher(id) ==
    /\ IF "leecher" \in up
       THEN Goto(id, "leech", "sync") /\ leecher' = leecher \cup {id}
       ELSE Goto(id, "leech", "none") /\ UNCHANGED leecher
    /\ UNCHANGED <<session, peers, closed, term, cut, up, remover, blames, loop, ticks, sync, stop>>

(* A message that handleMsg accepts leaves the session where it is; an error *)
(* or a broken connection runs the deferred removePeer.                      *)
EndLoop(id) == Goto(id, "loop", "lookup") /\ OnlyPc

-----------------------------------------------------------------------------
(* removePeer, in steps that other goroutines may interleave with.           *)

(* Mutant: the session is not deleted from the set. *)
UnregisterKeeps(id) ==
    IF peers[id] = 0 THEN UNCHANGED <<peers, term>>
    ELSE /\ peers' = peers
         /\ term' = term \cup {<<id, peers[id]>>}

(* Unregister closes the term channel of whatever session is in the set.     *)
Unregister(id) ==
    IF peers[id] = 0 THEN UNCHANGED <<peers, term>>
    ELSE /\ peers' = [peers EXCEPT ![id] = 0]
         /\ term' = term \cup {<<id, peers[id]>>}

Lookup(id) ==
    /\ Goto(id, "lookup", IF peers[id] = 0 THEN "none" ELSE "unregister")
    /\ OnlyPc

UnregisterPeer(id) ==
    /\ Goto(id, "unregister", "disconnect")
    /\ leecher' = leecher \ {id}
    /\ Unregister(id)
    /\ UNCHANGED <<session, closed, cut, up, remover, blames, loop, ticks, sync, stop>>

Disconnect(id) ==
    /\ Goto(id, "disconnect", "none")
    /\ cut' = cut \cup {Me(id)}
    /\ UNCHANGED <<session, peers, closed, term, leecher, up, remover, blames, loop, ticks, sync, stop>>

(* Processor.Released or PeerMisbehaviour blames the node of an event, which *)
(* may have arrived in an earlier session.                                   *)
Blame(id) ==
    /\ remover.step = "idle" /\ "processor" \in up /\ blames < MaxBlames
    /\ peers[id] # 0
    /\ blames' = blames + 1
    /\ remover' = [step |-> "unregister", peer |-> id, session |-> peers[id]]
    /\ UNCHANGED <<session, pc, peers, closed, term, cut, leecher, up, loop, ticks, sync, stop>>

BlameUnregister ==
    /\ remover.step = "unregister"
    /\ leecher' = leecher \ {remover.peer}
    /\ Unregister(remover.peer)
    /\ remover' = [remover EXCEPT !.step = "disconnect"]
    /\ UNCHANGED <<session, pc, closed, cut, up, blames, loop, ticks, sync, stop>>

BlameDisconnect ==
    /\ remover.step = "disconnect"
    /\ cut' = cut \cup {<<remover.peer, remover.session>>}
    /\ remover' = [step |-> "idle"]
    /\ UNCHANGED <<session, pc, peers, closed, term, leecher, up, blames, loop, ticks, sync, stop>>

-----------------------------------------------------------------------------
(* txsyncLoop.  One pack is sent at a time, by a goroutine that reports on   *)
(* the buffered channel done.                                                *)

(* send: the pack is cut off the sync, an emptied sync is forgotten.         *)
SendPack(pending, s) ==
    [pending |-> (pending \ {s}) \cup (IF s.packs > 1 THEN {[s EXCEPT !.packs = @ - 1]} ELSE {}),
     sending |-> TRUE, running |-> sync.running + 1, pack |-> s]

(* pending[s.p.ID()] = s replaces an unfinished sync of the same node.       *)
WithSync(s) == {t \in sync.pending : t.peer # s.peer} \cup {s}

(* Mutant: a new sync is sent at once, whether or not a send is active. *)
ReceiveAndSend(s) ==
    /\ "txsync" \in up
    /\ sync' = SendPack(WithSync(s), s)

ReceiveSync(s) ==
    /\ "txsync" \in up
    /\ sync' = IF sync.sending THEN [sync EXCEPT !.pending = WithSync(s)]
               ELSE SendPack(WithSync(s), s)

(* Mutant: the next sync is not picked after a failed send. *)
SendDoneNoPick(ok) ==
    /\ "txsync" \in up /\ sync.running > 0
    /\ ok => <<sync.pack.peer, sync.pack.session>> \notin cut
    /\ sync' = [sync EXCEPT !.pending = IF ok THEN @ ELSE {t \in @ : t.peer # sync.pack.peer},
                            !.sending = FALSE, !.running = @ - 1]
    /\ UNCHANGED <<session, pc, peers, closed, term, cut, leecher, up, remover, blames, loop, ticks, stop>>

(* <-done.  A failed send stops the tracking of the node, even of a sync     *)
(* that a newer session has put in since.                                    *)
SendDone(ok) ==
    /\ "txsync" \in up /\ sync.running > 0
    /\ ok => <<sync.pack.peer, sync.pack.session>> \notin cut
    /\ LET left == IF ok THEN sync.pending ELSE {t \in sync.pending : t.peer # sync.pack.peer}
           idle == [sync EXCEPT !.pending = {}, !.sending = FALSE, !.running = @ - 1]
       IN  IF left = {} THEN sync' = idle
           ELSE \E s \in left : sync' = [SendPack(left, s) EXCEPT !.running = sync.running]
    /\ UNCHANGED <<session, pc, peers, closed, term, cut, leecher, up, remover, blames, loop, ticks, stop>>

(* syncTransactions of a new session: nothing to send, handed to the loop,   *)
(* or given up when quitSync is closed.                                      *)
SyncTransactions(id) ==
    /\ Goto(id, "sync", "loop")
    /\ \/ sync' = sync
       \/ \E packs \in 1..MaxPacks : ReceiveSync(Sync(id, session[id], packs))
    /\ UNCHANGED <<session, peers, closed, term, cut, leecher, up, remover, blames, loop, ticks, stop>>

-----------------------------------------------------------------------------
(* txBroadcastLoop: a tick picks a random peer and hands its sync over.  The *)
(* other loops (emitted events, progress, new epochs) never block.           *)

Tick(id) ==
    /\ loop.step = "idle" /\ ticks < MaxTicks /\ peers[id] # 0
    /\ ticks' = ticks + 1
    /\ loop' = [step |-> "sync", sync |-> Sync(id, peers[id], 1)]
    /\ UNCHANGED <<session, pc, peers, closed, term, cut, leecher, up, remover, blames, sync, stop>>

TickSync ==
    /\ loop.step = "sync"
    /\ \/ ReceiveSync(loop.sync)
       \/ "txsync" \notin up /\ UNCHANGED sync
    /\ loop' = [step |-> "idle"]
    /\ UNCHANGED <<session, pc, peers, closed, term, cut, leecher, up, remover, blames, ticks, stop>>

EndBroadcastLoop ==
    /\ loop.step = "idle" /\ "feeds" \notin up
    /\ loop' = [step |-> "done"]
    /\ UNCHANGED <<session, pc, peers, closed, term, cut, leecher, up, remover, blames, ticks, sync, stop>>

-----------------------------------------------------------------------------
(* Stop.                                                                     *)

OnlyStop == UNCHANGED <<session, pc, peers, term, leecher, remover, blames, loop, ticks, sync>>

StopLeecher ==
    /\ stop = "no" /\ stop' = "processor"
    /\ up' = up \ {"leecher"}
    /\ OnlyStop /\ UNCHANGED <<closed, cut>>

(* seeder, processor (which waits for its workers), heavy checks, fetchers;  *)
(* then quitProgressBradcast and the unsubscriptions.                        *)
StopProcessor ==
    /\ stop = "processor" /\ remover.step = "idle" /\ stop' = "loops"
    /\ up' = up \ {"processor", "feeds"}
    /\ OnlyStop /\ UNCHANGED <<closed, cut>>

WaitLoops ==
    /\ stop = "loops" /\ loop.step = "done" /\ stop' = "syncer"
    /\ OnlyStop /\ UNCHANGED <<up, closed, cut>>

StopSyncer ==
    /\ stop = "syncer" /\ stop' = "quitSync"
    /\ up' = up \ {"syncer"}
    /\ OnlyStop /\ UNCHANGED <<closed, cut>>

QuitSync ==
    /\ stop = "quitSync" /\ stop' = "peers"
    /\ up' = up \ {"txsync"}
    /\ OnlyStop /\ UNCHANGED <<closed, cut>>

(* Mutant: the set is closed but its sessions are not disconnected. *)
ClosePeersOnly ==
    /\ stop = "peers" /\ stop' = "wait"
    /\ closed' = TRUE
    /\ OnlyStop /\ UNCHANGED <<up, cut>>

ClosePeers ==
    /\ stop = "peers" /\ stop' = "wait"
    /\ cut' = cut \cup {<<id, peers[id]>> : id \in {q \in Peer : peers[q] # 0}}
    /\ closed' = TRUE
    /\ OnlyStop /\ UNCHANGED up

WaitHandlers ==
    /\ stop = "wait" /\ \A id \in Peer : pc[id] \notin Counted
    /\ stop' = "done"
    /\ OnlyStop /\ UNCHANGED <<up, closed, cut>>

-----------------------------------------------------------------------------
(* Steps a running goroutine takes without waiting for anybody outside.      *)
HandlerNext(id) ==
    \/ Accept(id) \/ Refuse(id) \/ WgAdd(id) \/ CheckMaxPeers(id)
    \/ HandshakeOk(id) \/ HandshakeFailed(id) \/ Register(id) \/ RegisterLeecher(id)
    \/ SyncTransactions(id)
    \/ Lookup(id) \/ UnregisterPeer(id) \/ Disconnect(id)

RemoverNext == BlameUnregister \/ BlameDisconnect
LoopNext == TickSync \/ EndBroadcastLoop
SyncNext == \E ok \in BOOLEAN : SendDone(ok)
StopNext == StopProcessor \/ WaitLoops \/ StopSyncer \/ QuitSync \/ ClosePeers \/ WaitHandlers

Next ==
    \/ \E id \in Peer : Connect(id) \/ RemoteCut(id) \/ HandlerNext(id) \/ EndLoop(id)
                        \/ Blame(id) \/ Tick(id)
    \/ RemoverNext \/ LoopNext \/ SyncNext
    \/ StopLeecher \/ StopNext

(* The Go scheduler runs every goroutine that can run, a handshake times out *)
(* and a read or a write on a cut session fails.  Nobody has to connect, to  *)
(* disconnect, to misbehave or to stop the node.                             *)
Fairness ==
    /\ \A id \in Peer : WF_vars(HandlerNext(id)) /\ WF_vars(Me(id) \in cut /\ EndLoop(id))
    /\ WF_vars(RemoverNext) /\ WF_vars(LoopNext) /\ WF_vars(SyncNext) /\ WF_vars(StopNext)

Spec == Init /\ [][Next]_vars /\ Fairness
-----------------------------------------------------------------------------
(* Properties.                                                               *)

SyncRec == [peer : Peer, session : Nat, packs : 1..MaxPacks]

TypeOK ==
    /\ session \in [Peer -> Nat] /\ pc \in [Peer -> HandlerStep]
    /\ peers \in [Peer -> Nat] /\ closed \in BOOLEAN
    /\ term \subseteq Peer \X (Nat) /\ cut \subseteq Peer \X (Nat)
    /\ leecher \subseteq Peer /\ up \subseteq Service
    /\ blames \in 0..MaxBlames /\ ticks \in 0..MaxTicks /\ stop \in StopStep
    /\ \A id \in Peer : peers[id] <= session[id]
    /\ sync.pending \subseteq SyncRec /\ sync.running \in Nat

(* The peer set holds live sessions only: the term channel of a session in   *)
(* it is open (Unregister never closes one twice), and until Stop begins the *)
(* session is the node's newest and its handler is still running and will    *)
(* remove it.  A dead entry would turn away every later session of the node  *)
(* with errAlreadyRegistered.                                                *)
PeerSetIsLive ==
    \A id \in Peer : peers[id] # 0 =>
        /\ <<id, peers[id]>> \notin term
        /\ "leecher" \in up => /\ peers[id] = session[id]
                              /\ pc[id] \in {"leech", "sync", "loop", "lookup", "unregister"}

(* The transaction sync loop sends one pack at a time (its goroutine and the *)
(* loop share the pack) and no sync waits while the sender is free.          *)
SyncLoopIsBusy ==
    /\ sync.running = IF sync.sending THEN 1 ELSE 0
    /\ ~sync.sending => sync.pending = {}

(* After Stop has returned no handler processes messages or can start to: a  *)
(* session accepted before noMorePeers may still be on its way to wg.Add,    *)
(* but the closed peer set turns it away.                                    *)
NothingHandledAfterStop ==
    stop = "done" => \A id \in Peer :
        pc[id] \notin {"leech", "sync", "loop", "lookup", "unregister", "disconnect"}

(* A session in its message loop that nobody will disconnect any more: taken *)
(* out of the set by a removePeer that had looked up its predecessor.        *)
Orphan(id) == pc[id] = "loop" /\ peers[id] # session[id] /\ Me(id) \notin cut

(* Stop returns: loops, syncer, sync loop and handlers all come down,        *)
(* whatever sessions are being set up or removed; only an orphaned session   *)
(* can hold it up.                                                           *)
StopReturns == (stop # "no") ~> (stop = "done" \/ \E id \in Peer : Orphan(id))

(* Unregister "removes a remote peer from the active set, disabling any      *)
(* further actions to/from that particular entity": a session that is past   *)
(* its registration and no longer in the set has been disconnected, or the   *)
(* goroutine that took it out is about to do so.                             *)
UnregisteredIsDisconnected ==
    \A id \in Peer : pc[id] \in {"sync", "loop"} /\ peers[id] # session[id] =>
        Me(id) \in cut \/ (remover.step = "disconnect" /\ Me(id) = <<remover.peer, remover.session>>)
-----------------------------------------------------------------------------
(* Inductive invariants.                                                     *)

(* TypeOK with the whole of the records of the remover and the two loops.    *)
RecordsOK ==
    /\ TypeOK
    /\ remover \in [step : {"idle"}]
                  \cup [step : {"unregister", "disconnect"}, peer : Peer, session : Nat]
    /\ loop \in [step : {"idle", "done"}] \cup [step : {"sync"}, sync : SyncRec]
    /\ sync \in [pending : SUBSET SyncRec, sending : BOOLEAN, running : Nat,
                 pack : SyncRec \cup {Absent}]

(* Steps before a session is put into the peer set.                          *)
Unregistered == {"dialed", "accepted", "added", "handshake", "register"}

(* Closed term channels are those of sessions that have been; a session on   *)
(* its way to the peer set is newer than what the set holds or held.         *)
LiveInv ==
    /\ \A t \in term : t[2] <= session[t[1]]
    /\ \A id \in Peer : pc[id] # "none" => session[id] # 0
    /\ \A id \in Peer : pc[id] \in Unregistered => Me(id) \notin term /\ peers[id] # session[id]
    /\ PeerSetIsLive

StopInv ==
    /\ stop \in {"wait", "done"} => closed
    /\ NothingHandledAfterStop
=============================================================================
