---------------------------- MODULE HandlerProofs ----------------------------
(* The peer set of the handler, its transaction sync loop and its Stop: the   *)
(* safety properties of Handler, for any number of nodes, sessions, removals, *)
(* ticks and packs.                                                           *)
EXTENDS Handler, TLAPS

USE HandlerAssumption

-----------------------------------------------------------------------------
(* Types.                                                                     *)

SyncType == [pending : SUBSET SyncRec, sending : BOOLEAN, running : Nat, pack : SyncRec \cup {Absent}]

LEMMA SendPackType ==
    ASSUME sync \in SyncType, NEW pending \in SUBSET SyncRec, NEW s \in SyncRec
    PROVE  /\ SendPack(pending, s) \in SyncType
           /\ SendPack(pending, s).sending
           /\ SendPack(pending, s).running = sync.running + 1
<1>1. s.packs > 1 => [s EXCEPT !.packs = @ - 1] \in SyncRec
  BY DEF SyncRec
<1>2. (pending \ {s}) \cup (IF s.packs > 1 THEN {[s EXCEPT !.packs = @ - 1]} ELSE {}) \subseteq SyncRec
  BY <1>1
<1>3. sync.running + 1 \in Nat
  BY DEF SyncType
<1> QED
  BY <1>2, <1>3 DEF SendPack, SyncType

LEMMA ReceiveType ==
    ASSUME sync \in SyncType, NEW s \in SyncRec, ReceiveSync(s)
    PROVE  /\ sync' \in SyncType
           /\ SyncLoopIsBusy => SyncLoopIsBusy'
<1>1. WithSync(s) \in SUBSET SyncRec
  BY DEF WithSync, SyncType
<1>2. CASE sync.sending
  <2>1. sync' = [sync EXCEPT !.pending = WithSync(s)]
    BY <1>2 DEF ReceiveSync
  <2>2. sync' \in SyncType
    BY <1>1, <2>1 DEF SyncType
  <2>3. sync'.sending = sync.sending /\ sync'.running = sync.running
    BY <2>1 DEF SyncType
  <2> QED
    BY <1>2, <2>2, <2>3 DEF SyncLoopIsBusy
<1>3. CASE ~sync.sending
  <2>1. sync' = SendPack(WithSync(s), s)
    BY <1>3 DEF ReceiveSync
  <2>2. sync' \in SyncType /\ sync'.sending /\ sync'.running = sync.running + 1
    BY <1>1, <2>1, SendPackType
  <2> QED
    BY <1>3, <2>2 DEF SyncLoopIsBusy
<1> QED
  BY <1>2, <1>3

LEMMA SendDoneType ==
    ASSUME sync \in SyncType, NEW ok \in BOOLEAN, SendDone(ok)
    PROVE  /\ sync' \in SyncType
           /\ SyncLoopIsBusy => SyncLoopIsBusy'
<1> DEFINE left == IF ok THEN sync.pending ELSE {t \in sync.pending : t.peer # sync.pack.peer}
           idle == [sync EXCEPT !.pending = {}, !.sending = FALSE, !.running = @ - 1]
<1>1. sync.running > 0 /\ sync.running \in Nat
  BY DEF SendDone, SyncType
<1>2. left \in SUBSET SyncRec
  BY DEF SyncType
<1>3. IF left = {} THEN sync' = idle
      ELSE \E s \in left : sync' = [SendPack(left, s) EXCEPT !.running = sync.running]
  BY Zenon DEF SendDone
<1>4. CASE left = {}
  <2>1. sync' = idle
    BY <1>3, <1>4
  <2>0. sync.running - 1 \in Nat
    BY <1>1
  <2>2. idle \in SyncType
    BY Zenon, <2>0 DEF SyncType
  <2>4. idle.pending = {} /\ idle.running = sync.running - 1
    BY DEF SyncType
  <2>5. idle.sending = FALSE
    BY DEF SyncType
  <2> HIDE DEF idle
  <2>3. SyncLoopIsBusy => sync.running = 1
    BY <1>1 DEF SyncLoopIsBusy
  <2> QED
    BY <1>1, <2>1, <2>2, <2>3, <2>4, <2>5 DEF SyncLoopIsBusy
<1>5. CASE left # {}
  <2> HIDE DEF left, idle
  <2>1. PICK s \in left : sync' = [SendPack(left, s) EXCEPT !.running = sync.running]
    BY <1>3, <1>5
  <2>2. SendPack(left, s) \in SyncType /\ SendPack(left, s).sending
    BY <1>2, SendPackType
  <2>3. sync' \in SyncType /\ sync'.sending = SendPack(left, s).sending /\ sync'.running = sync.running
    BY Zenon, <1>1, <2>1, <2>2 DEF SyncType
  <2>4. SyncLoopIsBusy => sync.running = 1
    BY <1>1 DEF SyncLoopIsBusy
  <2> QED
    BY <2>2, <2>3, <2>4 DEF SyncLoopIsBusy
<1> QED
  BY <1>4, <1>5

LEMMA RecordsInit == Init => RecordsOK
<1> SUFFICES ASSUME Init PROVE RecordsOK
  OBVIOUS
<1>1. sync \in SyncType
  BY DEF Init, SyncType
<1>2. remover \in [step : {"idle"}] /\ loop \in [step : {"idle", "done"}]
  BY DEF Init
<1>3. TypeOK
  <2>1. session \in [Peer -> Nat] /\ pc \in [Peer -> HandlerStep] /\ peers \in [Peer -> Nat]
    BY DEF Init, HandlerStep
  <2>2. \A id \in Peer : peers[id] <= session[id]
    BY DEF Init
  <2>3. term \subseteq Peer \X Nat /\ cut \subseteq Peer \X Nat /\ leecher \subseteq Peer /\ up \subseteq Service
    BY DEF Init
  <2>4. closed \in BOOLEAN
    BY Zenon DEF Init
  <2>5. blames \in 0..MaxBlames /\ ticks \in 0..MaxTicks /\ stop \in StopStep
    BY DEF Init, StopStep
  <2> QED
    BY <1>1, <2>1, <2>2, <2>3, <2>4, <2>5 DEF TypeOK, SyncType
<1> QED
  BY <1>1, <1>2, <1>3 DEF RecordsOK, SyncType

(* The sessions a step of a goroutine only moves.                             *)
LEMMA MovesOnly ==
    ASSUME NEW id \in Peer,
           Accept(id) \/ Refuse(id) \/ WgAdd(id) \/ CheckMaxPeers(id) \/ HandshakeOk(id)
             \/ HandshakeFailed(id) \/ EndLoop(id) \/ Lookup(id)
    PROVE  /\ \E to \in HandlerStep : pc' = [pc EXCEPT ![id] = to]
           /\ OnlyPc
  BY DEF Accept, Refuse, WgAdd, CheckMaxPeers, HandshakeOk, HandshakeFailed, EndLoop, Lookup,
         Goto, HandlerStep

LEMMA UnregisterType ==
    ASSUME RecordsOK, NEW id \in Peer, Unregister(id)
    PROVE  /\ peers' \in [Peer -> Nat] /\ \A q \in Peer : peers'[q] \in {0, peers[q]}
           /\ peers'[id] = 0
           /\ term \subseteq term' /\ term' \subseteq term \cup {<<id, peers[id]>>}
           /\ term' \subseteq Peer \X Nat
  BY DEF Unregister, RecordsOK, TypeOK

LEMMA RecordsStep == RecordsOK /\ [Next]_vars => RecordsOK'
<1> SUFFICES ASSUME RecordsOK, [Next]_vars PROVE RecordsOK'
  OBVIOUS
<1> USE DEF RecordsOK, TypeOK
<1>0. sync \in SyncType
  BY DEF SyncType
<1>1. ASSUME NEW id \in Peer, Connect(id) PROVE RecordsOK'
  <2>0. session' = [session EXCEPT ![id] = @ + 1] /\ peers' = peers
    BY Zenon, <1>1 DEF Connect
  <2>1. session' \in [Peer -> Nat] /\ \A q \in Peer : peers'[q] <= session'[q]
    BY <2>0
  <2> QED
    BY Zenon, <1>1, <2>1 DEF Connect, HandlerStep
<1>2. ASSUME NEW id \in Peer, RemoteCut(id) PROVE RecordsOK'
  BY <1>2 DEF RemoteCut, Me
<1>3. ASSUME NEW id \in Peer,
             Accept(id) \/ Refuse(id) \/ WgAdd(id) \/ CheckMaxPeers(id) \/ HandshakeOk(id)
               \/ HandshakeFailed(id) \/ EndLoop(id) \/ Lookup(id)
      PROVE  RecordsOK'
  <2>1. (\E to \in HandlerStep : pc' = [pc EXCEPT ![id] = to]) /\ OnlyPc
    BY <1>3, MovesOnly
  <2> QED
    BY <2>1 DEF OnlyPc
<1>4. ASSUME NEW id \in Peer, Register(id) PROVE RecordsOK'
  BY <1>4 DEF Register, Goto, HandlerStep
<1>5. ASSUME NEW id \in Peer, RegisterLeecher(id) PROVE RecordsOK'
  BY <1>5 DEF RegisterLeecher, Goto, HandlerStep
<1>6. ASSUME NEW id \in Peer, SyncTransactions(id) PROVE RecordsOK'
  <2>1. \A packs \in 1..MaxPacks : Sync(id, session[id], packs) \in SyncRec
    BY DEF Sync, SyncRec
  <2>2. sync' \in SyncType
    BY <1>0, <1>6, <2>1, ReceiveType DEF SyncTransactions
  <2>3. pc' \in [Peer -> HandlerStep]
    BY <1>6 DEF SyncTransactions, Goto, HandlerStep
  <2> QED
    BY <1>6, <2>2, <2>3 DEF SyncTransactions, SyncType
<1>7. ASSUME NEW id \in Peer, UnregisterPeer(id) PROVE RecordsOK'
  <2>1. Unregister(id) /\ pc' \in [Peer -> HandlerStep] /\ leecher' \subseteq leecher
    BY <1>7 DEF UnregisterPeer, Goto, HandlerStep
  <2>2. \A q \in Peer : peers'[q] <= session[q]
    BY <2>1, UnregisterType
  <2> QED
    BY <1>7, <2>1, <2>2, UnregisterType DEF UnregisterPeer
<1>8. ASSUME NEW id \in Peer, Disconnect(id) PROVE RecordsOK'
  BY <1>8 DEF Disconnect, Goto, HandlerStep, Me
<1>9. ASSUME NEW id \in Peer, Blame(id) PROVE RecordsOK'
  BY <1>9 DEF Blame
<1>10. CASE BlameUnregister
  <2>1. remover \in [step : {"unregister", "disconnect"}, peer : Peer, session : Nat]
    BY <1>10 DEF BlameUnregister
  <2>2. Unregister(remover.peer) /\ remover.peer \in Peer /\ leecher' \subseteq leecher
    BY <1>10, <2>1 DEF BlameUnregister
  <2>3. remover' \in [step : {"unregister", "disconnect"}, peer : Peer, session : Nat]
    BY <1>10, <2>1 DEF BlameUnregister
  <2>4. \A q \in Peer : peers'[q] <= session[q]
    BY <2>2, UnregisterType
  <2> QED
    BY <1>10, <2>2, <2>3, <2>4, UnregisterType DEF BlameUnregister
<1>11. CASE BlameDisconnect
  <2>1. remover \in [step : {"unregister", "disconnect"}, peer : Peer, session : Nat]
    BY <1>11 DEF BlameDisconnect
  <2> QED
    BY <1>11, <2>1 DEF BlameDisconnect
<1>12. ASSUME NEW id \in Peer, Tick(id) PROVE RecordsOK'
  <2>1. Sync(id, peers[id], 1) \in SyncRec
    BY DEF Sync, SyncRec
  <2> QED
    BY <1>12, <2>1 DEF Tick
<1>13. CASE TickSync
  <2>1. loop.sync \in SyncRec
    BY <1>13 DEF TickSync
  <2>2. sync' \in SyncType
    BY <1>0, <1>13, <2>1, ReceiveType DEF TickSync
  <2> QED
    BY <1>13, <2>2 DEF TickSync, SyncType
<1>14. CASE EndBroadcastLoop
  BY <1>14 DEF EndBroadcastLoop
<1>15. ASSUME NEW ok \in BOOLEAN, SendDone(ok) PROVE RecordsOK'
  <2>1. sync' \in SyncType
    BY <1>0, <1>15, SendDoneType
  <2> QED
    BY <1>15, <2>1 DEF SendDone, SyncType
<1>16. CASE StopLeecher \/ StopProcessor \/ WaitLoops \/ StopSyncer \/ QuitSync \/ WaitHandlers
  BY <1>16 DEF StopLeecher, StopProcessor, WaitLoops, StopSyncer, QuitSync, WaitHandlers, OnlyStop, StopStep
<1>17. CASE ClosePeers
  BY <1>17 DEF ClosePeers, OnlyStop, StopStep
<1>18. CASE UNCHANGED vars
  BY <1>18 DEF vars
<1> QED
  BY Zenon, <1>1, <1>2, <1>3, <1>4, <1>5, <1>6, <1>7, <1>8, <1>9, <1>10, <1>11, <1>12, <1>13, <1>14,
     <1>15, <1>16, <1>17, <1>18 DEF Next, HandlerNext, RemoverNext, LoopNext, SyncNext, StopNext

-----------------------------------------------------------------------------
(* The peer set.                                                              *)

LEMMA LiveInit == Init => LiveInv
  BY DEF Init, LiveInv, PeerSetIsLive, Unregistered

Live == {"leech", "sync", "loop", "lookup", "unregister"}

(* A session that only moves on does not disturb the peer set, if it leaves   *)
(* the live steps only when it is not in the set or the leecher is stopped.   *)
LEMMA LiveMove ==
    ASSUME RecordsOK, LiveInv, NEW id \in Peer, NEW to \in HandlerStep,
           pc[id] # "none", pc' = [pc EXCEPT ![id] = to],
           to \in Unregistered => pc[id] \in Unregistered,
           "leecher" \in up /\ peers[id] # 0 /\ pc[id] \in Live => to \in Live,
           UNCHANGED <<session, peers, term, up>>
    PROVE  LiveInv'
<1> USE DEF RecordsOK, TypeOK
<1>1. \A q \in Peer : pc'[q] = IF q = id THEN to ELSE pc[q]
  OBVIOUS
<1>2. (\A q \in Peer : pc[q] # "none" => session[q] # 0)'
  BY <1>1 DEF LiveInv
<1>3. (\A q \in Peer : pc[q] \in Unregistered => Me(q) \notin term /\ peers[q] # session[q])'
  BY <1>1 DEF LiveInv, Me
<1>4. PeerSetIsLive'
  BY <1>1 DEF LiveInv, PeerSetIsLive, Live
<1> QED
  BY <1>2, <1>3, <1>4 DEF LiveInv

(* removePeer's Unregister, by whichever goroutine.                           *)
LEMMA LiveUnregister ==
    ASSUME RecordsOK, LiveInv, NEW id \in Peer, Unregister(id),
           \/ UNCHANGED pc
           \/ pc[id] = "unregister" /\ pc' = [pc EXCEPT ![id] = "disconnect"],
           UNCHANGED <<session, up>>
    PROVE  LiveInv'
<1> USE DEF RecordsOK, TypeOK
<1>1. /\ \A q \in Peer : peers'[q] = IF q = id THEN 0 ELSE peers[q]
      /\ term' = IF peers[id] = 0 THEN term ELSE term \cup {<<id, peers[id]>>}
  BY DEF Unregister
<1>2. \A q \in Peer : /\ pc'[q] # "none" => pc[q] # "none"
                      /\ pc'[q] \in Unregistered => pc[q] \in Unregistered
                      /\ q # id => pc'[q] = pc[q]
  BY DEF Unregistered
<1>3. (\A t \in term : t[2] <= session[t[1]])'
  BY <1>1 DEF LiveInv
<1>4. (\A q \in Peer : pc[q] # "none" => session[q] # 0)'
  BY <1>2 DEF LiveInv
<1>5. (\A q \in Peer : pc[q] \in Unregistered => Me(q) \notin term /\ peers[q] # session[q])'
  <2> SUFFICES ASSUME NEW q \in Peer, pc'[q] \in Unregistered
               PROVE  <<q, session[q]>> \notin term' /\ peers'[q] # session[q]
    BY DEF Me
  <2>1. <<q, session[q]>> \notin term /\ peers[q] # session[q] /\ session[q] # 0
    BY <1>2 DEF LiveInv, Me, Unregistered
  <2> QED
    BY <1>1, <2>1
<1>6. PeerSetIsLive'
  <2> SUFFICES ASSUME NEW q \in Peer, peers'[q] # 0
               PROVE  /\ <<q, peers'[q]>> \notin term'
                      /\ "leecher" \in up => peers'[q] = session[q] /\ pc'[q] \in Live
    BY DEF PeerSetIsLive, Live
  <2>1. q # id /\ peers'[q] = peers[q] /\ pc'[q] = pc[q]
    BY <1>1, <1>2
  <2> QED
    BY <1>1, <2>1 DEF LiveInv, PeerSetIsLive, Live
<1> QED
  BY <1>3, <1>4, <1>5, <1>6 DEF LiveInv

LEMMA LiveConnect ==
    ASSUME RecordsOK, LiveInv, NEW id \in Peer, Connect(id)
    PROVE  LiveInv'
<1> USE DEF RecordsOK, TypeOK
<1>1. /\ \A q \in Peer : session'[q] = IF q = id THEN session[q] + 1 ELSE session[q]
      /\ \A q \in Peer : pc'[q] = IF q = id THEN "dialed" ELSE pc[q]
      /\ pc[id] = "none" /\ UNCHANGED <<peers, term, up>>
  BY Zenon DEF Connect
<1>2. \A q \in Peer : session[q] \in Nat /\ peers[q] \in Nat /\ peers[q] <= session[q]
  OBVIOUS
<1>3. \A t \in term : t[1] \in Peer /\ t[2] \in Nat
  OBVIOUS
<1>4. (\A t \in term : t[2] <= session[t[1]])'
  BY <1>1, <1>2, <1>3 DEF LiveInv
<1>5. (\A q \in Peer : pc[q] # "none" => session[q] # 0)'
  BY <1>1, <1>2 DEF LiveInv
<1>6. <<id, session[id] + 1>> \notin term
  BY <1>2 DEF LiveInv
<1>7. (\A q \in Peer : pc[q] \in Unregistered => Me(q) \notin term /\ peers[q] # session[q])'
  BY <1>1, <1>2, <1>6 DEF LiveInv, Me
<1>8. PeerSetIsLive'
  BY <1>1, <1>2 DEF LiveInv, PeerSetIsLive
<1> QED
  BY <1>4, <1>5, <1>7, <1>8 DEF LiveInv

LEMMA LiveRegister ==
    ASSUME RecordsOK, LiveInv, NEW id \in Peer, Register(id)
    PROVE  LiveInv'
<1> USE DEF RecordsOK, TypeOK
<1>1. pc[id] = "register" /\ UNCHANGED <<session, term, up>>
  BY DEF Register, Goto
<1>2. CASE closed \/ peers[id] # 0
  <2>1. pc' = [pc EXCEPT ![id] = "none"] /\ UNCHANGED peers
    BY <1>2 DEF Register, Goto
  <2> QED
    BY Zenon, <1>1, <2>1, LiveMove DEF Live, Unregistered, HandlerStep
<1>3. CASE ~(closed \/ peers[id] # 0)
  <2>1. /\ \A q \in Peer : pc'[q] = IF q = id THEN "leech" ELSE pc[q]
        /\ \A q \in Peer : peers'[q] = IF q = id THEN session[q] ELSE peers[q]
    BY <1>3 DEF Register, Goto
  <2>2. <<id, session[id]>> \notin term /\ session[id] # 0
    BY <1>1 DEF LiveInv, Me, Unregistered
  <2>3. (\A q \in Peer : pc[q] # "none" => session[q] # 0)'
    BY <1>1, <2>1, <2>2 DEF LiveInv
  <2>4. (\A q \in Peer : pc[q] \in Unregistered => Me(q) \notin term /\ peers[q] # session[q])'
    BY <1>1, <2>1 DEF LiveInv, Me, Unregistered
  <2>5. PeerSetIsLive'
    BY <1>1, <2>1, <2>2 DEF LiveInv, PeerSetIsLive
  <2> QED
    BY <1>1, <2>3, <2>4, <2>5 DEF LiveInv
<1> QED
  BY <1>2, <1>3

LEMMA LiveStep == RecordsOK /\ LiveInv /\ [Next]_vars => LiveInv'
<1> SUFFICES ASSUME RecordsOK, LiveInv, [Next]_vars PROVE LiveInv'
  OBVIOUS
<1>1. ASSUME NEW id \in Peer,
             \/ Accept(id) \/ Refuse(id) \/ WgAdd(id) \/ CheckMaxPeers(id) \/ HandshakeOk(id)
             \/ HandshakeFailed(id) \/ EndLoop(id) \/ Lookup(id)
      PROVE  LiveInv'
  <2>1. PICK to \in HandlerStep :
          /\ pc[id] # "none" /\ pc' = [pc EXCEPT ![id] = to]
          /\ to \in Unregistered => pc[id] \in Unregistered
          /\ peers[id] # 0 /\ pc[id] \in Live => to \in Live
    BY <1>1 DEF Accept, Refuse, WgAdd, CheckMaxPeers, HandshakeOk, HandshakeFailed, EndLoop,
                Lookup, Goto, HandlerStep, Unregistered, Live
  <2>2. UNCHANGED <<session, peers, term, up>>
    BY <1>1, MovesOnly DEF OnlyPc
  <2> QED
    BY Zenon, <2>1, <2>2, LiveMove
<1>2. ASSUME NEW id \in Peer, RegisterLeecher(id) \/ SyncTransactions(id) \/ Disconnect(id)
      PROVE  LiveInv'
  <2>1. PICK to \in {"sync", "loop", "none"} :
          /\ pc[id] \in {"leech", "sync", "disconnect"} /\ pc' = [pc EXCEPT ![id] = to]
          /\ "leecher" \in up /\ pc[id] \in Live => to \in Live
    BY <1>2 DEF RegisterLeecher, SyncTransactions, Disconnect, Goto, Live
  <2>2. UNCHANGED <<session, peers, term, up>>
    BY <1>2 DEF RegisterLeecher, SyncTransactions, Disconnect
  <2> QED
    BY Zenon, <2>1, <2>2, LiveMove DEF HandlerStep, Unregistered
<1>3. ASSUME NEW id \in Peer, UnregisterPeer(id) PROVE LiveInv'
  BY Zenon, <1>3, LiveUnregister DEF UnregisterPeer, Goto
<1>4. CASE BlameUnregister
  <2>1. remover.peer \in Peer /\ Unregister(remover.peer) /\ UNCHANGED <<pc, session, up>>
    BY <1>4 DEF BlameUnregister, RecordsOK
  <2> QED
    BY <2>1, LiveUnregister
<1>5. ASSUME UNCHANGED <<session, pc, peers, term>>, up' \subseteq up PROVE LiveInv'
  BY <1>5 DEF LiveInv, PeerSetIsLive, Me
<1>6. ASSUME NEW id \in Peer, RemoteCut(id) \/ Blame(id) \/ Tick(id) PROVE LiveInv'
  BY <1>5, <1>6 DEF RemoteCut, Blame, Tick
<1>7. CASE BlameDisconnect \/ LoopNext \/ SyncNext
  BY <1>5, <1>7 DEF BlameDisconnect, LoopNext, TickSync, EndBroadcastLoop, SyncNext, SendDone
<1>8. CASE StopLeecher \/ StopNext
  BY <1>5, <1>8 DEF StopLeecher, StopNext, StopProcessor, WaitLoops, StopSyncer, QuitSync,
                    ClosePeers, WaitHandlers, OnlyStop
<1>9. CASE UNCHANGED vars
  BY <1>5, <1>9 DEF vars
<1> QED
  BY <1>1, <1>2, <1>3, <1>4, <1>6, <1>7, <1>8, <1>9, LiveConnect, LiveRegister
     DEF Next, HandlerNext, RemoverNext

-----------------------------------------------------------------------------
(* The transaction sync loop and Stop.                                        *)

LEMMA BusyStep == RecordsOK /\ SyncLoopIsBusy /\ [Next]_vars => SyncLoopIsBusy'
<1> SUFFICES ASSUME RecordsOK, SyncLoopIsBusy, [Next]_vars PROVE SyncLoopIsBusy'
  OBVIOUS
<1>0. sync \in SyncType
  BY DEF RecordsOK, SyncType
<1>1. ASSUME NEW id \in Peer, SyncTransactions(id) PROVE SyncLoopIsBusy'
  <2>1. \A packs \in 1..MaxPacks : Sync(id, session[id], packs) \in SyncRec
    BY DEF Sync, SyncRec, RecordsOK, TypeOK
  <2>2. CASE UNCHANGED sync
    BY <2>2 DEF SyncLoopIsBusy
  <2>3. ASSUME NEW packs \in 1..MaxPacks, ReceiveSync(Sync(id, session[id], packs))
        PROVE  SyncLoopIsBusy'
    BY <1>0, <2>1, <2>3, ReceiveType
  <2> QED
    BY <1>1, <2>2, <2>3 DEF SyncTransactions
<1>2. CASE TickSync
  <2>1. loop.sync \in SyncRec
    BY <1>2 DEF TickSync, RecordsOK
  <2>2. CASE UNCHANGED sync
    BY <2>2 DEF SyncLoopIsBusy
  <2> QED
    BY <1>0, <1>2, <2>1, <2>2, ReceiveType DEF TickSync
<1>3. CASE SyncNext
  BY <1>0, <1>3, SendDoneType DEF SyncNext
<1>4. CASE UNCHANGED sync
  BY <1>4 DEF SyncLoopIsBusy
<1>5. ASSUME NEW id \in Peer,
             Connect(id) \/ RemoteCut(id) \/ Register(id) \/ RegisterLeecher(id)
               \/ UnregisterPeer(id) \/ Disconnect(id) \/ Blame(id) \/ Tick(id)
      PROVE  UNCHANGED sync
  BY Zenon, <1>5 DEF Connect, RemoteCut, Register, RegisterLeecher, UnregisterPeer, Disconnect, Blame, Tick
<1>6. ASSUME NEW id \in Peer,
             Accept(id) \/ Refuse(id) \/ WgAdd(id) \/ CheckMaxPeers(id) \/ HandshakeOk(id)
               \/ HandshakeFailed(id) \/ EndLoop(id) \/ Lookup(id)
      PROVE  UNCHANGED sync
  BY <1>6, MovesOnly DEF OnlyPc
<1>7. CASE RemoverNext \/ EndBroadcastLoop \/ StopLeecher \/ StopNext \/ UNCHANGED vars
  BY <1>4, <1>7 DEF RemoverNext, BlameUnregister, BlameDisconnect, EndBroadcastLoop, StopLeecher,
     StopNext, StopProcessor, WaitLoops, StopSyncer, QuitSync, ClosePeers, WaitHandlers, OnlyStop, vars
<1> QED
  BY <1>1, <1>2, <1>3, <1>4, <1>5, <1>6, <1>7 DEF Next, HandlerNext, LoopNext

Active == Live \cup {"disconnect"}

LEMMA StopStepInv == RecordsOK /\ StopInv /\ [Next]_vars => StopInv'
<1> SUFFICES ASSUME RecordsOK, StopInv, [Next]_vars PROVE StopInv'
  OBVIOUS
<1>1. NothingHandledAfterStop <=> (stop = "done" => \A id \in Peer : pc[id] \notin Active)
  BY DEF NothingHandledAfterStop, Active, Live
<1>2. ASSUME NEW id \in Peer, NEW to \in HandlerStep, pc' = [pc EXCEPT ![id] = to],
             stop = "done" /\ to \in Active => pc[id] \in Active, UNCHANGED <<closed, stop>>
      PROVE  StopInv'
  BY <1>1, <1>2 DEF StopInv, NothingHandledAfterStop, Active, Live, RecordsOK, TypeOK
<1>3. ASSUME UNCHANGED <<pc, closed, stop>> PROVE StopInv'
  BY <1>3 DEF StopInv, NothingHandledAfterStop
<1>4. ASSUME NEW id \in Peer,
             \/ Connect(id) \/ Accept(id) \/ Refuse(id) \/ WgAdd(id) \/ CheckMaxPeers(id)
             \/ HandshakeOk(id) \/ HandshakeFailed(id) \/ EndLoop(id) \/ Lookup(id)
             \/ RegisterLeecher(id) \/ SyncTransactions(id) \/ UnregisterPeer(id) \/ Disconnect(id)
      PROVE  StopInv'
  <2>1. UNCHANGED <<closed, stop>>
    BY Zenon, <1>4, MovesOnly DEF OnlyPc, Connect, RegisterLeecher, SyncTransactions, UnregisterPeer, Disconnect
  <2>2. PICK to \in HandlerStep : /\ pc' = [pc EXCEPT ![id] = to]
                                  /\ to \in Active => pc[id] \in Active
    BY Zenon, <1>4 DEF Connect, Accept, Refuse, WgAdd, CheckMaxPeers, HandshakeOk, HandshakeFailed,
       EndLoop, Lookup, RegisterLeecher, SyncTransactions, UnregisterPeer, Disconnect, Goto,
       HandlerStep, Active, Live
  <2> QED
    BY Zenon, <1>2, <2>1, <2>2
<1>5. ASSUME NEW id \in Peer, Register(id) PROVE StopInv'
  <2>1. PICK to \in HandlerStep : pc' = [pc EXCEPT ![id] = to] /\ (closed => to = "none")
    BY <1>5 DEF Register, Goto, HandlerStep
  <2>2. UNCHANGED <<closed, stop>>
    BY <1>5 DEF Register
  <2> QED
    BY Zenon, <1>2, <2>1, <2>2 DEF StopInv, Active, Live
<1>6. ASSUME NEW id \in Peer, RemoteCut(id) \/ Blame(id) \/ Tick(id) PROVE StopInv'
  BY <1>3, <1>6 DEF RemoteCut, Blame, Tick
<1>7. CASE RemoverNext \/ LoopNext \/ SyncNext \/ UNCHANGED vars
  BY <1>3, <1>7 DEF RemoverNext, BlameUnregister, BlameDisconnect, LoopNext, TickSync,
     EndBroadcastLoop, SyncNext, SendDone, vars
<1>8. CASE StopLeecher \/ StopProcessor \/ WaitLoops \/ StopSyncer \/ QuitSync \/ ClosePeers
  <2>1. /\ stop' \in {"processor", "loops", "syncer", "quitSync", "peers", "wait"}
        /\ stop' = "wait" => closed'
    BY <1>8 DEF StopLeecher, StopProcessor, WaitLoops, StopSyncer, QuitSync, ClosePeers
  <2> QED
    BY <2>1 DEF StopInv, NothingHandledAfterStop
<1>9. CASE WaitHandlers
  BY <1>9 DEF WaitHandlers, OnlyStop, StopInv, NothingHandledAfterStop, Counted, HandlerStep
<1> QED
  BY <1>4, <1>5, <1>6, <1>7, <1>8, <1>9 DEF Next, HandlerNext, StopNext

-----------------------------------------------------------------------------
LEMMA RecordsInvariant == Spec => []RecordsOK
  BY RecordsInit, RecordsStep, PTL DEF Spec

(* The peer set holds live sessions only, however sessions, removals by the   *)
(* event processor and Stop interleave (PeerSetIsLive of Handler; peer.go     *)
(* Register and Unregister, handler.go handle and removePeer).                *)
THEOREM PeerSetLive == Spec => []PeerSetIsLive
<1>1. LiveInv => PeerSetIsLive
  BY DEF LiveInv
<1> QED
  BY <1>1, LiveInit, LiveStep, RecordsInvariant, PTL DEF Spec

(* The transaction sync loop sends one pack at a time, and no sync waits      *)
(* while the sender is free (SyncLoopIsBusy of Handler; sync.go txsyncLoop).  *)
THEOREM SyncLoopBusy == Spec => []SyncLoopIsBusy
<1>1. Init => SyncLoopIsBusy
  BY DEF Init, SyncLoopIsBusy
<1> QED
  BY <1>1, BusyStep, RecordsInvariant, PTL DEF Spec

(* Once Stop has returned no session is handled, and none will be             *)
(* (NothingHandledAfterStop of Handler; handler.go Stop and handle).          *)
THEOREM StoppedHandlesNothing == Spec => []NothingHandledAfterStop
<1>1. Init => StopInv
  BY DEF Init, StopInv, NothingHandledAfterStop
<1>2. StopInv => NothingHandledAfterStop
  BY DEF StopInv
<1> QED
  BY <1>1, <1>2, StopStepInv, RecordsInvariant, PTL DEF Spec
=============================================================================
