--------------------------------- MODULE Reads ---------------------------------
(* RPC calls that read the chain while a block is being written: the order   *)
(* in which block processing stores a block's parts (c_block_callbacks.go),  *)
(* the lookups (store_block.go, evmstore, evm_state_reader.go), and the      *)
(* calls built from several lookups (ethapi_backend.go, ethapi/api.go,       *)
(* filters/filter.go).  Each lookup is one step.  Block n holds one          *)
(* transaction of an event, one internal transaction and one log; all carry  *)
(* the number n.  What is stored is never rewritten, so a cache in front of  *)
(* a table answers what the table does.                                      *)
EXTENDS Integers, FiniteSets

CONSTANTS MaxBlock,     \* bound: blocks written
          RangeLimit    \* UnindexedLogsBlockRangeLimit

Block == 0..MaxBlock
Latest == -1            \* rpc.LatestBlockNumber; PendingBlockNumber is treated alike

VARIABLES pos, receipts, topics, logrecs, txs, blocks, hashes,  \* tables: numbers present
          head,      \* BlockState.LastBlock
          cached,    \* EVM blocks in cache
          step,      \* what the writer does next to block Writing
          call       \* the RPC call under way

rvars == <<pos, receipts, topics, logrecs, txs, blocks, hashes, head, cached, step, call>>
tables == <<pos, receipts, topics, logrecs, txs, blocks, hashes, head, cached>>

Writing == head + 1
NoCall == [op |-> "none", pc |-> "idle", n |-> 0, m |-> 0, at |-> 0, first |-> 0, out |-> {}, res |-> "none"]

(* Block 0 is the genesis block.                                             *)
ReadsInit ==
    /\ pos = {0} /\ receipts = {0} /\ topics = {0} /\ logrecs = {0} /\ txs = {0}
    /\ blocks = {0} /\ hashes = {0} /\ head = 0 /\ cached = {}
    /\ step = "SetTxPosition" /\ call = NoCall
-----------------------------------------------------------------------------
(* The writer.                                                               *)

Write(s, next) == step = s /\ Writing <= MaxBlock /\ step' = next /\ UNCHANGED call

SetTxPosition == /\ Write("SetTxPosition", "SetReceipts") /\ pos' = pos \cup {Writing}
                 /\ UNCHANGED <<receipts, topics, logrecs, txs, blocks, hashes, head, cached>>
SetReceipts == /\ Write("SetReceipts", "PushTopics") /\ receipts' = receipts \cup {Writing}
               /\ UNCHANGED <<pos, topics, logrecs, txs, blocks, hashes, head, cached>>
(* IndexLogs: the topics of a record come before the record.                 *)
PushTopics == /\ Write("PushTopics", "PushLogrec") /\ topics' = topics \cup {Writing}
              /\ UNCHANGED <<pos, receipts, logrecs, txs, blocks, hashes, head, cached>>
PushLogrec == /\ Write("PushLogrec", "SetTx") /\ logrecs' = logrecs \cup {Writing}
              /\ UNCHANGED <<pos, receipts, topics, txs, blocks, hashes, head, cached>>
SetTx == /\ Write("SetTx", "SetBlock") /\ txs' = txs \cup {Writing}
         /\ UNCHANGED <<pos, receipts, topics, logrecs, blocks, hashes, head, cached>>
SetBlock == /\ Write("SetBlock", "SetBlockIndex") /\ blocks' = blocks \cup {Writing}
            /\ UNCHANGED <<pos, receipts, topics, logrecs, txs, hashes, head, cached>>
(* Mutant: the block is found by its hash only after it has become the head. *)
SetBlockIndexLate ==
    /\ Write("SetBlockIndex", "SetBlockEpochState") /\ hashes' = hashes \cup {head}
    /\ UNCHANGED <<pos, receipts, topics, logrecs, txs, blocks, head, cached>>
SetBlockIndex == /\ Write("SetBlockIndex", "SetBlockEpochState") /\ hashes' = hashes \cup {Writing}
                 /\ UNCHANGED <<pos, receipts, topics, logrecs, txs, blocks, head, cached>>
SetBlockEpochState == /\ Write("SetBlockEpochState", "SetCachedEvmBlock") /\ head' = Writing
                      /\ UNCHANGED <<pos, receipts, topics, logrecs, txs, blocks, hashes, cached>>
SetCachedEvmBlock == /\ step = "SetCachedEvmBlock" /\ step' = "SetTxPosition"
                     /\ cached' = cached \cup {head}
                     /\ UNCHANGED <<pos, receipts, topics, logrecs, txs, blocks, hashes, head, call>>

Evict(n) == /\ n \in cached /\ cached' = cached \ {n}
            /\ UNCHANGED <<pos, receipts, topics, logrecs, txs, blocks, hashes, head, step, call>>
-----------------------------------------------------------------------------
(* Lookups.                                                                  *)

GetTxPosition(t) == t \in pos
GetReceipts(n) == n \in receipts
GetTx(n) == n \in txs
GetBlock(n) == n \in blocks
GetBlockIndex(n) == n \in hashes

(* getBlock: "nil", a block from the cache or put together, or "crit" when a *)
(* part of it is missing.                                                    *)
getBlock(n, readTxs) ==
    IF ~GetBlock(n) THEN "nil"
    ELSE IF readTxs /\ n \in cached THEN "block"
    ELSE IF readTxs /\ ~GetTx(n) THEN "crit"
    ELSE IF n # 0 /\ ~GetBlock(n - 1) THEN "crit" ELSE "block"

Caches(n) == IF getBlock(n, TRUE) = "block" THEN cached \cup {n} ELSE cached
-----------------------------------------------------------------------------
(* The calls.  n and m are the arguments; pc is the lookup that comes next,  *)
(* at the block it is about, first the block answered (for logs, the head    *)
(* when the call began), out the blocks whose receipts or logs were found.   *)

Goto(pc) == call' = [call EXCEPT !.pc = pc]
Return(res) == call' = [call EXCEPT !.pc = "done", !.res = res]
At(pc) == call.pc = pc /\ UNCHANGED <<pos, receipts, topics, logrecs, txs, blocks, hashes, head, step>>

Begin(op, n, m, pc) ==
    /\ call.pc \in {"idle", "done"}
    /\ call' = [NoCall EXCEPT !.op = op, !.n = n, !.m = m, !.at = n, !.pc = pc]
    /\ UNCHANGED <<tables, step>>

(* GetTransactionByHash, GetRawTransactionByHash, GetTransactionReceipt.     *)
CallTx(op, t) == op \in {"tx", "receipt"} /\ Begin(op, t, t, "position")

(* GetBlockByNumber, GetHeaderByNumber and the calls that count or pick      *)
(* transactions of a block; then its bloom.                                  *)
CallBlock(n) == Begin("block", n, n, IF n = Latest THEN "latest" ELSE "block")

(* GetBlockByHash, GetHeaderByHash.                                          *)
CallHash(n) == Begin("hash", n, n, "index")

(* GetBalance, GetCode, GetStorageAt, Call: the state of a block.            *)
CallState(n) == Begin("state", n, n, IF n = Latest THEN "latest" ELSE "header")

(* GetLogs from a block to another, by the index or block by block.          *)
CallLogs(indexed, b, e) == Begin(IF indexed THEN "find" ELSE "scan", b, e, "range")

(* GetTransaction.                                                           *)
ReadPosition ==
    /\ At("position") /\ UNCHANGED cached
    /\ IF GetTxPosition(call.n) THEN Goto("header") ELSE Return("none")

(* GetLatestBlockIndex of CurrentBlock and CurrentHeader.                    *)
ReadLatest ==
    /\ At("latest") /\ UNCHANGED cached
    /\ call' = [call EXCEPT !.at = head, !.pc = IF call.op = "state" THEN "header" ELSE "block"]

ReadLatestAgain ==
    /\ At("again") /\ UNCHANGED cached
    /\ call' = [call EXCEPT !.at = head, !.pc = "receipts"]

ReadIndex ==
    /\ At("index") /\ UNCHANGED cached
    /\ IF GetBlockIndex(call.n) THEN Goto("block") ELSE Return("none")

(* HeaderByNumber, for a transaction or a receipt, and CurrentBlock, for the *)
(* latest state, read the whole block; GetHeader, for another state, does    *)
(* not.  GetTransactionByHash uses the header without a look at whether      *)
(* there is one.                                                             *)
ReadHeader ==
    /\ At("header")
    /\ LET whole == call.op # "state" \/ call.n = Latest
           found == getBlock(call.at, whole)
       IN  /\ CASE found = "crit" -> Return("crit")
                [] found = "nil" /\ call.op = "tx" -> Return("nil dereference")
                [] found = "nil" /\ call.op \in {"receipt", "state"} -> Return("none")
                [] found = "block" /\ call.op = "receipt" -> Goto("receipts")
                [] found = "block" /\ call.op # "receipt" -> Return("found")
           /\ cached' = IF whole THEN Caches(call.at) ELSE cached

(* BlockByNumber; calculateLogsBloom resolves the number once more.          *)
ReadBlock ==
    /\ At("block") /\ cached' = Caches(call.at)
    /\ LET found == getBlock(call.at, TRUE)
       IN  IF found = "block"
           THEN call' = [call EXCEPT !.first = call.at,
                                     !.pc = IF call.n = Latest THEN "again" ELSE "receipts"]
           ELSE Return(IF found = "nil" THEN "none" ELSE "crit")

(* GetReceiptsByNumber: the receipts, then the block they belong to.         *)
ReadReceipts ==
    /\ At("receipts") /\ UNCHANGED cached
    /\ call' = [call EXCEPT !.pc = "derive", !.out = IF GetReceipts(call.at) THEN {call.at} ELSE {}]

ReadDerive ==
    /\ At("derive") /\ cached' = Caches(call.at)
    /\ Return(CASE getBlock(call.at, TRUE) = "nil" -> "nil dereference"
                [] getBlock(call.at, TRUE) = "crit" -> "crit"
                [] getBlock(call.at, TRUE) = "block" -> IF call.out = {} THEN "mismatch" ELSE "found")

(* Filter.Logs: the limits of the range; first remembers the head.           *)
ReadRange ==
    /\ At("range") /\ UNCHANGED cached
    /\ LET b == IF call.n < 0 THEN head ELSE call.n
           e == IF call.m < 0 THEN head ELSE call.m
       IN  call' = [call EXCEPT !.n = b, !.m = e, !.at = b, !.first = head,
                      !.res = IF b > e THEN "found"
                              ELSE IF call.op = "scan" /\ e - b > RangeLimit THEN "too wide" ELSE @,
                      !.pc = IF b > e \/ (call.op = "scan" /\ e - b > RangeLimit) THEN "done" ELSE call.op]

(* unindexedLogs: the header of a block; then its logs by its hash.          *)
ReadScan ==
    /\ At("scan")
    /\ cached' = IF call.at <= call.m THEN Caches(call.at) ELSE cached
    /\ IF call.at > call.m \/ getBlock(call.at, TRUE) = "nil" THEN Return("found")
       ELSE IF getBlock(call.at, TRUE) = "crit" THEN Return("crit") ELSE Goto("logs")

ReadLogs ==
    /\ At("logs") /\ UNCHANGED cached
    /\ call' = [call EXCEPT !.pc = "scan", !.at = @ + 1,
                  !.out = IF GetBlockIndex(call.at) /\ GetReceipts(call.at) THEN @ \cup {call.at} ELSE @]

(* indexedLogs: the topics found, then the record of each.                   *)
ReadTopics ==
    /\ At("find") /\ UNCHANGED cached
    /\ call' = [call EXCEPT !.pc = "fetch", !.out = {n \in topics : call.n <= n /\ n <= call.m}]

ReadFetch ==
    /\ At("fetch") /\ UNCHANGED cached
    /\ Return(IF call.out \subseteq logrecs THEN "found" ELSE "no record")
-----------------------------------------------------------------------------
Numbers == Block \cup {Latest}

Writer == \/ SetTxPosition \/ SetReceipts \/ PushTopics \/ PushLogrec \/ SetTx \/ SetBlock
          \/ SetBlockIndex \/ SetBlockEpochState \/ SetCachedEvmBlock

Reader == \/ ReadPosition \/ ReadLatest \/ ReadLatestAgain \/ ReadIndex \/ ReadHeader \/ ReadBlock \/ ReadReceipts
          \/ ReadDerive \/ ReadRange \/ ReadScan \/ ReadLogs \/ ReadTopics \/ ReadFetch

ReadsNext ==
    \/ Writer \/ Reader
    \/ \E n \in Block : Evict(n) \/ CallHash(n) \/ \E op \in {"tx", "receipt"} : CallTx(op, n)
    \/ \E n \in Numbers : CallBlock(n) \/ CallState(n)
    \/ \E b, e \in Numbers, indexed \in BOOLEAN : CallLogs(indexed, b, e)

ReadsSpec == ReadsInit /\ [][ReadsNext]_rvars
-----------------------------------------------------------------------------
(* Properties.                                                               *)

(* Whatever the writer is in the middle of: a block, a header, a state or a  *)
(* receipt is never put together from parts that are missing; a call that    *)
(* has found a block finds its receipts; and logs asked for up to the head,  *)
(* or of any one block that is found, are all there.  A transaction whose    *)
(* block is being written, and an indexed search beyond the head, are the    *)
(* only calls that can meet a half-written block.                            *)
HalfWrittenIsHidden ==
    call.pc = "done" =>
        /\ call.res # "crit" /\ call.res # "mismatch"
        /\ call.res = "nil dereference" => call.op = "tx"
        /\ call.res = "no record" => call.m > call.first
        /\ call.op \in {"find", "scan"} /\ call.res = "found" =>
             \A n \in Block : call.n <= n /\ n <= call.m /\ n <= call.first => n \in call.out
        /\ call.op \in {"block", "hash", "state"} /\ call.n \in {Latest, 0} => call.res = "found"

(* What GetTransactionByHash finds in a block comes with that block: "Try to *)
(* return an already finalized transaction".                                 *)
TransactionHasItsBlock == call.op = "tx" => call.res # "nil dereference"

(* The bloom of a block answered is that of its own receipts.                *)
BloomIsOfTheBlock ==
    call.pc = "done" /\ call.op = "block" /\ call.res = "found" => call.out = {call.first}
=============================================================================
