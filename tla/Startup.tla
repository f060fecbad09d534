------------------------------ MODULE Startup ------------------------------
(* From the data directory to a consensus engine: integration.MakeEngine     *)
(* with the genesis store, the gossip store's migrations, and the offline    *)
(* commands that open the same directory (launcher/export.go).  The first    *)
(* start writes the genesis straight into the databases, without a flush     *)
(* mark; every later start goes through flushable.SyncedPool, which keeps    *)
(* the writes in memory and flushes them database by database between a      *)
(* dirty and a clean mark.  The process may be killed between any two        *)
(* writes.                                                                   *)
EXTENDS Integers, FiniteSets, FiniteSetsExt, Sequences

CONSTANTS
    MaxCrashes      \* how often the process is killed

VARIABLES
    disk,    \* the databases: [mark, and the tables of that database], or Absent
    mem,     \* what the open stores show: the databases with the unflushed writes
    run,     \* the running process: [pc, input, empty, next, why, loaded]
    crashes, \* how often it has been killed so far
    cut,     \* history: a kill left a flush half done
    torn     \* history: an offline command was killed inside a migration
svars == <<disk, mem, run, crashes, cut, torn>>

DBs == {"gossip", "epoch", "push", "genesis"}
Absent == [mark |-> "absent"]
NoHash == "none"
Latest == 4                      \* the last of the four migrations
Networks == [main |-> "g", other |-> NoHash]     \* launcher's AllowedGenesis

\* The genesis files a node may be started with: the hash in the header, the
\* hash of the contents, the network its rules name, and whether it decodes.
Inputs == {[header |-> "g", content |-> "g", net |-> "main", ok |-> TRUE],
           [header |-> "h", content |-> "h", net |-> "other", ok |-> TRUE],
           [header |-> "h", content |-> "h", net |-> "main", ok |-> TRUE],
           [header |-> "g", content |-> "h", net |-> "main", ok |-> TRUE],
           [header |-> "g", content |-> "g", net |-> "main", ok |-> FALSE]}

------------------------------------------------------------------------------
(* The data the migrations rewrite. *)

\* The gas each transaction of the two blocks used, and how many of them are
\* internal.  The first block is the genesis block.
Used == <<[internal |-> 3, gas |-> <<2, 1, 4, 3>>],
          [internal |-> 2, gas |-> <<3, 1, 2, 5>>]>>

\* Where the old release restarted its running total (indices from zero).
Restarts(b, i) ==
    IF b = 1 THEN i - 1 \in {Used[b].internal - 2, Used[b].internal - 1}
             ELSE i - 1 \in {Used[b].internal - 1, Used[b].internal}

\* What the old release stored as the cumulative gas, and what is right.
OldCumulative(b, i) ==
    MapThenSumSet(LAMBDA j : Used[b].gas[j],
                  {j \in 1 .. i : \A k \in j + 1 .. i : ~Restarts(b, k)})
RightCumulative(b, i) == MapThenSumSet(LAMBDA j : Used[b].gas[j], 1 .. i)
Receipts(Cumulative(_, _)) ==
    [b \in DOMAIN Used |-> [i \in DOMAIN Used[b].gas |-> Cumulative(b, i)]]

\* The heads and last events of the current epoch: one key each in the old
\* layout, one list under the empty key in the new one.
Heads == {"e1", "e2"}
Lasts == {"v1 e1", "v2 e2"}

OldGossip(net, latest) ==
    [mark |-> "clean", ver |-> 0, hash |-> IF net = "main" THEN "g" ELSE "h",
     state |-> "all", net |-> net, latest |-> latest,
     receipts |-> Receipts(OldCumulative), fixes |-> {}]
OldKeys(keys) == [old |-> keys, written |-> FALSE, new |-> {}]
NewKeys(keys) == [old |-> {}, written |-> TRUE, new |-> keys]
OldEpoch == [mark |-> "clean", heads |-> OldKeys(Heads), lasts |-> OldKeys(Lasts)]

------------------------------------------------------------------------------
(* The migrations: gossip/store_migration.go. *)

\* The cumulative gas of every receipt, recomputed from the stored one by
\* simulating the restarts of the old release.
recoverUsedGas(rr) ==
    LET gasUsed(b, i) ==
            rr[b][i] - (IF i = 1 \/ Restarts(b, i) THEN 0 ELSE rr[b][i - 1])
    IN  [b \in DOMAIN rr |-> [i \in DOMAIN rr[b] |->
            MapThenSumSet(LAMBDA j : gasUsed(b, j), 1 .. i)]]

\* On the main network, two transactions are re-indexed under their right
\* hashes if the chain is past the blocks they are in.
recoverTxHashes(g) ==
    IF g.net # "main" THEN g.fixes
    ELSE g.fixes \cup {n \in 1 .. 2 : g.latest >= n}

\* The keys of the old layout are collected and deleted, an empty key is
\* skipped, and the list is written under the empty key.
recoverKeysUnguarded(t) ==
    NewKeys(t.old \cup (IF t.written THEN {"zero"} ELSE {}))
recoverKeys(t) == NewKeys(t.old)

\* Opening the epoch's store reads the list of the new layout, empty if there
\* is none, and a Commit writes it back.
LoadKeys(t) == IF t.written THEN t.new ELSE {}
FlushKeys(t) == [t EXCEPT !.written = TRUE, !.new = LoadKeys(t)]

\* The number of the last migration applied.
GetID(d) == d["gossip"].ver
SetID(d, k) == [d EXCEPT !["gossip"].ver = k]

\* The tables after the k-th migration, the k-th version number included, and
\* after the Commit that follows it.
Migrated(d, k) ==
    SetID(CASE k = 1 -> [d EXCEPT !["gossip"].receipts = recoverUsedGas(@)]
            [] k = 2 -> [d EXCEPT !["gossip"].fixes = recoverTxHashes(d["gossip"])]
            [] k = 3 -> [d EXCEPT !["epoch"].heads = recoverKeys(@),
                                  !["epoch"].lasts = FlushKeys(@)]
            [] k = 4 -> [d EXCEPT !["epoch"].lasts = recoverKeys(@),
                                  !["epoch"].heads = FlushKeys(@)],
          k)

------------------------------------------------------------------------------
(* flushable.SyncedPool, as integration and the stores use it. *)

Present == {n \in DBs : disk[n] # Absent}

\* Initialize refuses a dirty mark and marks that differ.
Initializes ==
    /\ \A n \in Present : disk[n].mark # "dirty"
    /\ \A n, m \in Present : disk[n].mark = disk[m].mark

\* All databases are marked dirty, one after the other ...
MarkDirty(n) ==
    /\ run.pc = "mark" /\ disk[n] # Absent /\ disk[n].mark # "dirty"
    /\ disk' = [disk EXCEPT ![n].mark = "dirty"]
    /\ UNCHANGED <<mem, run, crashes, cut, torn>>

Marked ==
    /\ run.pc = "mark" /\ \A n \in Present : disk[n].mark = "dirty"
    /\ run' = [run EXCEPT !.pc = "flush"]
    /\ UNCHANGED <<disk, mem, crashes, cut, torn>>

\* ... and then each gets its data together with its clean mark.
FlushDB(n) ==
    /\ run.pc = "flush" /\ disk[n] # Absent /\ disk[n].mark = "dirty"
    /\ disk' = [disk EXCEPT ![n] = [mem[n] EXCEPT !.mark = "clean"]]
    /\ UNCHANGED <<mem, run, crashes, cut, torn>>

Flushed ==
    /\ run.pc = "flush" /\ \A n \in Present : disk[n].mark = "clean"
    /\ run' = [run EXCEPT !.pc = run.next]
    /\ mem' = disk
    /\ UNCHANGED <<disk, crashes, cut, torn>>

------------------------------------------------------------------------------
(* MakeEngine. *)

Off == [pc |-> "off", input |-> [header |-> NoHash], empty |-> FALSE, next |-> "off",
        why |-> "none"]

Start(in) ==
    /\ run.pc = "off"
    /\ run' = [Off EXCEPT !.pc = "interrupted", !.input = in]
    /\ UNCHANGED <<disk, mem, crashes, cut, torn>>

\* dropAllDBsIfInterrupted: nothing carries a flush mark, so an earlier
\* genesis was interrupted.
InterruptedNever == FALSE
Interrupted == Present # {} /\ \A n \in Present : disk[n].mark = "none"
dropAllDBsIfInterrupted ==
    /\ run.pc = "interrupted"
    /\ run' = IF Interrupted THEN [run EXCEPT !.pc = "drop", !.next = "open"]
                             ELSE [run EXCEPT !.pc = "open"]
    /\ UNCHANGED <<disk, mem, crashes, cut, torn>>

\* dropAllDBs, one database at a time.
dropDB(n) ==
    /\ run.pc = "drop" /\ disk[n] # Absent
    /\ disk' = [disk EXCEPT ![n] = Absent]
    /\ UNCHANGED <<mem, run, crashes, cut, torn>>

Dropped ==
    /\ run.pc = "drop" /\ Present = {}
    /\ run' = [run EXCEPT !.pc = run.next]
    /\ UNCHANGED <<disk, mem, crashes, cut, torn>>

\* An error ends the process; after an empty start everything is dropped first.
Fails(r, why) ==
    run' = IF r.empty
           THEN [r EXCEPT !.pc = "drop", !.next = "off", !.why = why]
           ELSE [r EXCEPT !.pc = "off", !.why = why]

CheckDBList == Present = {} \/ {"gossip", "push", "genesis"} \subseteq Present

\* makeFlushableProducer, on the first opening or after the genesis.
Open(r, next) ==
    IF ~CheckDBList THEN Fails(r, "malformed")
    ELSE IF ~Initializes THEN Fails(r, "unsynced")
    ELSE run' = [r EXCEPT !.pc = next]

OpenFirst ==
    /\ run.pc = "open"
    /\ \E empty \in {Present = {}} :
         Open([run EXCEPT !.empty = empty], IF empty THEN "create" ELSE "stores")
    /\ mem' = disk
    /\ UNCHANGED <<disk, crashes, cut, torn>>

Reopen ==
    /\ run.pc = "reopen"
    /\ Open(run, "stores")
    /\ mem' = disk
    /\ UNCHANGED <<disk, crashes, cut, torn>>

\* Writes of the genesis, straight to the disk.
RawWrite(n, table, pc, next) ==
    /\ run.pc = pc
    /\ disk' = [disk EXCEPT ![n] = table]
    /\ run' = [run EXCEPT !.pc = next]
    /\ UNCHANGED <<mem, crashes, cut, torn>>

\* getStores over the raw databases: an empty gossip database is of the latest
\* version.
NewGossip(in) == [mark |-> "none", ver |-> Latest, hash |-> NoHash, state |-> "none",
                  net |-> in.net, latest |-> 0, receipts |-> Receipts(RightCumulative),
                  fixes |-> {}]
getStores ==
    \/ RawWrite("gossip", NewGossip(run.input), "create", "create push")
    \/ RawWrite("push", [mark |-> "none", gen |-> NoHash], "create push", "create genesis")
    \/ RawWrite("genesis", [mark |-> "none", file |-> NoHash], "create genesis", "read")

\* The file is decoded into the genesis store in batches; a decoding error is
\* met half way.
ReadGenesis ==
    \/ RawWrite("genesis", [mark |-> "none", file |-> "part"], "read", "read rest")
    \/ /\ run.pc = "read rest" /\ run.input.ok
       /\ RawWrite("genesis", [mark |-> "none", file |-> run.input.content],
                   "read rest", "allowed")
    \/ /\ run.pc = "read rest" /\ ~run.input.ok
       /\ Fails(run, "undecodable")
       /\ UNCHANGED <<disk, mem, crashes, cut, torn>>

CheckAllowed ==
    /\ run.pc = "allowed"
    /\ IF Networks[run.input.net] \notin {NoHash, run.input.header}
       THEN Fails(run, "not allowed")
       ELSE run' = [run EXCEPT !.pc = "apply"]
    /\ UNCHANGED <<disk, mem, crashes, cut, torn>>

\* The gossip store's genesis: the state and the blocks, then the hash of what
\* was read; then the consensus store's.
ApplyGenesis ==
    \/ RawWrite("gossip", [disk["gossip"] EXCEPT !.state = "part"], "apply", "apply rest")
    \/ RawWrite("gossip", [disk["gossip"] EXCEPT !.state = "all"], "apply rest", "hash")
    \/ RawWrite("gossip", [disk["gossip"] EXCEPT !.hash = run.input.content], "hash", "apply push")
    \/ RawWrite("push", [disk["push"] EXCEPT !.gen = run.input.content], "apply push", "reopen")

\* The version is only written after the Commit of the data (a mutation).
MigrateVersionLate ==
    \/ /\ run.pc = "stores" /\ GetID(mem) < Latest
       /\ mem' = [Migrated(mem, GetID(mem) + 1) EXCEPT !["gossip"].ver = @ - 1]
       /\ run' = [run EXCEPT !.pc = "mark", !.next = "version"]
       /\ UNCHANGED <<disk, crashes, cut, torn>>
    \/ /\ run.pc = "version"
       /\ mem' = [mem EXCEPT !["gossip"].ver = @ + 1]
       /\ run' = [run EXCEPT !.pc = "mark", !.next = "stores"]
       /\ UNCHANGED <<disk, crashes, cut, torn>>

\* The gossip store is created over the pool: pending migrations run one by
\* one, each followed by a Commit.
Migrate ==
    /\ run.pc = "stores" /\ GetID(mem) < Latest
    /\ mem' = Migrated(mem, GetID(mem) + 1)
    /\ run' = [run EXCEPT !.pc = "mark", !.next = "stores"]
    /\ UNCHANGED <<disk, crashes, cut, torn>>

\* The stored genesis is compared with the input, and everything is committed.
Compare ==
    /\ run.pc = "stores" /\ GetID(mem) = Latest
    /\ IF mem["gossip"].hash = NoHash THEN Fails(run, "no hash")
       ELSE IF mem["gossip"].hash # run.input.header THEN Fails(run, "mismatch")
       ELSE run' = [run EXCEPT !.pc = "mark", !.next = "running"]
    /\ UNCHANGED <<disk, mem, crashes, cut, torn>>

Stop ==
    /\ run.pc = "running"
    /\ run' = Off
    /\ UNCHANGED <<disk, mem, crashes, cut, torn>>

------------------------------------------------------------------------------
(* The offline commands: makeRawGossipStore over the raw databases. *)

checkStateInitialized == \E n \in Present : disk[n].mark # "none"

StartTool ==
    /\ run.pc = "off" /\ checkStateInitialized
    /\ run' = [Off EXCEPT !.pc = "tool"]
    /\ UNCHANGED <<disk, mem, crashes, cut, torn>>

\* Their migrations write to the disk as they go: first the rewritten tables
\* (the old keys are deleted before the list is written), then the version.
ToolMigrate ==
    LET k == GetID(disk) + 1
        m == Migrated(disk, k)
    IN  \/ /\ run.pc = "tool" /\ k <= Latest
           /\ disk' = [disk EXCEPT
                ![IF k <= 2 THEN "gossip" ELSE "epoch"] =
                    IF k = 3 THEN [m["epoch"] EXCEPT !.heads = OldKeys({})]
                    ELSE IF k = 4 THEN [m["epoch"] EXCEPT !.lasts = OldKeys({})]
                    ELSE [m["gossip"] EXCEPT !.ver = k - 1]]
           /\ mem' = m
           /\ run' = [run EXCEPT !.pc = "tool wrote"]
           /\ UNCHANGED <<crashes, cut, torn>>
        \/ /\ run.pc = "tool wrote"
           /\ disk' = mem
           /\ run' = [run EXCEPT !.pc = "tool"]
           /\ UNCHANGED <<mem, crashes, cut, torn>>

ToolDone ==
    /\ run.pc = "tool" /\ disk["gossip"].ver = Latest
    /\ run' = Off
    /\ UNCHANGED <<disk, mem, crashes, cut, torn>>

------------------------------------------------------------------------------

Crash ==
    /\ run.pc # "off" /\ crashes < MaxCrashes
    /\ crashes' = crashes + 1
    /\ run' = Off
    /\ cut' = (cut \/ \E n \in Present : disk[n].mark = "dirty")
    /\ torn' = (torn \/ run.pc = "tool wrote")
    /\ UNCHANGED <<disk, mem>>

\* A new data directory, or one an older release left.
StartupInit ==
    /\ disk \in {[n \in DBs |-> Absent]} \cup
         {[n \in DBs |->
            IF n = "gossip" THEN OldGossip(net, latest)
            ELSE IF n = "epoch" THEN OldEpoch
            ELSE IF n = "push" THEN [mark |-> "clean", gen |-> IF net = "main" THEN "g" ELSE "h"]
            ELSE [mark |-> "clean", file |-> IF net = "main" THEN "g" ELSE "h"]] :
          net \in {"main", "other"}, latest \in 0 .. 2}
    /\ mem = disk
    /\ run = Off
    /\ crashes = 0 /\ cut = FALSE /\ torn = FALSE

StartupNext ==
    \/ \E in \in Inputs : Start(in)
    \/ dropAllDBsIfInterrupted
    \/ \E n \in DBs : dropDB(n) \/ MarkDirty(n) \/ FlushDB(n)
    \/ Dropped \/ Marked \/ Flushed
    \/ OpenFirst \/ Reopen
    \/ getStores \/ ReadGenesis \/ CheckAllowed \/ ApplyGenesis
    \/ Migrate \/ Compare \/ Stop
    \/ StartTool \/ ToolMigrate \/ ToolDone
    \/ Crash

------------------------------------------------------------------------------

\* The data are those of the old release, migrated exactly once.
MigratedOnce(d) ==
    /\ d["gossip"].receipts = Receipts(RightCumulative)
    /\ d["epoch"] # Absent =>
         /\ d["epoch"].heads = NewKeys(Heads)
         /\ d["epoch"].lasts = NewKeys(Lasts)
         /\ d["gossip"].fixes =
              {n \in 1 .. 2 : d["gossip"].net = "main" /\ d["gossip"].latest >= n}

\* MakeEngine only returns an engine over the whole genesis of its input file,
\* in both stores, and over data migrated exactly once, however often earlier
\* starts were killed (but for an offline command killed inside a migration,
\* whose writes are not atomic).
EngineHasItsChain ==
    run.pc = "running" =>
        /\ disk["gossip"].hash = run.input.header
        /\ disk["gossip"].state = "all"
        /\ disk["push"].gen = disk["gossip"].hash
        /\ disk["genesis"].file = disk["gossip"].hash
        /\ disk["gossip"].ver = Latest
        /\ torn \/ MigratedOnce(disk)

\* A start that was killed never makes the directory unusable: a later start
\* never finds databases missing or a genesis hash not written, and finds
\* unsynced databases only after a kill in the middle of a flush.
InterruptedStartRecovers ==
    /\ run.why \notin {"malformed", "no hash"}
    /\ run.why = "unsynced" => cut
=============================================================================
