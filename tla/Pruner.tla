------------------------------- MODULE Pruner -------------------------------
(***************************************************************************)
(* The offline tool "snapshot prune-state" (launcher/snapshotcmd.go,       *)
(* evmstore/evmpruner): it deletes every trie node and contract code that  *)
(* belongs neither to the target state nor to the genesis state.  What to  *)
(* keep is recorded in a bloom filter, which is committed to a file before *)
(* the first deletion so that a killed run can be resumed by the next one. *)
(* The node may run, and add blocks, between two runs of the tool.         *)
(*                                                                         *)
(* The snapshot tree is external: the model keeps the roots it has layers  *)
(* for and whether the head's layer is a diff layer.                       *)
(***************************************************************************)
EXTENDS Integers, FiniteSets

CONSTANTS MaxRoot,      \* the number of states the node reaches
          MaxCrashes    \* the number of times the tool is killed

VARIABLES db,           \* the trie nodes and codes on disk
          states,       \* the entries of each state, by state root
          diff,         \* the snapshot's layer of the head is a diff layer
          file,         \* the bloom filter files in the tool's directory
          tool,         \* the running tool
          crashes,      \* kills so far
          explicit      \* the tool was told to prune to a state other than the head

prunevars == <<db, states, diff, file, tool, crashes, explicit>>

Genesis == 1
Head == Cardinality(DOMAIN states)
None == 0
Default == 0

\* An entry: a trie node of the account trie, of a storage trie, or a code,
\* first written by the state with the given number.
Entry(kind, k) == <<kind, k>>

NoTool == [pc |-> "idle", target |-> None, keep |-> {}, ok |-> FALSE]
NoFile == [root |-> None, keep |-> {}, temp |-> FALSE]

-----------------------------------------------------------------------------
(* The node, between two runs of the tool.                                 *)

\* A block writes a new account root and keeps or replaces the storage and
\* the code it shares with its parent; the snapshot gets its layer.
AddBlock ==
  /\ tool.pc = "idle" /\ Head < MaxRoot
  /\ states[Head] \subseteq db
  /\ \E entries \in {{Entry("account", Head + 1), storage, code} :
                       storage \in {Entry("storage", Head + 1)}
                                   \cup {e \in states[Head] : e[1] = "storage"},
                       code \in {Entry("code", Head + 1)}
                                \cup {e \in states[Head] : e[1] = "code"}} :
       /\ states' = [k \in 1..(Head + 1) |-> IF k = Head + 1 THEN entries ELSE states[k]]
       /\ db' = db \cup entries
  /\ diff' \in BOOLEAN
  /\ UNCHANGED <<file, tool, crashes, explicit>>

-----------------------------------------------------------------------------
(* pruneState and Pruner.Prune.                                            *)

StartTool(target) ==
  /\ tool.pc = "idle" /\ target \in {Default} \cup DOMAIN states
  /\ tool' = [NoTool EXCEPT !.pc = "new", !.target = target]
  /\ UNCHANGED <<db, states, diff, file, crashes, explicit>>

Fail == tool' = [tool EXCEPT !.pc = "return", !.ok = FALSE]

\* A file that still has its temporary name does not count.
findBloomFilter == file.root

\* The snapshot may not match the head after an unclean stop of the node.
NewPruner ==
  /\ tool.pc = "new"
  /\ \/ tool' = [tool EXCEPT !.pc = IF findBloomFilter # None THEN "recover" ELSE "generate"]
     \/ Fail
  /\ UNCHANGED <<db, states, diff, file, crashes, explicit>>

\* The layers of the snapshot: the head's, and one more below a diff layer.
Layers == {Head} \cup IF diff /\ Head > 1 THEN {Head - 1} ELSE {}

\* Snapshots(head, 1, nodisk): one layer at most.
Snapshots(nodisk) == IF nodisk /\ ~diff THEN {} ELSE {Head}

Target == IF tool.target = Default THEN Head ELSE tool.target

extractGenesisRoot == {e \in states[Genesis] : e[1] = "account"}

extractGenesis == states[Genesis]

\* GenerateTrie of the target's layer and extractGenesis fill the filter; it
\* may hold an entry by accident.
Generate ==
  /\ tool.pc = "generate"
  /\ \/ /\ Target \in Layers /\ states[Genesis] \subseteq db
        /\ \E byAccident \in {{}} \cup {{e} : e \in db} :
             tool' = [tool EXCEPT !.pc = "commit", !.target = Target,
                                  !.keep = states[Target] \cup extractGenesis \cup byAccident]
     \/ (Target \notin Layers \/ ~(states[Genesis] \subseteq db)) /\ Fail
  /\ UNCHANGED <<db, states, diff, file, crashes, explicit>>

\* stateBloom.Commit: the temporary file, then its final name.
WriteTemp ==
  /\ tool.pc = "commit" /\ ~file.temp
  /\ file' = [file EXCEPT !.temp = TRUE]
  /\ UNCHANGED <<db, states, diff, tool, crashes, explicit>>

Rename ==
  /\ tool.pc = "commit" /\ file.temp
  /\ file' = [root |-> tool.target, keep |-> tool.keep, temp |-> FALSE]
  /\ tool' = [tool EXCEPT !.pc = "delete"]
  /\ explicit' = (explicit \/ tool.target # Head)
  /\ UNCHANGED <<db, states, diff, crashes>>

\* RecoverPruning: the filter of the interrupted run, if its target is
\* (still) a layer of the snapshot.
RecoverAnyTarget ==
  /\ tool.pc = "recover"
  /\ tool' = [tool EXCEPT !.pc = "delete", !.target = file.root, !.keep = file.keep]
  /\ UNCHANGED <<db, states, diff, file, crashes, explicit>>

RecoverPruning ==
  /\ tool.pc = "recover"
  /\ IF file.root \in Snapshots(TRUE)
     THEN tool' = [tool EXCEPT !.pc = "delete", !.target = file.root, !.keep = file.keep]
     ELSE Fail
  /\ UNCHANGED <<db, states, diff, file, crashes, explicit>>

\* stateBloom.Contain: no false negatives.
Contain(e) == e \in tool.keep

\* prune: the batches of deletions reach the disk one by one.
DeleteBatch ==
  /\ tool.pc = "delete"
  /\ \E batch \in (SUBSET {e \in db : ~Contain(e)}) \ {{}} : db' = db \ batch
  /\ UNCHANGED <<states, diff, file, tool, crashes, explicit>>

\* prune stops before the end of the table.
JournalEarly ==
  /\ tool.pc = "delete"
  /\ tool' = [tool EXCEPT !.pc = "unlink"] \/ Fail
  /\ UNCHANGED <<db, states, diff, file, crashes, explicit>>

\* Nothing is left to delete; the snapshot is journaled, or that fails.
Journal ==
  /\ tool.pc = "delete" /\ \A e \in db : Contain(e)
  /\ tool' = [tool EXCEPT !.pc = "unlink"] \/ Fail
  /\ UNCHANGED <<db, states, diff, file, crashes, explicit>>

RemoveBloom ==
  /\ tool.pc = "unlink"
  /\ file' = [file EXCEPT !.root = None, !.keep = {}]
  /\ tool' = [tool EXCEPT !.pc = "return", !.ok = TRUE]
  /\ UNCHANGED <<db, states, diff, crashes, explicit>>

\* The deferred removal of the tool's directory.
Return ==
  /\ tool.pc = "return"
  /\ file' = NoFile
  /\ tool' = NoTool
  /\ UNCHANGED <<db, states, diff, crashes, explicit>>

Kill ==
  /\ tool.pc # "idle" /\ crashes < MaxCrashes
  /\ tool' = NoTool
  /\ crashes' = crashes + 1
  /\ UNCHANGED <<db, states, diff, file, explicit>>

-----------------------------------------------------------------------------
(* The verification commands.                                              *)

Of(kind, k) == {e \in states[k] : e[1] = kind}

\* traverse-state: iterating the account trie and each account's storage trie
\* finds their nodes; the code of each account is looked up.
TraverseState(k) ==
  /\ Of("account", k) \subseteq db
  /\ Of("storage", k) \subseteq db
  /\ Of("code", k) \subseteq db

\* traverse-rawstate: the same walk, node by node.
TraverseRawState(k) ==
  \A kind \in {"account", "storage", "code"} : \A e \in Of(kind, k) : e \in db

\* check evm: the head's state is there, and whatever root is there has its
\* storage and code (the cache only saves repeated look-ups).
CheckEvm ==
  /\ Of("account", Head) \subseteq db
  /\ \A k \in DOMAIN states : Of("account", k) \subseteq db =>
       Of("storage", k) \cup Of("code", k) \subseteq db

PruneInit ==
  /\ states = [k \in {Genesis} |-> {Entry("account", k), Entry("storage", k), Entry("code", k)}]
  /\ db = states[Genesis]
  /\ diff \in BOOLEAN
  /\ file = NoFile
  /\ tool = NoTool
  /\ crashes = 0
  /\ explicit = FALSE

PruneNext ==
  \/ AddBlock \/ \E target \in 0..MaxRoot : StartTool(target)
  \/ NewPruner \/ Generate \/ WriteTemp \/ Rename \/ RecoverPruning
  \/ DeleteBatch \/ Journal \/ RemoveBloom \/ Return \/ Kill

-----------------------------------------------------------------------------
\* However often the tool is killed, resumed or fails, and whatever blocks
\* the node adds in between, the genesis state and, unless the tool was told
\* to prune to an older state, the node's current state stay complete (prune,
\* RecoverPruning).
LiveStateIsKept ==
  /\ TraverseRawState(Genesis)
  /\ ~explicit => TraverseRawState(Head)

\* "After pruning, only two version states are available: genesis and the
\* specific one": when the tool reports success, also for a run that had been
\* interrupted, no other state is left unless the filter held its root by
\* accident, and without such an accident the check of the EVM database
\* passes (prune, checkEvm).
OnlyTwoStatesLeft ==
  tool.pc = "return" /\ tool.ok =>
    /\ ~explicit => TraverseState(tool.target)
    /\ \A k \in DOMAIN states :
         k \notin {Genesis, tool.target} /\ TraverseState(k) =>
           Entry("account", k) \in tool.keep
    /\ ~explicit /\ tool.keep \subseteq states[tool.target] \cup states[Genesis] => CheckEvm

\* A run that committed its filter is resumed before the node goes on: "If any
\* crashes or manual exit happens before this, `RecoverPruning` will pick it
\* up in the next restarts to redo all the things" (prune).
PruningIsResumed == [][states' # states => file.root = None]_prunevars
=============================================================================
