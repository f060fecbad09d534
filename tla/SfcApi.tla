------------------------------- MODULE SfcApi -------------------------------
(***************************************************************************)
(* The node-side index of the SFC contract's stakers and delegations       *)
(* (gossip/sfcapi) and the RPC methods that read it (ethapi/sfc_api.go     *)
(* through gossip/ethapi_backend.go).                                      *)
(*                                                                         *)
(* The block goroutine hands each log of a receipt to OnNewLog while the   *)
(* block executes; the weights it hands to the driver's listener become    *)
(* readable only when the block's state is stored.  A request reads the    *)
(* index row by row, and the block and epoch state once for its stakers    *)
(* and once more for each metric, at any time.                             *)
(*                                                                         *)
(* The contract itself is external: the model keeps the stakes, rewards    *)
(* and statuses it holds, and the logs it emits for an operation.          *)
(***************************************************************************)
EXTENDS Integers, Sequences, FiniteSets, SequencesExt, FiniteSetsExt, Functions

CONSTANTS Validators,   \* the validator IDs the contract hands out
          Addresses,    \* the addresses of stakers and delegators
          Amount,       \* the stake moved by one operation
          MaxOps,       \* the number of contract operations
          MaxEpoch,     \* the last epoch
          Limit         \* of the delegations of an address in one answer: 1000

VARIABLES ix,           \* the four tables of sfcapi.Store
          contract,     \* what the SFC contract holds (external)
          logs,         \* the logs of the block not yet handed out
          legacy,       \* the claims of an earlier contract, in genesis
          next,         \* bs.NextValidatorProfiles of the executing block
          state,        \* the stored block and epoch state
          inBlock,      \* a block is executing
          ops,          \* contract operations so far
          rpc           \* the request being served

sfcvars == <<ix, contract, logs, legacy, next, state, inBlock, ops, rpc>>

IDs == Addresses \X Validators
NoOne == "nobody"

\* Status of a validator in the contract.
OK == 0
Withdrawn == 1
Offline == 8
Doublesign == 128
\* Status of a staker in the API: sfcapi.ForkBit and sfcapi.OfflineBit.
ForkBit == 1
OfflineBit == 256

-----------------------------------------------------------------------------
(* The tables.                                                             *)

SetSfcStaker(t, v, staker) == [t EXCEPT !.stakers = (v :> staker) @@ @]

GetSfcDelegation(t, id) ==
  IF id \in DOMAIN t.delegations THEN t.delegations[id] ELSE 0

SetSfcDelegation(t, id, amount) ==
  [t EXCEPT !.delegations = (id :> amount) @@ @]

DelSfcDelegation(t, id) ==
  [t EXCEPT !.delegations = Restrict(@, DOMAIN @ \ {id})]

IncDelegationClaimedRewards(t, id, diff) ==
  [t EXCEPT !.claimed[id] = @ + diff]

IncStakerDelegationsClaimedRewards(t, v, diff) ==
  [t EXCEPT !.claimedOf[v] = @ + diff]

GetStakerDelegationsClaimedRewards(t, v) == t.claimedOf[v]

-----------------------------------------------------------------------------
(* OnNewLog: what one log of the contract does to the tables.              *)

CreatedValidator(t, l) ==
  SetSfcStaker(t, l.v, [address |-> l.a, status |-> OK, deactivated |-> 0])

DelegatedOverwrites(t, l) == SetSfcDelegation(t, <<l.a, l.v>>, l.n)

Delegated(t, l) ==
  SetSfcDelegation(t, <<l.a, l.v>>, GetSfcDelegation(t, <<l.a, l.v>>) + l.n)

DeactivatedValidator(t, l) ==
  IF l.v \notin DOMAIN t.stakers THEN t
  ELSE SetSfcStaker(t, l.v, [t.stakers[l.v] EXCEPT !.deactivated = l.n])

ChangedValidatorStatus(t, l) ==
  IF l.v \notin DOMAIN t.stakers THEN t
  ELSE SetSfcStaker(t, l.v, [t.stakers[l.v] EXCEPT !.status = l.n])

Undelegated(t, l) ==
  LET id == <<l.a, l.v>>
  IN  IF id \notin DOMAIN t.delegations THEN t
      ELSE IF t.delegations[id] - l.n > 0
           THEN SetSfcDelegation(t, id, t.delegations[id] - l.n)
           ELSE DelSfcDelegation(t, id)

\* The reward is the sum of three amounts in the log; n is that sum.
ClaimedRewards(t, l) ==
  IncStakerDelegationsClaimedRewards(
    IncDelegationClaimedRewards(t, <<l.a, l.v>>, l.n), l.v, l.n)

OnNewLog(t, l) ==
  CASE l.topic = "CreatedValidator"       -> CreatedValidator(t, l)
    [] l.topic = "Delegated"              -> Delegated(t, l)
    [] l.topic = "DeactivatedValidator"   -> DeactivatedValidator(t, l)
    [] l.topic = "ChangedValidatorStatus" -> ChangedValidatorStatus(t, l)
    [] l.topic = "Undelegated"            -> Undelegated(t, l)
    [] l.topic = "ClaimedRewards"         -> ClaimedRewards(t, l)
    [] OTHER                              -> t

\* The claims of the contract before genesis, found in the log index.
LegacyClaim(t, l) ==
  CASE l.topic = "ClaimedValidatorReward" ->
         IF l.v \notin DOMAIN t.stakers THEN t
         ELSE ClaimedRewards(t, [l EXCEPT !.a = t.stakers[l.v].address])
    [] l.topic = "ClaimedDelegationReward" -> ClaimedRewards(t, l)

-----------------------------------------------------------------------------
(* The contract (external): its operations and the logs they emit.  A      *)
(* "Weight" log is the driver's UpdateValidatorWeight.                     *)

Log(topic, a, v, n) == [topic |-> topic, a |-> a, v |-> v, n |-> n]

StakeOf(c, v) == SumFunctionOnSet(c.stake, {id \in IDs : id[2] = v})

Weight(c, v) == IF c.status[v] = OK THEN StakeOf(c, v) ELSE 0

Created(c) == {v \in Validators : c.owner[v] # NoOne}

\* Runs one operation: c is the contract after it, ls the logs it emits.
Emit(c, ls, v) ==
  /\ inBlock /\ logs = <<>> /\ legacy = <<>> /\ ops < MaxOps
  /\ contract' = c
  /\ logs' = ls \o <<Log("Weight", NoOne, v, Weight(c, v))>>
  /\ ops' = ops + 1
  /\ UNCHANGED <<ix, legacy, next, state, inBlock, rpc>>

CreateValidator == \E v \in Validators, a \in Addresses :
  /\ contract.owner[v] = NoOne
  /\ \A u \in Validators : contract.owner[u] # a
  /\ Emit([contract EXCEPT !.owner[v] = a, !.stake[<<a, v>>] = @ + Amount],
          <<Log("CreatedValidator", a, v, 0), Log("Delegated", a, v, Amount)>>, v)

Delegate == \E v \in Created(contract), a \in Addresses :
  /\ contract.status[v] = OK
  /\ Emit([contract EXCEPT !.stake[<<a, v>>] = @ + Amount],
          <<Log("Delegated", a, v, Amount)>>, v)

Undelegate == \E v \in Created(contract), a \in Addresses :
  \E n \in 1..contract.stake[<<a, v>>] :
     Emit([contract EXCEPT !.stake[<<a, v>>] = @ - n],
          <<Log("Undelegated", a, v, n)>>, v)

\* RestakedRewards: the reward is claimed and delegated again.
ClaimOrRestake == \E v \in Created(contract), a \in Addresses, restake \in BOOLEAN :
  /\ contract.stake[<<a, v>>] > 0
  /\ Emit([contract EXCEPT !.reward[<<a, v>>] = @ + 1,
                           !.stake[<<a, v>>] = IF restake THEN @ + 1 ELSE @],
          (IF restake THEN <<Log("Delegated", a, v, 1)>> ELSE <<>>)
             \o <<Log("ClaimedRewards", a, v, 1)>>, v)

Deactivate == \E v \in Created(contract), status \in {Withdrawn, Offline, Doublesign} :
  /\ contract.status[v] < status
  /\ Emit([contract EXCEPT !.status[v] = status, !.deactivated[v] = state.epoch],
          <<Log("DeactivatedValidator", NoOne, v, state.epoch),
            Log("ChangedValidatorStatus", NoOne, v, status)>>, v)

-----------------------------------------------------------------------------
(* The block goroutine.                                                    *)

\* No request, or one whose answer has been sent.
Idle == [call |-> "none", pc |-> "done", verbosity |-> 0, arg |-> NoOne, st |-> {},
         todo |-> <<>>, rows |-> <<>>, out |-> <<>>, quiet |-> FALSE]

\* consensusCallbackBeginBlockFn; a request served from now on may see a
\* part of this block.
BeginBlock ==
  /\ ~inBlock /\ legacy = <<>> /\ ops < MaxOps
  /\ inBlock' = TRUE
  /\ next' = state.profiles
  /\ rpc' = IF rpc.pc = "done" THEN Idle ELSE [rpc EXCEPT !.quiet = FALSE]
  /\ UNCHANGED <<ix, contract, logs, legacy, state, ops>>

\* onNewLogAll: the driver's listener and the index take one log.
HandleLog ==
  /\ logs # <<>>
  /\ next' = IF Head(logs).topic # "Weight" THEN next
             ELSE IF Head(logs).n = 0 THEN Restrict(next, DOMAIN next \ {Head(logs).v})
             ELSE (Head(logs).v :> Head(logs).n) @@ next
  /\ ix' = OnNewLog(ix, Head(logs))
  /\ logs' = Tail(logs)
  /\ UNCHANGED <<contract, legacy, state, inBlock, ops, rpc>>

\* The epoch is sealed inside the block and stored at once.
SealEpoch ==
  /\ inBlock /\ logs = <<>> /\ legacy = <<>> /\ state.epoch < MaxEpoch
  /\ state' = [profiles |-> next, validators |-> DOMAIN next, epoch |-> state.epoch + 1]
  /\ UNCHANGED <<ix, contract, logs, legacy, next, inBlock, ops, rpc>>

EndBlock ==
  /\ inBlock /\ logs = <<>>
  /\ inBlock' = FALSE
  /\ state' = [state EXCEPT !.profiles = next]
  /\ UNCHANGED <<ix, contract, logs, legacy, next, ops, rpc>>

\* The genesis transactions' logs have been handed out; the claims of the
\* earlier contract follow.
ApplyGenesis ==
  /\ inBlock /\ logs = <<>> /\ legacy # <<>>
  /\ ix' = FoldLeft(LegacyClaim, ix, legacy)
  /\ legacy' = <<>>
  /\ UNCHANGED <<contract, logs, next, state, inBlock, ops, rpc>>

-----------------------------------------------------------------------------
(* The RPC methods.                                                        *)

Reading(pc) ==
  rpc.pc = pc /\ UNCHANGED <<ix, contract, logs, legacy, next, state, inBlock, ops>>

\* Only a node that has applied its genesis serves requests.
Request == \E call \in {"staker", "byAddress", "stakers",
                       "delegation", "delegationsOf", "delegationsBy"},
              verbosity \in 0..2 :
  \E arg \in CASE call \in {"staker", "delegationsOf"} -> Validators
               [] call \in {"byAddress", "delegationsBy"} -> Addresses
               [] call = "delegation" -> IDs
               [] OTHER -> {NoOne} :
    /\ rpc = Idle /\ legacy = <<>>
    /\ rpc' = [Idle EXCEPT !.call = call, !.verbosity = verbosity, !.arg = arg,
                           !.quiet = ~inBlock,
                           !.pc = CASE call = "staker"    -> "row"
                                    [] call = "byAddress" -> "id"
                                    [] call = "stakers"   -> "state"
                                    [] OTHER              -> "delegations"]
    /\ UNCHANGED <<ix, contract, logs, legacy, next, state, inBlock, ops>>

\* The last staker of the iteration with that address.
GetStakerID ==
  /\ Reading("id")
  /\ LET found == {v \in DOMAIN ix.stakers : ix.stakers[v].address = rpc.arg}
     IN  rpc' = IF found = {} THEN [rpc EXCEPT !.pc = "done"]
                ELSE IF rpc.verbosity = 0
                     THEN [rpc EXCEPT !.pc = "done", !.todo = <<Max(found)>>]
                     ELSE [rpc EXCEPT !.pc = "row", !.arg = Max(found)]

GetSfcStaker ==
  /\ Reading("row")
  /\ rpc' = IF rpc.arg \notin DOMAIN ix.stakers THEN [rpc EXCEPT !.pc = "done"]
            ELSE [rpc EXCEPT !.pc = "state", !.todo = <<rpc.arg>>,
                             !.rows = rpc.arg :> ix.stakers[rpc.arg]]

\* GetBlockEpochState: both at once.  GetStakers opens its iterator after it.
GetState ==
  /\ Reading("state")
  /\ rpc' = [rpc EXCEPT !.pc = IF rpc.call = "stakers" THEN "iterate" ELSE "extend",
                        !.st = state]

IterateStakers ==
  /\ Reading("iterate")
  /\ rpc' = [rpc EXCEPT !.pc = "extend", !.rows = ix.stakers,
                        !.todo = SetToSortSeq(DOMAIN ix.stakers, <)]

ApiStatusRaw(status) == status

ApiStatus(status) ==
  CASE status = Withdrawn  -> 0
    [] status = Doublesign -> ForkBit
    [] status = Offline    -> OfflineBit
    [] OTHER               -> status

DelegatedMe(st, v, stake) ==
  IF v \in DOMAIN st.profiles /\ st.profiles[v] > stake THEN st.profiles[v] - stake ELSE 0

\* The API-only fields of one staker; stake is its self-delegation.
Extended(st, v, row, stake) ==
  [status |-> ApiStatus(row.status), deactivated |-> row.deactivated, stake |-> stake,
   delegated |-> DelegatedMe(st, v, stake), validator |-> v \in st.validators]

CalcTotalStake(staker) == staker.stake + staker.delegated

StakerOk(staker) == staker.status = OK /\ staker.deactivated = 0

IsCheater(staker) == staker.status % 2 = ForkBit

IsOffline(staker) == staker.status >= OfflineBit

\* The fields of the answer, the metrics still to be added.
RPCMarshalStaker(staker) ==
  [stake |-> staker.stake, total |-> CalcTotalStake(staker), validator |-> staker.validator,
   active |-> StakerOk(staker), cheater |-> IsCheater(staker), offline |-> IsOffline(staker),
   scored |-> FALSE, claimed |-> 0, claimedOf |-> 0]

NextStaker(pc) == IF Tail(rpc.todo) = <<>> THEN "done" ELSE pc

extendStaker ==
  /\ Reading("extend")
  /\ IF rpc.todo = <<>> THEN rpc' = [rpc EXCEPT !.pc = "done"]
     ELSE \E v \in {Head(rpc.todo)} :
       rpc' = [rpc EXCEPT
         !.out = (v :> RPCMarshalStaker(Extended(rpc.st, v, rpc.rows[v],
                         GetSfcDelegation(ix, <<rpc.rows[v].address, v>>)))) @@ @,
         !.todo = IF Tail(@) = <<>> /\ rpc.verbosity = 2
                  THEN SetToSortSeq(DOMAIN rpc.rows, <) ELSE Tail(@),
         !.pc = IF Tail(rpc.todo) # <<>> THEN "extend"
                ELSE IF rpc.verbosity = 2 THEN "score" ELSE "done"]

\* GetStakerPoI to GetOriginatedFee: nil unless es has the validator.
Scored(st, v) == v \in st.validators

addStakerScores ==
  /\ Reading("score")
  /\ rpc' = [rpc EXCEPT !.pc = "claimed",
                        !.out[Head(rpc.todo)].scored = Scored(state, Head(rpc.todo))]

addStakerClaims ==
  /\ Reading("claimed")
  /\ \E v \in {Head(rpc.todo)} :
       rpc' = [rpc EXCEPT !.pc = NextStaker("score"), !.todo = Tail(@),
                 !.out[v].claimed = ix.claimed[<<ix.stakers[v].address, v>>],
                 !.out[v].claimedOf = GetStakerDelegationsClaimedRewards(ix, v)]

\* GetDelegation, GetDelegationsOf, GetDelegationsByAddress.
Asked(id) ==
  rpc.arg = CASE rpc.call = "delegation"    -> id
              [] rpc.call = "delegationsBy" -> id[1]
              [] rpc.call = "delegationsOf" -> id[2]

\* the limit is looked at after the row was added
GetSfcDelegationsByAddrOneMore(ids) ==
  {id \in ids : Cardinality({other \in ids : other[2] < id[2]}) <= Limit}

\* The first rows of an address: its keys are in the order of the validator IDs.
GetSfcDelegationsByAddr(ids) ==
  {id \in ids : Cardinality({other \in ids : other[2] < id[2]}) < Limit}

Rows(ids) == IF rpc.call = "delegationsBy" THEN GetSfcDelegationsByAddr(ids) ELSE ids

GetDelegations ==
  /\ Reading("delegations")
  /\ \E ids \in {Rows({id \in DOMAIN ix.delegations : Asked(id)})} :
       rpc' = [rpc EXCEPT
         !.out = [id \in ids |-> [amount |-> ix.delegations[id], claimed |-> 0]],
         !.pc = IF rpc.verbosity = 2 /\ ids # {} THEN "metrics" ELSE "done",
         !.todo = IF rpc.verbosity = 2 THEN SetToSeq(ids) ELSE <<>>]

addDelegationMetricFields ==
  /\ Reading("metrics")
  /\ rpc' = [rpc EXCEPT !.pc = NextStaker("metrics"), !.todo = Tail(@),
                        !.out[Head(rpc.todo)].claimed = ix.claimed[Head(rpc.todo)]]

-----------------------------------------------------------------------------
\* NewStore, at the start of the genesis block.
SfcInit ==
  /\ ix = [stakers |-> <<>>, delegations |-> <<>>, claimed |-> [id \in IDs |-> 0],
           claimedOf |-> [v \in Validators |-> 0]]
  /\ \E a \in {CHOOSE b \in Addresses : TRUE}, v \in {Min(Validators)} :
       /\ contract = [owner |-> [u \in Validators |-> IF u = v THEN a ELSE NoOne],
                      stake |-> [id \in IDs |-> IF id = <<a, v>> THEN Amount ELSE 0],
                      reward |-> [id \in IDs |-> IF id = <<a, v>> THEN 1
                                                 ELSE IF id[2] = v THEN 2 ELSE 0],
                      status |-> [u \in Validators |-> OK],
                      deactivated |-> [u \in Validators |-> 0]]
       /\ logs = <<Log("CreatedValidator", a, v, 0), Log("Delegated", a, v, Amount),
                   Log("Weight", NoOne, v, Amount)>>
       /\ legacy = <<Log("ClaimedValidatorReward", NoOne, v, 1)>>
                   \o SetToSeq({Log("ClaimedDelegationReward", b, v, 2) : b \in Addresses \ {a}})
  /\ next = <<>>
  /\ state = [profiles |-> <<>>, validators |-> {}, epoch |-> 1]
  /\ inBlock = TRUE
  /\ ops = 0
  /\ rpc = Idle

SfcNext ==
  \/ CreateValidator \/ Delegate \/ Undelegate \/ ClaimOrRestake \/ Deactivate
  \/ BeginBlock \/ HandleLog \/ SealEpoch \/ EndBlock \/ ApplyGenesis
  \/ Request \/ GetStakerID \/ GetSfcStaker \/ GetState \/ IterateStakers
  \/ extendStaker \/ addStakerScores \/ addStakerClaims
  \/ GetDelegations \/ addDelegationMetricFields

-----------------------------------------------------------------------------
\* The index is the replay of the contract: once the logs of an operation
\* have been handed out, a delegation has a row exactly when the contract
\* holds stake for it, with that amount; a staker has its address, status and
\* deactivation; and what the delegations of a staker have claimed adds up to
\* the staker's own total, claims made before genesis included (sfcapi
\* OnNewLog, ApplyGenesis).
IndexIsReplay ==
  logs = <<>> /\ legacy = <<>> =>
    /\ ix.delegations = Restrict(contract.stake, {id \in IDs : contract.stake[id] > 0})
    /\ DOMAIN ix.stakers = Created(contract)
    /\ \A v \in Created(contract) :
         /\ ix.stakers[v].address = contract.owner[v]
         /\ ix.stakers[v].status = contract.status[v]
         /\ ix.stakers[v].deactivated = contract.deactivated[v]
         /\ ix.claimedOf[v] = SumFunctionOnSet(ix.claimed, {id \in IDs : id[2] = v})
    /\ ix.claimed = contract.reward

\* The true answer about staker v.
TrueOf(v, o) ==
  /\ o.stake = contract.stake[<<contract.owner[v], v>>]
  /\ o.total = (IF contract.status[v] = OK THEN StakeOf(contract, v) ELSE o.stake)
  /\ o.validator = (v \in state.validators)
  /\ o.cheater = (contract.status[v] = Doublesign)
  /\ o.offline = (contract.status[v] = Offline)
  /\ o.active => contract.status[v] = OK
  /\ rpc.verbosity = 2 => /\ o.scored = o.validator
                          /\ o.claimed = contract.reward[<<contract.owner[v], v>>]
                          /\ o.claimedOf = SumFunctionOnSet(contract.reward, {id \in IDs : id[2] = v})

\* A request during which no block was executing is answered with what the
\* contract and the epoch say: the self-delegation and what others delegated
\* add up to the validator's weight, and its flags and metrics agree with
\* each other, although they come from separate reads (GetStaker, GetStakers,
\* addStakerMetricFields).  The delegations are all that the contract holds; of an
\* address with more than Limit of them, those to the Limit first validators.
QuietAnswersAreTrue ==
  rpc.pc = "done" /\ rpc.quiet =>
    IF rpc.call \in {"delegation", "delegationsOf", "delegationsBy"}
    THEN /\ \E held \in {{id \in IDs : contract.stake[id] > 0 /\ Asked(id)}} :
              /\ DOMAIN rpc.out \subseteq held
              /\ Cardinality(DOMAIN rpc.out) =
                   IF rpc.call = "delegationsBy" THEN Min({Limit, Cardinality(held)})
                   ELSE Cardinality(held)
              /\ \A id \in DOMAIN rpc.out, more \in held \ DOMAIN rpc.out : id[2] < more[2]
         /\ \A id \in DOMAIN rpc.out :
              /\ rpc.out[id].amount = contract.stake[id]
              /\ rpc.verbosity = 2 => rpc.out[id].claimed = contract.reward[id]
    ELSE /\ \A v \in DOMAIN rpc.out : TrueOf(v, rpc.out[v])
         /\ rpc.call = "stakers" => DOMAIN rpc.out = Created(contract)
         /\ rpc.call = "staker" => (DOMAIN rpc.out = {}) = (rpc.arg \notin Created(contract))
=============================================================================
