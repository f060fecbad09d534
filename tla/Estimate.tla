------------------------------ MODULE Estimate ------------------------------
(***************************************************************************)
(* eth_estimateGas and eth_createAccessList (ethapi/api.go): the binary    *)
(* search for a gas limit with which a call succeeds, and the loop that    *)
(* grows an access list until it no longer changes.  Every probe of the    *)
(* search is a call on the latest state, so a block may change what        *)
(* succeeds between two probes.                                            *)
(*                                                                         *)
(* The EVM is external: a state is the set of gas limits with which the    *)
(* call succeeds, which need not be closed upwards (a contract may look at *)
(* the gas it is given), the intrinsic gas and the sender's balance.       *)
(***************************************************************************)
EXTENDS Integers, FiniteSets, FiniteSetsExt

CONSTANTS TxGas,        \* params.TxGas
          MaxGasLimit,  \* b.MaxGasLimit
          Slots         \* the addresses and keys a call may touch

VARIABLES call,         \* the arguments: gas, price and value (Nil when absent), gasCap
          world,        \* what the latest state does with the call
          blocks,       \* blocks processed during the request
          search,       \* lo, hi, cap and where the search is
          probes,       \* the calls made: gas limit and outcome
          acl           \* the access list loop

estvars == <<call, world, blocks, search, probes, acl>>

Nil == -1

Monotone(w) == \A g \in w.ok : g + 1 \in w.ok \/ g = MaxGasLimit

Worlds ==
  [ok : {k..MaxGasLimit : k \in TxGas..(MaxGasLimit + 1)}
         \cup {{TxGas + 1, MaxGasLimit}, {TxGas, TxGas + 3}, {TxGas + 2}},
   balance : {TxGas + 2, 2 * MaxGasLimit + 1}]

Calls ==
  [gas : {Nil, TxGas - 1, MaxGasLimit - 2}, price : {Nil, 1, 2}, value : {Nil, 1},
   gasCap : {0, MaxGasLimit - 1}]

OrZero(x) == IF x = Nil THEN 0 ELSE x

-----------------------------------------------------------------------------
(* One call.                                                               *)

\* CallArgs.ToMessage: the gas limit the call really gets.
MessageGas(gas, gasCap) == IF gasCap # 0 /\ gasCap < gas THEN gasCap ELSE gas

\* DoCall: "error" for a message that can not be applied, "intrinsic" for one
\* that does not pay for itself, "failed" for one that runs and fails.
DoCall(w, c, gas) ==
  LET limit == MessageGas(gas, c.gasCap)
  IN  CASE limit * OrZero(c.price) + OrZero(c.value) > w.balance -> "error"
        [] limit < TxGas   -> "intrinsic"
        [] limit \in w.ok  -> "ok"
        [] OTHER           -> "failed"

-----------------------------------------------------------------------------
(* DoEstimateGas.                                                          *)

Requested(c) == IF c.gas # Nil /\ c.gas >= TxGas THEN c.gas ELSE MaxGasLimit

Allowance(w, c) == (w.balance - OrZero(c.value)) \div c.price

Affordable(w, c, hi) ==
  IF OrZero(c.price) # 0 /\ hi > Allowance(w, c) THEN Allowance(w, c) ELSE hi

Capped(c, hi) == IF c.gasCap # 0 /\ hi > c.gasCap THEN c.gasCap ELSE hi

\* The highest gas limit: what the caller names, can pay for, may use.
DoEstimateGas ==
  /\ search.pc = "start"
  /\ IF OrZero(call.price) # 0 /\ call.value # Nil /\ call.value >= world.balance
     THEN search' = [search EXCEPT !.pc = "error"]
     ELSE \E hi \in {Capped(call, Affordable(world, call, Requested(call)))} :
            search' = [search EXCEPT !.pc = "search", !.lo = TxGas - 1, !.hi = hi, !.cap = hi]
  /\ UNCHANGED <<call, world, blocks, probes, acl>>

Probe(gas) == probes' = probes \cup {<<gas, DoCall(world, call, gas)>>}

Mid == (search.hi + search.lo) \div 2

SearchSkipsMid ==
  /\ search.pc = "search" /\ search.lo + 1 < search.hi
  /\ Probe(Mid)
  /\ search' = CASE DoCall(world, call, Mid) = "error" -> [search EXCEPT !.pc = "error"]
                 [] DoCall(world, call, Mid) = "ok" -> [search EXCEPT !.hi = Mid - 1]
                 [] OTHER -> [search EXCEPT !.lo = Mid]
  /\ UNCHANGED <<call, world, blocks, acl>>

Search ==
  /\ search.pc = "search" /\ search.lo + 1 < search.hi
  /\ Probe(Mid)
  /\ search' = CASE DoCall(world, call, Mid) = "error" -> [search EXCEPT !.pc = "error"]
                 [] DoCall(world, call, Mid) = "ok" -> [search EXCEPT !.hi = Mid]
                 [] OTHER -> [search EXCEPT !.lo = Mid]
  /\ UNCHANGED <<call, world, blocks, acl>>

\* Only the highest limit has not been tried by the search itself.
Finish ==
  /\ search.pc = "search" /\ search.lo + 1 >= search.hi
  /\ IF search.hi = search.cap
     THEN /\ Probe(search.hi)
          /\ search' = [search EXCEPT !.pc =
               IF DoCall(world, call, search.hi) = "ok" THEN "done" ELSE "error"]
     ELSE search' = [search EXCEPT !.pc = "done"] /\ UNCHANGED probes
  /\ UNCHANGED <<call, world, blocks, acl>>

NewBlock ==
  /\ search.pc = "search" /\ blocks = 0
  /\ blocks' = 1
  /\ world' \in Worlds
  /\ UNCHANGED <<call, search, probes, acl>>

-----------------------------------------------------------------------------
(* AccessList.                                                             *)

TracedAnew(list, touched) == touched

\* vm.AccessListTracer: starts from the list it is given and adds what the
\* run touches (the sender, the recipient and precompiles never).
Traced(list, touched) == list \cup touched

\* The request has an estimate, or failed.  The caller may bring a list.
StartAccessList ==
  /\ acl.pc = "start" /\ search.pc = "done" /\ blocks = 0
  /\ \E given \in SUBSET Slots : acl' = [pc |-> "run", prev |-> given, rounds |-> 0, touched |-> {}]
  /\ UNCHANGED <<call, world, blocks, search, probes>>

\* One round: the list so far, a run with its own gas estimate on a copy of
\* the state, and the comparison.  What the run touches depends on the list
\* and the gas; a message that does not apply ends the request.
AccessList ==
  /\ acl.pc = "run"
  /\ \E touched \in SUBSET Slots :
       acl' = IF Traced(acl.prev, touched) = acl.prev
              THEN [acl EXCEPT !.pc = "done", !.rounds = @ + 1, !.touched = touched]
              ELSE [acl EXCEPT !.prev = Traced(acl.prev, touched), !.rounds = @ + 1]
  /\ UNCHANGED <<call, world, blocks, search, probes>>

AccessListFails ==
  /\ acl.pc = "run"
  /\ acl' = [acl EXCEPT !.pc = "error"]
  /\ UNCHANGED <<call, world, blocks, search, probes>>

-----------------------------------------------------------------------------
EstInit ==
  /\ call \in Calls
  /\ world \in Worlds
  /\ blocks = 0
  /\ search = [pc |-> "start", lo |-> 0, hi |-> 0, cap |-> 0]
  /\ probes = {}
  /\ acl = [pc |-> "start", prev |-> {}, rounds |-> 0, touched |-> {}]

EstNext ==
  \/ DoEstimateGas \/ Search \/ Finish \/ NewBlock
  \/ StartAccessList \/ AccessList \/ AccessListFails

-----------------------------------------------------------------------------
\* The limits the request may use in state w.
Allowed(w) == TxGas..Capped(call, Affordable(w, call, Requested(call)))

\* An estimate is a limit with which a probe of this request succeeded, never
\* above the node's cap, and a probe just below it failed unless it is the
\* least possible.  When no block came in between and more gas never hurts,
\* it is the least limit that works, and the request fails only when none of
\* the allowed limits works (DoEstimateGas).
EstimateIsTight ==
  /\ search.pc = "done" =>
       /\ <<search.hi, "ok">> \in probes
       /\ call.gasCap # 0 => search.hi <= call.gasCap
       /\ search.hi > TxGas => \E p \in probes : p[1] = search.hi - 1 /\ p[2] # "ok"
  /\ search.pc \in {"done", "error"} /\ blocks = 0 /\ Monotone(world) =>
       IF search.pc = "done"
       THEN search.hi = Min(world.ok \cap Allowed(world))
       ELSE world.ok \cap Allowed(world) = {} \/ OrZero(call.value) >= world.balance

\* The loop over access lists ends: the list grows in every round but the
\* last, whatever the runs touch, and the answer covers what its own run
\* touched (AccessList).
AccessListConverges ==
  /\ acl.rounds <= Cardinality(Slots) + 1
  /\ acl.pc = "done" => acl.touched \subseteq acl.prev
=============================================================================
