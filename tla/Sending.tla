------------------------------ MODULE Sending -------------------------------
(***************************************************************************)
(* Sending transactions through the node's accounts (ethapi/api.go,        *)
(* ethapi/addrlock.go): eth_sendTransaction, personal_sendTransaction,     *)
(* eth_sendRawTransaction, eth_resend and the methods that only sign.      *)
(* Requests run concurrently; each read of the pool, each use of the       *)
(* keystore and each submission is a step of its own.  A request that does *)
(* not name a nonce holds the lock of its address from before it reads the *)
(* pool's nonce until it returns.                                          *)
(*                                                                         *)
(* The pool is seen through Nonce and AddLocal: AddLocal returns once the  *)
(* transaction has been promoted (it is synchronous), so the next Nonce    *)
(* counts it.  A new block resets the pool, which then drops what the      *)
(* account can no longer pay; balances and values are left open, so that   *)
(* this may be any of its transactions.  The keystore is external.         *)
(***************************************************************************)
EXTENDS Integers, FiniteSets, TLC

CONSTANTS Accounts,     \* the accounts of the keystore
          Requests,     \* the concurrent requests
          FeeCap,       \* b.RPCTxFeeCap, 0 for none
          Gas,          \* what gas estimation answers
          HighPrice,    \* a gas price above the suggested one, which is 1
          MaxNonce      \* bound on the nonces of the chain

VARIABLES req,          \* the requests: where they are, arguments, transaction
          nonceLock,    \* the holder of the lock of each address
          unlocked,     \* the accounts the keystore can sign for by itself
          pool,         \* the pending and queued transactions, by account and nonce
          chain,        \* the nonce of each account in the last block
          sent          \* what the API submitted successfully, and if the pool dropped
                        \* what it held for that nonce since

sendvars == <<req, nonceLock, unlocked, pool, chain, sent>>

Nil == -1
Free == 0

-----------------------------------------------------------------------------
(* The pool, as the API sees it.                                           *)

\* TxPool.Nonce: the executable transactions applied on top of the chain.  What
\* follows a gap waits in the queue.
PoolNonce(a) ==
  CHOOSE n \in chain[a]..(chain[a] + Cardinality(DOMAIN pool[a])) :
    /\ n \notin DOMAIN pool[a]
    /\ \A k \in chain[a]..(n - 1) : k \in DOMAIN pool[a]

\* TxPool.AddLocal, through EthAPIBackend.SendTx: the account must be able to pay
\* (funded), and a transaction for a nonce that is taken must pay more (the price
\* bump).
Accepts(a, tx, funded) ==
  /\ tx.nonce >= chain[a] /\ funded
  /\ tx.nonce \in DOMAIN pool[a] => tx.price > pool[a][tx.nonce].price

checkTxFee(price, gas) == FeeCap = 0 \/ price * gas <= FeeCap

-----------------------------------------------------------------------------
(* What clients ask for.                                                   *)

Args(kind, nonce, price, gas, good) ==
  [kind |-> kind, nonce |-> nonce, price |-> price, gas |-> gas, good |-> good,
   newPrice |-> Nil, newGas |-> Nil]

\* good: the account is known and the data is well formed for the methods of
\* the node's accounts; the passphrase is right; a raw transaction is
\* replay-protected.
AllArgs ==
  {Args("public", n, Nil, Nil, TRUE) : n \in {Nil, 0}}
  \cup {Args("public", Nil, Nil, Nil, FALSE), Args("private", Nil, 2, Gas, TRUE),
        Args("private", Nil, Nil, Gas, FALSE)}
  \cup {Args("raw", 0, 2, Gas, TRUE), Args("raw", 1, HighPrice, Gas, TRUE),
        Args("raw", 1, 1, Gas, FALSE), Args("raw", 1, 1, Gas, TRUE)}
  \cup {Args("sign", 0, 1, Gas, TRUE), Args("sign", Nil, 1, Gas, TRUE),
        Args("fill", Nil, 1, Gas, TRUE)}
  \cup {[Args("resend", 0, 1, Gas, TRUE) EXCEPT !.newPrice = x[1], !.newGas = x[2]] :
          x \in {<<HighPrice, Nil>>, <<HighPrice, 0>>, <<2, 1>>}}
  \cup {Args("resend", Nil, 1, Gas, TRUE)}

-----------------------------------------------------------------------------
NoRequest == [pc |-> "new", from |-> Nil, args |-> Nil, tx |-> Nil]

Served == [NoRequest EXCEPT !.pc = "done"]

Goto(r, pc) == req' = [req EXCEPT ![r].pc = pc]

\* The request returns; the deferred unlock runs first if the lock is held.
Return(r) == Goto(r, "return")

\* The requests are alike, so they may be numbered as they arrive.
Start(r) == \E a \in Accounts, args \in AllArgs :
  /\ req[r].pc = "new"
  /\ \A q \in Requests : q < r => req[q].pc # "new"
  /\ req' = [req EXCEPT ![r] =
       [pc |-> CASE args.kind = "raw" -> "submit"
                 [] args.kind = "private" -> IF args.nonce = Nil THEN "lock" ELSE "defaults"
                 [] args.kind = "public" ->
                      IF ~args.good THEN "return"       \* no wallet has the account
                      ELSE IF args.nonce = Nil THEN "lock" ELSE "defaults"
                 [] args.kind = "resend" -> IF args.nonce = Nil THEN "return" ELSE "defaults"
                 [] args.kind = "sign" ->
                      IF Nil \in {args.nonce, args.gas} THEN "return" ELSE "defaults"
                 [] OTHER -> "defaults",
        from |-> a, args |-> args, tx |-> args]]
  /\ UNCHANGED <<nonceLock, unlocked, pool, chain, sent>>


LockAddr(r) ==
  /\ req[r].pc = "lock"
  /\ nonceLock[req[r].from] = Free
  /\ nonceLock' = [nonceLock EXCEPT ![req[r].from] = r]
  /\ Goto(r, "defaults")
  /\ UNCHANGED <<unlocked, pool, chain, sent>>

\* setDefaults up to the nonce.  personal_sendTransaction looks its wallet up
\* first, here, under the lock.
setNonce(r) ==
  /\ req[r].pc = "defaults"
  /\ req' = [req EXCEPT ![r].pc = "gas",
               ![r].tx.price = IF @ = Nil THEN 1 ELSE @,
               ![r].tx.nonce = IF @ = Nil THEN PoolNonce(req[r].from) ELSE @]
  /\ UNCHANGED <<nonceLock, unlocked, pool, chain, sent>>

\* The rest of setDefaults: malformed data or a call that fails end the
\* request, otherwise the estimated gas is taken.
setGas(r) ==
  /\ req[r].pc = "gas"
  /\ \E estimated \in BOOLEAN :
       IF req[r].tx.gas = Nil /\ ~estimated THEN Return(r)
       ELSE req' = [req EXCEPT ![r].pc =
                      CASE req[r].args.kind \in {"public", "private"} -> "sign"
                        [] req[r].args.kind = "resend" -> "match"
                        [] req[r].args.kind = "sign" -> "fee"
                        [] OTHER -> "return",
                    ![r].tx.gas = IF @ = Nil THEN Gas ELSE @]
  /\ UNCHANGED <<nonceLock, unlocked, pool, chain, sent>>

\* eth_signTransaction checks the fee before it signs.
checkFee(r) ==
  /\ req[r].pc = "fee"
  /\ IF checkTxFee(req[r].tx.price, req[r].tx.gas) THEN Goto(r, "sign") ELSE Return(r)
  /\ UNCHANGED <<nonceLock, unlocked, pool, chain, sent>>

CanSign(r) ==
  IF req[r].args.kind = "private" THEN req[r].args.good ELSE req[r].from \in unlocked

\* Wallet.SignTx, SignTxWithPassphrase.
sign(r) ==
  /\ req[r].pc = "sign"
  /\ CASE ~CanSign(r) -> Return(r)
       [] CanSign(r) /\ req[r].args.kind = "sign" -> Return(r)
       [] CanSign(r) /\ req[r].args.kind = "resend" -> Goto(r, "resubmit")
       [] OTHER -> Goto(r, "submit")
  /\ UNCHANGED <<nonceLock, unlocked, pool, chain, sent>>

toTransaction(r) ==
  [nonce |-> req[r].tx.nonce, price |-> req[r].tx.price, gas |-> req[r].tx.gas]

\* AddLocal of the request's transaction, and the request's result.
SendTx(r) ==
  LET a == req[r].from
      tx == toTransaction(r)
  IN  \E funded \in BOOLEAN :
      IF Accepts(a, tx, funded)
      THEN /\ pool' = [pool EXCEPT ![a] = (tx.nonce :> tx) @@ @]
           /\ sent' = sent \cup {[request |-> r, from |-> a, tx |-> tx,
                                  auto |-> req[r].args.nonce = Nil, dropped |-> FALSE]}
           /\ Return(r)
      ELSE Return(r) /\ UNCHANGED <<pool, sent>>

SubmitTransaction(r) ==
  /\ req[r].pc = "submit"
  /\ IF /\ checkTxFee(req[r].tx.price, req[r].tx.gas)
        /\ req[r].args.kind = "raw" => req[r].args.good
     THEN SendTx(r)
     ELSE Return(r) /\ UNCHANGED <<pool, sent>>
  /\ UNCHANGED <<nonceLock, unlocked, chain>>

\* Resend checks the fee of the new price and limit as they are given, then
\* looks for the old transaction; a new price or limit of zero is not used.
Resend(r) ==
  LET args == req[r].args
      old  == toTransaction(r)
  IN  /\ req[r].pc = "match"
      /\ IF /\ checkTxFee(IF args.newPrice # Nil THEN args.newPrice ELSE old.price,
                          IF args.newGas # Nil THEN args.newGas ELSE old.gas)
            /\ old.nonce \in DOMAIN pool[req[r].from]
            /\ pool[req[r].from][old.nonce] = old
         THEN req' = [req EXCEPT ![r].pc = "sign",
                        ![r].tx.price = IF args.newPrice > 0 THEN args.newPrice ELSE @,
                        ![r].tx.gas = IF args.newGas > 0 THEN args.newGas ELSE @]
         ELSE Return(r)
      /\ UNCHANGED <<nonceLock, unlocked, pool, chain, sent>>

Resubmit(r) ==
  /\ req[r].pc = "resubmit"
  /\ SendTx(r)
  /\ UNCHANGED <<nonceLock, unlocked, chain>>

UnlockAddr(r) ==
  /\ req[r].pc = "return"
  /\ nonceLock' = [a \in Accounts |-> IF nonceLock[a] = r THEN Free ELSE nonceLock[a]]
  /\ req' = [req EXCEPT ![r] = Served]
  /\ UNCHANGED <<unlocked, pool, chain, sent>>

-----------------------------------------------------------------------------
\* personal_unlockAccount, and its end: personal_lockAccount or the timer.
UnlockAccount(a) ==
  /\ a \notin unlocked
  /\ unlocked' = unlocked \cup {a}
  /\ UNCHANGED <<req, nonceLock, pool, chain, sent>>

LockAccount(a) ==
  /\ a \in unlocked
  /\ unlocked' = unlocked \ {a}
  /\ UNCHANGED <<req, nonceLock, pool, chain, sent>>

\* A block may have executed a transaction of the account, the pool's or another
\* one for its nonce.  TxPool.runReorg: reset takes the nonces of the new state,
\* and demoteUnexecutables (promoteExecutables, in the queue) drops the old
\* transactions and those that cost more than the account holds; local accounts
\* are no exception.
runReorg(a, nonce, drops) ==
  /\ chain' = [chain EXCEPT ![a] = nonce]
  /\ pool' = [pool EXCEPT ![a] = [n \in {k \in DOMAIN @ : k >= nonce} \ drops |-> @[n]]]
  /\ sent' = {IF x.from = a /\ x.tx.nonce \in drops THEN [x EXCEPT !.dropped = TRUE] ELSE x :
                x \in sent}
  /\ UNCHANGED <<req, nonceLock, unlocked>>

NewBlock(a) ==
  \E nonce \in {chain[a], chain[a] + 1} \cap 0..MaxNonce :
  \E drops \in SUBSET {k \in DOMAIN pool[a] : k >= nonce} : runReorg(a, nonce, drops)

SendInit ==
  /\ req = [r \in Requests |-> NoRequest]
  /\ nonceLock = [a \in Accounts |-> Free]
  /\ unlocked = {}
  /\ pool = [a \in Accounts |-> <<>>]
  /\ chain = [a \in Accounts |-> 0]
  /\ sent = {}

SendNext ==
  \/ \E r \in Requests :
       \/ Start(r) \/ LockAddr(r) \/ setNonce(r) \/ setGas(r) \/ checkFee(r) \/ sign(r)
       \/ SubmitTransaction(r) \/ Resend(r) \/ Resubmit(r) \/ UnlockAddr(r)
  \/ \E a \in Accounts : UnlockAccount(a) \/ LockAccount(a) \/ NewBlock(a)

-----------------------------------------------------------------------------

\* Nothing the API submits costs more than the configured cap: "Before
\* replacing the old transaction, ensure the _new_ transaction fee is
\* reasonable" (Resend), "ensure the fee of the given transaction is
\* _reasonable_" (SubmitTransaction).
FeeIsReasonable == \A x \in sent : checkTxFee(x.tx.price, x.tx.gas)
=============================================================================
