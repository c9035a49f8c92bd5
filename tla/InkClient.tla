------------------------------ MODULE InkClient ------------------------------
(***************************************************************************)
(* The client of the ink! contracts.  SubmitExtrinsic sends a transaction  *)
(* and waits, under the client's lock, until it is in a block;             *)
(* GetStorageFromChain and GetSyncStatus read without the lock.  All of    *)
(* them begin with IsChainClientOk, which replaces a connection that does  *)
(* not answer: it sets api to nil and connects again.                      *)
(*                                                                         *)
(* Health checks, SubmitExtrinsic and GetStorageFromChain recover from     *)
(* panics.  A panic, such as the use of the nil api, ends the function     *)
(* with the zero values of its results, which say success.                 *)
(***************************************************************************)
EXTENDS Integers, FiniteSets

CONSTANTS
    Calls,     \* goroutines that call the client
    MaxNonce   \* bound: transactions of the account

ASSUME InkAssumption == IsFiniteSet(Calls) /\ MaxNonce \in Nat

VARIABLES
    up,          \* the chain's RPC answers
    api,         \* "nil" or "live"
    chainState,  \* what SetChainState was last given
    lock,        \* the calls that hold the lock
    call,        \* where each call is, its nonce and its result
    nonce,       \* the account's nonce in the chain's state
    pool,        \* the account's transactions in the chain's pool, by nonce
    refused,     \* a reconnection has failed (not in the code)
    lone         \* calls that no other one overlapped (not in the code)

connVars == <<up, api, chainState, refused>>
chainVars == <<nonce, pool>>
vars == <<connVars, lock, call, chainVars, lone>>

Idle == [op |-> "none", at |-> "idle", nonce |-> 0, result |-> "none"]

Init ==
    /\ up = TRUE /\ api = "live" /\ chainState = TRUE
    /\ lock = {}
    /\ call = [c \in Calls |-> Idle]
    /\ nonce = 1 /\ pool = {}
    /\ refused = FALSE
    /\ lone = Calls

\* A panic that nothing recovers ends the program.
Alive == \A c \in Calls : call[c].result # "crash"

Ready(c, op, at) == Alive /\ call[c].op \in op /\ call[c].at = at

GoesTo(c, at) == call' = [call EXCEPT ![c].at = at] /\ UNCHANGED <<lock, lone>>

\* Mutant: an error return does not release the lock.
ReturnsHolding(c, result) ==
    /\ call' = [call EXCEPT ![c].at = "done", ![c].result = result]
    /\ lock' = IF result = "err" THEN lock ELSE lock \ {c}
    /\ UNCHANGED lone

\* Every return releases the lock, a recovered panic included.
Returns(c, result) ==
    /\ call' = [call EXCEPT ![c].at = "done", ![c].result = result]
    /\ lock' = lock \ {c}
    /\ UNCHANGED lone

-----------------------------------------------------------------------------
(* The connection and the chain *)

\* The chain's node goes away or comes back.
Fault ==
    /\ up' = ~up
    /\ UNCHANGED <<api, chainState, refused, lock, call, chainVars, lone>>

\* The next transaction of the account is put into a block.
Mine ==
    /\ nonce \in pool
    /\ nonce' = nonce + 1
    /\ pool' = pool \ {nonce}
    /\ UNCHANGED <<connVars, lock, call, lone>>

-----------------------------------------------------------------------------
(* IsChainClientOk.  A nil api makes the health check panic, which it      *)
(* recovers from with a nil error: nil counts as healthy.                  *)

Begin(c, op) ==
    /\ Alive
    /\ call[c].at \in {"idle", "done"}
    /\ call' = [call EXCEPT ![c] = [Idle EXCEPT !.op = op,
                                    !.at = IF op = "submit" THEN "lock" ELSE "health"]]
    /\ LET others == {d \in Calls \ {c} : call[d].at \notin {"idle", "done"}}
       IN lone' = IF others = {} THEN lone \cup {c} ELSE lone \ (others \cup {c})
    /\ UNCHANGED <<connVars, lock, chainVars>>

Lock(c) ==
    /\ Ready(c, {"submit"}, "lock")
    /\ lock = {}
    /\ lock' = {c}
    /\ call' = [call EXCEPT ![c].at = "health"]
    /\ UNCHANGED <<connVars, chainVars, lone>>

Ops == {"submit", "storage", "sync"}

\* After the check: GetStorageFromChain's, inside SubmitExtrinsic too, at
\* "account"; SubmitExtrinsic's own at "health".
After(c, at) == IF at = "again" THEN "account"
                ELSE IF call[c].op = "submit" THEN "again" ELSE "read"

Connected(c, at) ==
    /\ chainState' = (call[c].op # "sync" \/ chainState)
    /\ GoesTo(c, After(c, at))

Healthy(c, at) ==
    /\ Ready(c, Ops, at)
    /\ api = "nil" \/ up
    /\ Connected(c, at)
    /\ UNCHANGED <<up, api, refused, chainVars>>

\* The connection may be lost while the chain is up.
Unhealthy(c, at) ==
    /\ Ready(c, Ops, at)
    /\ api = "live"
    /\ api' = "nil"
    /\ GoesTo(c, IF at = "health" THEN "reconnect" ELSE "reconnect again")
    /\ UNCHANGED <<up, chainState, refused, chainVars>>

\* Mutant: the new connection goes to a variable of the inner scope.
ReconnectShadowed(c, at, health) ==
    /\ Ready(c, Ops, at)
    /\ up
    /\ Connected(c, health)
    /\ UNCHANGED <<up, api, refused, chainVars>>

Reconnect(c, at, health) ==
    /\ Ready(c, Ops, at)
    /\ \/ /\ up
          /\ api' = "live"
          /\ Connected(c, health)
          /\ UNCHANGED refused
       \/ /\ chainState' = (call[c].op = "sync" /\ chainState)
          /\ refused' = TRUE
          /\ Returns(c, "err")
          /\ UNCHANGED api
    /\ UNCHANGED <<up, chainVars>>

-----------------------------------------------------------------------------
(* Reading *)

Usable == api = "live" /\ up

\* GetStorageFromChain returns; the nil api makes it panic and say success.
\* GetSyncStatus does not recover from the panic.
Read(c) ==
    /\ Ready(c, {"storage", "sync"}, "read")
    /\ IF api = "nil"
       THEN Returns(c, IF call[c].op = "storage" THEN "silent" ELSE "crash")
       ELSE \E r \in IF Usable THEN {"ok", "err"} ELSE {"err"} : Returns(c, r)
    /\ UNCHANGED <<connVars, chainVars>>

\* GetAccountInfo in SubmitExtrinsic.  The panic leaves the nonce at 0.
Account(c) ==
    /\ Ready(c, {"submit"}, "account")
    /\ \/ /\ api # "nil"
          /\ Returns(c, "err")
       \/ /\ Usable \/ api = "nil"
          /\ call' = [call EXCEPT ![c].at = "send",
                                  ![c].nonce = IF Usable THEN nonce ELSE 0]
          /\ UNCHANGED <<lock, lone>>
    /\ UNCHANGED <<connVars, chainVars>>

-----------------------------------------------------------------------------
(* SubmitExtrinsic from the first attempt to send *)

Accepted(c, n) ==
    /\ n \in nonce .. MaxNonce
    /\ n \notin pool
    /\ pool' = pool \cup {n}
    /\ call' = [call EXCEPT ![c].at = "wait", ![c].nonce = n]
    /\ UNCHANGED <<nonce, lock, lone>>

\* "Priority is too low": the pool has a transaction with this nonce.
Send(c) ==
    /\ Ready(c, {"submit"}, "send")
    /\ \/ Usable /\ Accepted(c, call[c].nonce)
       \/ Usable /\ call[c].nonce \in pool /\ GoesTo(c, "retry") /\ UNCHANGED chainVars
    /\ UNCHANGED connVars

SendFails(c) ==
    /\ Ready(c, {"submit"}, "send")
    /\ call[c].nonce \notin pool \/ ~Usable
    /\ Returns(c, IF api = "nil" THEN "silent" ELSE "err")
    /\ UNCHANGED <<connVars, chainVars>>

\* Mutant: every attempt takes one more.
RetryNoncesAll(c) == call[c].nonce + 1 .. MaxNonce

\* All twenty attempts sign with the nonce after the one that was read.
RetryNonces(c) == {call[c].nonce + 1}

Retry(c) ==
    /\ Ready(c, {"submit"}, "retry")
    /\ \/ /\ Usable
          /\ \E n \in RetryNonces(c) : Accepted(c, n)
       \/ /\ Returns(c, IF api = "nil" THEN "silent" ELSE "err")
          /\ UNCHANGED chainVars
    /\ UNCHANGED connVars

\* Mutant: any status ends the wait.
InBlockAny(c) == TRUE

\* status.IsInBlock
InBlock(c) == call[c].nonce < nonce

\* The status is followed until the transaction is in a block, the
\* subscription fails, or the time is up.
Wait(c) ==
    /\ Ready(c, {"submit"}, "wait")
    /\ (InBlock(c) /\ GoesTo(c, "events")) \/ Returns(c, "err")
    /\ UNCHANGED <<connVars, chainVars>>

-----------------------------------------------------------------------------
(* The callbacks.                                                          *)

\* The kind of event each method waits for; "any": its callback is always true,
\* as it is for GetOwnerOf, which asks for the length of an array type.
Awaits == [Staking |-> "MintToken", CacheOrderPayment |-> "Staking",
           OrderClaim |-> "OrderInfo", CalimReward |-> "Claim", Exit |-> "Exit",
           IsTokenOwner |-> "NodeInfo", MintToken |-> "MintToken",
           Withdraw |-> "any", TransferFrom |-> "any", GetOwnerOf |-> "any"]

\* The kind of event that the method's transaction makes if it succeeds.
\* TransferFrom and GetOwnerOf call the contract's withdraw.
Emits == [Staking |-> "Staking", CacheOrderPayment |-> "OrderPayment",
          OrderClaim |-> "OrderInfo", CalimReward |-> "Claim", Exit |-> "Exit",
          IsTokenOwner |-> "NodeInfo", MintToken |-> "MintToken",
          Withdraw |-> "Withdraw", TransferFrom |-> "Withdraw", GetOwnerOf |-> "Withdraw"]

\* Any event of the block ends the wait: of this transaction, if it succeeded,
\* or of somebody else's.
Confirms(method, succeeded, others) ==
    Awaits[method] \in others \cup {"any"} \cup (IF succeeded THEN {Emits[method]} ELSE {})

\* "mistaken": the transaction failed in its block and the call says success.
Events(c) ==
    /\ Ready(c, {"submit"}, "events")
    /\ IF api = "nil" THEN Returns(c, "silent") ELSE
           \/ Returns(c, "err")
           \/ /\ Usable
              /\ \E m \in DOMAIN Awaits, s \in BOOLEAN : \E others \in {{}, {Awaits[m]}} :
                    Returns(c, IF ~Confirms(m, s, others) THEN "err"
                               ELSE IF s THEN "ok" ELSE "mistaken")
    /\ UNCHANGED <<connVars, chainVars>>

-----------------------------------------------------------------------------
Step(c) ==
    \/ \E at \in {"health", "again"} : Healthy(c, at) \/ Unhealthy(c, at)
    \/ Reconnect(c, "reconnect", "health") \/ Reconnect(c, "reconnect again", "again")
    \/ Read(c) \/ Account(c) \/ Send(c) \/ SendFails(c) \/ Retry(c) \/ Wait(c) \/ Events(c)

Next ==
    \/ Fault \/ Mine
    \/ \E c \in Calls : (\E op \in Ops : Begin(c, op)) \/ Lock(c) \/ Step(c)

\* Calls run, every RPC returns, the mutex starves nobody, and the timeout
\* ends a wait.  The chain need not mine.
Spec ==
    /\ Init /\ [][Next]_vars
    /\ \A c \in Calls : WF_vars(Step(c)) /\ SF_vars(Lock(c))

-----------------------------------------------------------------------------
(* Properties *)

\* However often calls time out and are made again, at most two transactions
\* of the account are pending: a third is refused and not queued behind them.
PendingBounded == Cardinality(pool) <= 2

\* A call says success with nothing done, or crashes the program, only after a
\* reconnection has failed, or when another call was changing the connection.
SilentExplained ==
    \A c \in Calls : call[c].result \in {"silent", "crash"} => refused \/ c \notin lone

Told(c) == call[c].op = "submit" /\ call[c].result \in {"ok", "mistaken"}

\* A submission that says success with a hash is in a block, and it is not the
\* transaction that another call was told of or still waits for, although
\* calls read the account's nonce and send it in separate steps.
OkIsInBlock ==
    \A c \in Calls :
        Told(c) => /\ call[c].nonce < nonce
                   /\ \A d \in Calls \ {c} : Told(d) \/ call[d].at = "wait" =>
                                               call[d].nonce # call[c].nonce

\* Every call returns, whatever fails, and so the lock is given back.
CallsReturn == \A c \in Calls : call[c].at \notin {"idle", "done"} ~> call[c].at = "done" \/ ~Alive

=============================================================================
