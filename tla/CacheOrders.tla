----------------------------- MODULE CacheOrders -----------------------------
(***************************************************************************)
(* The client of the cache protocol contract.  CreateCacheOrder,           *)
(* RegisterNode, ClaimWorkReward and ExitNetwork send a transaction, then  *)
(* subscribe to the contract's logs and wait, with a timeout, for a log    *)
(* that has the kind they parse and the account they were given.  A log    *)
(* does not name the caller, so that a call can end with the log of        *)
(* another call, and one emitted before the subscription is missed.        *)
(*                                                                         *)
(* One node of the network, Self, is modelled with its life: it registers  *)
(* at start, runs ClaimWorkRewardServer, and checks credit orders          *)
(* (CheckCreditOrder) that were paid to it.  Calls are those of other      *)
(* programs: clients that pay, other nodes, the exit command.              *)
(*                                                                         *)
(* The contract is external: a transaction is mined, with its log, or      *)
(* reverts.                                                                *)
(***************************************************************************)
EXTENDS Integers, Sequences, FiniteSets

CONSTANTS
    Calls,       \* calls of other programs
    Jobs,        \* what they call, functions from Calls to Job
    Nodes,       \* accounts of cache nodes
    Self,        \* the account of the node that is modelled
    Node,        \* its process, as a caller
    None,
    Grace,       \* terms for which an order is accepted, 4 in the code
    MaxTerm,     \* bound: terms of the contract
    MaxTx        \* bound: transactions; a call beyond it fails to send

Kinds == {"pay", "register", "claim", "exit"}
Job == [kind : Kinds \cup {"credit"}, acc : Nodes]
Callers == Calls \cup {Node}
Tx == [id : 1..MaxTx, kind : Kinds, acc : Nodes]

ASSUME OrdersAssumption ==
    /\ Jobs \subseteq [Calls -> Job]
    /\ Self \in Nodes
    /\ Node \notin Calls
    /\ None \notin Tx
    /\ Grace \in Nat /\ MaxTerm \in Nat \ {0} /\ MaxTx \in Nat

VARIABLES
    job,        \* what each caller calls
    st,         \* where its call is
    own,        \* the transaction it sent
    feed,       \* logs its subscription has delivered and it has not read
    sent,       \* transactions sent so far
    pool,       \* transactions that are neither mined nor reverted
    mined,      \* transactions that are mined
    registered, \* contract: nodes with a record
    term,       \* contract: the current term
    orderTerm,  \* contract: the term of each paid order
    node,       \* where Self's program is
    local,      \* term of ClaimWorkRewardServer, a local variable
    check,      \* CheckCreditOrder: its place, its order, the order's term and,
                \* for the properties, the contract's term when it began
    credited    \* orders it returned the value of, and when their checks began

callVars == <<job, st, own, feed>>
txVars == <<sent, pool>>
chainVars == <<mined, registered, term, orderTerm>>
nodeVars == <<node, local>>
checkVars == <<check, credited>>
vars == <<callVars, txVars, chainVars, nodeVars, checkVars>>

NoCheck == [at |-> "idle", order |-> 0, term |-> 0, began |-> 0]

Init ==
    /\ \E j \in Jobs :
        job = [c \in Callers |-> IF c = Node THEN [kind |-> "register", acc |-> Self] ELSE j[c]]
    /\ st = [c \in Callers |-> "idle"]
    /\ own = [c \in Callers |-> None]
    /\ feed = [c \in Callers |-> <<>>]
    /\ sent = 0 /\ pool = {}
    /\ mined = {} /\ registered \in {{}, {Self}}
    /\ term = 1
    /\ orderTerm = [i \in 1..MaxTx |-> 0]
    /\ node = "down" /\ local = 1
    /\ check = NoCheck /\ credited = {}

-----------------------------------------------------------------------------
(* A call: the transaction, the subscription, the wait. *)

\* The kind of log the call parses; ExitNetwork waits for a claim.
Awaited(kind) == IF kind = "exit" THEN "claim" ELSE kind

\* Mutant: the account is not compared.
MatchesAnyNode(j, log) == log.kind = Awaited(j.kind)

\* The callback's test.
Matches(j, log) == log.kind = Awaited(j.kind) /\ log.acc = j.acc

\* The transaction goes to the pool; ids are never used twice.
Submit(kind, acc) ==
    /\ sent < MaxTx
    /\ sent' = sent + 1
    /\ pool' = pool \cup {[id |-> sent + 1, kind |-> kind, acc |-> acc]}

Send(c, j) ==
    /\ Submit(j.kind, j.acc)
    /\ job' = [job EXCEPT ![c] = j]
    /\ st' = [st EXCEPT ![c] = "sent"]
    /\ own' = [own EXCEPT ![c] = [id |-> sent + 1, kind |-> j.kind, acc |-> j.acc]]
    /\ feed' = [feed EXCEPT ![c] = <<>>]

\* The subscription is open: only logs mined from here on reach the call.
Subscribe(c) ==
    /\ st[c] = "sent"
    /\ st' = [st EXCEPT ![c] = "listen"]
    /\ UNCHANGED <<job, own, feed, txVars, chainVars, nodeVars, checkVars>>

\* The call returns and its subscription ends.
Return(c, result) ==
    /\ st' = [st EXCEPT ![c] = result]
    /\ feed' = [feed EXCEPT ![c] = <<>>]

\* The callback ends the loop, or reads on.
ReadLog(c) ==
    /\ st[c] = "listen"
    /\ feed[c] # <<>>
    /\ IF Matches(job[c], Head(feed[c])) THEN Return(c, "ok") ELSE
        /\ feed' = [feed EXCEPT ![c] = Tail(@)]
        /\ st' = st
    /\ UNCHANGED <<job, own, txVars, chainVars, nodeVars, checkVars>>

\* ctx.Done: fifteen seconds, or five minutes for a registration, are over.
Timeout(c) ==
    /\ st[c] = "listen"
    /\ Return(c, "failed")
    /\ UNCHANGED <<job, own, txVars, chainVars, nodeVars, checkVars>>

\* The subscription cannot be opened, or reports an error.
SubscriptionFails(c) ==
    /\ st[c] \in {"sent", "listen"}
    /\ Return(c, "failed")
    /\ UNCHANGED <<job, own, txVars, chainVars, nodeVars, checkVars>>

-----------------------------------------------------------------------------
(* Calls of other programs. *)

Call(c) ==
    /\ st[c] = "idle"
    /\ job[c].kind # "credit"
    /\ Send(c, job[c])
    /\ UNCHANGED <<chainVars, nodeVars, checkVars>>

\* The options, an argument or the transaction is refused.
CallFails(c) ==
    /\ st[c] = "idle"
    /\ st' = [st EXCEPT ![c] = "failed"]
    /\ UNCHANGED <<job, own, feed, txVars, chainVars, nodeVars, checkVars>>

\* CreateCreditOrder compares the registered peer ID, which QueryRegisterInfo
\* has encoded in base58, with the decoded form of its argument.  They differ
\* whether or not the node is the registered one, and nothing is sent.
CreateCreditOrder(c) ==
    /\ st[c] = "idle"
    /\ job[c].kind = "credit"
    /\ st' = [st EXCEPT ![c] = "failed"]
    /\ UNCHANGED <<job, own, feed, txVars, chainVars, nodeVars, checkVars>>

-----------------------------------------------------------------------------
(* The contract. *)

Mine(t) ==
    /\ t \in pool
    /\ pool' = pool \ {t}
    /\ mined' = mined \cup {t}
    /\ registered' = CASE t.kind = "register" -> registered \cup {t.acc}
                       [] t.kind = "exit" -> registered \ {t.acc}
                       [] OTHER -> registered
    /\ orderTerm' = IF t.kind = "pay" THEN [orderTerm EXCEPT ![t.id] = term] ELSE orderTerm
    /\ feed' = [c \in Callers |-> IF st[c] = "listen" THEN Append(feed[c], t) ELSE feed[c]]
    /\ UNCHANGED <<job, st, own, sent, term, nodeVars, checkVars>>

Revert(t) ==
    /\ t \in pool
    /\ pool' = pool \ {t}
    /\ UNCHANGED <<callVars, sent, chainVars, nodeVars, checkVars>>

NextTerm ==
    /\ term < MaxTerm
    /\ term' = term + 1
    /\ UNCHANGED <<callVars, txVars, mined, registered, orderTerm, nodeVars, checkVars>>

-----------------------------------------------------------------------------
(* The node's program: registration, then ClaimWorkRewardServer. *)

\* QueryRegisterInfo finds the node's record.
StartRegistered ==
    /\ node = "down"
    /\ Self \in registered
    /\ node' = "up"
    /\ UNCHANGED <<callVars, txVars, chainVars, local, checkVars>>

\* It finds none, or the query fails: RegisterNode.
StartRegisters ==
    /\ node = "down"
    /\ node' = "registering"
    /\ Send(Node, [kind |-> "register", acc |-> Self])
    /\ UNCHANGED <<chainVars, local, checkVars>>

\* RegisterNode has returned; the program goes on, or ends.
Registered ==
    /\ node = "registering"
    /\ st[Node] = "ok"
    /\ node' = "up"
    /\ UNCHANGED <<callVars, txVars, chainVars, local, checkVars>>

RegisterFails ==
    /\ node = "registering"
    /\ st[Node] = "failed"
    /\ node' = "down"
    /\ UNCHANGED <<callVars, txVars, chainVars, local, checkVars>>

\* ClaimWorkRewardServer queries the record again, and counts terms from 1.
StartServer ==
    /\ node = "up"
    /\ Self \in registered
    /\ node' = "serving"
    /\ UNCHANGED <<callVars, txVars, chainVars, local, checkVars>>

\* Its query fails and stops the program, or the program is told to stop, or
\* dies.  A call under way ends with it; its transaction does not.
Stop ==
    /\ node # "down"
    /\ node' = "down"
    /\ Return(Node, IF st[Node] = "idle" THEN "idle" ELSE "failed")
    /\ local' = 1
    /\ check' = NoCheck
    /\ UNCHANGED <<job, own, txVars, chainVars, credited>>

\* Mutant: the server gives up the terms it is behind.
TickSkips ==
    /\ node = "serving"
    /\ term = local + 1
    /\ local' = local + 1
    /\ node' = "claiming"
    /\ UNCHANGED <<callVars, txVars, chainVars, checkVars>>

\* A tick finds that the contract is ahead.  A tick whose query fails, or
\* that finds no new term, changes nothing.
Tick ==
    /\ node = "serving"
    /\ term > local
    /\ local' = local + 1
    /\ node' = "claiming"
    /\ UNCHANGED <<callVars, txVars, chainVars, checkVars>>

\* ClaimWorkReward.
ClaimWorkReward ==
    /\ node = "claiming"
    /\ st[Node] \notin {"sent", "listen"}
    /\ node' = "waiting"
    /\ Send(Node, [kind |-> "claim", acc |-> Self])
    /\ UNCHANGED <<chainVars, local, checkVars>>

\* It has returned, or the claim was refused at once; both are only logged.
ClaimRefused ==
    /\ node = "claiming"
    /\ node' = "serving"
    /\ UNCHANGED <<callVars, txVars, chainVars, local, checkVars>>

ClaimReturns ==
    /\ node = "waiting"
    /\ st[Node] \in {"ok", "failed"}
    /\ node' = "serving"
    /\ UNCHANGED <<callVars, txVars, chainVars, local, checkVars>>

-----------------------------------------------------------------------------
(* CheckCreditOrder, called by the node's credit ledger with an order. *)

\* An order whose signature is valid is refused, any other is looked up.
CheckSignature(i, valid) ==
    /\ check.at = "idle"
    /\ node \notin {"down", "registering"}
    /\ ~valid
    /\ check' = [at |-> "order", order |-> i, term |-> 0, began |-> term]
    /\ UNCHANGED <<callVars, txVars, chainVars, nodeVars, credited>>

PaidToSelf(i) == \E t \in mined : t.id = i /\ t.kind = "pay" /\ t.acc = Self

\* An order that does not exist reads as one of no node.
QueryCacheOrder ==
    /\ check.at = "order"
    /\ PaidToSelf(check.order)
    /\ check' = [check EXCEPT !.at = "term", !.term = orderTerm[check.order]]
    /\ UNCHANGED <<callVars, txVars, chainVars, nodeVars, credited>>

\* Mutant: the term is not compared with the order's.
QueryCurrencyTermOnly ==
    /\ check.at = "term"
    /\ check' = [check EXCEPT !.at = "claim"]
    /\ UNCHANGED <<callVars, txVars, chainVars, nodeVars, credited>>

QueryCurrencyTerm ==
    /\ check.at = "term"
    /\ term <= check.term + Grace
    /\ check' = [check EXCEPT !.at = "claim"]
    /\ UNCHANGED <<callVars, txVars, chainVars, nodeVars, credited>>

\* ClaimOrder sends a claim that does not name the order, and waits for
\* nothing.
ClaimOrder ==
    /\ check.at = "claim"
    /\ Submit("claim", Self)
    /\ check' = NoCheck
    /\ credited' = credited \cup {[order |-> check.order, began |-> check.began]}
    /\ UNCHANGED <<callVars, chainVars, nodeVars>>

\* A query fails, the order is not for this node or is too old, or the claim
\* is refused: no value is returned.
CheckFails ==
    /\ check.at # "idle"
    /\ check' = NoCheck
    /\ UNCHANGED <<callVars, txVars, chainVars, nodeVars, credited>>

-----------------------------------------------------------------------------
Caller(c) == Subscribe(c) \/ ReadLog(c) \/ Timeout(c) \/ SubscriptionFails(c)

Other(c) == Call(c) \/ CallFails(c) \/ CreateCreditOrder(c)

Chain == NextTerm \/ \E t \in pool : Mine(t) \/ Revert(t)

Program ==
    \/ StartRegistered \/ StartRegisters \/ Registered \/ RegisterFails
    \/ StartServer \/ Stop
    \/ Tick \/ ClaimWorkReward \/ ClaimRefused \/ ClaimReturns

Check ==
    \/ \E i \in 1..MaxTx, valid \in BOOLEAN : CheckSignature(i, valid)
    \/ QueryCacheOrder \/ QueryCurrencyTerm \/ ClaimOrder \/ CheckFails

Next ==
    \/ \E c \in Callers : Caller(c)
    \/ \E c \in Calls : Other(c)
    \/ Chain
    \/ Program
    \/ Check

\* Goroutines run and deadlines pass; the ticker ticks, and its query of the
\* term is answered some time.  The chain owes nothing.
Fairness ==
    /\ \A c \in Callers : WF_vars(Subscribe(c)) /\ WF_vars(Timeout(c))
    /\ WF_vars(Registered) /\ WF_vars(RegisterFails)
    /\ WF_vars(Tick) /\ WF_vars(ClaimReturns)
    /\ WF_vars(ClaimWorkReward \/ ClaimRefused)

Spec == Init /\ [][Next]_vars /\ Fairness

-----------------------------------------------------------------------------
(* Properties *)

\* A call that reports success either had its own transaction mined or was
\* ended by the log of another transaction of the kind and account it waits
\* for.  An exit, which waits for a claim, is always of the second sort.
ConfirmedOrMistaken ==
    \A c \in Callers : st[c] = "ok" =>
        \/ job[c].kind # "exit" /\ own[c] \in mined
        \/ \E t \in mined \ {own[c]} : t.kind = Awaited(job[c].kind) /\ t.acc = job[c].acc

\* The node's program gets past its registration only when the contract has
\* a record of the node, or had it until an exit was mined.
UpIsRegistered ==
    node \notin {"down", "registering"} =>
        \/ Self \in registered
        \/ \E t \in mined : t.kind = "exit" /\ t.acc = Self

\* CheckCreditOrder gives value only for an order that was paid to this node
\* and was still accepted when the check began.  It looks at the order and at
\* the term in two queries, and sends a claim that names neither, while the
\* contract moves on: the order can be too old when the claim is sent.
CreditedWasPaid ==
    \A r \in credited :
        /\ \E t \in mined : t.id = r.order /\ t.kind = "pay" /\ t.acc = Self
        /\ r.began <= orderTerm[r.order] + Grace

\* Whenever the contract's term rests and the node stays up, the server's
\* count, which starts at 1 in every life and takes one term per tick, gets to
\* that term and stops there, so that the server claims no more.  A claim
\* that is refused counts and is not tried again.
CountCatchesUp ==
    \A t \in 1..MaxTerm :
        <>[](term = t /\ node \in {"serving", "claiming", "waiting"})
            => <>[](local = t /\ node = "serving")

=============================================================================
