-------------------------- MODULE CacheOrdersProofs --------------------------
(***************************************************************************)
(* Proofs about CacheOrders, for any number of callers, nodes, terms and   *)
(* transactions: its three invariants.                                     *)
(***************************************************************************)
EXTENDS CacheOrders, SequenceTheorems, TLAPS

CallStates == {"idle", "sent", "listen", "ok", "failed"}

TypeOK ==
    /\ job \in [Callers -> Job]
    /\ st \in [Callers -> CallStates]
    /\ own \in [Callers -> Tx \cup {None}]
    /\ feed \in [Callers -> Seq(Tx)]
    /\ sent \in Nat
    /\ pool \subseteq Tx
    /\ mined \subseteq Tx
    /\ term \in Nat \ {0}
    /\ local \in Nat

\* What a subscription delivers was mined.
FeedIsMined ==
    \A c \in Callers : \A k \in 1 .. Len(feed[c]) : feed[c][k] \in mined

\* A call that is under way, or has succeeded, sent what it was asked to send.
OwnIsJob ==
    \A c \in Callers : st[c] \in {"sent", "listen", "ok"} =>
        own[c] \in Tx /\ own[c].kind = job[c].kind /\ own[c].acc = job[c].acc

\* The program that registers waits for a registration of the node.
NodeRegisters ==
    node = "registering" => job[Node].kind = "register" /\ job[Node].acc = Self

\* A record goes only with an exit.
RecordsStay ==
    \A t \in mined : t.kind = "register" =>
        \/ t.acc \in registered
        \/ \E u \in mined : u.kind = "exit" /\ u.acc = t.acc

\* No id is used twice, and a mined transaction is not mined again.
IdsUnique ==
    /\ \A t \in pool \cup mined : t.id <= sent
    /\ \A t, u \in pool \cup mined : t.id = u.id => t = u
    /\ pool \cap mined = {}

\* The types of what CheckCreditOrder reads and keeps.
CheckTypeOK ==
    /\ orderTerm \in [1 .. MaxTx -> Nat]
    /\ check \in [at : {"idle", "order", "term", "claim"}, order : 0 .. MaxTx, term : Nat, began : Nat]

\* An order that passed the first query was paid to this node, in the term that
\* was read; one that passed the second was accepted when the check began,
\* because terms only grow.
CheckedWasPaid ==
    /\ check.began <= term
    /\ check.at \in {"term", "claim"} =>
          PaidToSelf(check.order) /\ check.term = orderTerm[check.order]
    /\ check.at = "claim" => check.began <= check.term + Grace

IInv ==
    /\ TypeOK
    /\ FeedIsMined
    /\ OwnIsJob
    /\ ConfirmedOrMistaken
    /\ NodeRegisters
    /\ RecordsStay
    /\ UpIsRegistered
    /\ IdsUnique
    /\ CheckTypeOK
    /\ CheckedWasPaid
    /\ CreditedWasPaid

-----------------------------------------------------------------------------
(* What the actions do to a call. *)

\* A log that is read next was mined, and what is left of the feed too.
LEMMA ReadNext ==
    ASSUME TypeOK, FeedIsMined, NEW c \in Callers, feed[c] # <<>>
    PROVE  /\ Head(feed[c]) \in mined
           /\ Tail(feed[c]) \in Seq(Tx)
           /\ \A k \in 1 .. Len(Tail(feed[c])) : Tail(feed[c])[k] \in mined
<1>1. feed[c] \in Seq(Tx)
  BY DEF TypeOK
<1>2. /\ Tail(feed[c]) \in Seq(Tx) /\ Len(Tail(feed[c])) = Len(feed[c]) - 1
      /\ \A k \in 1 .. Len(Tail(feed[c])) : Tail(feed[c])[k] = feed[c][k + 1]
  BY <1>1, HeadTailProperties
<1>3. Len(feed[c]) \in Nat \ {0} /\ Head(feed[c]) = feed[c][1]
  BY <1>1, EmptySeq
<1>4. \A k \in 1 .. Len(Tail(feed[c])) : k + 1 \in 1 .. Len(feed[c])
  BY <1>2, <1>3
<1> QED
  BY <1>2, <1>3, <1>4 DEF FeedIsMined

\* The transaction of a call is the one it puts into the pool.
LEMMA SendEffect ==
    ASSUME TypeOK, NEW c \in Callers, NEW j \in Job, j.kind # "credit", Send(c, j)
    PROVE  /\ sent' \in Nat /\ pool' \subseteq Tx
           /\ job' \in [Callers -> Job] /\ job'[c] = j
           /\ st' \in [Callers -> CallStates] /\ st'[c] = "sent"
           /\ own' \in [Callers -> Tx \cup {None}]
           /\ own'[c] \in Tx /\ own'[c].kind = j.kind /\ own'[c].acc = j.acc
           /\ feed' \in [Callers -> Seq(Tx)] /\ feed'[c] = <<>>
           /\ \A d \in Callers \ {c} :
                 job'[d] = job[d] /\ st'[d] = st[d] /\ own'[d] = own[d] /\ feed'[d] = feed[d]
<1> DEFINE t == [id |-> sent + 1, kind |-> j.kind, acc |-> j.acc]
<1>1. t \in Tx /\ t.kind = j.kind /\ t.acc = j.acc
  BY OrdersAssumption DEF TypeOK, Send, Submit, Tx, Job
<1>2. /\ sent' = sent + 1 /\ pool' = pool \cup {t} /\ job' = [job EXCEPT ![c] = j]
      /\ st' = [st EXCEPT ![c] = "sent"] /\ own' = [own EXCEPT ![c] = t]
      /\ feed' = [feed EXCEPT ![c] = <<>>]
  BY DEF Send, Submit
<1> HIDE DEF t
<1>3. sent' \in Nat /\ pool' \subseteq Tx
  BY <1>1, <1>2 DEF TypeOK
<1>4. /\ job' \in [Callers -> Job] /\ job'[c] = j
      /\ st' \in [Callers -> CallStates] /\ st'[c] = "sent"
      /\ own' \in [Callers -> Tx \cup {None}] /\ own'[c] = t
  BY <1>1, <1>2 DEF TypeOK, CallStates
<1>5. feed' \in [Callers -> Seq(Tx)] /\ feed'[c] = <<>>
  BY <1>2, EmptySeq DEF TypeOK
<1>6. \A d \in Callers \ {c} :
         job'[d] = job[d] /\ st'[d] = st[d] /\ own'[d] = own[d] /\ feed'[d] = feed[d]
  BY <1>2 DEF TypeOK
<1> QED
  BY <1>1, <1>3, <1>4, <1>5, <1>6

\* The jobs of the node's own calls.
LEMMA NodeJobs ==
    /\ [kind |-> "register", acc |-> Self] \in Job
    /\ [kind |-> "claim", acc |-> Self] \in Job
    /\ Node \in Callers
BY OrdersAssumption DEF Job, Kinds, Callers

\* A call returns: its state changes, and its feed is emptied.
LEMMA ReturnEffect ==
    ASSUME TypeOK, NEW c \in Callers, NEW r \in CallStates, Return(c, r)
    PROVE  /\ st' \in [Callers -> CallStates] /\ st'[c] = r
           /\ feed' \in [Callers -> Seq(Tx)] /\ feed'[c] = <<>>
           /\ \A d \in Callers \ {c} : st'[d] = st[d] /\ feed'[d] = feed[d]
<1>1. <<>> \in Seq(Tx)
  BY EmptySeq
<1> QED
  BY <1>1 DEF TypeOK, Return

\* A log goes to the feeds of the calls that listen, and nowhere else.
LEMMA MineEffect ==
    ASSUME TypeOK, NEW t \in pool, Mine(t)
    PROVE  /\ feed' \in [Callers -> Seq(Tx)]
           /\ t \in Tx /\ mined' = mined \cup {t}
           /\ \A c \in Callers : \A k \in 1 .. Len(feed'[c]) :
                 (k \in 1 .. Len(feed[c]) /\ feed'[c][k] = feed[c][k]) \/ feed'[c][k] = t
<1>1. t \in Tx /\ mined' = mined \cup {t}
  BY DEF TypeOK, Mine
<1>2. \A c \in Callers : feed[c] \in Seq(Tx) /\ Append(feed[c], t) \in Seq(Tx)
  BY <1>1, AppendProperties DEF TypeOK
<1>3. feed' = [c \in Callers |-> IF st[c] = "listen" THEN Append(feed[c], t) ELSE feed[c]]
  BY DEF Mine
<1>4. feed' \in [Callers -> Seq(Tx)]
  BY <1>2, <1>3
<1>5. ASSUME NEW c \in Callers, NEW k \in 1 .. Len(feed'[c])
      PROVE  (k \in 1 .. Len(feed[c]) /\ feed'[c][k] = feed[c][k]) \/ feed'[c][k] = t
  <2>1. /\ Len(Append(feed[c], t)) = Len(feed[c]) + 1 /\ Len(feed[c]) \in Nat
        /\ \A l \in 1 .. Len(feed[c]) : Append(feed[c], t)[l] = feed[c][l]
        /\ Append(feed[c], t)[Len(feed[c]) + 1] = t
    BY <1>1, <1>2, AppendProperties, LenProperties
  <2>2. CASE feed'[c] = feed[c]
    BY <2>2
  <2>3. CASE feed'[c] = Append(feed[c], t)
    <3>1. k \in 1 .. Len(feed[c]) \/ k = Len(feed[c]) + 1
      BY <2>1, <2>3
    <3> QED
      BY <2>1, <2>3, <3>1
  <2> QED
    BY <1>3, <2>2, <2>3
<1> QED
  BY <1>1, <1>4, <1>5

-----------------------------------------------------------------------------
(* The inductive invariant. *)

\* It holds initially.
LEMMA InitIInv == Init => IInv
<1> SUFFICES ASSUME Init PROVE IInv
  OBVIOUS
<1>1. TypeOK
  <2>1. job \in [Callers -> Job]
    BY NodeJobs, OrdersAssumption DEF Init, Callers
  <2>2. <<>> \in Seq(Tx)
    BY EmptySeq
  <2> QED
    BY <2>1, <2>2 DEF Init, TypeOK, CallStates
<1>2. FeedIsMined
  BY DEF Init, FeedIsMined
<1>3. OwnIsJob /\ ConfirmedOrMistaken
  BY DEF Init, OwnIsJob, ConfirmedOrMistaken
<1>4. CheckTypeOK
  BY OrdersAssumption DEF Init, CheckTypeOK, NoCheck
<1> QED
  BY <1>1, <1>2, <1>3, <1>4 DEF Init, IInv, NodeRegisters, RecordsStay, UpIsRegistered,
     IdsUnique, CheckedWasPaid, CreditedWasPaid, NoCheck

\* One step keeps the types.
LEMMA TypeNext == TypeOK /\ FeedIsMined /\ [Next]_vars => TypeOK'
<1> SUFFICES ASSUME TypeOK, FeedIsMined, [Next]_vars PROVE TypeOK'
  OBVIOUS
<1>1. CASE UNCHANGED <<job, st, own, feed, sent, pool, mined, term, local>>
  BY <1>1 DEF TypeOK
<1>2. ASSUME NEW c \in Callers, Subscribe(c) PROVE TypeOK'
  BY <1>2 DEF TypeOK, Subscribe, callVars, txVars, chainVars, nodeVars,
     checkVars, CallStates, Callers
<1>3. ASSUME NEW c \in Callers, ReadLog(c) PROVE TypeOK'
  <2>1. feed[c] # <<>> /\ UNCHANGED <<job, own, sent, pool, mined, term, local>>
    BY <1>3 DEF ReadLog, txVars, chainVars, nodeVars
  <2>2. CASE Return(c, "ok")
    BY <2>1, <2>2, ReturnEffect DEF TypeOK, CallStates
  <2>3. CASE feed' = [feed EXCEPT ![c] = Tail(@)] /\ st' = st
    <3>1. Tail(feed[c]) \in Seq(Tx)
      BY <2>1, ReadNext
    <3> QED
      BY <2>1, <2>3, <3>1 DEF TypeOK
  <2> QED
    BY <1>3, <2>2, <2>3 DEF ReadLog
<1>4. ASSUME NEW c \in Callers, Timeout(c) PROVE TypeOK'
  <2>1. Return(c, "failed") /\ UNCHANGED <<job, own, sent, pool, mined, term, local>>
    BY <1>4 DEF Timeout, txVars, chainVars, nodeVars
  <2> QED
    BY <2>1, ReturnEffect DEF TypeOK, CallStates
<1>5. ASSUME NEW c \in Callers, SubscriptionFails(c) PROVE TypeOK'
  <2>1. Return(c, "failed") /\ UNCHANGED <<job, own, sent, pool, mined, term, local>>
    BY <1>5 DEF SubscriptionFails, txVars, chainVars, nodeVars
  <2> QED
    BY <2>1, ReturnEffect DEF TypeOK, CallStates
<1>6. ASSUME NEW c \in Calls, Call(c) PROVE TypeOK'
  <2> DEFINE j == job[c]
  <2>1. j \in Job /\ j.kind # "credit" /\ Send(c, j) /\ c \in Callers
    BY <1>6, NodeJobs DEF Call, TypeOK, Callers
  <2> HIDE DEF j
  <2>2. UNCHANGED <<mined, term, local>>
    BY <1>6 DEF Call, chainVars, nodeVars
  <2> QED
    BY <2>1, <2>2, SendEffect DEF TypeOK
<1>7. ASSUME NEW c \in Calls, CallFails(c) PROVE TypeOK'
  BY <1>7 DEF TypeOK, CallFails, callVars, txVars, chainVars, nodeVars,
     checkVars, CallStates, Callers
<1>8. ASSUME NEW c \in Calls, CreateCreditOrder(c) PROVE TypeOK'
  BY <1>8 DEF TypeOK, CreateCreditOrder, callVars, txVars, chainVars,
     nodeVars, checkVars, CallStates, Callers
<1>9. CASE NextTerm
  BY <1>9 DEF TypeOK, NextTerm, callVars, txVars, chainVars, nodeVars,
     checkVars, CallStates, Callers
<1>10. ASSUME NEW t \in pool, Mine(t) PROVE TypeOK'
  <2>1. UNCHANGED <<job, st, own, sent, term, local>> /\ pool' \subseteq pool
    BY <1>10 DEF Mine, nodeVars
  <2> QED
    BY <1>10, <2>1, MineEffect DEF TypeOK
<1>11. ASSUME NEW t \in pool, Revert(t) PROVE TypeOK'
  BY <1>11 DEF TypeOK, Revert, callVars, txVars, chainVars, nodeVars,
     checkVars, CallStates, Callers
<1>12. CASE StartRegisters
  <2> DEFINE j == [kind |-> "register", acc |-> Self]
  <2>1. j \in Job /\ j.kind # "credit" /\ Send(Node, j) /\ Node \in Callers
    BY <1>12, NodeJobs DEF StartRegisters, TypeOK, Callers
  <2> HIDE DEF j
  <2>2. UNCHANGED <<mined, term, local>>
    BY <1>12 DEF StartRegisters, chainVars, nodeVars
  <2> QED
    BY <2>1, <2>2, SendEffect DEF TypeOK
<1>13. CASE Stop
  <2>1. /\ Return(Node, IF st[Node] = "idle" THEN "idle" ELSE "failed")
        /\ local' = 1 /\ UNCHANGED <<job, own, sent, pool, mined, term>>
    BY <1>13 DEF Stop, txVars, chainVars
  <2>2. st' \in [Callers -> CallStates] /\ feed' \in [Callers -> Seq(Tx)]
    BY <2>1, NodeJobs, ReturnEffect DEF CallStates
  <2> QED
    BY <2>1, <2>2 DEF TypeOK
<1>14. CASE Tick
  BY <1>14 DEF TypeOK, Tick, callVars, txVars, chainVars, nodeVars, checkVars,
     CallStates, Callers
<1>15. CASE ClaimWorkReward
  <2> DEFINE j == [kind |-> "claim", acc |-> Self]
  <2>1. j \in Job /\ j.kind # "credit" /\ Send(Node, j) /\ Node \in Callers
    BY <1>15, NodeJobs DEF ClaimWorkReward, TypeOK, Callers
  <2> HIDE DEF j
  <2>2. UNCHANGED <<mined, term, local>>
    BY <1>15 DEF ClaimWorkReward, chainVars, nodeVars
  <2> QED
    BY <2>1, <2>2, SendEffect DEF TypeOK
<1>16. CASE ClaimOrder
  <2>1. /\ UNCHANGED <<job, st, own, feed, mined, term, local>>
        /\ sent < MaxTx /\ sent' = sent + 1
        /\ pool' = pool \cup {[id |-> sent + 1, kind |-> "claim", acc |-> Self]}
    BY <1>16 DEF ClaimOrder, Submit, callVars, chainVars, nodeVars
  <2>2. [id |-> sent + 1, kind |-> "claim", acc |-> Self] \in Tx
    BY <2>1, OrdersAssumption DEF TypeOK, Tx, Kinds
  <2> QED
    BY <2>1, <2>2 DEF TypeOK
<1> QED
  BY <1>1, <1>2, <1>3, <1>4, <1>5, <1>6, <1>7, <1>8, <1>9, <1>10, <1>11,
     <1>12, <1>13, <1>14, <1>15, <1>16 DEF Next, Caller, Other, Chain,
     Program, Check, StartRegistered, Registered, RegisterFails, StartServer,
     ClaimRefused, ClaimReturns, CheckSignature, QueryCacheOrder,
     QueryCurrencyTerm, CheckFails, vars, callVars, txVars, chainVars,
     nodeVars, checkVars

\* A feed that is emptied holds nothing that was not mined.
LEMMA FeedEmptied ==
    ASSUME FeedIsMined, NEW c \in Callers, feed'[c] = <<>>, mined' = mined,
           \A d \in Callers \ {c} : feed'[d] = feed[d]
    PROVE  FeedIsMined'
<1>1. Len(<<>>) = 0
  BY EmptySeq
<1> QED
  BY <1>1 DEF FeedIsMined

\* Only a transaction that is mined is put into a feed.
LEMMA FeedNext == TypeOK /\ FeedIsMined /\ [Next]_vars => FeedIsMined'
<1> SUFFICES ASSUME TypeOK, FeedIsMined, [Next]_vars PROVE FeedIsMined'
  OBVIOUS
<1>1. CASE UNCHANGED <<feed, mined>>
  BY <1>1 DEF FeedIsMined
<1>2. ASSUME NEW c \in Callers, ReadLog(c) PROVE FeedIsMined'
  <2>1. feed[c] # <<>> /\ mined' = mined
    BY <1>2 DEF ReadLog, chainVars
  <2>2. CASE Return(c, "ok")
    BY <2>1, <2>2, ReturnEffect, FeedEmptied DEF CallStates
  <2>3. CASE feed' = [feed EXCEPT ![c] = Tail(@)] /\ st' = st
    <3>1. \A k \in 1 .. Len(Tail(feed[c])) : Tail(feed[c])[k] \in mined
      BY <2>1, ReadNext
    <3>2. feed'[c] = Tail(feed[c]) /\ \A d \in Callers \ {c} : feed'[d] = feed[d]
      BY <2>3 DEF TypeOK
    <3> QED
      BY <2>1, <3>1, <3>2 DEF FeedIsMined
  <2> QED
    BY <1>2, <2>2, <2>3 DEF ReadLog
<1>3. ASSUME NEW c \in Callers, Timeout(c) PROVE FeedIsMined'
  <2>1. Return(c, "failed") /\ mined' = mined
    BY <1>3 DEF Timeout, chainVars
  <2> QED
    BY <2>1, ReturnEffect, FeedEmptied DEF CallStates
<1>4. ASSUME NEW c \in Callers, SubscriptionFails(c) PROVE FeedIsMined'
  <2>1. Return(c, "failed") /\ mined' = mined
    BY <1>4 DEF SubscriptionFails, chainVars
  <2> QED
    BY <2>1, ReturnEffect, FeedEmptied DEF CallStates
<1>5. ASSUME NEW c \in Calls, Call(c) PROVE FeedIsMined'
  <2> DEFINE j == job[c]
  <2>1. j \in Job /\ j.kind # "credit" /\ Send(c, j) /\ c \in Callers
    BY <1>5, NodeJobs DEF Call, TypeOK, Callers
  <2> HIDE DEF j
  <2>2. mined' = mined
    BY <1>5 DEF Call, chainVars
  <2> QED
    BY <2>1, <2>2, SendEffect, FeedEmptied
<1>6. ASSUME NEW t \in pool, Mine(t) PROVE FeedIsMined'
  BY <1>6, MineEffect DEF FeedIsMined
<1>7. CASE StartRegisters
  <2> DEFINE j == [kind |-> "register", acc |-> Self]
  <2>1. j \in Job /\ j.kind # "credit" /\ Send(Node, j) /\ Node \in Callers
    BY <1>7, NodeJobs DEF StartRegisters, TypeOK, Callers
  <2> HIDE DEF j
  <2>2. mined' = mined
    BY <1>7 DEF StartRegisters, chainVars
  <2> QED
    BY <2>1, <2>2, SendEffect, FeedEmptied
<1>8. CASE Stop
  <2>1. /\ Return(Node, IF st[Node] = "idle" THEN "idle" ELSE "failed") /\ mined' = mined
    BY <1>8 DEF Stop, chainVars
  <2> QED
    BY <2>1, NodeJobs, ReturnEffect, FeedEmptied DEF CallStates
<1>9. CASE ClaimWorkReward
  <2> DEFINE j == [kind |-> "claim", acc |-> Self]
  <2>1. j \in Job /\ j.kind # "credit" /\ Send(Node, j) /\ Node \in Callers
    BY <1>9, NodeJobs DEF ClaimWorkReward, TypeOK, Callers
  <2> HIDE DEF j
  <2>2. mined' = mined
    BY <1>9 DEF ClaimWorkReward, chainVars
  <2> QED
    BY <2>1, <2>2, SendEffect, FeedEmptied
<1> QED
  BY <1>1, <1>2, <1>3, <1>4, <1>5, <1>6, <1>7, <1>8, <1>9 DEF Next, Caller,
     Other, Chain, Program, Check, Subscribe, CallFails, CreateCreditOrder,
     NextTerm, Revert, StartRegistered, Registered, RegisterFails,
     StartServer, Tick, ClaimRefused, ClaimReturns, CheckSignature,
     QueryCacheOrder, QueryCurrencyTerm, ClaimOrder, CheckFails, vars,
     callVars, txVars, chainVars, nodeVars, checkVars

\* A call keeps its transaction until the next one.
LEMMA OwnNext == TypeOK /\ OwnIsJob /\ [Next]_vars => OwnIsJob'
<1> SUFFICES ASSUME TypeOK, OwnIsJob, [Next]_vars PROVE OwnIsJob'
  OBVIOUS
<1>1. CASE UNCHANGED <<job, st, own>>
  BY <1>1 DEF OwnIsJob
<1>2. ASSUME NEW c \in Callers, Subscribe(c) PROVE OwnIsJob'
  <2>1. /\ UNCHANGED <<job, own>>
        /\ \A d \in Callers :
              st'[d] \in {"sent", "listen", "ok"} => st[d] \in {"sent", "listen", "ok"}
    BY <1>2 DEF TypeOK, Subscribe
  <2> QED
    BY <2>1 DEF OwnIsJob
<1>3. ASSUME NEW c \in Callers, ReadLog(c) PROVE OwnIsJob'
  <2>1. /\ UNCHANGED <<job, own>>
        /\ \A d \in Callers :
              st'[d] \in {"sent", "listen", "ok"} => st[d] \in {"sent", "listen", "ok"}
    BY <1>3 DEF TypeOK, ReadLog, Return
  <2> QED
    BY <2>1 DEF OwnIsJob
<1>4. ASSUME NEW c \in Callers, Timeout(c) PROVE OwnIsJob'
  <2>1. Return(c, "failed") /\ UNCHANGED <<job, own>>
    BY <1>4 DEF Timeout
  <2> QED
    BY <2>1, ReturnEffect DEF OwnIsJob, CallStates
<1>5. ASSUME NEW c \in Callers, SubscriptionFails(c) PROVE OwnIsJob'
  <2>1. Return(c, "failed") /\ UNCHANGED <<job, own>>
    BY <1>5 DEF SubscriptionFails
  <2> QED
    BY <2>1, ReturnEffect DEF OwnIsJob, CallStates
<1>6. ASSUME NEW c \in Calls, Call(c) PROVE OwnIsJob'
  <2> DEFINE j == job[c]
  <2>1. j \in Job /\ j.kind # "credit" /\ Send(c, j) /\ c \in Callers
    BY <1>6, NodeJobs DEF Call, TypeOK, Callers
  <2> HIDE DEF j
  <2>2. own'[c] \in Tx /\ own'[c].kind = job'[c].kind /\ own'[c].acc = job'[c].acc
    BY <2>1, SendEffect
  <2>3. \A d \in Callers \ {c} : job'[d] = job[d] /\ st'[d] = st[d] /\ own'[d] = own[d]
    BY <2>1, SendEffect
  <2> QED
    BY <2>2, <2>3 DEF OwnIsJob
<1>7. ASSUME NEW c \in Calls, CallFails(c) PROVE OwnIsJob'
  <2>1. /\ UNCHANGED <<job, own>>
        /\ \A d \in Callers :
              st'[d] \in {"sent", "listen", "ok"} => st[d] \in {"sent", "listen", "ok"}
    BY <1>7 DEF TypeOK, CallFails, Callers
  <2> QED
    BY <2>1 DEF OwnIsJob
<1>8. ASSUME NEW c \in Calls, CreateCreditOrder(c) PROVE OwnIsJob'
  <2>1. /\ UNCHANGED <<job, own>>
        /\ \A d \in Callers :
              st'[d] \in {"sent", "listen", "ok"} => st[d] \in {"sent", "listen", "ok"}
    BY <1>8 DEF TypeOK, CreateCreditOrder, Callers
  <2> QED
    BY <2>1 DEF OwnIsJob
<1>9. CASE StartRegisters
  <2> DEFINE j == [kind |-> "register", acc |-> Self]
  <2>1. j \in Job /\ j.kind # "credit" /\ Send(Node, j) /\ Node \in Callers
    BY <1>9, NodeJobs DEF StartRegisters, TypeOK, Callers
  <2> HIDE DEF j
  <2>2. own'[Node] \in Tx /\ own'[Node].kind = job'[Node].kind /\ own'[Node].acc = job'[Node].acc
    BY <2>1, SendEffect
  <2>3. \A d \in Callers \ {Node} : job'[d] = job[d] /\ st'[d] = st[d] /\ own'[d] = own[d]
    BY <2>1, SendEffect
  <2> QED
    BY <2>2, <2>3 DEF OwnIsJob
<1>10. CASE Stop
  <2>1. /\ Return(Node, IF st[Node] = "idle" THEN "idle" ELSE "failed") /\ UNCHANGED <<job, own>>
    BY <1>10 DEF Stop
  <2> QED
    BY <2>1, NodeJobs, ReturnEffect DEF OwnIsJob, CallStates
<1>11. CASE ClaimWorkReward
  <2> DEFINE j == [kind |-> "claim", acc |-> Self]
  <2>1. j \in Job /\ j.kind # "credit" /\ Send(Node, j) /\ Node \in Callers
    BY <1>11, NodeJobs DEF ClaimWorkReward, TypeOK, Callers
  <2> HIDE DEF j
  <2>2. own'[Node] \in Tx /\ own'[Node].kind = job'[Node].kind /\ own'[Node].acc = job'[Node].acc
    BY <2>1, SendEffect
  <2>3. \A d \in Callers \ {Node} : job'[d] = job[d] /\ st'[d] = st[d] /\ own'[d] = own[d]
    BY <2>1, SendEffect
  <2> QED
    BY <2>2, <2>3 DEF OwnIsJob
<1> QED
  BY <1>1, <1>2, <1>3, <1>4, <1>5, <1>6, <1>7, <1>8, <1>9, <1>10, <1>11 DEF
     Next, Caller, Other, Chain, Program, Check, NextTerm, Mine, Revert,
     StartRegistered, Registered, RegisterFails, StartServer, Tick,
     ClaimRefused, ClaimReturns, CheckSignature, QueryCacheOrder,
     QueryCurrencyTerm, ClaimOrder, CheckFails, vars, callVars, txVars,
     chainVars, nodeVars, checkVars

\* A success stays explained while the call keeps its transaction.
LEMMA KeepsConfirmed ==
    ASSUME ConfirmedOrMistaken, mined \subseteq mined',
           \A d \in Callers : st'[d] = "ok" =>
               st[d] = "ok" /\ job'[d] = job[d] /\ own'[d] = own[d]
    PROVE  ConfirmedOrMistaken'
BY DEF ConfirmedOrMistaken

\* The log that ends a call is the own one or a different one of the awaited
\* kind; for an exit it is never the own one.
LEMMA ConfirmedNext == TypeOK /\ FeedIsMined /\ OwnIsJob /\
    ConfirmedOrMistaken /\ [Next]_vars => ConfirmedOrMistaken'
<1> SUFFICES ASSUME TypeOK, FeedIsMined, OwnIsJob, ConfirmedOrMistaken,
                    [Next]_vars PROVE ConfirmedOrMistaken'
  OBVIOUS
<1>1. CASE UNCHANGED <<job, st, own, mined>>
  BY <1>1 DEF ConfirmedOrMistaken
<1>2. ASSUME NEW c \in Callers, Subscribe(c) PROVE ConfirmedOrMistaken'
  <2>1. UNCHANGED <<job, own, mined>> /\ \A d \in Callers : st'[d] = "ok" => st[d] = "ok"
    BY <1>2 DEF TypeOK, chainVars, Subscribe
  <2> QED
    BY <2>1, KeepsConfirmed
<1>3. ASSUME NEW c \in Callers, ReadLog(c) PROVE ConfirmedOrMistaken'
  <2>1. feed[c] # <<>> /\ st[c] = "listen" /\ UNCHANGED <<job, own, mined>>
    BY <1>3 DEF ReadLog, chainVars
  <2>2. CASE st' = st
    BY <2>1, <2>2, KeepsConfirmed
  <2>3. CASE Matches(job[c], Head(feed[c])) /\ Return(c, "ok")
    <3> DEFINE log == Head(feed[c])
    <3>1. log \in mined /\ log.kind = Awaited(job[c].kind) /\ log.acc = job[c].acc
      BY <2>1, <2>3, ReadNext DEF Matches
    <3>2. own[c].kind = job[c].kind
      BY <2>1 DEF OwnIsJob
    <3>3. \A d \in Callers \ {c} : st'[d] = st[d]
      BY <2>3, ReturnEffect DEF CallStates
    <3> HIDE DEF log
    <3>4. CASE log = own[c]
      <4>1. job[c].kind # "exit"
        BY <3>1, <3>2, <3>4 DEF Awaited
      <4> QED
        BY <2>1, <3>1, <3>3, <3>4, <4>1 DEF ConfirmedOrMistaken
    <3>5. CASE log # own[c]
      BY <2>1, <3>1, <3>3, <3>5 DEF ConfirmedOrMistaken
    <3> QED
      BY <3>4, <3>5
  <2> QED
    BY <1>3, <2>2, <2>3 DEF ReadLog
<1>4. ASSUME NEW c \in Callers, Timeout(c) PROVE ConfirmedOrMistaken'
  <2>1. Return(c, "failed") /\ UNCHANGED <<job, own, mined>>
    BY <1>4 DEF Timeout, chainVars
  <2> QED
    BY <2>1, ReturnEffect, KeepsConfirmed DEF CallStates
<1>5. ASSUME NEW c \in Callers, SubscriptionFails(c) PROVE ConfirmedOrMistaken'
  <2>1. Return(c, "failed") /\ UNCHANGED <<job, own, mined>>
    BY <1>5 DEF SubscriptionFails, chainVars
  <2> QED
    BY <2>1, ReturnEffect, KeepsConfirmed DEF CallStates
<1>6. ASSUME NEW c \in Calls, Call(c) PROVE ConfirmedOrMistaken'
  <2> DEFINE j == job[c]
  <2>1. j \in Job /\ j.kind # "credit" /\ Send(c, j) /\ c \in Callers
    BY <1>6, NodeJobs DEF Call, TypeOK, Callers
  <2> HIDE DEF j
  <2>2. st'[c] = "sent" /\ mined' = mined
    BY <1>6, <2>1, SendEffect DEF Call, chainVars
  <2>3. \A d \in Callers \ {c} : job'[d] = job[d] /\ st'[d] = st[d] /\ own'[d] = own[d]
    BY <2>1, SendEffect
  <2> QED
    BY <2>2, <2>3, KeepsConfirmed
<1>7. ASSUME NEW c \in Calls, CallFails(c) PROVE ConfirmedOrMistaken'
  <2>1. UNCHANGED <<job, own, mined>> /\ \A d \in Callers : st'[d] = "ok" => st[d] = "ok"
    BY <1>7 DEF TypeOK, chainVars, CallFails, Callers
  <2> QED
    BY <2>1, KeepsConfirmed
<1>8. ASSUME NEW c \in Calls, CreateCreditOrder(c) PROVE ConfirmedOrMistaken'
  <2>1. UNCHANGED <<job, own, mined>> /\ \A d \in Callers : st'[d] = "ok" => st[d] = "ok"
    BY <1>8 DEF TypeOK, chainVars, CreateCreditOrder, Callers
  <2> QED
    BY <2>1, KeepsConfirmed
<1>9. ASSUME NEW t \in pool, Mine(t) PROVE ConfirmedOrMistaken'
  <2>1. UNCHANGED <<job, st, own>> /\ mined \subseteq mined'
    BY <1>9 DEF Mine
  <2> QED
    BY <2>1, KeepsConfirmed
<1>10. CASE StartRegisters
  <2> DEFINE j == [kind |-> "register", acc |-> Self]
  <2>1. j \in Job /\ j.kind # "credit" /\ Send(Node, j) /\ Node \in Callers
    BY <1>10, NodeJobs DEF StartRegisters, TypeOK, Callers
  <2> HIDE DEF j
  <2>2. st'[Node] = "sent" /\ mined' = mined
    BY <1>10, <2>1, SendEffect DEF StartRegisters, chainVars
  <2>3. \A d \in Callers \ {Node} : job'[d] = job[d] /\ st'[d] = st[d] /\ own'[d] = own[d]
    BY <2>1, SendEffect
  <2> QED
    BY <2>2, <2>3, KeepsConfirmed
<1>11. CASE Stop
  <2>1. /\ Return(Node, IF st[Node] = "idle" THEN "idle" ELSE "failed")
        /\ UNCHANGED <<job, own, mined>>
    BY <1>11 DEF Stop, chainVars
  <2> QED
    BY <2>1, NodeJobs, ReturnEffect, KeepsConfirmed DEF CallStates
<1>12. CASE ClaimWorkReward
  <2> DEFINE j == [kind |-> "claim", acc |-> Self]
  <2>1. j \in Job /\ j.kind # "credit" /\ Send(Node, j) /\ Node \in Callers
    BY <1>12, NodeJobs DEF ClaimWorkReward, TypeOK, Callers
  <2> HIDE DEF j
  <2>2. st'[Node] = "sent" /\ mined' = mined
    BY <1>12, <2>1, SendEffect DEF ClaimWorkReward, chainVars
  <2>3. \A d \in Callers \ {Node} : job'[d] = job[d] /\ st'[d] = st[d] /\ own'[d] = own[d]
    BY <2>1, SendEffect
  <2> QED
    BY <2>2, <2>3, KeepsConfirmed
<1> QED
  BY <1>1, <1>2, <1>3, <1>4, <1>5, <1>6, <1>7, <1>8, <1>9, <1>10, <1>11, <1>12
     DEF Next, Caller, Other, Chain, Program, Check, NextTerm, Revert,
     StartRegistered, Registered, RegisterFails, StartServer, Tick,
     ClaimRefused, ClaimReturns, CheckSignature, QueryCacheOrder,
     QueryCurrencyTerm, ClaimOrder, CheckFails, vars, callVars, txVars,
     chainVars, nodeVars, checkVars

\* While the node registers, its call is a registration.
LEMMA NodeNext == TypeOK /\ NodeRegisters /\ [Next]_vars => NodeRegisters'
<1> SUFFICES ASSUME TypeOK, NodeRegisters, [Next]_vars PROVE NodeRegisters'
  OBVIOUS
<1>1. CASE UNCHANGED <<job, node>>
  BY <1>1 DEF NodeRegisters
<1>2. ASSUME NEW c \in Calls, Call(c) PROVE NodeRegisters'
  <2> DEFINE j == job[c]
  <2>1. j \in Job /\ j.kind # "credit" /\ Send(c, j) /\ c \in Callers
    BY <1>2, NodeJobs DEF Call, TypeOK, Callers
  <2> HIDE DEF j
  <2>2. c # Node /\ Node \in Callers /\ node' = node
    BY <1>2, OrdersAssumption DEF Call, nodeVars, Callers
  <2>3. job'[Node] = job[Node]
    BY <2>1, <2>2, SendEffect
  <2> QED
    BY <2>2, <2>3 DEF NodeRegisters
<1>3. CASE StartRegistered
  BY <1>3 DEF NodeRegisters, StartRegistered
<1>4. CASE StartRegisters
  <2> DEFINE j == [kind |-> "register", acc |-> Self]
  <2>1. j \in Job /\ j.kind # "credit" /\ Send(Node, j) /\ Node \in Callers
    BY <1>4, NodeJobs DEF StartRegisters, TypeOK, Callers
  <2> HIDE DEF j
  <2>2. job'[Node] = j
    BY <2>1, SendEffect
  <2> QED
    BY <2>2 DEF NodeRegisters, j
<1>5. CASE Registered
  BY <1>5 DEF NodeRegisters, Registered
<1>6. CASE RegisterFails
  BY <1>6 DEF NodeRegisters, RegisterFails
<1>7. CASE StartServer
  BY <1>7 DEF NodeRegisters, StartServer
<1>8. CASE Stop
  BY <1>8 DEF NodeRegisters, Stop
<1>9. CASE Tick
  BY <1>9 DEF NodeRegisters, Tick
<1>10. CASE ClaimWorkReward
  BY <1>10 DEF NodeRegisters, ClaimWorkReward
<1>11. CASE ClaimRefused
  BY <1>11 DEF NodeRegisters, ClaimRefused
<1>12. CASE ClaimReturns
  BY <1>12 DEF NodeRegisters, ClaimReturns
<1> QED
  BY <1>1, <1>2, <1>3, <1>4, <1>5, <1>6, <1>7, <1>8, <1>9, <1>10, <1>11, <1>12
     DEF Next, Caller, Other, Chain, Program, Check, Subscribe, ReadLog,
     Timeout, SubscriptionFails, CallFails, CreateCreditOrder, NextTerm, Mine,
     Revert, CheckSignature, QueryCacheOrder, QueryCurrencyTerm, ClaimOrder,
     CheckFails, vars, callVars, txVars, chainVars, nodeVars, checkVars

\* A transaction that takes a record away is an exit.
LEMMA RecordsNext == TypeOK /\ RecordsStay /\ [Next]_vars => RecordsStay'
<1> SUFFICES ASSUME TypeOK, RecordsStay, [Next]_vars PROVE RecordsStay'
  OBVIOUS
<1>1. CASE UNCHANGED <<mined, registered>>
  BY <1>1 DEF RecordsStay
<1>2. ASSUME NEW t \in pool, Mine(t) PROVE RecordsStay'
  <2>1. mined' = mined \cup {t}
    BY <1>2 DEF Mine
  <2>2. registered' = IF t.kind = "register" THEN registered \cup {t.acc}
                      ELSE IF t.kind = "exit" THEN registered \ {t.acc} ELSE registered
    BY <1>2 DEF Mine
  <2> QED
    BY <2>1, <2>2 DEF RecordsStay
<1> QED
  BY <1>1, <1>2 DEF Next, Caller, Other, Chain, Program, Check, Subscribe,
     ReadLog, Timeout, SubscriptionFails, Call, CallFails, CreateCreditOrder,
     NextTerm, Revert, StartRegistered, StartRegisters, Registered,
     RegisterFails, StartServer, Stop, Tick, ClaimWorkReward, ClaimRefused,
     ClaimReturns, CheckSignature, QueryCacheOrder, QueryCurrencyTerm,
     ClaimOrder, CheckFails, vars, callVars, txVars, chainVars, nodeVars,
     checkVars

\* A registration that succeeded, even by mistake, was mined.
LEMMA UpNext == TypeOK /\ OwnIsJob /\ ConfirmedOrMistaken /\ NodeRegisters /\
    RecordsStay /\ UpIsRegistered /\ [Next]_vars => UpIsRegistered'
<1> SUFFICES ASSUME TypeOK, OwnIsJob, ConfirmedOrMistaken, NodeRegisters,
                    RecordsStay, UpIsRegistered, [Next]_vars PROVE
                    UpIsRegistered'
  OBVIOUS
<1>1. CASE UNCHANGED <<mined, registered, node>>
  BY <1>1 DEF UpIsRegistered
<1>2. ASSUME NEW t \in pool, Mine(t) PROVE UpIsRegistered'
  <2>1. mined' = mined \cup {t} /\ node' = node
    BY <1>2 DEF Mine, nodeVars
  <2>2. registered' = IF t.kind = "register" THEN registered \cup {t.acc}
                      ELSE IF t.kind = "exit" THEN registered \ {t.acc} ELSE registered
    BY <1>2 DEF Mine
  <2> QED
    BY <2>1, <2>2 DEF UpIsRegistered
<1>3. CASE StartRegistered
  BY <1>3 DEF UpIsRegistered, StartRegistered, chainVars
<1>4. CASE StartRegisters
  BY <1>4 DEF UpIsRegistered, StartRegisters, chainVars
<1>5. CASE Registered
  <2>1. st[Node] = "ok" /\ Node \in Callers /\ UNCHANGED <<mined, registered>>
    BY <1>5, NodeJobs DEF Registered, chainVars
  <2>2. job[Node].kind = "register" /\ job[Node].acc = Self
    BY <1>5 DEF Registered, NodeRegisters
  <2>3. own[Node].kind = "register" /\ own[Node].acc = Self
    BY <2>1, <2>2 DEF OwnIsJob
  <2>4. PICK t \in mined : t.kind = "register" /\ t.acc = Self
    BY <2>1, <2>2, <2>3 DEF ConfirmedOrMistaken, Awaited
  <2> QED
    BY <2>1, <2>4 DEF RecordsStay, UpIsRegistered
<1>6. CASE RegisterFails
  BY <1>6 DEF UpIsRegistered, RegisterFails, chainVars
<1>7. CASE StartServer
  BY <1>7 DEF UpIsRegistered, StartServer, chainVars
<1>8. CASE Stop
  BY <1>8 DEF UpIsRegistered, Stop, chainVars
<1>9. CASE Tick
  BY <1>9 DEF UpIsRegistered, Tick, chainVars
<1>10. CASE ClaimWorkReward
  BY <1>10 DEF UpIsRegistered, ClaimWorkReward, chainVars
<1>11. CASE ClaimRefused
  BY <1>11 DEF UpIsRegistered, ClaimRefused, chainVars
<1>12. CASE ClaimReturns
  BY <1>12 DEF UpIsRegistered, ClaimReturns, chainVars
<1> QED
  BY <1>1, <1>2, <1>3, <1>4, <1>5, <1>6, <1>7, <1>8, <1>9, <1>10, <1>11, <1>12
     DEF Next, Caller, Other, Chain, Program, Check, Subscribe, ReadLog,
     Timeout, SubscriptionFails, Call, CallFails, CreateCreditOrder, NextTerm,
     Revert, CheckSignature, QueryCacheOrder, QueryCurrencyTerm, ClaimOrder,
     CheckFails, vars, callVars, txVars, chainVars, nodeVars, checkVars

\* A transaction takes the next id, and leaves the pool when it is mined.
LEMMA IdsNext == TypeOK /\ IdsUnique /\ [Next]_vars => IdsUnique'
<1> SUFFICES ASSUME TypeOK, IdsUnique, [Next]_vars PROVE IdsUnique'
  OBVIOUS
<1>1. CASE UNCHANGED <<sent, pool, mined>>
  BY <1>1 DEF IdsUnique
<1>2. ASSUME NEW k, NEW a, Submit(k, a), mined' = mined PROVE IdsUnique'
  <2> DEFINE t == [id |-> sent + 1, kind |-> k, acc |-> a]
  <2>1. sent \in Nat /\ sent' = sent + 1 /\ pool' = pool \cup {t} /\ t.id = sent + 1
    BY <1>2 DEF Submit, TypeOK
  <2> HIDE DEF t
  <2>2. \A u \in pool \cup mined : u.id \in Nat /\ u.id <= sent
    BY DEF IdsUnique, TypeOK, Tx
  <2>3. \A u \in pool \cup mined : u.id # t.id /\ u # t /\ u.id <= sent'
    BY <2>1, <2>2
  <2> QED
    BY <1>2, <2>1, <2>3 DEF IdsUnique
<1>3. ASSUME NEW t \in pool, Mine(t) PROVE IdsUnique'
  <2>1. pool' = pool \ {t} /\ mined' = mined \cup {t} /\ sent' = sent
    BY <1>3 DEF Mine
  <2> QED
    BY <2>1 DEF IdsUnique
<1>4. ASSUME NEW t \in pool, Revert(t) PROVE IdsUnique'
  <2>1. pool' = pool \ {t} /\ mined' = mined /\ sent' = sent
    BY <1>4 DEF Revert, chainVars
  <2> QED
    BY <2>1 DEF IdsUnique
<1> QED
  BY <1>1, <1>2, <1>3, <1>4 DEF Next, Caller, Other, Chain, Program, Check,
     Subscribe, ReadLog, Timeout, SubscriptionFails, Call, CallFails,
     CreateCreditOrder, NextTerm, StartRegistered, StartRegisters, Send,
     Registered, RegisterFails, StartServer, Stop, Tick, ClaimWorkReward,
     ClaimRefused, ClaimReturns, CheckSignature, QueryCacheOrder,
     QueryCurrencyTerm, ClaimOrder, CheckFails, vars, callVars, txVars,
     chainVars, nodeVars, checkVars

\* What is mined later does not change the term of an order.
LEMMA OrderTermKept ==
    ASSUME TypeOK, CheckTypeOK, IdsUnique, NEW t \in pool, Mine(t), NEW u \in mined
    PROVE  orderTerm'[u.id] = orderTerm[u.id]
<1>1. u.id # t.id
  BY DEF IdsUnique
<1> QED
  BY <1>1 DEF Mine, CheckTypeOK

\* One step keeps the types of a check.
LEMMA CheckTypeNext == TypeOK /\ CheckTypeOK /\ [Next]_vars => CheckTypeOK'
<1> SUFFICES ASSUME TypeOK, CheckTypeOK, [Next]_vars PROVE CheckTypeOK'
  OBVIOUS
<1>1. CASE UNCHANGED <<orderTerm, check>>
  BY <1>1 DEF CheckTypeOK
<1>2. ASSUME NEW t \in pool, Mine(t) PROVE CheckTypeOK'
  <2>1. check' = check /\ t.id \in 1 .. MaxTx /\ term \in Nat
    BY <1>2 DEF Mine, checkVars, TypeOK, Tx
  <2> QED
    BY <1>2, <2>1 DEF Mine, CheckTypeOK
<1>3. CASE Stop
  BY <1>3, OrdersAssumption DEF CheckTypeOK, Stop, NoCheck, chainVars
<1>4. ASSUME NEW o \in 1 .. MaxTx, NEW valid \in BOOLEAN, CheckSignature(o, valid)
      PROVE  CheckTypeOK'
  BY <1>4, OrdersAssumption DEF TypeOK, CheckTypeOK, CheckSignature, NoCheck, chainVars
<1>5. CASE QueryCacheOrder
  <2>1. PICK t \in mined : t.id = check.order
    BY <1>5 DEF QueryCacheOrder, PaidToSelf
  <2>2. check.order \in 1 .. MaxTx
    BY <2>1 DEF TypeOK, Tx
  <2>3. orderTerm[check.order] \in Nat
    BY <2>2 DEF CheckTypeOK
  <2>4. UNCHANGED orderTerm
    BY <1>5 DEF QueryCacheOrder, chainVars
  <2> QED
    BY <1>5, <2>3, <2>4 DEF QueryCacheOrder, CheckTypeOK
<1>6. CASE QueryCurrencyTerm
  BY <1>6, OrdersAssumption DEF CheckTypeOK, QueryCurrencyTerm, NoCheck, chainVars
<1>7. CASE ClaimOrder
  BY <1>7, OrdersAssumption DEF CheckTypeOK, ClaimOrder, NoCheck, chainVars
<1>8. CASE CheckFails
  BY <1>8, OrdersAssumption DEF CheckTypeOK, CheckFails, NoCheck, chainVars
<1> QED
  BY <1>1, <1>2, <1>3, <1>4, <1>5, <1>6, <1>7, <1>8 DEF Next, Caller, Other,
     Chain, Program, Check, Subscribe, ReadLog, Timeout, SubscriptionFails,
     Call, CallFails, CreateCreditOrder, NextTerm, Revert, StartRegistered,
     StartRegisters, Registered, RegisterFails, StartServer, Tick,
     ClaimWorkReward, ClaimRefused, ClaimReturns, vars, callVars, txVars,
     chainVars, nodeVars, checkVars

\* A mined order stays mined, with its term.
LEMMA CheckedNext == TypeOK /\ IdsUnique /\ CheckTypeOK /\ CheckedWasPaid /\
    [Next]_vars => CheckedWasPaid'
<1> SUFFICES ASSUME TypeOK, IdsUnique, CheckTypeOK, CheckedWasPaid, [Next]_vars
             PROVE  CheckedWasPaid'
  OBVIOUS
<1>1. CASE UNCHANGED <<mined, term, orderTerm, check>>
  BY <1>1 DEF CheckedWasPaid, PaidToSelf
<1>2. ASSUME NEW t \in pool, Mine(t) PROVE CheckedWasPaid'
  <2>1. mined \subseteq mined' /\ check' = check /\ term' = term
    BY <1>2 DEF Mine, checkVars
  <2>2. \A u \in mined : orderTerm'[u.id] = orderTerm[u.id]
    BY <1>2, OrderTermKept
  <2>3. PaidToSelf(check.order) =>
           PaidToSelf(check.order)' /\ orderTerm'[check.order] = orderTerm[check.order]
    BY <2>1, <2>2 DEF PaidToSelf
  <2> QED
    BY <2>1, <2>3 DEF CheckedWasPaid
<1>3. CASE NextTerm
  <2>1. /\ term \in Nat /\ term' = term + 1 /\ check.began \in Nat
        /\ UNCHANGED <<mined, orderTerm, check>>
    BY <1>3 DEF NextTerm, TypeOK, CheckTypeOK, checkVars
  <2>2. check.began <= term'
    BY <2>1 DEF CheckedWasPaid
  <2> QED
    BY <2>1, <2>2 DEF CheckedWasPaid, PaidToSelf
<1>4. CASE check' = NoCheck /\ term' = term
  BY <1>4 DEF CheckedWasPaid, NoCheck, TypeOK
<1>5. ASSUME NEW o \in 1 .. MaxTx, NEW valid \in BOOLEAN, CheckSignature(o, valid)
      PROVE  CheckedWasPaid'
  BY <1>5 DEF CheckedWasPaid, CheckSignature, chainVars, TypeOK
<1>6. CASE QueryCacheOrder
  <2>1. /\ PaidToSelf(check.order) /\ check.began <= term
        /\ UNCHANGED <<mined, term, orderTerm>>
    BY <1>6 DEF QueryCacheOrder, chainVars, CheckedWasPaid
  <2>2. /\ check'.order = check.order /\ check'.at = "term" /\ check'.began = check.began
        /\ check'.term = orderTerm[check.order]
    BY <1>6 DEF QueryCacheOrder, CheckTypeOK
  <2> QED
    BY <2>1, <2>2 DEF CheckedWasPaid, PaidToSelf
<1>7. CASE QueryCurrencyTerm
  <2>1. /\ PaidToSelf(check.order) /\ check.term = orderTerm[check.order]
        /\ check.began <= term /\ term <= check.term + Grace
        /\ UNCHANGED <<mined, term, orderTerm>>
    BY <1>7 DEF QueryCurrencyTerm, chainVars, CheckedWasPaid
  <2>2. check.began <= check.term + Grace
    BY <2>1, OrdersAssumption DEF TypeOK, CheckTypeOK
  <2>3. /\ check'.order = check.order /\ check'.began = check.began
        /\ check'.term = check.term
    BY <1>7 DEF QueryCurrencyTerm, CheckTypeOK
  <2> QED
    BY <2>1, <2>2, <2>3 DEF CheckedWasPaid, PaidToSelf
<1> QED
  BY <1>1, <1>2, <1>3, <1>4, <1>5, <1>6, <1>7 DEF Next, Caller, Other,
     Chain, Program, Check, Subscribe, ReadLog, Timeout, SubscriptionFails,
     Call, CallFails, CreateCreditOrder, Revert, StartRegistered, Stop,
     StartRegisters, Registered, RegisterFails, StartServer, Tick,
     ClaimWorkReward, ClaimRefused, ClaimReturns, ClaimOrder, CheckFails, vars,
     callVars, txVars, chainVars, nodeVars, checkVars

\* Only a checked order is credited, and its term stays what it was.
LEMMA CreditedNext == TypeOK /\ IdsUnique /\ CheckTypeOK /\ CheckedWasPaid /\
    CreditedWasPaid /\ [Next]_vars => CreditedWasPaid'
<1> SUFFICES ASSUME TypeOK, IdsUnique, CheckTypeOK, CheckedWasPaid,
                    CreditedWasPaid, [Next]_vars
             PROVE  CreditedWasPaid'
  OBVIOUS
<1>1. CASE UNCHANGED <<mined, orderTerm, credited>>
  BY <1>1 DEF CreditedWasPaid
<1>2. ASSUME NEW t \in pool, Mine(t) PROVE CreditedWasPaid'
  <2>1. mined \subseteq mined' /\ credited' = credited
    BY <1>2 DEF Mine, checkVars
  <2>2. \A u \in mined : orderTerm'[u.id] = orderTerm[u.id]
    BY <1>2, OrderTermKept
  <2> QED
    BY <2>1, <2>2 DEF CreditedWasPaid
<1>3. CASE ClaimOrder
  <2> DEFINE r == [order |-> check.order, began |-> check.began]
  <2>1. /\ PaidToSelf(check.order) /\ check.began <= orderTerm[check.order] + Grace
        /\ UNCHANGED <<mined, orderTerm>> /\ credited' = credited \cup {r}
    BY <1>3 DEF ClaimOrder, chainVars, CheckedWasPaid
  <2>2. r.order = check.order /\ r.began = check.began
    OBVIOUS
  <2> HIDE DEF r
  <2> QED
    BY <2>1, <2>2 DEF CreditedWasPaid, PaidToSelf
<1> QED
  BY <1>1, <1>2, <1>3 DEF Next, Caller, Other, Chain, Program, Check,
     Subscribe, ReadLog, Timeout, SubscriptionFails, Call, CallFails,
     CreateCreditOrder, NextTerm, Revert, StartRegistered, StartRegisters,
     Registered, RegisterFails, StartServer, Stop, Tick, ClaimWorkReward,
     ClaimRefused, ClaimReturns, CheckSignature, QueryCacheOrder,
     QueryCurrencyTerm, CheckFails, vars, callVars, txVars, chainVars,
     nodeVars, checkVars

\* The inductive invariant holds in every state.
THEOREM Invariance == Spec => []IInv
<1>1. IInv /\ [Next]_vars => IInv'
  BY TypeNext, FeedNext, OwnNext, ConfirmedNext, NodeNext, RecordsNext, UpNext,
     IdsNext, CheckTypeNext, CheckedNext, CreditedNext DEF IInv
<1> QED
  BY <1>1, InitIInv, PTL DEF Spec

\* Whatever is mined, reverted or missed meanwhile, CreateCacheOrder,
\* RegisterNode and ClaimWorkReward report success only with their own
\* transaction mined or ended by another one of their kind and account, and
\* ExitNetwork only by the claim of another call.
THEOREM SuccessExplained == Spec => []ConfirmedOrMistaken
<1>1. IInv => ConfirmedOrMistaken
  BY DEF IInv
<1> QED
  BY <1>1, Invariance, PTL

\* The node's program runs past its registration only with a record of the
\* node in the contract, or one that an exit has removed: a registration that
\* takes the log of another one for its own does no harm.
THEOREM NodeIsRegistered == Spec => []UpIsRegistered
<1>1. IInv => UpIsRegistered
  BY DEF IInv
<1> QED
  BY <1>1, Invariance, PTL

\* CheckCreditOrder returns value only for an order that was paid to this node
\* and was accepted when the check began, whatever the contract does between
\* its queries.
THEOREM CreditIsPaid == Spec => []CreditedWasPaid
<1>1. IInv => CreditedWasPaid
  BY DEF IInv
<1> QED
  BY <1>1, Invariance, PTL

=============================================================================
