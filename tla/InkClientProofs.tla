--------------------------- MODULE InkClientProofs ---------------------------
(***************************************************************************)
(* Proofs about InkClient, for any number of goroutines that call the      *)
(* client and any number of transactions.                                  *)
(***************************************************************************)
EXTENDS InkClient, FiniteSetTheorems, TLAPS

Reconnecting == {"reconnect", "reconnect again"}

\* Places that only SubmitExtrinsic comes to.
SubmitPlaces == {"lock", "again", "reconnect again", "account", "send", "retry",
                 "wait", "events"}

Places == SubmitPlaces \cup {"idle", "health", "reconnect", "read", "done"}
Results == {"none", "ok", "err", "silent", "crash", "mistaken"}

CallRecord == [op : Ops \cup {"none"}, at : Places, nonce : Nat, result : Results]

TypeOK ==
    /\ api \in {"nil", "live"}
    /\ call \in [Calls -> CallRecord]
    /\ nonce \in Nat \ {0}
    /\ lock \subseteq Calls
    /\ lone \subseteq Calls

\* What the place of a call says of it: only submissions come to
\* SubmitPlaces, and only a call that has returned has a result.
PlaceKnown ==
    \A c \in Calls :
        /\ call[c].at \in SubmitPlaces => call[c].op = "submit"
        /\ call[c].at = "read" => call[c].op # "submit"
        /\ call[c].at = "idle" => call[c].op = "none"
        /\ call[c].result # "none" => call[c].at = "done"

\* The call is between the lock and the return of SubmitExtrinsic.
Submitting(c) == call[c].op = "submit" /\ call[c].at \notin {"lock", "done"}

\* The lock is held by the submission that is under way, if there is one, and
\* by nobody else: through failed connections, recovered panics and timeouts
\* no second submission reads the nonce or sends, and no return keeps the lock.
LockIsHeld ==
    /\ \A c \in Calls : Submitting(c) <=> c \in lock
    /\ \A c, d \in lock : c = d

\* Pending transactions have the next nonce or the one after it, because the
\* nonce a submission has read is never ahead of the chain's.
NoncesNear ==
    /\ \A n \in pool : n = nonce \/ n = nonce + 1
    /\ \A c \in Calls : call[c].at \in {"send", "retry"} => call[c].nonce <= nonce

\* A call whose transaction was accepted.
Sent(c) == call[c].at \in {"wait", "events"} \/ Told(c)

\* The transaction of such a call is pending or mined, mined if the call has
\* seen it in a block, and it is nobody else's.
SentOnce ==
    \A c \in Calls :
        /\ Sent(c) => call[c].nonce \in pool \/ call[c].nonce < nonce
        /\ call[c].at = "events" \/ Told(c) => call[c].nonce < nonce
        /\ \A d \in Calls \ {c} : Sent(c) /\ Sent(d) => call[d].nonce # call[c].nonce

Running(c) == call[c].at \notin {"idle", "done"}

\* A call that runs and that none has overlapped runs alone.
LoneRunsAlone ==
    \A c \in lone, d \in Calls : Running(c) /\ Running(d) => c = d

\* There is no connection only while a call connects again, or after that has
\* failed.
NilExplained ==
    api = "nil" => refused \/ \E d \in Calls : call[d].at \in Reconnecting

IInv ==
    /\ TypeOK
    /\ PlaceKnown
    /\ LockIsHeld
    /\ NoncesNear
    /\ SentOnce
    /\ LoneRunsAlone
    /\ NilExplained
    /\ SilentExplained

-----------------------------------------------------------------------------
(* What a step of a call does, field by field. *)

\* The call of c becomes r, and no other call changes.
Becomes(c, r) ==
    /\ r \in CallRecord
    /\ call' \in [Calls -> CallRecord]
    /\ call'[c] = r
    /\ \A d \in Calls \ {c} : call'[d] = call[d]

\* An update of one call.
LEMMA Updated ==
    ASSUME TypeOK, NEW c \in Calls, NEW r \in CallRecord,
           call' = [call EXCEPT ![c] = r]
    PROVE  Becomes(c, r)
BY DEF TypeOK, Becomes

\* GoesTo changes the place of the call and nothing else of it.
LEMMA Goes ==
    ASSUME TypeOK, NEW c \in Calls, NEW at \in Places, GoesTo(c, at)
    PROVE  /\ Becomes(c, call'[c])
           /\ call'[c].at = at /\ call'[c].op = call[c].op
           /\ call'[c].nonce = call[c].nonce /\ call'[c].result = call[c].result
<1> DEFINE r == [call[c] EXCEPT !.at = at]
<1>1. call[c] \in CallRecord
  BY DEF TypeOK
<1>2. call' = [call EXCEPT ![c] = r]
  BY DEF GoesTo
<1>3. /\ r \in CallRecord
      /\ r.at = at /\ r.op = call[c].op
      /\ r.nonce = call[c].nonce /\ r.result = call[c].result
  BY ONLY <1>1, at \in Places DEF CallRecord
<1> HIDE DEF r
<1>4. Becomes(c, r)
  BY <1>2, <1>3, Updated
<1> QED
  BY <1>3, <1>4 DEF Becomes

\* Returns sets the place and the result.
LEMMA Ends ==
    ASSUME TypeOK, NEW c \in Calls, NEW res \in Results, Returns(c, res)
    PROVE  /\ Becomes(c, call'[c])
           /\ call'[c].at = "done" /\ call'[c].op = call[c].op
           /\ call'[c].nonce = call[c].nonce /\ call'[c].result = res
<1> DEFINE r == [call[c] EXCEPT !.at = "done", !.result = res]
<1>1. call[c] \in CallRecord
  BY DEF TypeOK
<1>2. call' = [call EXCEPT ![c] = r]
  BY DEF Returns
<1>3. /\ r \in CallRecord
      /\ r.at = "done" /\ r.op = call[c].op
      /\ r.nonce = call[c].nonce /\ r.result = res
  BY ONLY <1>1, res \in Results DEF CallRecord, Places
<1> HIDE DEF r
<1>4. Becomes(c, r)
  BY <1>2, <1>3, Updated
<1> QED
  BY <1>3, <1>4 DEF Becomes

\* A step that reads the nonce, or sends with one, sets the place and the nonce.
LEMMA Signs ==
    ASSUME TypeOK, NEW c \in Calls, NEW at \in Places, NEW n \in Nat,
           call' = [call EXCEPT ![c].at = at, ![c].nonce = n]
    PROVE  /\ Becomes(c, call'[c])
           /\ call'[c].at = at /\ call'[c].op = call[c].op
           /\ call'[c].nonce = n /\ call'[c].result = call[c].result
<1> DEFINE r == [call[c] EXCEPT !.at = at, !.nonce = n]
<1>1. call[c] \in CallRecord
  BY DEF TypeOK
<1>2. call' = [call EXCEPT ![c] = r]
  OBVIOUS
<1>3. /\ r \in CallRecord
      /\ r.at = at /\ r.op = call[c].op
      /\ r.nonce = n /\ r.result = call[c].result
  BY ONLY <1>1, at \in Places, n \in Nat DEF CallRecord
<1> HIDE DEF r
<1>4. Becomes(c, r)
  BY <1>2, <1>3, Updated
<1> QED
  BY <1>3, <1>4 DEF Becomes

-----------------------------------------------------------------------------
(* The five things a step of a call can do, besides beginning.             *)

\* It goes to another place inside the call.
Moves(c) ==
    /\ UNCHANGED <<nonce, pool, lock, lone>>
    /\ Becomes(c, call'[c])
    /\ call'[c].op = call[c].op
    /\ call'[c].nonce = call[c].nonce /\ call'[c].result = call[c].result
    /\ call[c].at \notin {"idle", "lock", "events", "done"}
    /\ call'[c].at \notin {"idle", "lock", "send", "wait", "done"}
    /\ call'[c].at \in SubmitPlaces => call[c].op = "submit"
    /\ call'[c].at = "read" => call[c].op # "submit"
    /\ call'[c].at = "retry" => call[c].at = "send"
    /\ call'[c].at = "events" <=> call[c].at = "wait"
    /\ call'[c].at = "events" => call[c].nonce < nonce

\* It returns.  A submission says success only from "events".
Finishes(c) ==
    /\ UNCHANGED <<nonce, pool, lone>>
    /\ lock' = lock \ {c}
    /\ Becomes(c, call'[c])
    /\ call'[c].op = call[c].op
    /\ call'[c].nonce = call[c].nonce
    /\ call[c].at \notin {"idle", "lock", "done"}
    /\ call'[c].at = "done"
    /\ call'[c].result # "none"
    /\ Told(c)' => call[c].at = "events"
    /\ call'[c].result \in {"silent", "crash"} =>
          api = "nil" /\ call[c].at \notin Reconnecting

\* SubmitExtrinsic reads the nonce, or takes 0 from a recovered panic.
ReadsNonce(c) ==
    /\ UNCHANGED <<nonce, pool, lock, lone>>
    /\ Becomes(c, call'[c])
    /\ call'[c].op = call[c].op /\ call'[c].result = call[c].result
    /\ call[c].op = "submit"
    /\ call[c].at = "account" /\ call'[c].at = "send"
    /\ call'[c].nonce <= nonce

\* The pool accepts the transaction of the call.
Sends(c) ==
    /\ UNCHANGED <<nonce, lock, lone>>
    /\ Becomes(c, call'[c])
    /\ call'[c].op = call[c].op /\ call'[c].result = call[c].result
    /\ call[c].op = "submit"
    /\ call[c].at \in {"send", "retry"} /\ call'[c].at = "wait"
    /\ call'[c].nonce \in {call[c].nonce, call[c].nonce + 1}
    /\ call'[c].nonce >= nonce
    /\ call'[c].nonce \notin pool
    /\ pool' = pool \cup {call'[c].nonce}

\* What it does to the connection.
Connects(c) ==
    /\ api' \in {"nil", "live"}
    /\ refused => refused'
    /\ api' = "nil" => \/ refused'
                       \/ call'[c].at \in Reconnecting
                       \/ api = "nil" /\ call[c].at \notin Reconnecting

\* Every step of a call is one of these.
LEMMA StepKinds ==
    ASSUME TypeOK, PlaceKnown, NEW c \in Calls, Step(c)
    PROVE  /\ Moves(c) \/ Finishes(c) \/ ReadsNonce(c) \/ Sends(c)
           /\ Connects(c)
<1> DEFINE Goal == /\ Moves(c) \/ Finishes(c) \/ ReadsNonce(c) \/ Sends(c)
                   /\ Connects(c)
<1>0. call[c] \in CallRecord /\ api \in {"nil", "live"} /\ nonce \in Nat
  BY DEF TypeOK
<1>1. ASSUME NEW at \in {"health", "again"}, Healthy(c, at) PROVE Goal
  <2>1. After(c, at) \in {"again", "account", "read"}
    BY <1>1 DEF After
  <2>2. GoesTo(c, After(c, at))
    BY <1>1 DEF Healthy, Connected
  <2>3. After(c, at) \in Places
    BY <2>1 DEF Places, SubmitPlaces
  <2>4. /\ Becomes(c, call'[c])
        /\ call'[c].at = After(c, at) /\ call'[c].op = call[c].op
        /\ call'[c].nonce = call[c].nonce /\ call'[c].result = call[c].result
    BY <2>2, <2>3, Goes
  <2>5. After(c, at) \in SubmitPlaces => call[c].op = "submit"
    BY <1>1, <2>1 DEF After, PlaceKnown, SubmitPlaces, Healthy, Ready
  <2>6. After(c, at) = "read" => call[c].op # "submit"
    BY <1>1 DEF After
  <2>7. Moves(c)
    BY <1>1, <2>1, <2>2, <2>4, <2>5, <2>6
       DEF Moves, Healthy, Ready, GoesTo, chainVars
  <2>8. Connects(c)
    BY <1>0, <1>1, <2>7 DEF Connects, Healthy, Ready, Reconnecting
  <2> QED
    BY <2>7, <2>8
<1>2. ASSUME NEW at \in {"health", "again"}, Unhealthy(c, at) PROVE Goal
  <2> DEFINE to == IF at = "health" THEN "reconnect" ELSE "reconnect again"
  <2>1. to \in Places /\ GoesTo(c, to)
    BY <1>2 DEF Unhealthy, Places, SubmitPlaces
  <2>2. /\ Becomes(c, call'[c])
        /\ call'[c].at = to /\ call'[c].op = call[c].op
        /\ call'[c].nonce = call[c].nonce /\ call'[c].result = call[c].result
    BY <2>1, Goes
  <2>3. at = "again" => call[c].op = "submit"
    BY <1>2 DEF Unhealthy, Ready, PlaceKnown, SubmitPlaces
  <2>4. Moves(c)
    BY <1>2, <2>1, <2>2, <2>3
       DEF Moves, Unhealthy, Ready, GoesTo, chainVars, SubmitPlaces
  <2>5. Connects(c)
    BY <1>2, <2>2 DEF Connects, Unhealthy, Reconnecting
  <2> QED
    BY <2>4, <2>5
<1>3. ASSUME NEW at \in Reconnecting, NEW health \in {"health", "again"},
             at = "reconnect again" <=> health = "again",
             Reconnect(c, at, health)
      PROVE Goal
  <2>1. CASE /\ up
             /\ api' = "live"
             /\ Connected(c, health)
             /\ UNCHANGED refused
    <3>1. After(c, health) \in {"again", "account", "read"}
      BY <1>3 DEF After
    <3>2. GoesTo(c, After(c, health))
      BY <2>1 DEF Connected
    <3>3. After(c, health) \in Places
      BY <3>1 DEF Places, SubmitPlaces
    <3>4. /\ Becomes(c, call'[c])
          /\ call'[c].at = After(c, health) /\ call'[c].op = call[c].op
          /\ call'[c].nonce = call[c].nonce /\ call'[c].result = call[c].result
      BY <3>2, <3>3, Goes
    <3>5. After(c, health) \in SubmitPlaces => call[c].op = "submit"
      BY <1>3, <3>1 DEF After, PlaceKnown, SubmitPlaces, Reconnect, Ready, Reconnecting
    <3>6. After(c, health) = "read" => call[c].op # "submit"
      BY <1>3 DEF After
    <3>7. Moves(c)
      BY <1>3, <3>1, <3>2, <3>4, <3>5, <3>6
         DEF Moves, Reconnect, Ready, GoesTo, chainVars, Reconnecting
    <3>8. Connects(c)
      BY <2>1 DEF Connects
    <3> QED
      BY <3>7, <3>8
  <2>2. CASE /\ chainState' = (call[c].op = "sync" /\ chainState)
             /\ refused' = TRUE
             /\ Returns(c, "err")
             /\ UNCHANGED api
    <3>1. /\ Becomes(c, call'[c])
          /\ call'[c].at = "done" /\ call'[c].op = call[c].op
          /\ call'[c].nonce = call[c].nonce /\ call'[c].result = "err"
      BY <2>2, Ends DEF Results
    <3>2. Finishes(c)
      BY <1>3, <2>2, <3>1
         DEF Finishes, Told, Reconnect, Ready, Returns, chainVars, Reconnecting
    <3>3. Connects(c)
      BY <1>0, <2>2 DEF Connects
    <3> QED
      BY <3>2, <3>3
  <2> QED
    BY <1>3, <2>1, <2>2 DEF Reconnect
<1>4. ASSUME NEW res \in Results \ {"none"}, Returns(c, res),
             UNCHANGED <<connVars, chainVars>>,
             call[c].at \notin {"idle", "lock", "done"} \cup Reconnecting,
             res \in {"silent", "crash"} => api = "nil",
             call[c].op = "submit" /\ res \in {"ok", "mistaken"} => call[c].at = "events"
      PROVE Goal
  <2>1. /\ Becomes(c, call'[c])
        /\ call'[c].at = "done" /\ call'[c].op = call[c].op
        /\ call'[c].nonce = call[c].nonce /\ call'[c].result = res
    BY <1>4, Ends
  <2>2. Finishes(c)
    BY <1>4, <2>1 DEF Finishes, Told, Returns, chainVars
  <2>3. Connects(c)
    BY <1>0, <1>4 DEF Connects, connVars
  <2> QED
    BY <2>2, <2>3
<1>5. ASSUME NEW at \in {"retry", "events"}, GoesTo(c, at), call[c].op = "submit",
             UNCHANGED <<connVars, chainVars>>,
             call[c].at = IF at = "retry" THEN "send" ELSE "wait",
             at = "events" => call[c].nonce < nonce
      PROVE Goal
  <2>1. /\ Becomes(c, call'[c])
        /\ call'[c].at = at /\ call'[c].op = call[c].op
        /\ call'[c].nonce = call[c].nonce /\ call'[c].result = call[c].result
    BY <1>5, Goes DEF Places, SubmitPlaces
  <2>2. Moves(c)
    BY <1>5, <2>1 DEF Moves, GoesTo, chainVars
  <2>3. Connects(c)
    BY <1>0, <1>5 DEF Connects, connVars, Reconnecting
  <2> QED
    BY <2>2, <2>3
<1>6. CASE Read(c)
  <2>1. call[c].op \in {"storage", "sync"} /\ call[c].at = "read"
          /\ UNCHANGED <<connVars, chainVars>>
    BY <1>6 DEF Read, Ready
  <2>2. \E res \in {"ok", "err", "silent", "crash"} :
           Returns(c, res) /\ (res \in {"silent", "crash"} => api = "nil")
    BY <1>6 DEF Read
  <2> QED
    BY <1>4, <2>1, <2>2 DEF Results, Reconnecting
<1>7. CASE Account(c)
  <2>1. call[c].op = "submit" /\ call[c].at = "account"
          /\ UNCHANGED <<connVars, chainVars>>
    BY <1>7 DEF Account, Ready
  <2>2. CASE Returns(c, "err")
    BY <1>4, <2>1, <2>2 DEF Results, Reconnecting
  <2>3. CASE /\ call' = [call EXCEPT ![c].at = "send",
                                     ![c].nonce = IF Usable THEN nonce ELSE 0]
             /\ UNCHANGED <<lock, lone>>
    <3> DEFINE n == IF Usable THEN nonce ELSE 0
    <3>1. n \in Nat /\ n <= nonce
      BY <1>0
    <3>2. call' = [call EXCEPT ![c].at = "send", ![c].nonce = n]
      BY <2>3
    <3> HIDE DEF n
    <3>3. /\ Becomes(c, call'[c])
          /\ call'[c].at = "send" /\ call'[c].op = call[c].op
          /\ call'[c].nonce = n /\ call'[c].result = call[c].result
      BY <3>1, <3>2, Signs DEF Places, SubmitPlaces
    <3>4. ReadsNonce(c)
      BY <2>1, <2>3, <3>1, <3>3 DEF ReadsNonce, chainVars
    <3>5. Connects(c)
      BY <1>0, <2>1 DEF Connects, connVars, Reconnecting
    <3> QED
      BY <3>4, <3>5
  <2> QED
    BY <1>7, <2>2, <2>3 DEF Account
<1>8. ASSUME NEW n, Accepted(c, n), call[c].op = "submit",
             call[c].at \in {"send", "retry"}, UNCHANGED connVars,
             n \in {call[c].nonce, call[c].nonce + 1}
      PROVE Goal
  <2>1. n \in Nat /\ n >= nonce
    BY <1>0, <1>8, InkAssumption DEF Accepted
  <2>2. /\ Becomes(c, call'[c])
        /\ call'[c].at = "wait" /\ call'[c].op = call[c].op
        /\ call'[c].nonce = n /\ call'[c].result = call[c].result
    BY <1>8, <2>1, Signs DEF Accepted, Places, SubmitPlaces
  <2>3. Sends(c)
    BY <1>8, <2>1, <2>2 DEF Sends, Accepted
  <2>4. Connects(c)
    BY <1>0, <1>8 DEF Connects, connVars, Reconnecting
  <2> QED
    BY <2>3, <2>4
<1>9. CASE Send(c)
  <2>1. call[c].op = "submit" /\ call[c].at = "send" /\ UNCHANGED connVars
    BY <1>9 DEF Send, Ready
  <2>2. CASE Accepted(c, call[c].nonce)
    BY <1>8, <2>1, <2>2
  <2>3. CASE GoesTo(c, "retry") /\ UNCHANGED chainVars
    BY <1>5, <2>1, <2>3
  <2> QED
    BY <1>9, <2>2, <2>3 DEF Send
<1>10. CASE SendFails(c)
  BY <1>0, <1>4, <1>10 DEF SendFails, Ready, Results, Reconnecting
<1>11. CASE Retry(c)
  <2>1. call[c].op = "submit" /\ call[c].at = "retry" /\ UNCHANGED connVars
    BY <1>11 DEF Retry, Ready
  <2>2. CASE \E n \in RetryNonces(c) : Accepted(c, n)
    BY <1>8, <2>1, <2>2 DEF RetryNonces
  <2>3. CASE Returns(c, IF api = "nil" THEN "silent" ELSE "err") /\ UNCHANGED chainVars
    BY <1>4, <2>1, <2>3 DEF Results, Reconnecting
  <2> QED
    BY <1>11, <2>2, <2>3 DEF Retry
<1>12. CASE Wait(c)
  <2>1. /\ call[c].op = "submit" /\ call[c].at = "wait"
        /\ UNCHANGED <<connVars, chainVars>>
        /\ (GoesTo(c, "events") /\ call[c].nonce < nonce) \/ Returns(c, "err")
    BY <1>12 DEF Wait, Ready, InBlock
  <2> QED
    BY <1>4, <1>5, <2>1 DEF Results, Reconnecting
<1>13. CASE Events(c)
  <2>1. call[c].op = "submit" /\ call[c].at = "events"
          /\ UNCHANGED <<connVars, chainVars>>
    BY <1>13 DEF Events, Ready
  <2>2. \E res \in {"ok", "err", "silent", "mistaken"} :
           Returns(c, res) /\ (res = "silent" => api = "nil")
    BY <1>13 DEF Events
  <2> QED
    BY <1>4, <2>1, <2>2 DEF Results, Reconnecting
<1> QED
  BY <1>1, <1>2, <1>3, <1>6, <1>7, <1>9, <1>10, <1>11, <1>12, <1>13
     DEF Step, Reconnecting

\* A call begins at "lock" or "health", with the record of a new call, and is
\* lone, like the others that stay so, only if none of them runs.
Starts(c, op) ==
    /\ UNCHANGED <<api, refused, nonce, pool, lock>>
    /\ Becomes(c, call'[c])
    /\ call[c].at \in {"idle", "done"}
    /\ call'[c].op = op
    /\ call'[c].at = IF op = "submit" THEN "lock" ELSE "health"
    /\ call'[c].nonce = 0 /\ call'[c].result = "none"
    /\ lone' \subseteq lone \cup {c}
    /\ \A d \in lone' \ {c} : ~Running(d)
    /\ c \in lone' => \A d \in Calls \ {c} : ~Running(d)

\* Begin does just that.
LEMMA Begins ==
    ASSUME TypeOK, NEW c \in Calls, NEW op \in Ops, Begin(c, op)
    PROVE  Starts(c, op)
<1> DEFINE r == [Idle EXCEPT !.op = op, !.at = IF op = "submit" THEN "lock" ELSE "health"]
<1>1. call' = [call EXCEPT ![c] = r]
  BY DEF Begin
<1>2. /\ r \in CallRecord
      /\ r.op = op
      /\ r.at = IF op = "submit" THEN "lock" ELSE "health"
      /\ r.nonce = 0 /\ r.result = "none"
  BY ONLY op \in Ops DEF Idle, CallRecord, Places, SubmitPlaces, Results, Ops
<1> HIDE DEF r
<1>3. Becomes(c, r) /\ call'[c] = r
  BY <1>1, <1>2, Updated DEF Becomes
<1> DEFINE others == {d \in Calls \ {c} : call[d].at \notin {"idle", "done"}}
<1>4. /\ lone' = IF others = {} THEN lone \cup {c} ELSE lone \ (others \cup {c})
      /\ call[c].at \in {"idle", "done"}
      /\ UNCHANGED <<api, refused, nonce, pool, lock>>
  BY DEF Begin, connVars, chainVars
<1>5. /\ lone' \subseteq lone \cup {c}
      /\ \A d \in lone' \ {c} : ~Running(d)
      /\ c \in lone' => \A d \in Calls \ {c} : ~Running(d)
  BY <1>4 DEF TypeOK, Running
<1> QED
  BY <1>2, <1>3, <1>4, <1>5 DEF Starts

\* A submission that gets the lock goes on to its health check.
LEMMA Locks ==
    ASSUME TypeOK, NEW c \in Calls, Lock(c)
    PROVE  /\ Becomes(c, call'[c])
           /\ call'[c].at = "health" /\ call'[c].op = call[c].op
           /\ call'[c].nonce = call[c].nonce /\ call'[c].result = call[c].result
<1> DEFINE r == [call[c] EXCEPT !.at = "health"]
<1>1. call[c] \in CallRecord
  BY DEF TypeOK
<1>2. call' = [call EXCEPT ![c] = r]
  BY DEF Lock
<1>3. /\ r \in CallRecord
      /\ r.at = "health" /\ r.op = call[c].op
      /\ r.nonce = call[c].nonce /\ r.result = call[c].result
  BY ONLY <1>1 DEF CallRecord, Places
<1> HIDE DEF r
<1>4. Becomes(c, r)
  BY <1>2, <1>3, Updated
<1> QED
  BY <1>3, <1>4 DEF Becomes

-----------------------------------------------------------------------------
(* The inductive invariant. *)

\* It holds initially.
LEMMA InitIInv == Init => IInv
<1> SUFFICES ASSUME Init PROVE IInv
  OBVIOUS
<1>1. \A c \in Calls : call[c] = Idle
  BY DEF Init
<1>2. Idle.op = "none" /\ Idle.at = "idle" /\ Idle.nonce = 0 /\ Idle.result = "none"
  BY DEF Idle
<1>3. TypeOK
  <2>1. Idle \in CallRecord
    BY DEF Idle, CallRecord, Places, Results
  <2> QED
    BY <2>1 DEF Init, TypeOK
<1>4. PlaceKnown /\ LockIsHeld /\ NoncesNear /\ LoneRunsAlone
  BY <1>1, <1>2 DEF Init, PlaceKnown, LockIsHeld, NoncesNear, LoneRunsAlone,
     SubmitPlaces, Submitting, Running
<1>5. SentOnce /\ NilExplained /\ SilentExplained
  BY <1>1, <1>2 DEF Init, SentOnce, NilExplained, SilentExplained, Sent, Told
<1> QED
  BY <1>3, <1>4, <1>5 DEF IInv

\* One step keeps the types.
LEMMA TypeNext == TypeOK /\ PlaceKnown /\ [Next]_vars => TypeOK'
<1> SUFFICES ASSUME TypeOK, PlaceKnown, [Next]_vars PROVE TypeOK'
  OBVIOUS
<1>1. CASE Fault
  BY <1>1 DEF TypeOK, Fault, connVars, chainVars
<1>2. CASE Mine
  BY <1>2 DEF TypeOK, Mine, connVars, chainVars
<1>3. ASSUME NEW c \in Calls, NEW op \in Ops, Starts(c, op) PROVE TypeOK'
  BY <1>3 DEF TypeOK, Starts, Becomes
<1>4. ASSUME NEW c \in Calls, Lock(c) PROVE TypeOK'
  BY <1>4, Locks DEF TypeOK, Lock, Ready, Becomes, connVars, chainVars
<1>5. ASSUME NEW c \in Calls, Step(c), Connects(c), Moves(c) PROVE TypeOK'
  BY <1>5 DEF TypeOK, Moves, Becomes, Connects
<1>6. ASSUME NEW c \in Calls, Step(c), Connects(c), Finishes(c) PROVE TypeOK'
  BY <1>6 DEF TypeOK, Finishes, Becomes, Connects
<1>7. ASSUME NEW c \in Calls, Step(c), Connects(c), ReadsNonce(c) PROVE TypeOK'
  BY <1>7 DEF TypeOK, ReadsNonce, Becomes, Connects
<1>8. ASSUME NEW c \in Calls, Step(c), Connects(c), Sends(c) PROVE TypeOK'
  BY <1>8 DEF TypeOK, Sends, Becomes, Connects
<1>9. CASE UNCHANGED vars
  BY <1>9 DEF TypeOK, vars, connVars, chainVars
<1> QED
  BY <1>1, <1>2, <1>3, <1>4, <1>5, <1>6, <1>7, <1>8, <1>9, Begins, StepKinds
     DEF Next

\* A step leaves a call at a place that fits its operation and its result.
LEMMA PlaceNext == TypeOK /\ PlaceKnown /\ [Next]_vars => PlaceKnown'
<1> SUFFICES ASSUME TypeOK, PlaceKnown, [Next]_vars PROVE PlaceKnown'
  OBVIOUS
<1>1. CASE Fault
  BY <1>1 DEF PlaceKnown, Fault, connVars, chainVars
<1>2. CASE Mine
  BY <1>2 DEF PlaceKnown, Mine, connVars, chainVars
<1>3. ASSUME NEW c \in Calls, NEW op \in Ops, Starts(c, op) PROVE PlaceKnown'
  BY <1>3 DEF PlaceKnown, Starts, Becomes, SubmitPlaces
<1>4. ASSUME NEW c \in Calls, Lock(c) PROVE PlaceKnown'
  <2>1. /\ call[c].op = "submit" /\ call[c].at = "lock" /\ call[c].result = "none"
        /\ lock = {} /\ lock' = {c}
    BY <1>4 DEF Lock, Ready, PlaceKnown
  <2>2. /\ call'[c].at = "health" /\ call'[c].op = call[c].op
        /\ call'[c].result = call[c].result
        /\ \A d \in Calls \ {c} : call'[d] = call[d]
    BY <1>4, Locks DEF Becomes
  <2> QED
    BY <2>1, <2>2 DEF PlaceKnown, SubmitPlaces
<1>5. ASSUME NEW c \in Calls, Step(c), Connects(c), Moves(c) PROVE PlaceKnown'
  BY <1>5 DEF PlaceKnown, Moves, Becomes
<1>6. ASSUME NEW c \in Calls, Step(c), Connects(c), Finishes(c) PROVE PlaceKnown'
  BY <1>6 DEF PlaceKnown, Finishes, Becomes, SubmitPlaces
<1>7. ASSUME NEW c \in Calls, Step(c), Connects(c), ReadsNonce(c) PROVE PlaceKnown'
  BY <1>7 DEF PlaceKnown, ReadsNonce, Becomes, SubmitPlaces
<1>8. ASSUME NEW c \in Calls, Step(c), Connects(c), Sends(c) PROVE PlaceKnown'
  BY <1>8 DEF PlaceKnown, Sends, Becomes, SubmitPlaces
<1>9. CASE UNCHANGED vars
  BY <1>9 DEF PlaceKnown, vars, connVars, chainVars
<1> QED
  BY <1>1, <1>2, <1>3, <1>4, <1>5, <1>6, <1>7, <1>8, <1>9, Begins, StepKinds
     DEF Next

\* Every way out of a submission gives the lock back, and only the holder
\* goes on.
LEMMA LockNext == TypeOK /\ PlaceKnown /\ LockIsHeld /\ [Next]_vars => LockIsHeld'
<1> SUFFICES ASSUME TypeOK, PlaceKnown, LockIsHeld, [Next]_vars PROVE
                    LockIsHeld'
  OBVIOUS
<1>1. CASE Fault
  BY <1>1 DEF LockIsHeld, Submitting, Fault, connVars, chainVars
<1>2. CASE Mine
  BY <1>2 DEF LockIsHeld, Submitting, Mine, connVars, chainVars
<1>3. ASSUME NEW c \in Calls, NEW op \in Ops, Starts(c, op) PROVE LockIsHeld'
  <2>1. ~Submitting(c) /\ ~Submitting(c)' /\ lock' = lock
    BY <1>3 DEF Submitting, Starts, PlaceKnown
  <2>2. \A d \in Calls \ {c} : Submitting(d)' <=> Submitting(d)
    BY <1>3 DEF Submitting, Starts, Becomes
  <2> QED
    BY <2>1, <2>2 DEF LockIsHeld
<1>4. ASSUME NEW c \in Calls, Lock(c) PROVE LockIsHeld'
  <2>1. /\ call[c].op = "submit" /\ call[c].at = "lock"
        /\ lock = {} /\ lock' = {c}
    BY <1>4 DEF Lock, Ready
  <2>2. /\ call'[c].at = "health" /\ call'[c].op = call[c].op
        /\ \A d \in Calls \ {c} : call'[d] = call[d]
    BY <1>4, Locks DEF Becomes
  <2> QED
    BY <2>1, <2>2 DEF LockIsHeld, Submitting
<1>5. ASSUME NEW c \in Calls, Step(c), Connects(c), Moves(c) PROVE LockIsHeld'
  BY <1>5 DEF LockIsHeld, Submitting, Moves, Becomes
<1>6. ASSUME NEW c \in Calls, Step(c), Connects(c), Finishes(c) PROVE LockIsHeld'
  BY <1>6 DEF LockIsHeld, Submitting, Finishes, Becomes
<1>7. ASSUME NEW c \in Calls, Step(c), Connects(c), ReadsNonce(c) PROVE LockIsHeld'
  BY <1>7 DEF LockIsHeld, Submitting, ReadsNonce, Becomes
<1>8. ASSUME NEW c \in Calls, Step(c), Connects(c), Sends(c) PROVE LockIsHeld'
  BY <1>8 DEF LockIsHeld, Submitting, Sends, Becomes
<1>9. CASE UNCHANGED vars
  BY <1>9 DEF LockIsHeld, Submitting, vars, connVars, chainVars
<1> QED
  BY <1>1, <1>2, <1>3, <1>4, <1>5, <1>6, <1>7, <1>8, <1>9, Begins, StepKinds
     DEF Next

\* The pool stays next to the chain's nonce.
LEMMA NonceNext == TypeOK /\ PlaceKnown /\ NoncesNear /\ [Next]_vars => NoncesNear'
<1> SUFFICES ASSUME TypeOK, PlaceKnown, NoncesNear, [Next]_vars PROVE
                    NoncesNear'
  OBVIOUS
<1>1. CASE Fault
  BY <1>1 DEF NoncesNear, TypeOK, CallRecord, Fault, connVars, chainVars
<1>2. CASE Mine
  BY <1>2 DEF NoncesNear, TypeOK, CallRecord, Mine, connVars, chainVars
<1>3. ASSUME NEW c \in Calls, NEW op \in Ops, Starts(c, op) PROVE NoncesNear'
  BY <1>3 DEF NoncesNear, TypeOK, CallRecord, Starts, Becomes
<1>4. ASSUME NEW c \in Calls, Lock(c) PROVE NoncesNear'
  BY <1>4, Locks DEF NoncesNear, TypeOK, CallRecord, Lock, Ready, Becomes,
     connVars, chainVars
<1>5. ASSUME NEW c \in Calls, Step(c), Connects(c), Moves(c) PROVE NoncesNear'
  BY <1>5 DEF NoncesNear, TypeOK, CallRecord, Moves, Becomes
<1>6. ASSUME NEW c \in Calls, Step(c), Connects(c), Finishes(c) PROVE NoncesNear'
  BY <1>6 DEF NoncesNear, TypeOK, CallRecord, Finishes, Becomes
<1>7. ASSUME NEW c \in Calls, Step(c), Connects(c), ReadsNonce(c) PROVE NoncesNear'
  BY <1>7 DEF NoncesNear, TypeOK, CallRecord, ReadsNonce, Becomes
<1>8. ASSUME NEW c \in Calls, Step(c), Connects(c), Sends(c) PROVE NoncesNear'
  <2>1. call[c] \in CallRecord /\ nonce \in Nat
    BY DEF TypeOK
  <2>2. call[c].nonce \in Nat /\ call[c].nonce <= nonce
    BY <1>8, <2>1 DEF CallRecord, NoncesNear, Sends
  <2>3. call'[c].nonce = nonce \/ call'[c].nonce = nonce + 1
    BY <1>8, <2>1, <2>2 DEF Sends
  <2> QED
    BY <1>8, <2>3 DEF NoncesNear, Sends, Becomes
<1>9. CASE UNCHANGED vars
  BY <1>9 DEF NoncesNear, TypeOK, CallRecord, vars, connVars, chainVars
<1> QED
  BY <1>1, <1>2, <1>3, <1>4, <1>5, <1>6, <1>7, <1>8, <1>9, Begins, StepKinds
     DEF Next

\* A transaction is accepted only with a nonce that no pending or mined one has.
LEMMA SentNext == TypeOK /\ PlaceKnown /\ SentOnce /\ [Next]_vars => SentOnce'
<1> SUFFICES ASSUME TypeOK, PlaceKnown, SentOnce, [Next]_vars PROVE SentOnce'
  OBVIOUS
<1>1. CASE Fault
  BY <1>1 DEF SentOnce, Sent, Told, TypeOK, CallRecord, PlaceKnown, Fault,
     connVars, chainVars
<1>2. CASE Mine
  BY <1>2 DEF SentOnce, Sent, Told, TypeOK, CallRecord, PlaceKnown, Mine,
     connVars, chainVars
<1>3. ASSUME NEW c \in Calls, NEW op \in Ops, Starts(c, op) PROVE SentOnce'
  BY <1>3 DEF SentOnce, Sent, Told, TypeOK, CallRecord, PlaceKnown, Starts,
     Becomes
<1>4. ASSUME NEW c \in Calls, Lock(c) PROVE SentOnce'
  BY <1>4, Locks DEF SentOnce, Sent, Told, TypeOK, CallRecord, PlaceKnown,
     Lock, Ready, Becomes, connVars, chainVars
<1>5. ASSUME NEW c \in Calls, Step(c), Connects(c), Moves(c) PROVE SentOnce'
  BY <1>5 DEF SentOnce, Sent, Told, TypeOK, CallRecord, PlaceKnown, Moves,
     Becomes
<1>6. ASSUME NEW c \in Calls, Step(c), Connects(c), Finishes(c) PROVE SentOnce'
  BY <1>6 DEF SentOnce, Sent, Told, TypeOK, CallRecord, PlaceKnown, Finishes,
     Becomes
<1>7. ASSUME NEW c \in Calls, Step(c), Connects(c), ReadsNonce(c) PROVE SentOnce'
  BY <1>7 DEF SentOnce, Sent, Told, TypeOK, CallRecord, PlaceKnown,
     ReadsNonce, Becomes
<1>8. ASSUME NEW c \in Calls, Step(c), Connects(c), Sends(c) PROVE SentOnce'
  BY <1>8 DEF SentOnce, Sent, Told, TypeOK, CallRecord, PlaceKnown, Sends,
     Becomes
<1>9. CASE UNCHANGED vars
  BY <1>9 DEF SentOnce, Sent, Told, TypeOK, CallRecord, PlaceKnown, vars,
     connVars, chainVars
<1> QED
  BY <1>1, <1>2, <1>3, <1>4, <1>5, <1>6, <1>7, <1>8, <1>9, Begins, StepKinds
     DEF Next

\* A call that begins while others run takes them off lone with itself.
LEMMA LoneNext == TypeOK /\ PlaceKnown /\ LoneRunsAlone /\ [Next]_vars => LoneRunsAlone'
<1> SUFFICES ASSUME TypeOK, PlaceKnown, LoneRunsAlone, [Next]_vars PROVE
                    LoneRunsAlone'
  OBVIOUS
<1>1. CASE Fault
  BY <1>1 DEF LoneRunsAlone, Running, TypeOK, Fault, connVars, chainVars
<1>2. CASE Mine
  BY <1>2 DEF LoneRunsAlone, Running, TypeOK, Mine, connVars, chainVars
<1>3. ASSUME NEW c \in Calls, NEW op \in Ops, Starts(c, op) PROVE LoneRunsAlone'
  BY <1>3 DEF LoneRunsAlone, Running, TypeOK, Starts, Becomes
<1>4. ASSUME NEW c \in Calls, Lock(c) PROVE LoneRunsAlone'
  BY <1>4, Locks DEF LoneRunsAlone, Running, TypeOK, Lock, Ready, Becomes,
     connVars, chainVars
<1>5. ASSUME NEW c \in Calls, Step(c), Connects(c), Moves(c) PROVE LoneRunsAlone'
  BY <1>5 DEF LoneRunsAlone, Running, TypeOK, Moves, Becomes
<1>6. ASSUME NEW c \in Calls, Step(c), Connects(c), Finishes(c) PROVE LoneRunsAlone'
  BY <1>6 DEF LoneRunsAlone, Running, TypeOK, Finishes, Becomes
<1>7. ASSUME NEW c \in Calls, Step(c), Connects(c), ReadsNonce(c) PROVE LoneRunsAlone'
  BY <1>7 DEF LoneRunsAlone, Running, TypeOK, ReadsNonce, Becomes
<1>8. ASSUME NEW c \in Calls, Step(c), Connects(c), Sends(c) PROVE LoneRunsAlone'
  BY <1>8 DEF LoneRunsAlone, Running, TypeOK, Sends, Becomes
<1>9. CASE UNCHANGED vars
  BY <1>9 DEF LoneRunsAlone, Running, TypeOK, vars, connVars, chainVars
<1> QED
  BY <1>1, <1>2, <1>3, <1>4, <1>5, <1>6, <1>7, <1>8, <1>9, Begins, StepKinds
     DEF Next

\* Who sets api to nil connects again, and sets it or fails.
LEMMA NilNext == TypeOK /\ PlaceKnown /\ NilExplained /\ [Next]_vars => NilExplained'
<1> SUFFICES ASSUME TypeOK, PlaceKnown, NilExplained, [Next]_vars PROVE
                    NilExplained'
  OBVIOUS
<1>1. CASE Fault
  BY <1>1 DEF NilExplained, Reconnecting, Fault, connVars, chainVars
<1>2. CASE Mine
  BY <1>2 DEF NilExplained, Reconnecting, Mine, connVars, chainVars
<1>3. ASSUME NEW c \in Calls, NEW op \in Ops, Starts(c, op) PROVE NilExplained'
  BY <1>3 DEF NilExplained, Reconnecting, Starts, Becomes
<1>4. ASSUME NEW c \in Calls, Lock(c) PROVE NilExplained'
  BY <1>4, Locks DEF NilExplained, Reconnecting, Lock, Ready, Becomes,
     connVars, chainVars
<1>5. ASSUME NEW c \in Calls, Step(c), Connects(c), Moves(c) PROVE NilExplained'
  BY <1>5 DEF NilExplained, Reconnecting, Moves, Becomes, Connects
<1>6. ASSUME NEW c \in Calls, Step(c), Connects(c), Finishes(c) PROVE NilExplained'
  BY <1>6 DEF NilExplained, Reconnecting, Finishes, Becomes, Connects
<1>7. ASSUME NEW c \in Calls, Step(c), Connects(c), ReadsNonce(c) PROVE NilExplained'
  BY <1>7 DEF NilExplained, Reconnecting, ReadsNonce, Becomes, Connects
<1>8. ASSUME NEW c \in Calls, Step(c), Connects(c), Sends(c) PROVE NilExplained'
  BY <1>8 DEF NilExplained, Reconnecting, Sends, Becomes, Connects
<1>9. CASE UNCHANGED vars
  BY <1>9 DEF NilExplained, Reconnecting, vars, connVars, chainVars
<1> QED
  BY <1>1, <1>2, <1>3, <1>4, <1>5, <1>6, <1>7, <1>8, <1>9, Begins, StepKinds
     DEF Next

\* A call meets the nil api only after a failure or beside another call.
LEMMA SilentNext ==
    TypeOK /\ PlaceKnown /\ LoneRunsAlone /\ NilExplained /\ SilentExplained
        /\ [Next]_vars => SilentExplained'
<1> SUFFICES ASSUME TypeOK, PlaceKnown, LoneRunsAlone, NilExplained,
                    SilentExplained, [Next]_vars PROVE SilentExplained'
  OBVIOUS
<1>1. CASE Fault
  BY <1>1 DEF SilentExplained, Fault, connVars, chainVars
<1>2. CASE Mine
  BY <1>2 DEF SilentExplained, Mine, connVars, chainVars
<1>3. ASSUME NEW c \in Calls, NEW op \in Ops, Starts(c, op) PROVE SilentExplained'
  BY <1>3 DEF SilentExplained, Starts, Becomes
<1>4. ASSUME NEW c \in Calls, Lock(c) PROVE SilentExplained'
  BY <1>4, Locks DEF SilentExplained, Lock, Ready, Becomes, connVars,
     chainVars
<1>5. ASSUME NEW c \in Calls, Step(c), Connects(c), Moves(c) PROVE SilentExplained'
  BY <1>5 DEF SilentExplained, Moves, Becomes, Connects
<1>6. ASSUME NEW c \in Calls, Step(c), Connects(c), Finishes(c) PROVE SilentExplained'
  BY <1>6 DEF SilentExplained, Finishes, Becomes, Connects, TypeOK,
     NilExplained, LoneRunsAlone, Running, Reconnecting
<1>7. ASSUME NEW c \in Calls, Step(c), Connects(c), ReadsNonce(c) PROVE SilentExplained'
  BY <1>7 DEF SilentExplained, ReadsNonce, Becomes, Connects
<1>8. ASSUME NEW c \in Calls, Step(c), Connects(c), Sends(c) PROVE SilentExplained'
  BY <1>8 DEF SilentExplained, Sends, Becomes, Connects
<1>9. CASE UNCHANGED vars
  BY <1>9 DEF SilentExplained, vars, connVars, chainVars
<1> QED
  BY <1>1, <1>2, <1>3, <1>4, <1>5, <1>6, <1>7, <1>8, <1>9, Begins, StepKinds
     DEF Next

\* Every step keeps the inductive invariant.
LEMMA NextIInv == IInv /\ [Next]_vars => IInv'
BY TypeNext, PlaceNext, LockNext, NonceNext, SentNext, LoneNext, NilNext, SilentNext
   DEF IInv

\* The inductive invariant holds in every reachable state.
THEOREM Invariance == Spec => []IInv
BY InitIInv, NextIInv, PTL DEF Spec

-----------------------------------------------------------------------------
\* With any number of goroutines and transactions the lock is held by exactly
\* the submission that is under way, so that two never overlap and none of
\* the error paths and recovered panics of SubmitExtrinsic leaves it locked.
THEOREM LockExact == Spec => []LockIsHeld
<1>1. IInv => LockIsHeld
  BY DEF IInv
<1> QED
  BY <1>1, Invariance, PTL

\* However many submissions time out and are made again, at most two
\* transactions of the account are pending.
THEOREM AtMostTwoPending == Spec => []PendingBounded
<1>1. IInv => PendingBounded
  <2> SUFFICES ASSUME IInv PROVE PendingBounded
    OBVIOUS
  <2> DEFINE near == {nonce} \cup {nonce + 1}
  <2>1. IsFiniteSet({nonce}) /\ Cardinality({nonce}) = 1
    BY FS_Singleton
  <2>2. IsFiniteSet(near) /\ Cardinality(near) <= 2
    BY <2>1, FS_AddElement
  <2>3. pool \in SUBSET near
    BY DEF IInv, NoncesNear
  <2> HIDE DEF near
  <2>4. IsFiniteSet(pool) /\ Cardinality(pool) <= Cardinality(near)
    BY <2>2, <2>3, FS_Subset
  <2>5. Cardinality(pool) \in Nat /\ Cardinality(near) \in Nat
    BY <2>2, <2>4, FS_CardinalityType
  <2> QED
    BY <2>2, <2>4, <2>5 DEF PendingBounded
<1> QED
  BY <1>1, Invariance, PTL

\* A call says success with nothing done, or crashes the program, only after
\* a reconnection has failed or when another call overlapped it.
THEOREM SilenceHasCause == Spec => []SilentExplained
<1>1. IInv => SilentExplained
  BY DEF IInv
<1> QED
  BY <1>1, Invariance, PTL

\* A submission that says success is in a block with a transaction that is
\* nobody else's, whatever is mined between the reading of the nonce and the
\* sending.
THEOREM SuccessIsInBlock == Spec => []OkIsInBlock
<1>1. IInv => OkIsInBlock
  BY DEF IInv, OkIsInBlock, SentOnce, Sent
<1> QED
  BY <1>1, Invariance, PTL

=============================================================================
