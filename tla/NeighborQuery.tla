---------------------------- MODULE NeighborQuery ----------------------------
(***************************************************************************)
(* ResourceActor.QuerySegmentFromNeighborCacher: one goroutine feeds peers *)
(* (the DHT providers of the segment, then the peers of the selector's     *)
(* iterator) into a bounded channel, a pool of workers takes peers from it,*)
(* asks each one whether it caches the segment, and collects at most       *)
(* AvgCachedSegmentNum positive answers in a shared map.  The caller waits *)
(* on a WaitGroup for the feeder and every worker.                         *)
(*                                                                         *)
(* The channel peerCh holds input[got+1 .. put]: it is FIFO and has one    *)
(* sender, so two counters describe it exactly.                            *)
(***************************************************************************)
EXTENDS Integers, Sequences, FiniteSets

CONSTANTS
    Peers,                 \* cache nodes that may be asked
    Known,                 \* Selector.GetPeersNumber()
    NeighborNum,           \* CacheStrategy.NeighborNum
    AvgCachedSegmentNum,   \* CacheStrategy.AvgCachedSegmentNum
    MaxProviders,          \* bound: providers the DHT returns in one call
    NoPeer                 \* the loop variable of a worker that holds no peer

ASSUME NeighborQueryAssumption ==
    /\ IsFiniteSet(Peers)
    /\ Known \in Nat
    /\ NeighborNum \in Nat \ {0}
    /\ AvgCachedSegmentNum \in Nat \ {0}
    /\ MaxProviders \in Nat
    /\ NoPeer \notin Peers

VARIABLES
    ret,        \* the call: "idle", "wait" (in wg.Wait), "ok" or "err"
    input,      \* every peer the feeder will send, in order
    put,        \* how many of them it has sent
    got,        \* how many of them the workers have received
    closed,     \* peerCh is closed and the feeder has returned
    pc,         \* each worker: "recv", "ask", "done" (range ended), "quit" (map full)
    cur,        \* the peer each worker is asking
    cached,     \* cachedFilePeers: the answer kept for a peer, or "none"
    feedback    \* last Selector.Feedback about a peer

vars == <<ret, input, put, got, closed, pc, cur, cached, feedback>>

-----------------------------------------------------------------------------
(* The sizes computed before the goroutines start. *)

\* peerNum, after the cut to the neighbour budget.
PeerNum == IF Known - 1 > NeighborNum \div 3 THEN NeighborNum ELSE Known - 1

\* threadNum: the size of the worker pool and the capacity of peerCh.
ThreadNum ==
    LET third == NeighborNum \div 3
        least == IF PeerNum < third THEN PeerNum ELSE third
    IN  IF least <= 0 THEN 1 ELSE least

Workers == 1 .. ThreadNum

\* Peers with an entry in cachedFilePeers.
CachedPeers == {p \in Peers : cached[p] # "none"}

Asking == {t \in Workers : pc[t] = "ask"}

Quitted == {t \in Workers : pc[t] = "quit"}

Distinct(s) == \A i, j \in DOMAIN s : s[i] = s[j] => i = j

-----------------------------------------------------------------------------
Init ==
    /\ ret = "idle"
    /\ input = <<>>
    /\ put = 0
    /\ got = 0
    /\ closed = FALSE
    /\ pc = [t \in Workers |-> "recv"]
    /\ cur = [t \in Workers |-> NoPeer]
    /\ cached = [p \in Peers |-> "none"]
    /\ feedback = [p \in Peers |-> "none"]

\* The goroutines are started: the feeder's peers are the providers found
\* in the DHT followed by at most PeerNum distinct peers of the iterator.
Start ==
    /\ ret \in {"idle", "ok", "err"}
    /\ Known - 1 > 0
    /\ \E n \in 0 .. MaxProviders, m \in 0 .. PeerNum :
       \E providers \in [1 .. n -> Peers], itor \in [1 .. m -> Peers] :
          /\ m <= Known
          /\ Distinct(itor)
          /\ input' = providers \o itor
    /\ ret' = "wait"
    /\ put' = 0
    /\ got' = 0
    /\ closed' = FALSE
    /\ pc' = [t \in Workers |-> "recv"]
    /\ cur' = [t \in Workers |-> NoPeer]
    /\ cached' = [p \in Peers |-> "none"]
    /\ UNCHANGED feedback

\* No neighbour is known, or NewPeersIterator fails.
StartFails ==
    /\ ret \in {"idle", "ok", "err"}
    /\ ret' = "err"
    /\ UNCHANGED <<input, put, got, closed, pc, cur, cached, feedback>>

\* Mutant: the channel is made without regard to threadNum.
FeedUnbounded ==
    /\ ret = "wait"
    /\ put < Len(input)
    /\ put' = put + 1
    /\ UNCHANGED <<ret, input, got, closed, pc, cur, cached, feedback>>

\* Feeder: peerCh <- peer, blocking while the channel is full.
Feed ==
    /\ ret = "wait"
    /\ put < Len(input)
    /\ put - got < ThreadNum
    /\ put' = put + 1
    /\ UNCHANGED <<ret, input, got, closed, pc, cur, cached, feedback>>

\* Feeder: close(peerCh) once everything is sent.
CloseCh ==
    /\ ret = "wait"
    /\ ~closed
    /\ put = Len(input)
    /\ closed' = TRUE
    /\ UNCHANGED <<ret, input, put, got, pc, cur, cached, feedback>>

\* Worker: for peer := range peerCh.
Receive(t) ==
    /\ ret = "wait"
    /\ pc[t] = "recv"
    /\ got < put
    /\ cur' = [cur EXCEPT ![t] = input[got + 1]]
    /\ got' = got + 1
    /\ pc' = [pc EXCEPT ![t] = "ask"]
    /\ UNCHANGED <<ret, input, put, closed, cached, feedback>>

\* Worker: the range loop ends when the channel is closed and empty.
RangeEnds(t) ==
    /\ ret = "wait"
    /\ pc[t] = "recv"
    /\ closed
    /\ got = put
    /\ pc' = [pc EXCEPT ![t] = "done"]
    /\ UNCHANGED <<ret, input, put, got, closed, cur, cached, feedback>>

\* Mutant: return instead of continue.
ConnectFailsReturns(t) ==
    /\ ret = "wait"
    /\ pc[t] = "ask"
    /\ pc' = [pc EXCEPT ![t] = "quit"]
    /\ UNCHANGED <<ret, input, put, got, closed, cur, cached, feedback>>

\* Worker: Host.Connect fails; the peer gets no feedback.
ConnectFails(t) ==
    /\ ret = "wait"
    /\ pc[t] = "ask"
    /\ pc' = [pc EXCEPT ![t] = "recv"]
    /\ UNCHANGED <<ret, input, put, got, closed, cur, cached, feedback>>

\* Worker: QueryFileInfoFromCache fails.
QueryFails(t) ==
    /\ ret = "wait"
    /\ pc[t] = "ask"
    /\ pc' = [pc EXCEPT ![t] = "recv"]
    /\ feedback' = [feedback EXCEPT ![cur[t]] = "bad"]
    /\ UNCHANGED <<ret, input, put, got, closed, cur, cached>>

\* Worker: the peer answers neither "hit" nor "loading".
NotCached(t) ==
    /\ ret = "wait"
    /\ pc[t] = "ask"
    /\ pc' = [pc EXCEPT ![t] = "recv"]
    /\ feedback' = [feedback EXCEPT ![cur[t]] = "good"]
    /\ UNCHANGED <<ret, input, put, got, closed, cur, cached>>

\* Mutant: > instead of >= in the test of the map's size.
FoundOffByOne(t, status) ==
    /\ ret = "wait"
    /\ pc[t] = "ask"
    /\ feedback' = [feedback EXCEPT ![cur[t]] = "good"]
    /\ \/ /\ Cardinality(CachedPeers) > AvgCachedSegmentNum
          /\ pc' = [pc EXCEPT ![t] = "quit"]
          /\ UNCHANGED cached
       \/ /\ Cardinality(CachedPeers) <= AvgCachedSegmentNum
          /\ cached' = [cached EXCEPT ![cur[t]] = status]
          /\ pc' = [pc EXCEPT ![t] = "recv"]
    /\ UNCHANGED <<ret, input, put, got, closed, cur>>

\* Worker: a positive answer, handled under the lock; the worker returns
\* when the map already holds AvgCachedSegmentNum peers.
Found(t, status) ==
    /\ ret = "wait"
    /\ pc[t] = "ask"
    /\ feedback' = [feedback EXCEPT ![cur[t]] = "good"]
    /\ \/ /\ Cardinality(CachedPeers) >= AvgCachedSegmentNum
          /\ pc' = [pc EXCEPT ![t] = "quit"]
          /\ UNCHANGED cached
       \/ /\ Cardinality(CachedPeers) < AvgCachedSegmentNum
          /\ cached' = [cached EXCEPT ![cur[t]] = status]
          /\ pc' = [pc EXCEPT ![t] = "recv"]
    /\ UNCHANGED <<ret, input, put, got, closed, cur>>

\* Mutant: a worker that finds the map full returns without wg.Done.
ReturnMissesDone ==
    /\ ret = "wait"
    /\ closed
    /\ \A t \in Workers : pc[t] = "done"
    /\ ret' = "ok"
    /\ UNCHANGED <<input, put, got, closed, pc, cur, cached, feedback>>

\* Caller: wg.Wait returns.
Return ==
    /\ ret = "wait"
    /\ closed
    /\ \A t \in Workers : pc[t] \in {"done", "quit"}
    /\ ret' = "ok"
    /\ UNCHANGED <<input, put, got, closed, pc, cur, cached, feedback>>

WorkerStep(t) ==
    \/ Receive(t)
    \/ RangeEnds(t)
    \/ ConnectFails(t)
    \/ QueryFails(t)
    \/ NotCached(t)
    \/ \E status \in {"hit", "loading"} : Found(t, status)

Next ==
    \/ Start
    \/ StartFails
    \/ Feed
    \/ CloseCh
    \/ Return
    \/ \E t \in Workers : WorkerStep(t)

\* Every goroutine that can run is eventually run, and every peer that was
\* asked eventually answers or is given up by the transport.
Fairness ==
    /\ WF_vars(Feed)
    /\ WF_vars(CloseCh)
    /\ WF_vars(Return)
    /\ \A t \in Workers : WF_vars(WorkerStep(t))

Spec == Init /\ [][Next]_vars /\ Fairness

-----------------------------------------------------------------------------
(* Properties *)

\* The variables keep their types, the channel never holds more than its
\* capacity and the feeder never sends what it has not got.
TypeOK ==
    /\ ret \in {"idle", "wait", "ok", "err"}
    /\ input \in Seq(Peers)
    /\ put \in Nat
    /\ got \in Nat
    /\ got <= put
    /\ put <= Len(input)
    /\ put - got <= ThreadNum
    /\ closed \in BOOLEAN
    /\ pc \in [Workers -> {"recv", "ask", "done", "quit"}]
    /\ cur \in [Workers -> Peers \cup {NoPeer}]
    /\ \A t \in Workers : pc[t] = "ask" => cur[t] \in Peers
    /\ cached \in [Peers -> {"none", "hit", "loading"}]
    /\ feedback \in [Peers -> {"none", "good", "bad"}]

\* However the workers interleave, the map never exceeds the strategy's
\* AvgCachedSegmentNum: the size test and the insertion are one critical
\* section.
CachedBounded == Cardinality(CachedPeers) <= AvgCachedSegmentNum

\* The feeder is blocked on a full channel and no worker is left to drain
\* it: wg.Wait never returns and the resource actor is lost.
FeederStuck ==
    /\ ret = "wait"
    /\ put < Len(input)
    /\ put - got = ThreadNum
    /\ \A t \in Workers : pc[t] \in {"done", "quit"}

\* The pool can lose its last worker under a blocked feeder only if more
\* peers were fed than the map, the workers and the channel absorb.
StuckOnlyWhenOverfed ==
    FeederStuck => Len(input) > AvgCachedSegmentNum + 2 * ThreadNum

\* A call that feeds no more peers than that always returns.
BoundedCallReturns ==
    (ret = "wait" /\ Len(input) <= AvgCachedSegmentNum + 2 * ThreadNum)
        ~> (ret = "ok")

=============================================================================
