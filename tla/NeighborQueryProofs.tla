------------------------- MODULE NeighborQueryProofs -------------------------
(***************************************************************************)
(* Proofs about NeighborQuery, for every set of peers, every size of the   *)
(* neighbourhood and every number of workers.                              *)
(***************************************************************************)
EXTENDS NeighborQuery, FiniteSetTheorems, TLAPS

\* Every peer received is being asked, has filled a place of the map, or has
\* made its worker quit; these never share a peer.
Consumed ==
    got >= Cardinality(CachedPeers) + Cardinality(Asking) + Cardinality(Quitted)

\* A worker quits only when the map is full, and the map never shrinks.
QuitWhenFull == Quitted # {} => Cardinality(CachedPeers) >= AvgCachedSegmentNum

\* A worker's range ends only after the feeder has closed the channel, and
\* the feeder closes it only after it has sent everything.
ClosedAfterAll ==
    /\ \A t \in Workers : pc[t] = "done" => closed
    /\ closed => put = Len(input)

IInv ==
    /\ TypeOK
    /\ CachedBounded
    /\ Consumed
    /\ QuitWhenFull
    /\ ClosedAfterAll

-----------------------------------------------------------------------------
\* The pool computed by QuerySegmentFromNeighborCacher has at least one worker
\* whatever the number of known peers and the neighbour budget.
LEMMA PoolNotEmpty == ThreadNum \in Nat \ {0}
BY NeighborQueryAssumption DEF ThreadNum, PeerNum

\* The pool is finite and has threadNum workers.
LEMMA PoolSize == IsFiniteSet(Workers) /\ Cardinality(Workers) = ThreadNum
<1>1. /\ IsFiniteSet(1 .. ThreadNum)
      /\ Cardinality(1 .. ThreadNum) = IF 1 > ThreadNum THEN 0 ELSE ThreadNum - 1 + 1
  BY PoolNotEmpty, FS_Interval
<1> QED
  BY <1>1, PoolNotEmpty DEF Workers

\* The map, the workers that ask and the workers that quit are finite sets.
LEMMA Counts ==
    /\ IsFiniteSet(CachedPeers) /\ Cardinality(CachedPeers) \in Nat
    /\ IsFiniteSet(Asking) /\ Cardinality(Asking) \in Nat
    /\ IsFiniteSet(Quitted) /\ Cardinality(Quitted) \in Nat
<1>1. CachedPeers \subseteq Peers /\ IsFiniteSet(Peers)
  BY NeighborQueryAssumption DEF CachedPeers
<1>2. Asking \subseteq Workers /\ Quitted \subseteq Workers
  BY DEF Asking, Quitted
<1>3. IsFiniteSet(CachedPeers) /\ IsFiniteSet(Asking) /\ IsFiniteSet(Quitted)
  BY <1>1, <1>2, PoolSize, FS_Subset
<1> QED
  BY <1>3, FS_CardinalityType

\* The same of the next state.
LEMMA CountsNext ==
    /\ IsFiniteSet(CachedPeers') /\ Cardinality(CachedPeers') \in Nat
    /\ IsFiniteSet(Asking') /\ Cardinality(Asking') \in Nat
    /\ IsFiniteSet(Quitted') /\ Cardinality(Quitted') \in Nat
<1>1. CachedPeers' \subseteq Peers /\ IsFiniteSet(Peers)
  BY NeighborQueryAssumption DEF CachedPeers
<1>2. Asking' \subseteq Workers /\ Quitted' \subseteq Workers
  BY DEF Asking, Quitted
<1>3. IsFiniteSet(CachedPeers') /\ IsFiniteSet(Asking') /\ IsFiniteSet(Quitted')
  BY <1>1, <1>2, PoolSize, FS_Subset
<1> QED
  BY <1>3, FS_CardinalityType

\* A worker that gives up the peer it asks, for whatever reason but a full
\* map, leaves Asking and changes no other count.
LEMMA WorkerResumes ==
    ASSUME TypeOK, NEW t \in Workers, pc[t] = "ask",
           pc' = [pc EXCEPT ![t] = "recv"]
    PROVE  /\ Cardinality(Asking') = Cardinality(Asking) - 1
           /\ Quitted' = Quitted
<1>1. Asking' = Asking \ {t} /\ t \in Asking /\ Quitted' = Quitted
  BY DEF TypeOK, Asking, Quitted
<1> QED
  BY <1>1, Counts, FS_RemoveElement

-----------------------------------------------------------------------------
\* The inductive invariant holds initially.
LEMMA InitIInv == Init => IInv
<1> SUFFICES ASSUME Init PROVE IInv
  OBVIOUS
<1>1. TypeOK
  <2>1. input \in Seq(Peers) /\ Len(input) = 0
    BY DEF Init
  <2>2. closed \in BOOLEAN
    BY Zenon DEF Init
  <2>3. /\ pc \in [Workers -> {"recv", "ask", "done", "quit"}]
        /\ cur \in [Workers -> Peers \cup {NoPeer}]
        /\ \A t \in Workers : pc[t] = "ask" => cur[t] \in Peers
        /\ cached \in [Peers -> {"none", "hit", "loading"}]
        /\ feedback \in [Peers -> {"none", "good", "bad"}]
    BY DEF Init
  <2> QED
    BY <2>1, <2>2, <2>3, PoolNotEmpty DEF Init, TypeOK
<1>2. CachedPeers = {} /\ Asking = {} /\ Quitted = {}
  BY DEF Init, CachedPeers, Asking, Quitted
<1>3. Cardinality(CachedPeers) = 0 /\ Cardinality(Asking) = 0
        /\ Cardinality(Quitted) = 0
  BY <1>2, FS_EmptySet
<1>4. CachedBounded /\ Consumed /\ QuitWhenFull
  BY <1>2, <1>3, NeighborQueryAssumption DEF Init, CachedBounded, Consumed, QuitWhenFull
<1>5. ClosedAfterAll
  BY DEF Init, ClosedAfterAll
<1> QED
  BY <1>1, <1>4, <1>5 DEF IInv

\* What the feeder is given is a sequence of peers.
LEMMA FedSequence ==
    ASSUME NEW n \in Nat, NEW s \in [1 .. n -> Peers]
    PROVE  s \in Seq(Peers)
OBVIOUS

\* One step keeps the types.
LEMMA TypeNext == TypeOK /\ [Next]_vars => TypeOK'
<1> SUFFICES ASSUME TypeOK, [Next]_vars PROVE TypeOK'
  OBVIOUS
<1> USE PoolNotEmpty
<1>1. CASE Start
  <2>1. PICK n \in 0 .. MaxProviders, m \in 0 .. PeerNum :
          \E providers \in [1 .. n -> Peers], itor \in [1 .. m -> Peers] :
             input' = providers \o itor
    BY <1>1 DEF Start
  <2>2. PICK providers \in [1 .. n -> Peers], itor \in [1 .. m -> Peers] :
          input' = providers \o itor
    BY <2>1
  <2>3. n \in Nat /\ m \in Nat
    BY NeighborQueryAssumption DEF PeerNum
  <2>4. input' \in Seq(Peers) /\ Len(input') \in Nat
    BY <2>2, <2>3, FedSequence
  <2>5. closed' \in BOOLEAN
    BY <1>1, Zenon DEF Start
  <2>6. /\ pc' \in [Workers -> {"recv", "ask", "done", "quit"}]
        /\ cur' \in [Workers -> Peers \cup {NoPeer}]
        /\ \A t \in Workers : pc'[t] # "ask"
        /\ cached' \in [Peers -> {"none", "hit", "loading"}]
        /\ feedback' \in [Peers -> {"none", "good", "bad"}]
    BY <1>1 DEF Start, TypeOK
  <2> QED
    BY <1>1, <2>4, <2>5, <2>6 DEF Start, TypeOK
<1>2. CASE StartFails
  BY <1>2 DEF StartFails, TypeOK
<1>3. CASE Feed
  BY <1>3 DEF Feed, TypeOK
<1>4. CASE CloseCh
  <2>1. closed' \in BOOLEAN
    BY <1>4, Zenon DEF CloseCh
  <2> QED
    BY <1>4, <2>1 DEF CloseCh, TypeOK
<1>5. CASE Return
  BY <1>5 DEF Return, TypeOK
<1>6. ASSUME NEW t \in Workers, WorkerStep(t) PROVE TypeOK'
  <2>1. CASE Receive(t)
    <3>1. input[got + 1] \in Peers
      BY <2>1 DEF Receive, TypeOK
    <3> QED
      BY <2>1, <3>1 DEF Receive, TypeOK
  <2>2. CASE RangeEnds(t)
    BY <2>2 DEF RangeEnds, TypeOK
  <2>3. CASE ConnectFails(t)
    BY <2>3 DEF ConnectFails, TypeOK
  <2>4. CASE QueryFails(t)
    BY <2>4 DEF QueryFails, TypeOK
  <2>5. CASE NotCached(t)
    BY <2>5 DEF NotCached, TypeOK
  <2>6. ASSUME NEW status \in {"hit", "loading"}, Found(t, status) PROVE TypeOK'
    BY <2>6 DEF Found, TypeOK
  <2> QED
    BY <1>6, <2>1, <2>2, <2>3, <2>4, <2>5, <2>6 DEF WorkerStep
<1>7. CASE UNCHANGED vars
  BY <1>7 DEF vars, TypeOK
<1> QED
  BY <1>1, <1>2, <1>3, <1>4, <1>5, <1>6, <1>7 DEF Next

\* A worker's step keeps the counts.
LEMMA WorkerKeepsIInv ==
    ASSUME IInv, TypeOK', NEW t \in Workers, WorkerStep(t)
    PROVE  IInv'
<1> USE NeighborQueryAssumption, Counts, CountsNext DEF IInv
<1>1. got \in Nat /\ pc \in [Workers -> {"recv", "ask", "done", "quit"}]
  BY DEF TypeOK
<1>2. CASE Receive(t)
  <2>1. Asking' = Asking \cup {t} /\ t \notin Asking
    BY <1>1, <1>2 DEF Receive, Asking
  <2>2. Quitted' = Quitted /\ CachedPeers' = CachedPeers
    BY <1>1, <1>2 DEF Receive, Quitted, CachedPeers
  <2>3. Cardinality(Asking') = Cardinality(Asking) + 1
    BY <2>1, FS_AddElement
  <2>4. ClosedAfterAll'
    BY <1>1, <1>2 DEF Receive, ClosedAfterAll
  <2> QED
    BY <1>1, <1>2, <2>2, <2>3, <2>4
    DEF Receive, CachedBounded, Consumed, QuitWhenFull
<1>3. CASE RangeEnds(t)
  <2>1. Asking' = Asking /\ Quitted' = Quitted /\ CachedPeers' = CachedPeers
    BY <1>1, <1>3 DEF RangeEnds, Asking, Quitted, CachedPeers
  <2>2. ClosedAfterAll'
    BY <1>1, <1>3 DEF RangeEnds, ClosedAfterAll
  <2> QED
    BY <1>3, <2>1, <2>2 DEF RangeEnds, CachedBounded, Consumed, QuitWhenFull
<1>4. CASE ConnectFails(t) \/ QueryFails(t) \/ NotCached(t)
  <2>1. /\ pc[t] = "ask"
        /\ pc' = [pc EXCEPT ![t] = "recv"]
        /\ UNCHANGED <<input, put, got, closed, cached>>
    BY <1>4 DEF ConnectFails, QueryFails, NotCached
  <2>2. Cardinality(Asking') = Cardinality(Asking) - 1 /\ Quitted' = Quitted
    BY <2>1, WorkerResumes
  <2>3. CachedPeers' = CachedPeers
    BY <2>1 DEF CachedPeers
  <2>4. ClosedAfterAll'
    BY <1>1, <2>1 DEF ClosedAfterAll
  <2> QED
    BY <1>1, <2>1, <2>2, <2>3, <2>4 DEF CachedBounded, Consumed, QuitWhenFull
<1>5. ASSUME NEW status \in {"hit", "loading"}, Found(t, status) PROVE IInv'
  <2>1. CASE /\ Cardinality(CachedPeers) >= AvgCachedSegmentNum
             /\ pc' = [pc EXCEPT ![t] = "quit"]
             /\ UNCHANGED cached
    <3>1. /\ Asking' = Asking \ {t} /\ t \in Asking
          /\ Quitted' = Quitted \cup {t} /\ t \notin Quitted
      BY <1>1, <1>5, <2>1 DEF Found, Asking, Quitted
    <3>2. /\ Cardinality(Asking') = Cardinality(Asking) - 1
          /\ Cardinality(Quitted') = Cardinality(Quitted) + 1
      BY <3>1, FS_AddElement, FS_RemoveElement
    <3>3. CachedPeers' = CachedPeers
      BY <2>1 DEF CachedPeers
    <3>4. ClosedAfterAll'
      BY <1>1, <1>5, <2>1 DEF Found, ClosedAfterAll
    <3> QED
      BY <1>1, <1>5, <2>1, <3>2, <3>3, <3>4
      DEF Found, CachedBounded, Consumed, QuitWhenFull
  <2>2. CASE /\ Cardinality(CachedPeers) < AvgCachedSegmentNum
             /\ cached' = [cached EXCEPT ![cur[t]] = status]
             /\ pc' = [pc EXCEPT ![t] = "recv"]
    <3>1. pc[t] = "ask" /\ UNCHANGED <<input, put, got, closed>>
      BY <1>5 DEF Found
    <3>2. Cardinality(Asking') = Cardinality(Asking) - 1 /\ Quitted' = Quitted
      BY <2>2, <3>1, WorkerResumes
    <3>3. CachedPeers' = CachedPeers \cup {cur[t]}
      BY <2>2, <3>1 DEF TypeOK, CachedPeers
    <3>4. Cardinality(CachedPeers') \in
             {Cardinality(CachedPeers), Cardinality(CachedPeers) + 1}
      BY <3>3, FS_AddElement
    <3>5. ClosedAfterAll'
      BY <1>1, <2>2, <3>1 DEF ClosedAfterAll
    <3>6. CachedBounded' /\ Consumed'
      BY <1>1, <2>2, <3>1, <3>2, <3>4 DEF CachedBounded, Consumed
    <3>7. QuitWhenFull'
      BY <2>2, <3>2, <3>4 DEF QuitWhenFull
    <3> QED
      BY <3>5, <3>6, <3>7
  <2> QED
    BY <1>5, <2>1, <2>2 DEF Found
<1> QED
  BY <1>2, <1>3, <1>4, <1>5 DEF WorkerStep

\* Every step keeps the inductive invariant: one case per action.
LEMMA IInvNext == IInv /\ [Next]_vars => IInv'
<1> SUFFICES ASSUME IInv, [Next]_vars PROVE IInv'
  OBVIOUS
<1>1. TypeOK'
  BY TypeNext DEF IInv
<1>2. CASE Start
  <2>1. CachedPeers' = {} /\ Asking' = {} /\ Quitted' = {}
    BY <1>2 DEF Start, CachedPeers, Asking, Quitted
  <2>2. /\ Cardinality(CachedPeers') = 0
        /\ Cardinality(Asking') = 0
        /\ Cardinality(Quitted') = 0
    BY <2>1, FS_EmptySet
  <2>3. CachedBounded' /\ Consumed' /\ QuitWhenFull'
    BY <1>2, <2>1, <2>2, NeighborQueryAssumption
    DEF Start, CachedBounded, Consumed, QuitWhenFull
  <2>4. ClosedAfterAll'
    BY <1>2 DEF Start, ClosedAfterAll
  <2> QED
    BY <1>1, <2>3, <2>4 DEF IInv
<1>3. CASE StartFails \/ Feed \/ CloseCh \/ Return \/ UNCHANGED vars
  <2>1. UNCHANGED <<got, pc, cached>>
    BY <1>3 DEF StartFails, Feed, CloseCh, Return, vars
  <2>2. CachedPeers' = CachedPeers /\ Asking' = Asking /\ Quitted' = Quitted
    BY <2>1 DEF CachedPeers, Asking, Quitted
  <2>3. CachedBounded' /\ Consumed' /\ QuitWhenFull'
    BY <2>1, <2>2 DEF IInv, CachedBounded, Consumed, QuitWhenFull
  <2>4. ClosedAfterAll'
    BY <1>3 DEF IInv, ClosedAfterAll, StartFails, Feed, CloseCh, Return, vars, TypeOK
  <2> QED
    BY <1>1, <2>3, <2>4 DEF IInv
<1>4. ASSUME NEW t \in Workers, WorkerStep(t) PROVE IInv'
  BY <1>1, <1>4, WorkerKeepsIInv
<1> QED
  BY <1>2, <1>3, <1>4 DEF Next

\* The inductive invariant makes a stuck feeder overfed.
LEMMA IInvImplies == IInv => StuckOnlyWhenOverfed
<1> SUFFICES ASSUME IInv, FeederStuck
             PROVE  Len(input) > AvgCachedSegmentNum + 2 * ThreadNum
  BY DEF StuckOnlyWhenOverfed
<1>1. /\ put \in Nat /\ got \in Nat /\ input \in Seq(Peers)
      /\ put < Len(input) /\ put - got = ThreadNum
  BY DEF IInv, TypeOK, FeederStuck
<1>2. Quitted = Workers
  BY <1>1 DEF IInv, ClosedAfterAll, FeederStuck, Quitted
<1>3. Cardinality(Quitted) = ThreadNum /\ 1 \in Quitted
  BY <1>2, PoolSize, PoolNotEmpty DEF Workers
<1>4. Cardinality(CachedPeers) >= AvgCachedSegmentNum
  BY <1>3 DEF IInv, QuitWhenFull
<1> QED
  BY <1>1, <1>3, <1>4, Counts, PoolNotEmpty, NeighborQueryAssumption
  DEF IInv, Consumed

-----------------------------------------------------------------------------
\* The invariant holds in every execution.
LEMMA Invariance == Spec => []IInv
BY InitIInv, IInvNext, PTL DEF Spec

\* The types, with the channel's capacity and order, for every pool size.
THEOREM TypeCorrect == Spec => []TypeOK
<1>1. IInv => TypeOK
  BY DEF IInv
<1> QED
  BY Invariance, <1>1, PTL

\* However many workers insert into the shared map, QuerySegmentFromNeighbor-
\* Cacher never collects more than AvgCachedSegmentNum peers.
THEOREM MapBounded == Spec => []CachedBounded
<1>1. IInv => CachedBounded
  BY DEF IInv
<1> QED
  BY Invariance, <1>1, PTL

\* The feeder can be left on a full channel without a worker only in a call
\* that is fed more than AvgCachedSegmentNum + 2 * threadNum peers.
THEOREM StuckNeedsOverfeeding == Spec => []StuckOnlyWhenOverfed
BY Invariance, IInvImplies, PTL

=============================================================================
