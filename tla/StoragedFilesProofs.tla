------------------------- MODULE StoragedFilesProofs -------------------------
(***************************************************************************)
(* Proofs about StoragedFiles, for files of any length, any number of      *)
(* neighbours and every cache strategy: the budget of a call, the slot it  *)
(* keeps for the requested segment and the announcements it makes.         *)
(***************************************************************************)
EXTENDS StoragedFiles, FiniteSetTheorems, SequenceTheorems, TLAPS

\* A segment is taken in hand only while the budget lasts, with one slot to
\* spare before the requested one is reached; the budget is never exceeded.
WithinBudget ==
    /\ num <= CacheNum
    /\ pc \in {"query", "share", "storage"} => num < CacheNum
    /\ pc \in {"query", "share", "storage"} /\ ~done => num + 1 < CacheNum

\* What the neighbours give is filed under the segment in hand, and nothing is
\* left over between two segments.
SharedFor ==
    /\ pc = "share" => \A r \in shared : r.key = list[i] /\ r.origin \in Peers
    /\ pc # "share" => shared = {}

\* Every segment fetched before the one in hand was counted.
FetchCounted ==
    IF pc = "storage" THEN Cardinality(Fetched \ {list[i]}) <= num
                      ELSE Cardinality(Fetched) <= num

\* What `done` says about the walk through the list.
DoneMeans ==
    IF done THEN want \in asked \/ (pc = "query" /\ list[i] = want)
            ELSE /\ pc \in {"loop", "query", "share", "storage"} =>
                        \A k \in 1 .. i - 1 : list[k] # want
                 /\ pc \in {"query", "share", "storage"} => list[i] # want

IInv ==
    /\ TypeOK
    /\ ReservedSlot
    /\ WithinBudget
    /\ SharedFor
    /\ FetchCounted
    /\ DoneMeans
    /\ RequestedExamined
    /\ AnnouncedIsKeyed

-----------------------------------------------------------------------------
\* The budget of a call is positive: NewResourceActor replaces a zero in the
\* strategy by a default.
LEMMA CacheNumPos ==
    ASSUME list \in Seq(Segments)
    PROVE  CacheNum \in Nat /\ CacheNum > 0
<1>1. Len(list) \in Nat
  OBVIOUS
<1>2. Len(list) \div NeighborNum \in Nat
  BY <1>1, StoragedFilesAssumption
<1> QED
  BY <1>2, StoragedFilesAssumption DEF CacheNum

\* A function on 1 .. n is a sequence of length n.
LEMMA FunctionIsSeq ==
    ASSUME NEW S, NEW n \in Nat, NEW s \in [1 .. n -> S]
    PROVE  s \in Seq(S) /\ Len(s) = n
<1>1. s \in Seq(S)
  BY SeqDef
<1>2. Len(s) \in Nat /\ DOMAIN s = 1 .. n /\ DOMAIN s = 1 .. Len(s)
  BY <1>1, LenProperties
<1>3. /\ n \in 1 .. n <=> n \in 1 .. Len(s)
      /\ Len(s) \in 1 .. n <=> Len(s) \in 1 .. Len(s)
  BY <1>2, Zenon
<1> QED
  BY <1>1, <1>2, <1>3

\* The segments fetched are finitely many.
LEMMA FetchedFinite ==
    ASSUME TypeOK
    PROVE  /\ Fetched \subseteq Segments
           /\ IsFiniteSet(Fetched)
           /\ Cardinality(Fetched) \in Nat
<1>1. Fetched \subseteq Segments
  BY DEF TypeOK, Fetched, FetchedFor, RespType, Fragments
<1>2. IsFiniteSet(Fetched)
  BY <1>1, FS_Subset, StoragedFilesAssumption
<1> QED
  BY <1>1, <1>2, FS_CardinalityType

\* Adding one element to a finite set adds at most one to its size.
LEMMA OneMore ==
    ASSUME NEW S, NEW T, NEW x, IsFiniteSet(S), T \subseteq S \cup {x}
    PROVE  /\ Cardinality(S) \in Nat /\ Cardinality(T) \in Nat
           /\ Cardinality(T) <= Cardinality(S) + 1
<1>1. /\ IsFiniteSet(S \cup {x})
      /\ Cardinality(S \cup {x}) <= Cardinality(S) + 1
      /\ Cardinality(S) \in Nat
  BY FS_AddElement, FS_CardinalityType
<1>2. IsFiniteSet(T) /\ Cardinality(T) <= Cardinality(S \cup {x})
  BY <1>1, FS_Subset
<1> QED
  BY <1>1, <1>2, FS_CardinalityType

-----------------------------------------------------------------------------
\* The inductive invariant holds initially.
LEMMA InitIInv == Init => IInv
<1> SUFFICES ASSUME Init PROVE IInv
  OBVIOUS
<1>1. list \in Seq(Segments) /\ Len(list) = 0
  BY DEF Init
<1>2. TypeOK
  <2>1. done \in BOOLEAN /\ provide \in BOOLEAN /\ spread \in BOOLEAN
    BY Zenon DEF Init
  <2>2. holders \in [Peers -> SUBSET Fragments]
    BY DEF Init, NoHolders
  <2>3. /\ i \in 1 .. Len(list) + 1
        /\ j \in 1 .. FragmentNum + 1
        /\ count \in 0 .. DataShards
    BY <1>1, StoragedFilesAssumption DEF Init
  <2> QED
    BY <1>1, <2>1, <2>2, <2>3 DEF Init, TypeOK
<1>3. Fetched = {} /\ Cardinality(Fetched) = 0
  BY FS_EmptySet DEF Init, Fetched
<1>4. CacheNum \in Nat /\ CacheNum > 0
  BY <1>1, CacheNumPos
<1> QED
  BY <1>2, <1>3, <1>4
  DEF Init, IInv, ReservedSlot, WithinBudget, SharedFor, FetchCounted, DoneMeans,
      RequestedExamined, AnnouncedIsKeyed

\* A new call starts from an empty result.
LEMMA QueryFileKeeps ==
    ASSUME IInv, QueryFile \/ QueryFileFails
    PROVE  IInv'
<1>1. CASE QueryFile
  <2>1. PICK n \in 0 .. MaxSegments : list' \in [1 .. n -> Segments]
    BY <1>1 DEF QueryFile
  <2>2. n \in Nat
    BY <2>1, StoragedFilesAssumption
  <2>3. list' \in Seq(Segments) /\ Len(list') = n
    BY <2>1, <2>2, FunctionIsSeq
  <2>4. TypeOK'
    <3>1. done' \in BOOLEAN /\ provide' \in BOOLEAN
      BY <1>1, Zenon DEF QueryFile
    <3>2. i' \in 1 .. Len(list') + 1 /\ num' \in Nat
      BY <1>1, <2>2, <2>3 DEF QueryFile
    <3> QED
      BY <1>1, <2>3, <3>1, <3>2 DEF IInv, TypeOK, QueryFile
  <2>5. Fetched' = {} /\ Cardinality(Fetched') = 0
    BY <1>1, FS_EmptySet DEF QueryFile, Fetched
  <2>6. CacheNum' \in Nat /\ CacheNum' > 0
    <3>1. Len(list') \div NeighborNum \in Nat
      BY <2>2, <2>3, StoragedFilesAssumption
    <3> QED
      BY <3>1, StoragedFilesAssumption DEF CacheNum
  <2>7. ReservedSlot' /\ WithinBudget' /\ SharedFor' /\ FetchCounted'
    BY <1>1, <2>5, <2>6
    DEF QueryFile, IInv, ReservedSlot, WithinBudget, SharedFor, FetchCounted
  <2>8. DoneMeans' /\ RequestedExamined' /\ AnnouncedIsKeyed'
    BY <1>1 DEF QueryFile, DoneMeans, RequestedExamined, AnnouncedIsKeyed
  <2> QED
    BY <2>4, <2>7, <2>8 DEF IInv
<1>2. CASE QueryFileFails
  <2>1. TypeOK'
    BY <1>2 DEF IInv, TypeOK, QueryFileFails
  <2>2. Fetched' = {} /\ Cardinality(Fetched') = 0 /\ num \in Nat
    BY <1>2, FS_EmptySet DEF QueryFileFails, Fetched, IInv, TypeOK
  <2>3. CacheNum' = CacheNum
    BY <1>2 DEF QueryFileFails, CacheNum
  <2>4. ReservedSlot' /\ WithinBudget' /\ SharedFor' /\ FetchCounted'
    BY <1>2, <2>2, <2>3
    DEF QueryFileFails, IInv, ReservedSlot, WithinBudget, SharedFor, FetchCounted
  <2>5. DoneMeans' /\ RequestedExamined' /\ AnnouncedIsKeyed'
    BY <1>2 DEF QueryFileFails, IInv, DoneMeans, RequestedExamined, AnnouncedIsKeyed
  <2> QED
    BY <2>1, <2>4, <2>5 DEF IInv
<1> QED
  BY <1>1, <1>2

\* A step that leaves the file and the results alone leaves what is computed
\* from them alone.
LEMMA SameFetched ==
    ASSUME UNCHANGED <<list, resps>>
    PROVE  CacheNum' = CacheNum /\ Fetched' = Fetched
BY DEF CacheNum, Fetched, FetchedFor

\* The choice of the next segment: this is where the slot is kept.
LEMMA SegmentKeeps ==
    ASSUME IInv, Segment
    PROVE  IInv'
<1>1. CacheNum' = CacheNum /\ Fetched' = Fetched /\ CacheNum \in Nat
  BY SameFetched, CacheNumPos DEF Segment, IInv, TypeOK
<1>2. TypeOK'
  <2>1. done' \in BOOLEAN
    BY Zenon DEF Segment
  <2>2. i \in Nat /\ i' \in 1 .. Len(list) + 1
    BY DEF IInv, TypeOK, Segment
  <2>3. /\ pc' \in {"loop", "query"}
        /\ pc' = "query" => i' = i /\ i \in 1 .. Len(list)
    BY DEF Segment, IInv, TypeOK
  <2> QED
    BY <2>1, <2>2, <2>3 DEF IInv, TypeOK, Segment
<1>3. ReservedSlot' /\ WithinBudget'
  BY <1>1 DEF IInv, TypeOK, Segment, ReservedSlot, WithinBudget
<1>4. SharedFor' /\ FetchCounted'
  BY <1>1 DEF IInv, Segment, SharedFor, FetchCounted
<1>5. DoneMeans'
  <2>1. CASE done
    BY <2>1 DEF IInv, Segment, DoneMeans
  <2>2. CASE ~done /\ list[i] = want
    BY <2>2 DEF Segment, DoneMeans
  <2>3. CASE ~done /\ list[i] # want
    <3>1. ~done' /\ list' = list /\ want' = want /\ i \in Nat
      BY <2>3 DEF Segment, IInv, TypeOK
    <3>2. \A k \in 1 .. i : list[k] # want
      BY <2>3, <3>1 DEF Segment, IInv, DoneMeans
    <3>3. i' = i \/ (i' = i + 1 /\ pc' = "loop")
      BY DEF Segment
    <3>4. i \in Nat /\ (i' - 1 = i - 1 \/ i' - 1 = i)
      BY <3>1, <3>3
    <3>5. \A k \in 1 .. i' - 1 : list[k] # want
      <4>1. 1 .. i - 1 \subseteq 1 .. i
        BY <3>4
      <4>2. 1 .. i' - 1 \subseteq 1 .. i
        BY <3>4, <4>1
      <4> QED
        BY <3>2, <4>2, Zenon
    <3>6. pc' \in {"query", "share", "storage"} => list[i'] # want
      BY <2>3, <3>3
    <3> QED
      BY <3>1, <3>5, <3>6 DEF DoneMeans
  <2> QED
    BY <2>1, <2>2, <2>3
<1>6. RequestedExamined' /\ AnnouncedIsKeyed'
  BY DEF IInv, Segment, RequestedExamined, AnnouncedIsKeyed
<1> QED
  BY <1>2, <1>3, <1>4, <1>5, <1>6 DEF IInv

\* The return of the call: the walk has come to the requested segment.
LEMMA ReturnKeeps ==
    ASSUME IInv, Return
    PROVE  IInv'
<1>1. CacheNum' = CacheNum /\ Fetched' = Fetched
  BY SameFetched DEF Return
<1>2. TypeOK'
  BY DEF IInv, TypeOK, Return
<1>3. ReservedSlot' /\ WithinBudget' /\ SharedFor' /\ FetchCounted'
  BY <1>1 DEF IInv, Return, ReservedSlot, WithinBudget, SharedFor, FetchCounted
<1>4. DoneMeans' /\ AnnouncedIsKeyed'
  BY DEF IInv, Return, DoneMeans, AnnouncedIsKeyed
<1>5. RequestedExamined'
  <2>1. CASE done
    BY <2>1 DEF IInv, Return, DoneMeans, RequestedExamined
  <2>2. CASE ~done
    <3>1. num < CacheNum /\ CacheNum \in Nat /\ num \in Nat
      BY <2>2, CacheNumPos DEF IInv, TypeOK, Return, ReservedSlot
    <3>2. i > Len(list) /\ i \in 1 .. Len(list) + 1 /\ Len(list) \in Nat
      BY <3>1 DEF IInv, TypeOK, Return
    <3>3. DOMAIN list = 1 .. i - 1
      BY <3>2 DEF IInv, TypeOK
    <3> QED
      BY <2>2, <3>3 DEF IInv, Return, DoneMeans, RequestedExamined
  <2> QED
    BY <2>1, <2>2
<1> QED
  BY <1>2, <1>3, <1>4, <1>5 DEF IInv

\* The neighbours' answer, and the two ways of going on without it.
LEMMA NeighborsKeep ==
    ASSUME IInv, NeighborsFail \/ NeighborsEnough \/ NeighborsAnswer \/ ShareNothing
    PROVE  IInv'
<1> USE DEF NeighborsFail, NeighborsEnough, NeighborsAnswer, ShareNothing
<1>1. /\ CacheNum' = CacheNum /\ Fetched' = Fetched
      /\ UNCHANGED <<want, list, num, done, resps, announced>>
      /\ pc \in {"query", "share"}
  BY SameFetched
<1>2. list[i] \in Segments /\ i \in 1 .. Len(list) /\ Len(list) \in Nat
  BY <1>1 DEF IInv, TypeOK
<1>3. TypeOK'
  <2>1. /\ pc' \in {"loop", "share", "storage"}
        /\ asked' \subseteq Segments
        /\ i' \in 1 .. Len(list) + 1
        /\ pc' \in {"share", "storage"} => i' \in 1 .. Len(list)
    BY <1>2 DEF IInv, TypeOK
  <2>2. /\ holders' \in [Peers -> SUBSET Fragments]
        /\ shared' \subseteq RespType
    BY <1>2 DEF IInv, TypeOK
  <2>3. /\ spread' \in BOOLEAN
        /\ provide' \in BOOLEAN
    <3>1. spread' \in {spread, FALSE} /\ provide' = provide
      OBVIOUS
    <3> QED
      BY <3>1, Zenon DEF IInv, TypeOK
  <2>4. j' \in 1 .. FragmentNum + 1 /\ count' \in 0 .. DataShards
    BY StoragedFilesAssumption DEF IInv, TypeOK
  <2> QED
    BY <1>1, <2>1, <2>2, <2>3, <2>4 DEF IInv, TypeOK
<1>4. ReservedSlot' /\ WithinBudget'
  BY <1>1 DEF IInv, ReservedSlot, WithinBudget
<1>5. SharedFor'
  BY <1>1 DEF IInv, SharedFor
<1>6. FetchCounted'
  <2>1. /\ IsFiniteSet(Fetched) /\ Cardinality(Fetched) \in Nat
        /\ Cardinality(Fetched) <= num
    BY <1>1, FetchedFinite DEF IInv, FetchCounted
  <2>2. /\ Cardinality(Fetched \ {list[i]}) \in Nat
        /\ Cardinality(Fetched \ {list[i]}) <= Cardinality(Fetched)
    BY <2>1, FS_Subset, FS_CardinalityType
  <2>3. num \in Nat /\ (pc' = "storage" => i' = i)
    BY DEF IInv, TypeOK
  <2> QED
    BY <1>1, <2>1, <2>2, <2>3 DEF FetchCounted
<1>7. DoneMeans'
  BY <1>1, <1>2 DEF IInv, DoneMeans
<1>8. RequestedExamined' /\ AnnouncedIsKeyed'
  BY <1>1 DEF IInv, SharedFor, RequestedExamined, AnnouncedIsKeyed
<1> QED
  BY <1>3, <1>4, <1>5, <1>6, <1>7, <1>8 DEF IInv

\* One neighbour gives files, which are filed under the segment in hand; the
\* announcement follows a file it gave.
LEMMA SharePeerKeeps ==
    ASSUME IInv, NEW p \in Peers, NEW files \in SUBSET holders[p], SharePeer(p, files)
    PROVE  IInv'
<1>1. /\ CacheNum' = CacheNum /\ Fetched' = Fetched
      /\ pc = "share" /\ pc' = "share"
      /\ UNCHANGED <<want, list, i, num, done, provide, j, count, resps, asked>>
  BY SameFetched DEF SharePeer
<1>2. list[i] \in Segments /\ holders[p] \subseteq Fragments
  BY <1>1 DEF IInv, TypeOK
<1>3. {Resp(list[i], f, p) : f \in files} \subseteq RespType
  BY <1>1, <1>2 DEF Resp, RespType
<1>4. /\ shared' = shared \cup {Resp(list[i], f, p) : f \in files}
      /\ holders' = [holders EXCEPT ![p] = {}]
      /\ \/ announced' = announced
         \/ files # {} /\ announced' = announced \cup {list[i]}
      /\ spread' \in {spread, TRUE}
  BY DEF SharePeer, Announce
<1>5. TypeOK'
  <2>1. spread' \in BOOLEAN
    BY <1>4, Zenon DEF IInv, TypeOK
  <2>2. shared' \subseteq RespType /\ announced' \subseteq Segments
    BY <1>2, <1>3, <1>4 DEF IInv, TypeOK
  <2>3. holders' \in [Peers -> SUBSET Fragments]
    BY <1>4 DEF IInv, TypeOK
  <2> QED
    BY <1>1, <2>1, <2>2, <2>3 DEF IInv, TypeOK
<1>6. ReservedSlot' /\ WithinBudget' /\ FetchCounted'
  BY <1>1 DEF IInv, ReservedSlot, WithinBudget, FetchCounted
<1>7. SharedFor'
  <2>1. \A r \in shared' : r.key = list[i] /\ r.origin \in Peers
    BY <1>1, <1>4 DEF IInv, SharedFor, Resp
  <2> QED
    BY <1>1, <2>1 DEF SharedFor
<1>8. DoneMeans' /\ RequestedExamined'
  BY <1>1 DEF IInv, DoneMeans, RequestedExamined
<1>9. AnnouncedIsKeyed'
  <2>1. announced \subseteq {r.key : r \in resps' \cup shared'}
    BY <1>1, <1>4 DEF IInv, AnnouncedIsKeyed
  <2>2. files # {} => list[i] \in {r.key : r \in resps' \cup shared'}
    <3> SUFFICES ASSUME NEW f \in files
                 PROVE  list[i] \in {r.key : r \in resps' \cup shared'}
      OBVIOUS
    <3> DEFINE new == Resp(list[i], f, p)
    <3>1. new \in resps' \cup shared' /\ new.key = list[i]
      BY <1>4 DEF Resp
    <3> HIDE DEF new
    <3> QED
      BY <3>1
  <2> QED
    BY <1>4, <2>1, <2>2 DEF AnnouncedIsKeyed
<1> QED
  BY <1>5, <1>6, <1>7, <1>8, <1>9 DEF IInv

\* The walk goes on after a segment that was fetched and counted.
LEMMA CountedKeeps ==
    ASSUME IInv, pc \in {"share", "storage"}, pc' = "loop", i' = i + 1, num' = num + 1,
           UNCHANGED <<want, list, done, asked>>
    PROVE  ReservedSlot' /\ WithinBudget' /\ DoneMeans' /\ RequestedExamined'
<1>1. CacheNum' = CacheNum /\ CacheNum \in Nat /\ num \in Nat /\ i \in Nat
  BY CacheNumPos DEF CacheNum, IInv, TypeOK
<1>2. ReservedSlot' /\ WithinBudget'
  BY <1>1 DEF IInv, ReservedSlot, WithinBudget
<1>3. DoneMeans'
  <2>1. CASE done
    BY <2>1 DEF IInv, DoneMeans
  <2>2. CASE ~done
    <3>1. \A k \in 1 .. i : list[k] # want
      BY <1>1, <2>2 DEF IInv, DoneMeans
    <3>2. i' - 1 = i
      BY <1>1
    <3> QED
      BY <2>2, <3>1, <3>2 DEF DoneMeans
  <2> QED
    BY <2>1, <2>2
<1>4. RequestedExamined'
  BY DEF RequestedExamined
<1> QED
  BY <1>2, <1>3, <1>4

\* The segment the neighbours gave is counted.
LEMMA ShareDoneKeeps ==
    ASSUME IInv, ShareDone
    PROVE  IInv'
<1>1. /\ pc = "share" /\ pc' = "loop"
      /\ resps' = resps \cup shared /\ shared' = {}
      /\ num' = num + 1 /\ i' = i + 1 /\ holders' = NoHolders
      /\ UNCHANGED <<want, list, done, provide, spread, j, count, asked, announced>>
  BY DEF ShareDone
<1>2. i \in 1 .. Len(list) /\ Len(list) \in Nat /\ num \in Nat
  BY <1>1 DEF IInv, TypeOK
<1>3. ReservedSlot' /\ WithinBudget' /\ DoneMeans' /\ RequestedExamined'
  BY <1>1, CountedKeeps
<1>4. TypeOK'
  <2>1. holders' \in [Peers -> SUBSET Fragments]
    BY <1>1 DEF NoHolders
  <2>2. resps' \subseteq RespType /\ shared' \subseteq RespType
    BY <1>1 DEF IInv, TypeOK
  <2>3. i' \in 1 .. Len(list) + 1 /\ num' \in Nat
    BY <1>1, <1>2
  <2> QED
    BY <1>1, <2>1, <2>2, <2>3 DEF IInv, TypeOK
<1>5. SharedFor' /\ AnnouncedIsKeyed'
  BY <1>1 DEF IInv, SharedFor, AnnouncedIsKeyed
<1>6. FetchCounted'
  <2>1. Fetched' \subseteq Fetched \cup {list[i]}
    BY <1>1, StoragedFilesAssumption DEF IInv, SharedFor, Fetched, FetchedFor
  <2>2. /\ Cardinality(Fetched') \in Nat /\ Cardinality(Fetched) \in Nat
        /\ Cardinality(Fetched') <= Cardinality(Fetched) + 1
    BY <2>1, FetchedFinite, OneMore DEF IInv
  <2>3. Cardinality(Fetched) <= num
    BY <1>1 DEF IInv, FetchCounted
  <2> QED
    BY <1>1, <1>2, <2>2, <2>3 DEF FetchCounted
<1> QED
  BY <1>3, <1>4, <1>5, <1>6 DEF IInv

\* The storage nodes: the fragments read are all of the segment in hand, and
\* the segment is counted once.
LEMMA StorageKeeps ==
    ASSUME IInv, StorageFails \/ StorageReads \/ StorageDone
    PROVE  IInv'
<1>1. CASE StorageFails
  <2>1. /\ CacheNum' = CacheNum /\ Fetched' = Fetched
        /\ j' \in 1 .. FragmentNum + 1
    BY <1>1, SameFetched, StoragedFilesAssumption DEF StorageFails, IInv, TypeOK
  <2>2. TypeOK'
    BY <1>1, <2>1 DEF StorageFails, IInv, TypeOK
  <2> QED
    BY <1>1, <2>1, <2>2
    DEF StorageFails, IInv, ReservedSlot, WithinBudget, SharedFor, FetchCounted,
        DoneMeans, RequestedExamined, AnnouncedIsKeyed
<1>2. CASE StorageReads
  <2>1. /\ pc = "storage" /\ pc' = pc
        /\ UNCHANGED <<want, list, i, num, done, holders, shared, spread, asked>>
        /\ resps' = resps \cup {Resp(want, <<list[i], j>>, "site")}
        /\ j' = j + 1 /\ j <= FragmentNum /\ count' = count + 1 /\ count < DataShards
    BY <1>2 DEF StorageReads
  <2>2. /\ announced' = announced \/ announced' = announced \cup {want}
        /\ provide' \in {provide, TRUE}
    BY <1>2 DEF StorageReads, Announce
  <2>3. list[i] \in Segments /\ j \in 1 .. FragmentNum /\ count + 1 \in 0 .. DataShards
    BY <2>1, StoragedFilesAssumption DEF IInv, TypeOK
  <2>4. Resp(want, <<list[i], j>>, "site") \in RespType
    BY <2>3 DEF IInv, TypeOK, Resp, RespType, Fragments
  <2>5. TypeOK'
    <3>1. provide' \in BOOLEAN
      BY <2>2, Zenon DEF IInv, TypeOK
    <3>2. announced' \subseteq Segments /\ resps' \subseteq RespType
      BY <2>1, <2>2, <2>4 DEF IInv, TypeOK
    <3>3. j' \in 1 .. FragmentNum + 1 /\ count' \in 0 .. DataShards
      BY <2>1, <2>3, StoragedFilesAssumption
    <3> QED
      BY <2>1, <3>1, <3>2, <3>3 DEF IInv, TypeOK
  <2>6. CacheNum' = CacheNum
    BY <2>1 DEF CacheNum
  <2>7. Fetched' \ {list[i]} = Fetched \ {list[i]}
    BY <2>1 DEF Fetched, FetchedFor, Resp
  <2>8. ReservedSlot' /\ WithinBudget' /\ FetchCounted'
    BY <2>1, <2>6, <2>7 DEF IInv, ReservedSlot, WithinBudget, FetchCounted
  <2>9. SharedFor' /\ DoneMeans' /\ RequestedExamined'
    BY <2>1 DEF IInv, SharedFor, DoneMeans, RequestedExamined
  <2>10. AnnouncedIsKeyed'
    <3>1. announced \subseteq {r.key : r \in resps' \cup shared'}
      BY <2>1 DEF IInv, AnnouncedIsKeyed
    <3>2. want \in {r.key : r \in resps' \cup shared'}
      <4> DEFINE new == Resp(want, <<list[i], j>>, "site")
      <4>1. new \in resps' \cup shared' /\ new.key = want
        BY <2>1 DEF Resp
      <4> HIDE DEF new
      <4> QED
        BY <4>1
    <3> QED
      BY <2>2, <3>1, <3>2 DEF AnnouncedIsKeyed
  <2> QED
    BY <2>5, <2>8, <2>9, <2>10 DEF IInv
<1>3. CASE StorageDone
  <2>1. /\ pc = "storage" /\ pc' = "loop" /\ num' = num + 1 /\ i' = i + 1
        /\ j' = 1 /\ count' = 0
        /\ UNCHANGED <<want, list, done, provide, holders, shared, spread, resps,
                       asked, announced>>
    BY <1>3 DEF StorageDone
  <2>2. ReservedSlot' /\ WithinBudget' /\ DoneMeans' /\ RequestedExamined'
    BY <2>1, CountedKeeps
  <2>3. TypeOK'
    <3>1. /\ i' \in 1 .. Len(list) + 1 /\ num' \in Nat
          /\ j' \in 1 .. FragmentNum + 1 /\ count' \in 0 .. DataShards
      BY <2>1, StoragedFilesAssumption DEF IInv, TypeOK
    <3> QED
      BY <2>1, <3>1 DEF IInv, TypeOK
  <2>4. FetchCounted'
    <3>1. Fetched' = Fetched /\ IsFiniteSet(Fetched \ {list[i]})
      BY <2>1, FetchedFinite, FS_Subset DEF Fetched, IInv
    <3>2. /\ Cardinality(Fetched) \in Nat /\ Cardinality(Fetched \ {list[i]}) \in Nat
          /\ Cardinality(Fetched) <= Cardinality(Fetched \ {list[i]}) + 1
      <4>1. Fetched \subseteq (Fetched \ {list[i]}) \cup {list[i]}
        OBVIOUS
      <4> QED
        BY <3>1, <4>1, OneMore
    <3>3. Cardinality(Fetched \ {list[i]}) <= num /\ num \in Nat
      BY <2>1 DEF IInv, TypeOK, FetchCounted
    <3> QED
      BY <2>1, <3>1, <3>2, <3>3 DEF FetchCounted
  <2>5. SharedFor' /\ AnnouncedIsKeyed'
    BY <2>1 DEF IInv, SharedFor, AnnouncedIsKeyed
  <2> QED
    BY <2>2, <2>3, <2>4, <2>5 DEF IInv
<1> QED
  BY <1>1, <1>2, <1>3

\* Every step keeps the inductive invariant: one case per action.
LEMMA IInvNext == IInv /\ [Next]_vars => IInv'
<1> SUFFICES ASSUME IInv, [Next]_vars PROVE IInv'
  OBVIOUS
<1>1. CASE QueryFile \/ QueryFileFails
  BY <1>1, QueryFileKeeps
<1>2. CASE Segment
  BY <1>2, SegmentKeeps
<1>3. CASE Return
  BY <1>3, ReturnKeeps
<1>4. CASE NeighborsFail \/ NeighborsEnough \/ NeighborsAnswer \/ ShareNothing
  BY <1>4, NeighborsKeep
<1>5. ASSUME NEW p \in Peers, NEW files \in SUBSET holders[p], SharePeer(p, files)
      PROVE  IInv'
  BY <1>5, SharePeerKeeps
<1>6. CASE ShareDone
  BY <1>6, ShareDoneKeeps
<1>7. CASE StorageFails \/ StorageReads \/ StorageDone
  BY <1>7, StorageKeeps
<1>8. CASE UNCHANGED vars
  <2>1. CacheNum' = CacheNum /\ Fetched' = Fetched
    BY <1>8, SameFetched DEF vars
  <2> QED
    BY <1>8, <2>1
    DEF vars, IInv, TypeOK, ReservedSlot, WithinBudget, SharedFor, FetchCounted,
        DoneMeans, RequestedExamined, AnnouncedIsKeyed
<1> QED
  BY <1>1, <1>2, <1>3, <1>4, <1>5, <1>6, <1>7, <1>8 DEF Next, Step

-----------------------------------------------------------------------------
\* The invariant holds in every execution.
LEMMA Invariance == Spec => []IInv
BY InitIInv, IInvNext, PTL DEF Spec

\* The indices stay inside the lists and the loop stops at DataShards.
THEOREM TypeCorrect == Spec => []TypeOK
<1>1. IInv => TypeOK
  BY DEF IInv
<1> QED
  BY Invariance, <1>1, PTL

\* A call fetches files for at most cacheNum segments, whatever the shuffle does,
\* the neighbours list and the storage nodes give.
THEOREM BudgetRespected == Spec => []FetchedWithinBudget
<1>1. IInv => FetchedWithinBudget
  <2> SUFFICES ASSUME IInv PROVE FetchedWithinBudget
    OBVIOUS
  <2>1. CacheNum \in Nat /\ num \in Nat /\ Cardinality(Fetched) \in Nat
    BY CacheNumPos, FetchedFinite DEF IInv, TypeOK
  <2>2. CASE pc = "storage"
    <3>1. IsFiniteSet(Fetched \ {list[i]})
      BY FetchedFinite, FS_Subset DEF IInv
    <3>2. Fetched \subseteq (Fetched \ {list[i]}) \cup {list[i]}
      OBVIOUS
    <3>3. /\ Cardinality(Fetched \ {list[i]}) \in Nat
          /\ Cardinality(Fetched) <= Cardinality(Fetched \ {list[i]}) + 1
      BY <3>1, <3>2, OneMore
    <3> QED
      BY <2>1, <2>2, <3>3 DEF IInv, WithinBudget, FetchCounted, FetchedWithinBudget
  <2>3. CASE pc # "storage"
    BY <2>1, <2>3 DEF IInv, WithinBudget, FetchCounted, FetchedWithinBudget
  <2> QED
    BY <2>2, <2>3
<1> QED
  BY Invariance, <1>1, PTL

\* Prefetching never takes the slot of the requested segment.
THEOREM SlotReserved == Spec => []ReservedSlot
<1>1. IInv => ReservedSlot
  BY DEF IInv
<1> QED
  BY Invariance, <1>1, PTL

\* A call that returns normally has asked for the requested segment, wherever
\* the shuffle put it and however often its content occurs in the file.
THEOREM RequestedReached == Spec => []RequestedExamined
<1>1. IInv => RequestedExamined
  BY DEF IInv
<1> QED
  BY Invariance, <1>1, PTL

\* A CID is announced only after a fragment was fetched under that name.
THEOREM AnnouncedHeld == Spec => []AnnouncedIsKeyed
<1>1. IInv => AnnouncedIsKeyed
  BY DEF IInv
<1> QED
  BY Invariance, <1>1, PTL

=============================================================================
