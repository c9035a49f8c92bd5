---------------------------- MODULE StoragedFiles ----------------------------
(***************************************************************************)
(* ResourceActor.DownloadStoragedFiles and SharedSegmentFromNeighborCacher:*)
(* one call fetches the requested segment of a file and a few other ones,  *)
(* each from neighbour cache nodes if some hold it and from the storage    *)
(* nodes otherwise.  The neighbours' answers are those NeighborQuery       *)
(* allows: an error, or at most AvgCachedSegmentNum peers.                 *)
(*                                                                         *)
(* A fragment is <<s, k>>, the k-th of segment s.  A neighbour may list    *)
(* any fragment under the segment it is asked for: the storage branch      *)
(* files the fragments of every segment it reads under the requested one,  *)
(* and the names in an answer are not looked at.                           *)
(***************************************************************************)
EXTENDS Integers, Sequences, FiniteSets

CONSTANTS
    Segments,              \* segment hashes of the file's metadata
    Peers,                 \* neighbour cache nodes
    FragmentNum,           \* fragments per segment (data and parity)
    DataShards,            \* config.DataShards
    MinCachedSegmentNum,
    MaxCachedSegmentNum,
    AvgCachedSegmentNum,
    NeighborNum,
    MaxSegments            \* bound: segments of a file

ASSUME StoragedFilesAssumption ==
    /\ IsFiniteSet(Segments)
    /\ IsFiniteSet(Peers) /\ "site" \notin Peers
    /\ FragmentNum \in Nat
    /\ DataShards \in Nat \ {0}
    /\ MinCachedSegmentNum \in Nat \ {0}
    /\ MaxCachedSegmentNum \in Nat \ {0}
    /\ AvgCachedSegmentNum \in Nat \ {0}
    /\ NeighborNum \in Nat \ {0}
    /\ MaxSegments \in Nat

VARIABLES
    pc,       \* "idle", "loop", "query", "share", "storage", "ok" or "err"
    want,     \* shash, the requested segment
    list,     \* fmeta.SegmentList after ShuffleSegments
    i,        \* the segment in hand
    num,      \* segments counted against the cache budget
    done,     \* the loop has reached the requested segment
    provide,  \* the storage branch has announced the segment
    holders,  \* the fragments listed by each "hit" peer not visited yet
    shared,   \* the responses of SharedSegmentFromNeighborCacher
    spread,   \* its own provide flag
    j,        \* storage branch: the fragment in hand
    count,    \* storage branch: fragments read of the segment in hand
    resps,    \* totalResps; their order is not used here
    asked,    \* ghost: segments the neighbours were asked for
    announced \* ghost: the segments whose CID this call has provided

vars == <<pc, want, list, i, num, done, provide, holders, shared, spread, j,
          count, resps, asked, announced>>

-----------------------------------------------------------------------------
Fragments == Segments \X (1 .. FragmentNum)

\* The cache budget of the call.
CacheNum ==
    LET n == MinCachedSegmentNum + (Len(list) \div NeighborNum)
    IN  IF n > MaxCachedSegmentNum THEN MaxCachedSegmentNum ELSE n

\* DownloadResponse: the segment in its key, the file, and who gave it;
\* "site" stands for ORIGIN_SITE_TAG.
Resp(key, fragment, origin) ==
    [key |-> key, fragment |-> fragment, origin |-> origin]

FragmentsOf(responses) == {r.fragment : r \in responses}

\* The segment in hand when response r was fetched: a neighbour's files have
\* its name in their key, those of the storage nodes are its fragments.
FetchedFor(r) == IF r.origin = "site" THEN r.fragment[1] ELSE r.key

Fetched == {FetchedFor(r) : r \in resps}

NoHolders == [p \in Peers |-> {}]

\* Reading files of the cache or of a storage node allows a call of Provide
\* for segment s, made unless one has succeeded before.
Announce(flag, new, s) ==
    \/ new = flag /\ UNCHANGED announced
    \/ ~flag /\ new = TRUE /\ announced' = announced \cup {s}

-----------------------------------------------------------------------------
Init ==
    /\ pc = "idle"
    /\ want \in Segments
    /\ list = <<>>
    /\ i = 1
    /\ num = 0
    /\ done = FALSE
    /\ provide = FALSE
    /\ holders = NoHolders
    /\ shared = {}
    /\ spread = FALSE
    /\ j = 1
    /\ count = 0
    /\ resps = {}
    /\ asked = {}
    /\ announced = {}

\* The metadata is found and its segments are shuffled.  Two segments of a
\* file with the same content have the same hash.
QueryFile ==
    /\ pc \in {"idle", "ok", "err"}
    /\ want' \in Segments
    /\ \E n \in 0 .. MaxSegments : list' \in [1 .. n -> Segments]
    /\ pc' = "loop"
    /\ i' = 1
    /\ num' = 0
    /\ done' = FALSE
    /\ provide' = FALSE
    /\ resps' = {}
    /\ asked' = {}
    /\ announced' = {}
    /\ UNCHANGED <<holders, shared, spread, j, count>>

QueryFileFails ==
    /\ pc \in {"idle", "ok", "err"}
    /\ pc' = "err"
    /\ resps' = {}
    /\ announced' = {}
    /\ UNCHANGED <<want, list, i, num, done, provide, holders, shared, spread, j,
                   count, asked>>

\* Mutant: <= instead of < in the test of the budget.
SegmentOverBudget ==
    /\ pc = "loop"
    /\ i <= Len(list)
    /\ num <= CacheNum
    /\ done' = (done \/ list[i] = want)
    /\ \/ /\ ~done'
          /\ num >= CacheNum - 1
          /\ i' = i + 1
          /\ UNCHANGED pc
       \/ /\ done' \/ num < CacheNum - 1
          /\ pc' = "query"
          /\ UNCHANGED i
    /\ UNCHANGED <<want, list, num, provide, holders, shared, spread, j, count,
                   resps, asked, announced>>

\* Mutant: no slot is kept for the requested segment.
SegmentNoReserve ==
    /\ pc = "loop"
    /\ i <= Len(list)
    /\ num < CacheNum
    /\ done' = (done \/ list[i] = want)
    /\ pc' = "query"
    /\ UNCHANGED <<want, list, i, num, provide, holders, shared, spread, j, count,
                   resps, asked, announced>>

\* The next segment: the last slot of the budget is kept for the requested
\* one, the others are skipped.
Segment ==
    /\ pc = "loop"
    /\ i <= Len(list)
    /\ num < CacheNum
    /\ done' = (done \/ list[i] = want)
    /\ \/ /\ ~done'
          /\ num >= CacheNum - 1
          /\ i' = i + 1
          /\ UNCHANGED pc
       \/ /\ done' \/ num < CacheNum - 1
          /\ pc' = "query"
          /\ UNCHANGED i
    /\ UNCHANGED <<want, list, num, provide, holders, shared, spread, j, count,
                   resps, asked, announced>>

Return ==
    /\ pc = "loop"
    /\ i > Len(list) \/ num >= CacheNum
    /\ pc' = "ok"
    /\ UNCHANGED <<want, list, i, num, done, provide, holders, shared, spread, j,
                   count, resps, asked, announced>>

\* QuerySegmentFromNeighborCacher fails: straight to the storage nodes.
NeighborsFail ==
    /\ pc = "query"
    /\ asked' = asked \cup {list[i]}
    /\ pc' = "storage"
    /\ j' = 1
    /\ count' = 0
    /\ UNCHANGED <<want, list, i, num, done, provide, holders, shared, spread,
                   resps, announced>>

\* Enough neighbours hold or are loading the segment: leave it to them.
NeighborsEnough ==
    /\ pc = "query"
    /\ Cardinality(Peers) >= AvgCachedSegmentNum
    /\ asked' = asked \cup {list[i]}
    /\ pc' = "loop"
    /\ i' = i + 1
    /\ UNCHANGED <<want, list, num, done, provide, holders, shared, spread, j,
                   count, resps, announced>>

\* Fewer than AvgCachedSegmentNum peers answered; those that are loading are
\* passed over, a "hit" lists at least one fragment, of whichever segment.
NeighborsAnswer ==
    /\ pc = "query"
    /\ asked' = asked \cup {list[i]}
    /\ \E hit \in SUBSET Peers :
          /\ Cardinality(hit) < AvgCachedSegmentNum
          /\ holders' \in [Peers -> SUBSET Fragments]
          /\ \A p \in Peers : p \in hit <=> holders'[p] # {}
    /\ shared' = {}
    /\ spread' = FALSE
    /\ pc' = "share"
    /\ UNCHANGED <<want, list, i, num, done, provide, j, count, resps, announced>>

\* Mutant: the CID is provided before the download is known to succeed.
SharePeerEager(p, files) ==
    /\ pc = "share"
    /\ holders[p] # {}
    /\ Cardinality(shared) < DataShards
    /\ files \subseteq holders[p] \ FragmentsOf(shared)
    /\ shared' = shared \cup {Resp(list[i], f, p) : f \in files}
    /\ holders' = [holders EXCEPT ![p] = {}]
    /\ Announce(spread, spread', list[i])
    /\ UNCHANGED <<pc, want, list, i, num, done, provide, j, count, resps, asked>>

\* One peer of the map: of the fragments it lists and nobody gave before,
\* those in `files` are downloaded and the other downloads fail.
SharePeer(p, files) ==
    /\ pc = "share"
    /\ holders[p] # {}
    /\ Cardinality(shared) < DataShards
    /\ files \subseteq holders[p] \ FragmentsOf(shared)
    /\ shared' = shared \cup {Resp(list[i], f, p) : f \in files}
    /\ holders' = [holders EXCEPT ![p] = {}]
    /\ \/ files # {} /\ Announce(spread, spread', list[i])
       \/ files = {} /\ UNCHANGED <<spread, announced>>
    /\ UNCHANGED <<pc, want, list, i, num, done, provide, j, count, resps, asked>>

\* SharedSegmentFromNeighborCacher returns something: the segment is counted.
ShareDone ==
    /\ pc = "share"
    /\ holders = NoHolders \/ Cardinality(shared) >= DataShards
    /\ shared # {}
    /\ resps' = resps \cup shared
    /\ num' = num + 1
    /\ i' = i + 1
    /\ pc' = "loop"
    /\ shared' = {}
    /\ holders' = NoHolders
    /\ UNCHANGED <<want, list, done, provide, spread, j, count, asked, announced>>

\* It returns nothing: on to the storage nodes.
ShareNothing ==
    /\ pc = "share"
    /\ holders = NoHolders
    /\ shared = {}
    /\ pc' = "storage"
    /\ j' = 1
    /\ count' = 0
    /\ UNCHANGED <<want, list, i, num, done, provide, holders, shared, spread,
                   resps, asked, announced>>

\* QueryMinerItems or ReadDataAction fails for the fragment in hand.
StorageFails ==
    /\ pc = "storage"
    /\ j <= FragmentNum /\ count < DataShards
    /\ j' = j + 1
    /\ UNCHANGED <<pc, want, list, i, num, done, provide, holders, shared, spread,
                   count, resps, asked, announced>>

\* Mutant: the loop over the fragments does not stop at DataShards.
StorageReadsAll ==
    /\ pc = "storage"
    /\ j <= FragmentNum
    /\ j' = j + 1
    /\ count' = count + 1
    /\ resps' = resps \cup {Resp(want, <<list[i], j>>, "site")}
    /\ Announce(provide, provide', want)
    /\ UNCHANGED <<pc, want, list, i, num, done, holders, shared, spread, asked>>

\* The fragment is read; its key, and the CID announced, are made with shash.
StorageReads ==
    /\ pc = "storage"
    /\ j <= FragmentNum /\ count < DataShards
    /\ j' = j + 1
    /\ count' = count + 1
    /\ resps' = resps \cup {Resp(want, <<list[i], j>>, "site")}
    /\ Announce(provide, provide', want)
    /\ UNCHANGED <<pc, want, list, i, num, done, holders, shared, spread, asked>>

\* The segment is counted, whether or not any fragment was read.
StorageDone ==
    /\ pc = "storage"
    /\ j > FragmentNum \/ count >= DataShards
    /\ num' = num + 1
    /\ i' = i + 1
    /\ pc' = "loop"
    /\ j' = 1
    /\ count' = 0
    /\ UNCHANGED <<want, list, done, provide, holders, shared, spread, resps,
                   asked, announced>>

Step ==
    \/ Segment
    \/ Return
    \/ NeighborsFail
    \/ NeighborsEnough
    \/ NeighborsAnswer
    \/ \E p \in Peers : \E files \in SUBSET holders[p] : SharePeer(p, files)
    \/ ShareDone
    \/ ShareNothing
    \/ StorageFails
    \/ StorageReads
    \/ StorageDone

Next == QueryFile \/ QueryFileFails \/ Step

\* Every remote call the function makes returns, with an answer or an error.
Spec == Init /\ [][Next]_vars /\ WF_vars(Step)

-----------------------------------------------------------------------------
(* Properties *)

RespType == [key : Segments, fragment : Fragments,
             origin : Peers \cup {"site"}]

\* The variables keep their types; the indices stay inside the lists the
\* loops walk.
TypeOK ==
    /\ pc \in {"idle", "loop", "query", "share", "storage", "ok", "err"}
    /\ want \in Segments
    /\ list \in Seq(Segments)
    /\ i \in 1 .. Len(list) + 1
    /\ pc \in {"query", "share", "storage"} => i \in 1 .. Len(list)
    /\ num \in Nat
    /\ done \in BOOLEAN
    /\ provide \in BOOLEAN
    /\ holders \in [Peers -> SUBSET Fragments]
    /\ shared \subseteq RespType
    /\ spread \in BOOLEAN
    /\ j \in 1 .. FragmentNum + 1
    /\ count \in 0 .. DataShards
    /\ resps \subseteq RespType
    /\ asked \subseteq Segments
    /\ announced \subseteq Segments

\* One call fetches files for at most CacheNum segments, from whichever of the
\* two sources each segment comes and whatever the neighbours list.
FetchedWithinBudget == Cardinality(Fetched) <= CacheNum

\* Prefetching other segments never uses up the budget before the loop has
\* come to the requested one, wherever the shuffle has put it.
ReservedSlot ==
    pc \in {"loop", "query", "share", "storage"} /\ ~done => num < CacheNum

\* A call that returns normally has asked the neighbours for the requested
\* segment, if the file has it.
RequestedExamined ==
    pc = "ok" /\ (\E k \in DOMAIN list : list[k] = want) => want \in asked

\* A CID is provided to the DHT only for a segment under whose name this
\* call hands files to the cache actor.
AnnouncedIsKeyed ==
    announced \subseteq {r.key : r \in resps \cup shared}

=============================================================================
