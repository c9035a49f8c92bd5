--------------------------- MODULE SegmentDownload ---------------------------
(***************************************************************************)
(* How the client gets a segment.  DownloadSegment asks every known cacher *)
(* (QuerySegmentFromCachers) and, if none has the segment, reads fragments *)
(* from the storage nodes (DownloadSegmentFromStorage).                    *)
(* DownloadSegmentFromCachers, also called on its own, starts a goroutine  *)
(* per cacher that has the segment; they share the counters dl and dld and *)
(* the set cachedFragments under a lock.                                   *)
(*                                                                         *)
(* osQueue is never made: a send on the nil channel blocks for ever.  A    *)
(* hit therefore ends DownloadSegment's progress, and its lines after a    *)
(* successful query are not reachable; DownloadSegmentFromCachers is       *)
(* modelled with any argument its callers can pass.  The order of          *)
(* CachedFiles is left open.                                               *)
(***************************************************************************)
EXTENDS Integers, FiniteSets

CONSTANTS
    Cachers,      \* the cachers that are known
    NoCacher,     \* a query thread that has drawn no peer
    Fragments,    \* fragments of the segment
    NoFragment,   \* a goroutine that downloads nothing
    DataShards    \* config.DataShards

ASSUME SegmentAssumption ==
    /\ IsFiniteSet(Cachers) /\ IsFiniteSet(Fragments)
    /\ NoCacher \notin Cachers
    /\ NoFragment \notin Fragments
    /\ DataShards \in Nat \ {0}

VARIABLES
    phase,    \* where the call is
    lists,    \* CachedFiles of each cacher
    hits,     \* the peers in cachedPeers
    itor,     \* peers the iterator has still to give
    thread,   \* what each thread of the query asks (one thread per peer), or
              \* "blocked" on osQueue, or "done"
    dl, dld,  \* the shared counters
    taken,    \* cachedFragments
    worker,   \* where each goroutine of the download is
    rest,     \* what is left of its pass through CachedFiles
    cur,      \* the fragment it downloads
    res,      \* how often each fragment is in the result
    disk,     \* fragments that were downloaded without an error
    todo      \* storage: fragments of the segment's FragmentList still to try

queryVars == <<itor, thread>>
sharedVars == <<dl, dld, taken, res>>
workerVars == <<worker, rest, cur>>
segmentVars == <<phase, lists, hits, queryVars, sharedVars, workerVars, disk, todo>>

SegmentInit ==
    /\ lists \in [Cachers -> SUBSET Fragments]
    /\ \/ phase = "query" /\ hits = {}
       \/ phase = "download" /\ hits \in SUBSET Cachers
    /\ itor = IF phase = "query" THEN Cachers ELSE {}
    /\ thread = [t \in Cachers |-> NoCacher]
    /\ dl = 0 /\ dld = 0
    /\ taken = {}
    /\ worker = [p \in Cachers |-> "top"]
    /\ rest = [p \in Cachers |-> {}]
    /\ cur = [p \in Cachers |-> NoFragment]
    /\ res = [f \in Fragments |-> 0]
    /\ disk = {}
    /\ todo = Fragments

-----------------------------------------------------------------------------
(* QuerySegmentFromCachers *)

\* itor.GetPeer, under the lock.
GetPeer(t, p) ==
    /\ phase = "query"
    /\ thread[t] = NoCacher
    /\ p \in itor
    /\ itor' = itor \ {p}
    /\ thread' = [thread EXCEPT ![t] = p]
    /\ UNCHANGED <<phase, lists, hits, sharedVars, workerVars, disk, todo>>

NoMorePeers(t) ==
    /\ phase = "query"
    /\ thread[t] = NoCacher
    /\ itor = {}
    /\ thread' = [thread EXCEPT ![t] = "done"]
    /\ UNCHANGED <<phase, lists, hits, itor, sharedVars, workerVars, disk, todo>>

\* Mutant: a thread whose query fails waits for the peer.
NoHitWaits(t) ==
    /\ thread[t] \in Cachers
    /\ thread' = [thread EXCEPT ![t] = "blocked"]
    /\ UNCHANGED <<phase, lists, hits, itor, sharedVars, workerVars, disk, todo>>

\* The query fails, or the status of the answer is not STATUS_HIT.
NoHit(t) ==
    /\ thread[t] \in Cachers
    /\ thread' = [thread EXCEPT ![t] = NoCacher]
    /\ UNCHANGED <<phase, lists, hits, itor, sharedVars, workerVars, disk, todo>>

\* STATUS_HIT: the answer is kept, and sent to the nil channel.
Hit(t) ==
    /\ thread[t] \in Cachers
    /\ hits' = hits \cup {thread[t]}
    /\ thread' = [thread EXCEPT ![t] = "blocked"]
    /\ UNCHANGED <<phase, lists, itor, sharedVars, workerVars, disk, todo>>

\* wg.Wait returns; the map is empty.
QueryReturns ==
    /\ phase = "query"
    /\ \A t \in Cachers : thread[t] = "done"
    /\ phase' = "storage"
    /\ UNCHANGED <<lists, hits, queryVars, sharedVars, workerVars, disk, todo>>

\* No cacher is known, or NewPeersIterator fails.
QueryFails ==
    /\ phase = "query"
    /\ itor = Cachers
    /\ phase' = "storage"
    /\ itor' = {}
    /\ UNCHANGED <<lists, hits, thread, sharedVars, workerVars, disk, todo>>

-----------------------------------------------------------------------------
(* DownloadSegmentFromStorage *)

\* The miner is not found, or the read fails.
StorageFails(f) ==
    /\ phase = "storage"
    /\ f \in todo
    /\ Cardinality(disk) < DataShards
    /\ todo' = todo \ {f}
    /\ UNCHANGED <<phase, lists, hits, queryVars, sharedVars, workerVars, disk>>

StorageReads(f) ==
    /\ phase = "storage"
    /\ f \in todo
    /\ Cardinality(disk) < DataShards
    /\ todo' = todo \ {f}
    /\ disk' = disk \cup {f}
    /\ UNCHANGED <<phase, lists, hits, queryVars, sharedVars, workerVars>>

\* QueryFile fails, too few fragments were read, or RSRestore fails: the
\* fragments that were read stay in the directory.
StorageError ==
    /\ phase = "storage"
    /\ \/ todo = Fragments
       \/ todo = {}
       \/ Cardinality(disk) >= DataShards
    /\ phase' = "err"
    /\ UNCHANGED <<lists, hits, queryVars, sharedVars, workerVars, disk, todo>>

\* RSRestore makes the segment, and the fragments are removed.
StorageRestores ==
    /\ phase = "storage"
    /\ Cardinality(disk) >= DataShards
    /\ phase' = "ok"
    /\ disk' = {}
    /\ UNCHANGED <<lists, hits, queryVars, sharedVars, workerVars, todo>>

-----------------------------------------------------------------------------
(* DownloadSegmentFromCachers: the goroutine of peer p *)

Active(p, at) == phase = "download" /\ p \in hits /\ worker[p] = at

Quit(p) ==
    /\ Active(p, "top") \/ Active(p, "scan")
    /\ dld >= DataShards
    /\ worker' = [worker EXCEPT ![p] = "done"]
    /\ UNCHANGED <<phase, lists, hits, queryVars, sharedVars, rest, cur, disk, todo>>

\* A pass starts if fewer than DataShards are counted as started; otherwise
\* the goroutine spins at the top of its loop.
StartPass(p) ==
    /\ Active(p, "top")
    /\ dld < DataShards
    /\ dl < DataShards
    /\ dl' = dl + 1
    /\ rest' = [rest EXCEPT ![p] = lists[p]]
    /\ worker' = [worker EXCEPT ![p] = "scan"]
    /\ UNCHANGED <<phase, lists, hits, queryVars, dld, taken, res, cur, disk, todo>>

EndPass(p) ==
    /\ Active(p, "scan")
    /\ rest[p] = {}
    /\ worker' = [worker EXCEPT ![p] = "top"]
    /\ UNCHANGED <<phase, lists, hits, queryVars, sharedVars, rest, cur, disk, todo>>

Skip(p, f) ==
    /\ Active(p, "scan")
    /\ dld < DataShards
    /\ f \in rest[p] \cap taken
    /\ rest' = [rest EXCEPT ![p] = @ \ {f}]
    /\ UNCHANGED <<phase, lists, hits, queryVars, sharedVars, worker, cur, disk, todo>>

Claim(p, f) ==
    /\ Active(p, "scan")
    /\ f \in rest[p]
    /\ taken' = taken \cup {f}
    /\ rest' = [rest EXCEPT ![p] = @ \ {f}]
    /\ cur' = [cur EXCEPT ![p] = f]
    /\ worker' = [worker EXCEPT ![p] = "fetch"]
    /\ UNCHANGED <<phase, lists, hits, queryVars, dl, dld, res, disk, todo>>

\* Mutant: the set is not looked at.
TakeAgain(p, f) == dld < DataShards /\ Claim(p, f)

\* The test of the set and the insertion are one critical section.
Take(p, f) == dld < DataShards /\ f \notin taken /\ Claim(p, f)

FetchOk(p) ==
    /\ Active(p, "fetch")
    /\ disk' = disk \cup {cur[p]}
    /\ worker' = [worker EXCEPT ![p] = "record"]
    /\ UNCHANGED <<phase, lists, hits, queryVars, sharedVars, rest, cur, todo>>

\* Mutant: a failed download gives no start back.
FetchFailsKeeps(p) ==
    /\ Active(p, "fetch")
    /\ worker' = [worker EXCEPT ![p] = "scan"]
    /\ cur' = [cur EXCEPT ![p] = NoFragment]
    /\ UNCHANGED <<phase, lists, hits, queryVars, sharedVars, rest, disk, todo>>

\* The download fails: the start is given back and the fragment freed.
FetchFails(p) ==
    /\ Active(p, "fetch")
    /\ dl' = dl - 1
    /\ taken' = taken \ {cur[p]}
    /\ worker' = [worker EXCEPT ![p] = "record"]
    /\ UNCHANGED <<phase, lists, hits, queryVars, dld, res, rest, cur, disk, todo>>

\* The download is counted, also when it has failed, and the peer credited.
RecordFragment(p) ==
    /\ Active(p, "record")
    /\ dld' = dld + 1
    /\ res' = [res EXCEPT ![cur[p]] = @ + 1]
    /\ cur' = [cur EXCEPT ![p] = NoFragment]
    /\ worker' = [worker EXCEPT ![p] = "scan"]
    /\ UNCHANGED <<phase, lists, hits, queryVars, dl, taken, rest, disk, todo>>

\* wg.Wait returns.
Return ==
    /\ phase = "download"
    /\ \A p \in hits : worker[p] = "done"
    /\ phase' = "returned"
    /\ UNCHANGED <<lists, hits, queryVars, sharedVars, workerVars, disk, todo>>

-----------------------------------------------------------------------------
Query(t) == (\E p \in Cachers : GetPeer(t, p)) \/ NoMorePeers(t) \/ NoHit(t) \/ Hit(t)

Storage ==
    \/ \E f \in Fragments : StorageFails(f) \/ StorageReads(f)
    \/ StorageError
    \/ StorageRestores

Worker(p) ==
    \/ Quit(p)
    \/ StartPass(p)
    \/ EndPass(p)
    \/ \E f \in Fragments : Skip(p, f) \/ Take(p, f)
    \/ FetchOk(p)
    \/ FetchFails(p)
    \/ RecordFragment(p)

SegmentNext ==
    \/ \E p \in Cachers : Query(p) \/ Worker(p)
    \/ QueryReturns
    \/ QueryFails
    \/ Storage
    \/ Return

\* Every goroutine runs, and every remote call returns.
SegmentSpec ==
    /\ SegmentInit /\ [][SegmentNext]_segmentVars
    /\ \A p \in Cachers : WF_segmentVars(Query(p)) /\ WF_segmentVars(Worker(p))
    /\ WF_segmentVars(QueryReturns) /\ WF_segmentVars(Storage) /\ WF_segmentVars(Return)

-----------------------------------------------------------------------------
(* Properties *)

\* Two goroutines never download the same fragment at the same time: they
\* would write the same file.
OneWriterPerFile ==
    \A p, q \in Cachers :
        p # q /\ worker[p] = "fetch" /\ worker[q] = "fetch" => cur[p] # cur[q]

\* The download returns if every cacher lists DataShards fragments, whichever
\* downloads fail.  A pass that finds all its fragments taken uses up a start,
\* and with shorter lists the goroutines can use up all of them and spin.
LongListsReturn ==
    (phase = "download" /\ \A p \in hits : Cardinality(lists[p]) >= DataShards)
        ~> phase = "returned"

\* DownloadSegment ends, unless a cacher has answered with a hit.
SegmentEnds == phase = "query" ~> (phase \in {"ok", "err"} \/ hits # {})

=============================================================================
