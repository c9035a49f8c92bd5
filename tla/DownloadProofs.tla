--------------------------- MODULE DownloadProofs ---------------------------
(***************************************************************************)
(* Proofs about the components that meet in a download: the download of a  *)
(* segment from the cachers that have it, the transfer of a file over a    *)
(* stream, the discovery of cachers, and the ledger in which the transfers *)
(* are charged.  The four are independent of each other.                   *)
(***************************************************************************)
EXTENDS SegmentDownload, StreamData, Discovery, Credit, FiniteSetTheorems, TLAPS

-----------------------------------------------------------------------------
(* The download of a segment *)

WorkerPlaces == {"top", "scan", "fetch", "record", "done"}

SegTypeOK ==
    /\ worker \in [Cachers -> WorkerPlaces]
    /\ cur \in [Cachers -> Fragments \cup {NoFragment}]

\* A fragment that is being downloaded is in the shared set.
FetchedIsTaken == \A p \in Cachers : worker[p] = "fetch" => cur[p] \in taken

SegIInv == SegTypeOK /\ FetchedIsTaken /\ OneWriterPerFile

\* The initial states: every goroutine is at the top of its loop.
LEMMA SegInit == SegmentInit => SegIInv
BY DEF SegmentInit, SegIInv, SegTypeOK, WorkerPlaces, FetchedIsTaken, OneWriterPerFile

\* A step of the query or of the storage downloads touches no goroutine.
SegFrame == UNCHANGED <<taken, worker, cur>>

\* Goroutine p goes to a place where it downloads nothing; it frees at most
\* the fragment that it was downloading.
Leaves(p) ==
    /\ worker' \in [Cachers -> WorkerPlaces]
    /\ cur' \in [Cachers -> Fragments \cup {NoFragment}]
    /\ worker'[p] # "fetch"
    /\ \A q \in Cachers \ {p} : worker'[q] = worker[q] /\ cur'[q] = cur[q]
    /\ \/ taken' = taken
       \/ worker[p] = "fetch" /\ taken' = taken \ {cur[p]}

\* Goroutine p claims fragment f, which nobody has.
Claims(p, f) ==
    /\ worker' \in [Cachers -> WorkerPlaces]
    /\ cur' \in [Cachers -> Fragments \cup {NoFragment}]
    /\ worker'[p] = "fetch" /\ cur'[p] = f
    /\ \A q \in Cachers \ {p} : worker'[q] = worker[q] /\ cur'[q] = cur[q]
    /\ f \notin taken
    /\ taken' = taken \cup {f}

\* Every step of a goroutine is one of these.
LEMMA WorkerKinds ==
    ASSUME SegTypeOK, NEW p \in Cachers, Worker(p)
    PROVE  SegFrame \/ Leaves(p) \/ \E f \in Fragments : Claims(p, f)
<1> USE DEF WorkerPlaces
<1>1. CASE Quit(p)
  BY <1>1 DEF SegTypeOK, Quit, Leaves, sharedVars
<1>2. CASE StartPass(p)
  BY <1>2 DEF SegTypeOK, StartPass, Leaves
<1>3. CASE EndPass(p)
  BY <1>3 DEF SegTypeOK, EndPass, Leaves, sharedVars
<1>4. ASSUME NEW f \in Fragments, Skip(p, f) PROVE SegFrame
  BY <1>4 DEF Skip, SegFrame, sharedVars
<1>5. ASSUME NEW f \in Fragments, Take(p, f) PROVE Claims(p, f)
  BY <1>5 DEF SegTypeOK, Take, Claim, Claims
<1>6. CASE FetchOk(p)
  BY <1>6 DEF SegTypeOK, FetchOk, Leaves, sharedVars
<1>7. CASE FetchFails(p)
  BY <1>7 DEF SegTypeOK, FetchFails, Active, Leaves
<1>8. CASE RecordFragment(p)
  BY <1>8 DEF SegTypeOK, RecordFragment, Leaves
<1> QED
  BY <1>1, <1>2, <1>3, <1>4, <1>5, <1>6, <1>7, <1>8 DEF Worker

\* Nothing else touches the goroutines.
LEMMA OthersFrame ==
    ASSUME \/ \E t \in Cachers : Query(t)
           \/ QueryReturns \/ QueryFails \/ Storage \/ Return
           \/ UNCHANGED segmentVars
    PROVE  SegFrame
<1> USE DEF SegFrame, sharedVars, workerVars
<1>1. ASSUME NEW t \in Cachers, Query(t) PROVE SegFrame
  BY <1>1 DEF Query, GetPeer, NoMorePeers, NoHit, Hit
<1>2. CASE QueryReturns \/ QueryFails \/ Return
  BY <1>2 DEF QueryReturns, QueryFails, Return
<1>3. CASE Storage
  BY <1>3 DEF Storage, StorageFails, StorageReads, StorageError,
     StorageRestores
<1>4. CASE UNCHANGED segmentVars
  BY <1>4 DEF segmentVars
<1> QED
  BY <1>1, <1>2, <1>3, <1>4

\* Each kind of step preserves the invariant.
LEMMA SegNext == SegIInv /\ [SegmentNext]_segmentVars => SegIInv'
<1> SUFFICES ASSUME SegIInv, [SegmentNext]_segmentVars PROVE SegIInv'
  OBVIOUS
<1> USE DEF SegIInv, SegTypeOK, FetchedIsTaken, OneWriterPerFile
<1>1. CASE SegFrame
  BY <1>1 DEF SegFrame
<1>2. ASSUME NEW p \in Cachers, Leaves(p) PROVE SegIInv'
  BY <1>2 DEF Leaves
<1>3. ASSUME NEW p \in Cachers, NEW f \in Fragments, Claims(p, f) PROVE SegIInv'
  BY <1>3 DEF Claims
<1>4. CASE \E p \in Cachers : Worker(p)
  BY <1>1, <1>2, <1>3, <1>4, WorkerKinds
<1> QED
  BY <1>1, <1>4, OthersFrame DEF SegmentNext

\* Whatever the cachers list and whichever downloads fail, no two goroutines
\* of DownloadSegmentFromCachers write the same file at the same time: the
\* test of cachedFragments and the insertion are one critical section, and
\* only the goroutine that fails frees its fragment.
THEOREM OneWriter == SegmentSpec => []OneWriterPerFile
<1>1. SegIInv => OneWriterPerFile
  BY DEF SegIInv
<1> QED
  BY <1>1, SegInit, SegNext, PTL DEF SegmentSpec

\* The goroutines that will still add to dld.
Flying == {p \in Cachers : worker[p] \in {"fetch", "record"}}

\* DownloadSegmentFromCachers has been called.
Called == phase \in {"download", "returned"}

\* Nothing is counted before the call, and the cachers that have the segment do
\* not change after it.
CountsOnlyCalled ==
    /\ dld \in Nat
    /\ hits \subseteq Cachers /\ Flying \subseteq hits
    /\ Called => \A t \in Cachers : thread[t] = NoCacher
    /\ ~Called => dld = 0 /\ Flying = {}

\* A goroutine starts a download only while dld is below DataShards, and each
\* one has at most one download in flight.
FlightBounded == dld + Cardinality(Flying) <= DataShards - 1 + Cardinality(hits)

\* A goroutine leaves only when enough downloads are counted.
DoneIsCounted ==
    /\ \A p \in Cachers : worker[p] = "done" => dld >= DataShards
    /\ phase = "returned" => \A p \in hits : worker[p] = "done"

CountIInv == SegTypeOK /\ CountsOnlyCalled /\ FlightBounded /\ DoneIsCounted

\* The goroutines in flight, and the cachers that hit, are finitely many.
LEMMA FlightFinite ==
    ASSUME hits \subseteq Cachers, Flying \subseteq hits
    PROVE  /\ IsFiniteSet(hits) /\ Cardinality(hits) \in Nat
           /\ IsFiniteSet(Flying) /\ Cardinality(Flying) \in Nat
           /\ Cardinality(Flying) <= Cardinality(hits)
<1>1. IsFiniteSet(hits)
  BY FS_Subset, SegmentAssumption
<1>2. IsFiniteSet(Flying) /\ Cardinality(Flying) <= Cardinality(hits)
  BY <1>1, FS_Subset
<1> QED
  BY <1>1, <1>2, FS_CardinalityType

\* The initial states: nothing is counted.
LEMMA CountInit == SegmentInit => CountIInv
<1> SUFFICES ASSUME SegmentInit PROVE CountIInv
  OBVIOUS
<1>1. SegTypeOK
  BY SegInit DEF SegIInv
<1>2. dld = 0 /\ hits \subseteq Cachers /\ Flying = {}
  BY DEF SegmentInit, Flying
<1>3. CountsOnlyCalled
  BY <1>2 DEF SegmentInit, CountsOnlyCalled
<1>4. FlightBounded
  BY <1>2, FlightFinite, FS_EmptySet, SegmentAssumption DEF FlightBounded
<1>5. DoneIsCounted
  BY DEF SegmentInit, DoneIsCounted
<1> QED
  BY <1>1, <1>3, <1>4, <1>5 DEF CountIInv

\* A step before the call counts nothing, and one that ends the call or stutters
\* neither; the cachers that hit become more only before the call.
Uncounted ==
    /\ UNCHANGED <<dld, worker, cur>>
    /\ hits \subseteq hits' /\ hits' \subseteq Cachers
    /\ \/ ~Called /\ ~Called'
       \/ /\ UNCHANGED <<hits, thread>>
          /\ Called' = Called
          /\ phase' = "returned" => \A p \in hits : worker[p] = "done"

\* No other step is taken outside the goroutines.
LEMMA OthersUncounted ==
    ASSUME CountIInv,
           \/ \E t \in Cachers : Query(t)
           \/ QueryReturns \/ QueryFails \/ Storage \/ Return
           \/ UNCHANGED segmentVars
    PROVE  Uncounted
<1> USE DEF Uncounted, sharedVars, workerVars, queryVars, Called
<1>1. hits \subseteq Cachers /\ (Called => \A t \in Cachers : thread[t] = NoCacher)
  BY DEF CountIInv, CountsOnlyCalled
<1>2. ASSUME NEW t \in Cachers, Query(t) PROVE Uncounted
  <2>1. CASE NoMorePeers(t) \/ \E p \in Cachers : GetPeer(t, p)
    BY <1>1, <2>1 DEF NoMorePeers, GetPeer
  <2>2. CASE NoHit(t) \/ Hit(t)
    <3>1. ~Called
      BY <1>1, <2>2, SegmentAssumption DEF NoHit, Hit
    <3> QED
      BY <1>1, <2>2, <3>1 DEF NoHit, Hit
  <2> QED
    BY <1>2, <2>1, <2>2 DEF Query
<1>3. CASE QueryReturns \/ QueryFails
  BY <1>1, <1>3 DEF QueryReturns, QueryFails
<1>4. CASE Storage
  BY <1>1, <1>4 DEF Storage, StorageFails, StorageReads, StorageError, StorageRestores
<1>5. CASE Return
  BY <1>1, <1>5 DEF Return
<1>6. CASE UNCHANGED segmentVars
  <2>1. UNCHANGED <<phase, hits, thread, dld, worker, cur>>
    BY <1>6 DEF segmentVars
  <2> QED
    BY <1>1, <2>1 DEF CountIInv, DoneIsCounted
<1> QED
  BY <1>2, <1>3, <1>4, <1>5, <1>6

\* Such a step preserves the invariant.
LEMMA UncountedPreserves ==
    ASSUME CountIInv, Uncounted
    PROVE  CountIInv'
<1>1. Flying' = Flying
  BY DEF Flying, Uncounted
<1>2. SegTypeOK'
  BY DEF CountIInv, SegTypeOK, Uncounted
<1>3. CountsOnlyCalled'
  BY <1>1 DEF CountIInv, CountsOnlyCalled, Uncounted
<1>4. FlightBounded'
  <2>1. /\ IsFiniteSet(hits') /\ Cardinality(hits') \in Nat
        /\ Cardinality(hits) \in Nat /\ Cardinality(Flying) \in Nat
    BY FlightFinite, FS_Subset, FS_CardinalityType, SegmentAssumption
    DEF CountIInv, CountsOnlyCalled, Uncounted
  <2>2. Cardinality(hits) <= Cardinality(hits')
    BY <2>1, FS_Subset DEF Uncounted
  <2> QED
    BY <1>1, <2>1, <2>2, SegmentAssumption
    DEF CountIInv, CountsOnlyCalled, FlightBounded, Uncounted
<1>5. DoneIsCounted'
  BY DEF CountIInv, DoneIsCounted, Uncounted, Called
<1> QED
  BY <1>2, <1>3, <1>4, <1>5 DEF CountIInv

\* A step of goroutine p leaves the others where they are.
AtWork(p) ==
    /\ phase = "download" /\ p \in hits
    /\ UNCHANGED <<phase, hits, thread>>
    /\ worker' \in [Cachers -> WorkerPlaces]
    /\ cur' \in [Cachers -> Fragments \cup {NoFragment}]
    /\ \A q \in Cachers \ {p} : worker'[q] = worker[q]

\* It moves without a download, starts one while dld is below DataShards, keeps
\* it in flight or counts it.
Moves(p) ==
    \/ /\ dld' = dld /\ worker[p] \notin {"fetch", "record"}
       /\ worker'[p] \notin {"fetch", "record"}
       /\ worker'[p] = "done" => dld >= DataShards
    \/ dld' = dld /\ dld < DataShards /\ worker[p] = "scan" /\ worker'[p] = "fetch"
    \/ dld' = dld /\ worker[p] = "fetch" /\ worker'[p] = "record"
    \/ dld' = dld + 1 /\ worker[p] = "record" /\ worker'[p] = "scan"

\* Every step of a goroutine is one of these.
LEMMA WorkerMoves ==
    ASSUME SegTypeOK, NEW p \in Cachers, Worker(p)
    PROVE  AtWork(p) /\ Moves(p)
<1> USE DEF WorkerPlaces, AtWork, Moves, Active, sharedVars, queryVars, SegTypeOK
<1>1. CASE Quit(p)
  BY <1>1 DEF Quit
<1>2. CASE StartPass(p)
  BY <1>2 DEF StartPass
<1>3. CASE EndPass(p)
  BY <1>3 DEF EndPass
<1>4. ASSUME NEW f \in Fragments, Skip(p, f) PROVE AtWork(p) /\ Moves(p)
  BY <1>4 DEF Skip
<1>5. ASSUME NEW f \in Fragments, Take(p, f) PROVE AtWork(p) /\ Moves(p)
  BY <1>5 DEF Take, Claim
<1>6. CASE FetchOk(p)
  BY <1>6 DEF FetchOk
<1>7. CASE FetchFails(p)
  BY <1>7 DEF FetchFails
<1>8. CASE RecordFragment(p)
  BY <1>8 DEF RecordFragment
<1> QED
  BY <1>1, <1>2, <1>3, <1>4, <1>5, <1>6, <1>7, <1>8 DEF Worker

\* The four kinds of steps preserve the invariant.
LEMMA MovesPreserve ==
    ASSUME CountIInv, NEW p \in Cachers, AtWork(p), Moves(p)
    PROVE  CountIInv'
<1>1. /\ dld \in Nat /\ dld' \in Nat /\ dld' >= dld
      /\ hits' = hits /\ hits \subseteq Cachers /\ Flying \subseteq hits
  BY DEF CountIInv, CountsOnlyCalled, AtWork, Moves
<1>2. Flying' \subseteq hits'
  BY <1>1 DEF Flying, AtWork
<1>3. /\ IsFiniteSet(Flying) /\ Cardinality(Flying) \in Nat
      /\ Cardinality(hits) \in Nat
  BY <1>1, FlightFinite
<1>4. IsFiniteSet(Flying') /\ Cardinality(Flying') \in Nat
      /\ Cardinality(Flying') <= Cardinality(hits)
  BY <1>1, <1>2, FS_Subset, FS_CardinalityType, SegmentAssumption
<1>5. SegTypeOK'
  BY DEF AtWork, SegTypeOK
<1>6. CountsOnlyCalled'
  BY <1>1, <1>2 DEF CountIInv, CountsOnlyCalled, AtWork, Called
<1>7. FlightBounded'
  <2>1. CASE dld' = dld /\ dld < DataShards
    BY <1>1, <1>3, <1>4, <2>1, SegmentAssumption DEF FlightBounded
  <2>2. CASE dld' = dld /\ dld >= DataShards
    <3>1. Flying' = Flying
      BY <1>1, <2>2, SegmentAssumption DEF Flying, AtWork, Moves
    <3> QED
      BY <1>1, <2>2, <3>1 DEF CountIInv, FlightBounded
  <2>3. CASE dld' = dld + 1
    <3>1. worker[p] = "record" /\ worker'[p] = "scan"
      BY <1>1, <2>3 DEF Moves
    <3>2. Flying' = Flying \ {p} /\ p \in Flying
      BY <3>1 DEF Flying, AtWork
    <3>3. Cardinality(Flying') = Cardinality(Flying) - 1
      BY <1>3, <3>2, FS_RemoveElement
    <3> QED
      BY <1>1, <1>3, <2>3, <3>3, SegmentAssumption DEF CountIInv, FlightBounded
  <2> QED
    BY <1>1, <2>1, <2>2, <2>3, SegmentAssumption DEF Moves
<1>8. DoneIsCounted'
  <2>1. phase' # "returned"
    BY DEF AtWork
  <2>2. ASSUME NEW q \in Cachers, worker'[q] = "done" PROVE dld' >= DataShards
    BY <1>1, <2>2, SegmentAssumption DEF CountIInv, DoneIsCounted, AtWork, Moves
  <2> QED
    BY <2>1, <2>2 DEF DoneIsCounted
<1> QED
  BY <1>5, <1>6, <1>7, <1>8 DEF CountIInv

\* Every step preserves the counts.
LEMMA CountNext == CountIInv /\ [SegmentNext]_segmentVars => CountIInv'
<1> SUFFICES ASSUME CountIInv, [SegmentNext]_segmentVars PROVE CountIInv'
  OBVIOUS
<1>1. CASE \E p \in Cachers : Worker(p)
  BY <1>1, WorkerMoves, MovesPreserve DEF CountIInv
<1>2. CASE \/ \E t \in Cachers : Query(t)
           \/ QueryReturns \/ QueryFails \/ Storage \/ Return
           \/ UNCHANGED segmentVars
  BY <1>2, OthersUncounted, UncountedPreserves
<1> QED
  BY <1>1, <1>2 DEF SegmentNext

\* DownloadSegmentFromCachers counts at most one download per goroutine beyond the
\* first DataShards - 1, although each one tests dld before its download and adds
\* to it after, and it returns only with DataShards counted, failed ones included,
\* if any cacher had the segment.
THEOREM DownloadsCounted ==
    SegmentSpec => [](/\ dld <= DataShards - 1 + Cardinality(hits)
                      /\ phase = "returned" /\ hits # {} => dld >= DataShards)
<1>1. CountIInv => /\ dld <= DataShards - 1 + Cardinality(hits)
                   /\ phase = "returned" /\ hits # {} => dld >= DataShards
  <2> SUFFICES ASSUME CountIInv
               PROVE  /\ dld <= DataShards - 1 + Cardinality(hits)
                      /\ phase = "returned" /\ hits # {} => dld >= DataShards
    OBVIOUS
  <2>1. /\ dld \in Nat /\ Cardinality(Flying) \in Nat /\ Cardinality(hits) \in Nat
        /\ hits \subseteq Cachers
    BY FlightFinite DEF CountIInv, CountsOnlyCalled
  <2>2. dld <= DataShards - 1 + Cardinality(hits)
    BY <2>1, SegmentAssumption DEF CountIInv, FlightBounded
  <2>3. phase = "returned" /\ hits # {} => dld >= DataShards
    BY <2>1 DEF CountIInv, DoneIsCounted
  <2> QED
    BY <2>2, <2>3
<1> QED
  BY <1>1, CountInit, CountNext, PTL DEF SegmentSpec

-----------------------------------------------------------------------------
(* The transfer of a file *)

StrTypeOK ==
    /\ client \in {"idle", "copy", "write", "ok", "err"}
    /\ server \in {"accept", "read", "handle", "pay", "closed", "reset"}
    /\ fileLen \in Nat /\ replyLen \in Nat /\ left \in Nat /\ saved \in Nat

\* The server has finished with its reply before the client leaves io.Copy,
\* or never sees the request.
ReplyIsFixed ==
    /\ client = "idle" => server = "accept"
    /\ client \in {"write", "ok", "err"} => server \in {"accept", "closed", "reset"}

\* What is saved and what is left make up the reply, and whole chunks have been
\* saved until the last read.
SavedAndLeft ==
    /\ client \in {"idle", "copy"} => saved = 0
    /\ client = "write" => /\ saved + left = replyLen
                           /\ saved % Chunk = 0

StrIInv == StrTypeOK /\ ReplyIsFixed /\ SavedAndLeft /\ OkIsComplete

\* A number is its quotient times c and its remainder.
LEMMA DivMod ==
    ASSUME NEW n \in Int, NEW c \in Nat \ {0}
    PROVE  n = c * (n \div c) + (n % c) /\ n \div c \in Int
OBVIOUS

\* A multiple of c leaves no remainder.
LEMMA MultipleMod ==
    ASSUME NEW k \in Int, NEW c \in Nat \ {0}
    PROVE  (k * c) % c = 0
OBVIOUS

\* A chunk more is still a whole number of chunks.
LEMMA ChunkMore ==
    ASSUME NEW n \in Nat, NEW c \in Nat \ {0}, n % c = 0
    PROVE  (n + c) % c = 0
<1> DEFINE k == n \div c
<1>1. n = c * k /\ k \in Int
  BY DivMod
<1> HIDE DEF k
<1>2. c * k + c = (k + 1) * c
  BY <1>1
<1>3. ((k + 1) * c) % c = 0
  BY <1>1, MultipleMod
<1> QED
  BY <1>1, <1>2, <1>3

\* Before the request is sent nothing is saved.
LEMMA StrInit == StreamInit => StrIInv
BY StreamDataAssumption DEF StreamInit, StrIInv, StrTypeOK, ReplyIsFixed,
       SavedAndLeft, OkIsComplete

\* The server changes the reply only while the client waits in io.Copy, where
\* nothing is saved.
LEMMA ServerPreserves ==
    ASSUME StrIInv, ServerStep \/ ReadFails
    PROVE  StrIInv'
<1>1. /\ UNCHANGED <<client, fileLen, left, saved>>
      /\ server \in {"read", "handle", "pay"}
      /\ server' \in {"read", "handle", "pay", "closed", "reset"}
      /\ replyLen' \in Nat
  <2> USE DEF StrIInv, StrTypeOK
  <2>1. ASSUME NEW n \in 1 .. BufSize, Fill(n) PROVE <1>1
    BY <2>1 DEF Fill
  <2>2. CASE ReadData \/ ReadFails
    BY <2>2 DEF ReadData, ReadFails
  <2>3. CASE ReplyError
    BY <2>3, StreamDataAssumption DEF ReplyError
  <2>4. CASE ReplyFile \/ ReplyFileFails
    BY <2>4 DEF ReplyFile, ReplyFileFails
  <2>5. CASE Pay \/ PayBadKey
    BY <2>5, StreamDataAssumption DEF Pay, PayBadKey
  <2> QED
    BY <2>1, <2>2, <2>3, <2>4, <2>5 DEF ServerStep
<1>2. client = "copy"
  BY <1>1 DEF StrIInv, StrTypeOK, ReplyIsFixed
<1> QED
  BY <1>1, <1>2 DEF StrIInv, StrTypeOK, ReplyIsFixed, SavedAndLeft, OkIsComplete

\* A turn of WriteData moves a whole chunk, or what is left and stops.
LEMMA WritePreserves ==
    ASSUME StrIInv, WriteData
    PROVE  StrIInv'
<1>1. /\ client = "write" /\ left > 0 /\ Chunk \in Nat \ {0}
      /\ saved + left = replyLen /\ saved % Chunk = 0
      /\ saved \in Nat /\ left \in Nat
      /\ UNCHANGED <<server, fileLen, replyLen>>
  BY StreamDataAssumption DEF StrIInv, StrTypeOK, SavedAndLeft, WriteData
<1>2. CASE left < Chunk
  <2>1. left' = 0 /\ saved' = saved + left /\ client' = "ok"
    BY <1>1, <1>2 DEF WriteData, Least
  <2> QED
    BY <1>1, <2>1
       DEF StrIInv, StrTypeOK, ReplyIsFixed, SavedAndLeft, OkIsComplete
<1>3. CASE left >= Chunk
  <2>1. left' = left - Chunk /\ saved' = saved + Chunk /\ client' = "write"
    BY <1>1, <1>3 DEF WriteData, Least
  <2>2. saved' % Chunk = 0
    BY <1>1, <2>1, ChunkMore
  <2> QED
    BY <1>1, <1>3, <2>1, <2>2
       DEF StrIInv, StrTypeOK, ReplyIsFixed, SavedAndLeft, OkIsComplete
<1> QED
  BY <1>1, <1>2, <1>3

\* Every other step of the client.
LEMMA ClientPreserves ==
    ASSUME StrIInv, ClientStep
    PROVE  StrIInv'
<1> USE DEF StrIInv, StrTypeOK, ReplyIsFixed, SavedAndLeft, OkIsComplete
<1>1. CASE SendRequest
  BY <1>1 DEF SendRequest
<1>2. CASE SendFails
  BY <1>2 DEF SendFails
<1>3. CASE CopyReply
  <2>1. 0 % Chunk = 0
    BY StreamDataAssumption
  <2> QED
    BY <1>3, <2>1 DEF CopyReply
<1>4. CASE CopyFails
  BY <1>4 DEF CopyFails
<1>5. CASE WriteData
  BY <1>5, WritePreserves
<1>6. CASE WriteDataEOF
  BY <1>6 DEF WriteDataEOF
<1>7. CASE WriteFails
  BY <1>7 DEF WriteFails
<1> QED
  BY <1>1, <1>2, <1>3, <1>4, <1>5, <1>6, <1>7 DEF ClientStep

\* For every chunk size, every length of the file and every way in which the
\* network splits the request: DownloadFileFromCache that returns nil has the
\* whole reply in the file, and one that has it all and returns an error had
\* a reply of whole chunks.
THEOREM DownloadComplete == StreamSpec => []OkIsComplete
<1>1. StrIInv /\ [StreamNext]_streamVars => StrIInv'
  <2> SUFFICES ASSUME StrIInv, [StreamNext]_streamVars PROVE StrIInv'
    OBVIOUS
  <2>1. CASE UNCHANGED streamVars
    BY <2>1 DEF streamVars, StrIInv, StrTypeOK, ReplyIsFixed, SavedAndLeft,
       OkIsComplete
  <2> QED
    BY <2>1, ServerPreserves, ClientPreserves DEF StreamNext
<1>2. StrIInv => OkIsComplete
  BY DEF StrIInv
<1> QED
  BY <1>1, <1>2, StrInit, PTL DEF StreamSpec

-----------------------------------------------------------------------------
(* Discovery *)

DhtRecord == [at : {"wait", "range", "send", "done"}, peer : Peers \cup {NoPeer}]
ConsRecord == [at : {"select", "connect", "connected", "dial", "storage", "gone"},
               peer : Peers \cup {NoPeer}]
SubPlaces == {"off", "setup", "wait", "send", "done"}
Results == {"nil", "own", "other"}

ChannelsOK ==
    /\ cacheCh \in Seq(Peers) /\ Len(cacheCh) <= Cap
    /\ peerCh \in 0 .. Cap
    /\ mdns \subseteq Peers
    /\ dht \in DhtRecord
    /\ dht.at = "send" => dht.peer \in Peers

DiscTypeOK ==
    /\ prog \in {"node", "client"}
    /\ cancelled \in BOOLEAN
    /\ ChannelsOK
    /\ sub \in SubPlaces
    /\ cons \in ConsRecord
    /\ IsFiniteSet(cachers)
    /\ err \in Results /\ result \in Results /\ own \in Results
    /\ main \in {"run", "check", "wrap", "done"}
    /\ raced \in BOOLEAN

\* The table had room when the client took the cacher that it connects to or
\* dials, and nobody else fills it.
RoomKept ==
    prog = "client" /\ cons.at \in {"connect", "connected", "dial"} =>
        Cardinality(cachers) < MaxCachers

\* The call that RunDiscovery waits for returns once.
AwaitedOnce ==
    /\ prog = "node" => sub = "off"
    /\ prog = "node" /\ main # "run" => dht.at = "done" /\ own = "own"
    /\ prog = "client" /\ main # "run" => sub = "done"

\* Between the return and the last read err is the call's result unless it raced,
\* and until then RunDiscovery has returned nothing.
ResultHeld ==
    /\ main \in {"check", "wrap"} /\ ~raced => err = own
    /\ main = "wrap" /\ ~raced => own # "nil"
    /\ main # "done" => result = "nil"

DiscIInv ==
    /\ DiscTypeOK /\ RoomKept /\ CachersBounded
    /\ AwaitedOnce /\ ResultHeld /\ OwnResultUnlessRaced

\* The initial states.
LEMMA DiscInit == DiscoveryInit => DiscIInv
<1> SUFFICES ASSUME DiscoveryInit PROVE DiscIInv
  OBVIOUS
<1>1. IsFiniteSet(cachers) /\ Cardinality(cachers) = 0
  BY FS_EmptySet DEF DiscoveryInit
<1>2. ChannelsOK
  <2>1. cacheCh \in Seq(Peers) /\ Len(cacheCh) = 0
    BY DEF DiscoveryInit
  <2> QED
    BY DiscoveryAssumption, <2>1 DEF DiscoveryInit, ChannelsOK, DhtRecord
<1>3. DiscTypeOK
  BY <1>1, <1>2 DEF DiscoveryInit, DiscTypeOK, ConsRecord, SubPlaces, Results
<1>4. RoomKept /\ CachersBounded
  BY DiscoveryAssumption, <1>1 DEF RoomKept, CachersBounded
<1> QED
  BY <1>3, <1>4
     DEF DiscoveryInit, DiscIInv, AwaitedOnce, ResultHeld, OwnResultUnlessRaced

\* What a step does to the result: nothing, an assignment by another
\* goroutine, the return of the awaited call, or the test.
Kept == UNCHANGED <<err, main, result, own, raced, cancelled>>
Assigned == UNCHANGED cancelled /\ \E e \in {"nil", "other"} : Assign(e)
Awaited ==
    /\ main = "run"
    /\ UNCHANGED cancelled
    /\ \E e \in {"nil", "own"} : Returned(e) /\ (prog = "node" => e = "own")
    /\ prog = "node" => dht'.at = "done"
    /\ prog = "client" => sub' = "done"

\* What a step may do to the places of the two calls.
CallsGoOn ==
    /\ prog' = prog
    /\ dht.at = "done" => dht'.at = "done"
    /\ sub = "done" => sub' = "done"
    /\ sub = "off" => sub' = "off"

\* What a step may do to the consumer and its table.
TableKept == cachers' = cachers /\ cons' = cons
TableLeft == cachers' = cachers /\ cons'.at \notin {"connect", "connected", "dial"}

\* The result part of the invariant, from the kinds of steps.
LEMMA ResultPreserved ==
    ASSUME DiscIInv, CallsGoOn, Kept \/ Assigned \/ Awaited \/ Check \/ Wrap
    PROVE  /\ err' \in Results /\ result' \in Results /\ own' \in Results
           /\ main' \in {"run", "check", "wrap", "done"}
           /\ raced' \in BOOLEAN /\ cancelled' \in BOOLEAN
           /\ (AwaitedOnce /\ ResultHeld /\ OwnResultUnlessRaced)'
<1> USE DEF DiscIInv, DiscTypeOK, Results, CallsGoOn, AwaitedOnce, ResultHeld,
            OwnResultUnlessRaced, SubPlaces
<1>1. CASE Kept
  BY <1>1 DEF Kept
<1>2. CASE Assigned
  BY <1>2 DEF Assigned, Assign
<1>3. CASE Awaited
  BY <1>3 DEF Awaited, Returned
<1>4. CASE Check
  BY <1>4 DEF Check
<1>5. CASE Wrap
  BY <1>5 DEF Wrap
<1> QED
  BY <1>1, <1>2, <1>3, <1>4, <1>5

\* The table part of the invariant, for the steps that fill nothing.
LEMMA TablePreserved ==
    ASSUME DiscIInv, prog' = prog, cons' \in ConsRecord, TableKept \/ TableLeft
    PROVE  IsFiniteSet(cachers') /\ (RoomKept /\ CachersBounded)'
BY DEF DiscIInv, DiscTypeOK, RoomKept, CachersBounded, TableKept, TableLeft

\* Both parts together.
LEMMA PartsSuffice ==
    ASSUME DiscIInv, CallsGoOn, Kept \/ Assigned \/ Awaited \/ Check \/ Wrap,
           ChannelsOK', sub' \in SubPlaces, cons' \in ConsRecord,
           IsFiniteSet(cachers'), (RoomKept /\ CachersBounded)'
    PROVE  DiscIInv'
<1>1. prog' \in {"node", "client"}
  BY DEF DiscIInv, DiscTypeOK, CallsGoOn
<1> QED
  BY <1>1, ResultPreserved DEF DiscIInv, DiscTypeOK

\* A frame for the channels.
LEMMA ChannelsKept ==
    ASSUME ChannelsOK, UNCHANGED <<cacheCh, peerCh, mdns, dht>>
    PROVE  ChannelsOK'
BY DEF ChannelsOK

\* A peer put into a channel that has a place.
LEMMA CacherSent ==
    ASSUME ChannelsOK, NEW p \in Peers, Len(cacheCh) < Cap,
           cacheCh' = Append(cacheCh, p)
    PROVE  cacheCh' \in Seq(Peers) /\ Len(cacheCh') <= Cap
BY DiscoveryAssumption DEF ChannelsOK

\* The record of the DHT loop after a change of its place.
LEMMA DhtAt ==
    ASSUME dht \in DhtRecord, NEW a \in {"wait", "range", "done"},
           dht' = [dht EXCEPT !.at = a]
    PROVE  dht' \in DhtRecord /\ dht'.at = a
BY DEF DhtRecord

\* The DHT loop fills the channel and returns.
LEMMA DhtPreserves ==
    ASSUME DiscIInv,
           Dht \/ FindPeers \/ FindPeersFails
    PROVE  DiscIInv'
<1> DEFINE Moved == /\ UNCHANGED <<prog, peerCh, mdns, sub, cons, cachers>>
                    /\ dht.at # "done"
           DhtOK == dht' \in DhtRecord /\ (dht'.at = "send" => dht'.peer \in Peers)
           Result == Kept \/ Assigned \/ Awaited
           Offered == \/ cacheCh' = cacheCh
                      \/ /\ dht.peer \in Peers /\ Len(cacheCh) < Cap
                         /\ cacheCh' = Append(cacheCh, dht.peer)
<1>0. /\ dht \in DhtRecord /\ (dht.at = "send" => dht.peer \in Peers)
      /\ prog \in {"node", "client"}
  BY DEF DiscIInv, DiscTypeOK, ChannelsOK
<1>1. Moved /\ DhtOK /\ Offered /\ Result
  <2>1. ASSUME NEW ok \in BOOLEAN, DhtEnds(ok), dht.at = "wait"
        PROVE  Moved /\ DhtOK /\ Offered /\ Result
    <3>1. Moved /\ Offered /\ UNCHANGED cancelled /\ dht' = [dht EXCEPT !.at = "done"]
      BY <2>1 DEF DhtEnds, DhtMoves
    <3>2. DhtOK /\ dht'.at = "done"
      BY <1>0, <3>1, DhtAt
    <3>3. CASE prog = "node"
      <4>1. main = "run"
        BY <2>1, <3>3 DEF DiscIInv, DiscTypeOK, AwaitedOnce
      <4>2. Returned("own")
        BY <2>1, <3>3 DEF DhtEnds
      <4>3. Awaited
        BY <3>1, <3>2, <3>3, <4>1, <4>2 DEF Awaited
      <4> QED
        BY <3>1, <3>2, <4>3
    <3>4. CASE prog = "client"
      <4>1. Assign(IF ok THEN "nil" ELSE "other")
        BY <2>1, <3>4 DEF DhtEnds
      <4>2. Assigned
        BY <3>1, <4>1 DEF Assigned
      <4> QED
        BY <3>1, <3>2, <4>2
    <3> QED
      BY <1>0, <3>3, <3>4
  <2>2. CASE DhtCancelled \/ FindPeersFails
    BY <2>1, <2>2 DEF DhtCancelled, FindPeersFails
  <2>3. CASE DhtSends
    <3>1. /\ Moved /\ Offered /\ Kept
          /\ dht' = [at |-> "range", peer |-> NoPeer]
      BY <2>3, <1>0 DEF DhtSends, DhtMoves, resultVars, Kept
    <3>2. DhtOK
      BY <3>1 DEF DhtRecord
    <3> QED
      BY <3>1, <3>2
  <2>4. CASE DhtRangeEnds \/ FindPeers
    <3>1. /\ Moved /\ Offered /\ Kept
          /\ \E a \in {"wait", "range"} : dht' = [dht EXCEPT !.at = a]
      BY <2>4 DEF DhtRangeEnds, FindPeers, DhtMoves, resultVars,
         Kept
    <3>2. DhtOK
      BY <1>0, <3>1, DhtAt
    <3> QED
      BY <3>1, <3>2
  <2>5. ASSUME NEW p \in Peers \cup {Self}, DhtPeer(p)
        PROVE  Moved /\ DhtOK /\ Offered /\ Result
    <3>1. /\ Moved /\ Offered /\ Kept
          /\ dht' = IF p = Self THEN dht ELSE [at |-> "send", peer |-> p]
      BY <2>5 DEF DhtPeer, DhtMoves, resultVars, Kept
    <3>2. DhtOK
      BY <1>0, <3>1 DEF DhtRecord
    <3> QED
      BY <3>1, <3>2
  <2> QED
    BY <2>2, <2>3, <2>4, <2>5 DEF Dht
<1>2. ChannelsOK'
  <2>1. cacheCh' \in Seq(Peers) /\ Len(cacheCh') <= Cap
    BY <1>1, CacherSent DEF DiscIInv, DiscTypeOK, ChannelsOK
  <2> QED
    BY <1>1, <2>1 DEF DiscIInv, DiscTypeOK, ChannelsOK
<1>3. CallsGoOn
  BY <1>1 DEF CallsGoOn
<1>4. sub' \in SubPlaces /\ cons' \in ConsRecord /\ TableKept /\ prog' = prog
  BY <1>1 DEF DiscIInv, DiscTypeOK, TableKept
<1> QED
  BY <1>1, <1>2, <1>3, <1>4, TablePreserved, PartsSuffice

\* mDNS fills the channel, and its start assigns err.
LEMMA MdnsPreserves ==
    ASSUME DiscIInv, Mdns \/ \E p \in Peers : HandlePeerFound(p)
    PROVE  DiscIInv'
<1> DEFINE Frame == UNCHANGED <<prog, peerCh, dht, sub, cons, cachers>>
<1>0. ChannelsOK
  BY DEF DiscIInv, DiscTypeOK
<1>1. ChannelsOK' /\ Frame /\ (Kept \/ Assigned)
  <2>1. CASE StartDiscoveryFromMDNS
    <3>1. Frame /\ UNCHANGED <<cacheCh, mdns>>
      BY <2>1 DEF StartDiscoveryFromMDNS, chans
    <3>2. Assigned
      BY <2>1 DEF StartDiscoveryFromMDNS, Assigned
    <3> QED
      BY <1>0, <3>1, <3>2, ChannelsKept
  <2>2. ASSUME NEW p \in Peers, HandlePeerFound(p) PROVE <1>1
    <3>1. Frame /\ UNCHANGED cacheCh /\ mdns' = mdns \cup {p} /\ Kept
      BY <2>2 DEF HandlePeerFound, chans, resultVars, Kept
    <3>2. ChannelsOK'
      BY <1>0, <3>1 DEF ChannelsOK
    <3> QED
      BY <3>1, <3>2
  <2>3. ASSUME NEW p \in Peers, MdnsSends(p) PROVE <1>1
    <3>1. /\ Frame /\ Kept /\ mdns' = mdns \ {p}
          /\ Len(cacheCh) < Cap /\ cacheCh' = Append(cacheCh, p)
      BY <2>3 DEF MdnsSends, resultVars, Kept
    <3>2. cacheCh' \in Seq(Peers) /\ Len(cacheCh') <= Cap
      BY <1>0, <3>1, CacherSent
    <3>3. ChannelsOK'
      BY <1>0, <3>1, <3>2 DEF ChannelsOK
    <3> QED
      BY <3>1, <3>3
  <2> QED
    BY <2>1, <2>2, <2>3 DEF Mdns
<1>2. CallsGoOn
  BY <1>1 DEF CallsGoOn
<1>3. sub' \in SubPlaces /\ cons' \in ConsRecord /\ TableKept /\ prog' = prog
  BY <1>1 DEF DiscIInv, DiscTypeOK, TableKept
<1> QED
  BY <1>1, <1>2, <1>3, TablePreserved, PartsSuffice

\* Subscribe fills the other channel and returns, in the client only.
LEMMA SubPreserves ==
    ASSUME DiscIInv, Sub \/ Message
    PROVE  DiscIInv'
<1> DEFINE Frame == UNCHANGED <<prog, cacheCh, mdns, dht, cons, cachers>>
<1>0. /\ prog \in {"node", "client"} /\ ChannelsOK
      /\ prog = "node" => sub = "off"
      /\ prog = "client" /\ main # "run" => sub = "done"
      /\ main \in {"run", "check", "wrap", "done"}
  BY DEF DiscIInv, DiscTypeOK, AwaitedOnce
<1>1. /\ Frame /\ sub \in {"setup", "wait", "send"} /\ sub' \in {"wait", "send", "done"}
      /\ peerCh' \in 0 .. Cap
      /\ Kept \/ Awaited
  <2>0. peerCh \in 0 .. Cap /\ Cap \in Nat
    BY <1>0, DiscoveryAssumption DEF ChannelsOK
  <2>1. CASE Join \/ Message
    BY <2>0, <2>1 DEF Join, Message, SubMoves, resultVars, Kept
  <2>2. ASSUME NEW e \in {"nil", "own"}, SubEnds(e), sub \in {"setup", "wait"}
        PROVE  <1>1
    <3>1. prog = "client" /\ main = "run"
      BY <1>0, <2>2
    <3>2. Frame /\ UNCHANGED cancelled /\ sub' = "done" /\ peerCh' = peerCh
      BY <2>2 DEF SubEnds, SubMoves
    <3>3. Awaited
      BY <2>2, <3>1, <3>2 DEF SubEnds, Awaited
    <3> QED
      BY <2>0, <2>2, <3>2, <3>3
  <2>3. CASE GossipFails \/ SubCancelled
    BY <2>2, <2>3 DEF GossipFails, SubCancelled
  <2>4. CASE SubSends
    BY <2>0, <2>4 DEF SubSends, SubMoves, resultVars, Kept
  <2> QED
    BY <2>1, <2>3, <2>4 DEF Sub
<1>2. ChannelsOK'
  BY <1>0, <1>1 DEF ChannelsOK
<1>3. CallsGoOn
  BY <1>1 DEF CallsGoOn
<1>4. sub' \in SubPlaces /\ cons' \in ConsRecord /\ TableKept /\ prog' = prog
  BY <1>1 DEF DiscIInv, DiscTypeOK, TableKept, SubPlaces
<1> QED
  BY <1>1, <1>2, <1>3, <1>4, TablePreserved, PartsSuffice

\* The consumer takes from the channels and fills the table.
LEMMA ConsumerPreserves ==
    ASSUME DiscIInv, ConsumerLeaves \/ TakeStorage \/ TakeCacher \/ Deal
    PROVE  DiscIInv'
<1> DEFINE Frame == UNCHANGED <<prog, dht, mdns, sub>>
<1>0. /\ prog \in {"node", "client"} /\ ChannelsOK /\ cons \in ConsRecord
      /\ IsFiniteSet(cachers) /\ RoomKept /\ CachersBounded /\ sub \in SubPlaces
  BY DEF DiscIInv, DiscTypeOK
<1>a. ASSUME NEW a \in {"connected", "dial", "storage", "gone"}
      PROVE  /\ [cons EXCEPT !.at = a] \in ConsRecord
             /\ [cons EXCEPT !.at = a].at = a
  BY <1>0 DEF ConsRecord
<1>b. [at |-> "select", peer |-> NoPeer] \in ConsRecord
  BY DEF ConsRecord
<1>1. ASSUME Frame, ChannelsOK', cons' \in ConsRecord, Kept \/ Assigned,
             IsFiniteSet(cachers'), (RoomKept /\ CachersBounded)'
      PROVE  DiscIInv'
  <2>1. CallsGoOn /\ sub' \in SubPlaces
    BY <1>0, <1>1 DEF CallsGoOn
  <2> QED
    BY <1>1, <2>1, PartsSuffice
<1>2. CASE ConsumerLeaves
  <2>1. /\ Frame /\ Kept /\ TableLeft /\ cons' \in ConsRecord
        /\ UNCHANGED <<cacheCh, peerCh>>
    BY <1>2, <1>a DEF ConsumerLeaves, ConsMoves, chans, resultVars, Kept, TableLeft
  <2> QED
    BY <1>0, <1>1, <2>1, ChannelsKept, TablePreserved
<1>3. CASE TakeStorage
  <2>1. /\ Frame /\ Kept /\ TableLeft /\ cons' \in ConsRecord
        /\ UNCHANGED cacheCh /\ peerCh > 0 /\ peerCh' = peerCh - 1
    BY <1>3, <1>a DEF TakeStorage, ConsMoves, resultVars, Kept, TableLeft
  <2>2. ChannelsOK'
    BY DiscoveryAssumption, <1>0, <2>1 DEF ChannelsOK
  <2> QED
    BY <1>1, <2>1, <2>2, TablePreserved
<1>4. CASE TakeCacher
  <2>1. /\ Frame /\ Kept /\ UNCHANGED <<peerCh, cachers>>
        /\ cacheCh # <<>> /\ cacheCh' = Tail(cacheCh)
    BY <1>4 DEF TakeCacher, ConsMoves, resultVars, Kept
  <2>2. Head(cacheCh) \in Peers /\ cacheCh' \in Seq(Peers) /\ Len(cacheCh') <= Cap
    BY <1>0, <2>1, DiscoveryAssumption DEF ChannelsOK
  <2>3. ChannelsOK'
    BY <1>0, <2>1, <2>2 DEF ChannelsOK
  <2>4. CASE Room
    <3>1. \E a \in {"connect", "dial"} : cons' = [at |-> a, peer |-> Head(cacheCh)]
      BY <1>4, <2>4 DEF TakeCacher, ConsMoves
    <3>2. cons' \in ConsRecord
      BY <2>2, <3>1 DEF ConsRecord
    <3>3. IsFiniteSet(cachers') /\ (RoomKept /\ CachersBounded)'
      BY <1>0, <2>1, <2>4 DEF Room, RoomKept, CachersBounded
    <3> QED
      BY <1>1, <2>1, <2>3, <3>2, <3>3
  <2>5. CASE ~Room
    <3>1. cons' = cons
      BY <1>4, <2>5 DEF TakeCacher, ConsMoves
    <3> QED
      BY <1>0, <1>1, <2>1, <2>3, <3>1, TablePreserved DEF TableKept
  <2> QED
    BY <2>4, <2>5
<1>5. CASE Connect
  <2>1. /\ Frame /\ Assigned /\ UNCHANGED <<cacheCh, peerCh, cachers>>
        /\ cons.at = "connect" /\ cons' \in ConsRecord
    BY <1>5, <1>a DEF Connect, ConsMoves, chans, Assigned
  <2>2. IsFiniteSet(cachers') /\ (RoomKept /\ CachersBounded)'
    BY <1>0, <2>1 DEF RoomKept, CachersBounded
  <2> QED
    BY <1>0, <1>1, <2>1, <2>2, ChannelsKept
<1>6. CASE Flush
  <2>1. /\ Frame /\ Kept /\ UNCHANGED <<cacheCh, peerCh>>
        /\ cons' = [at |-> "select", peer |-> NoPeer]
    BY <1>6 DEF Flush, ConsMoves, chans, resultVars, Kept
  <2>2. cons'.at = "select"
    BY <2>1
  <2>3. IsFiniteSet(cachers') /\ (prog = "client" => Cardinality(cachers') <= MaxCachers)
    <3>0. IsFiniteSet(cachers) /\ Cardinality(cachers) \in Nat /\ MaxCachers \in Nat
      BY <1>0, FS_CardinalityType, DiscoveryAssumption
    <3>1. CASE cachers' = cachers
      BY <1>0, <3>1 DEF CachersBounded
    <3>2. CASE cachers' = cachers \cup {cons.peer} /\ cons.at = "dial"
      <4>1. /\ IsFiniteSet(cachers')
            /\ Cardinality(cachers') \in {Cardinality(cachers), Cardinality(cachers) + 1}
        BY <3>0, <3>2, FS_AddElement
      <4>2. prog = "client" => Cardinality(cachers) < MaxCachers
        BY <1>0, <3>2 DEF RoomKept
      <4> QED
        BY <3>0, <4>1, <4>2
    <3>3. CASE cachers' = cachers \ {cons.peer}
      <4>1. /\ IsFiniteSet(cachers')
            /\ Cardinality(cachers') \in {Cardinality(cachers), Cardinality(cachers) - 1}
        BY <3>0, <3>3, FS_RemoveElement
      <4> QED
        BY <1>0, <3>0, <4>1 DEF CachersBounded
    <3> QED
      BY <1>6, <3>1, <3>2, <3>3 DEF Flush
  <2>4. (RoomKept /\ CachersBounded)'
    BY <2>1, <2>2, <2>3 DEF RoomKept, CachersBounded
  <2> QED
    BY <1>0, <1>1, <1>b, <2>1, <2>3, <2>4, ChannelsKept
<1>7. CASE ConnectTested
  <2>1. /\ Frame /\ Kept /\ UNCHANGED <<cacheCh, peerCh, cachers>>
        /\ cons.at = "connected" /\ cons' \in ConsRecord
    BY <1>7, <1>a, <1>b DEF ConnectTested, ConsMoves, chans, resultVars, Kept
  <2>2. IsFiniteSet(cachers') /\ (RoomKept /\ CachersBounded)'
    BY <1>0, <2>1 DEF RoomKept, CachersBounded
  <2> QED
    BY <1>0, <1>1, <2>1, <2>2, ChannelsKept
<1> QED
  BY <1>2, <1>3, <1>4, <1>5, <1>6, <1>7 DEF Deal

\* The cancellation, the two reads of err and stuttering.
LEMMA RestPreserves ==
    ASSUME DiscIInv, Cancel \/ Check \/ Wrap \/ UNCHANGED discoveryVars
    PROVE  DiscIInv'
<1>1. UNCHANGED <<prog, cacheCh, peerCh, dht, mdns, sub, cons, cachers>>
  BY DEF Cancel, Check, Wrap, discoveryVars, chans
<1>2. /\ ChannelsOK' /\ CallsGoOn /\ TableKept
      /\ sub' \in SubPlaces /\ cons' \in ConsRecord
  BY <1>1, ChannelsKept DEF DiscIInv, DiscTypeOK, CallsGoOn, TableKept
<1>3. IsFiniteSet(cachers') /\ (RoomKept /\ CachersBounded)'
  BY <1>1, <1>2, TablePreserved
<1>4. CASE Check \/ Wrap \/ UNCHANGED discoveryVars
  BY <1>2, <1>3, <1>4, PartsSuffice DEF discoveryVars, resultVars, Kept
<1>5. CASE Cancel
  <2>1. UNCHANGED <<prog, err, main, result, own, raced>> /\ cancelled' = TRUE
    BY <1>5 DEF Cancel, resultVars
  <2> QED
    BY <1>1, <1>2, <1>3, <2>1
       DEF DiscIInv, DiscTypeOK, AwaitedOnce, ResultHeld, OwnResultUnlessRaced
<1> QED
  BY <1>4, <1>5

\* Every step preserves the invariant.
LEMMA DiscNext == DiscIInv /\ [DiscoveryNext]_discoveryVars => DiscIInv'
BY DhtPreserves, MdnsPreserves, SubPreserves, ConsumerPreserves, RestPreserves
   DEF DiscoveryNext, Found

\* DiscIInv is an invariant of discovery.
LEMMA DiscInvariance == DiscoverySpec => []DiscIInv
BY DiscInit, DiscNext, PTL DEF DiscoverySpec

\* For any number of peers and any channels: the client's table of cachers
\* stays within MaxCacheNodeNum although its size is tested before the
\* connection and the dial, because one goroutine both tests and fills it.
THEOREM TableBounded == DiscoverySpec => []CachersBounded
<1>1. DiscIInv => CachersBounded
  BY DEF DiscIInv
<1> QED
  BY <1>1, DiscInvariance, PTL

\* In node and client RunDiscovery returns the result of the call it waits for,
\* unless another goroutine assigns err between the return of that call and
\* the last read of err, in errors.Wrap; a node whose DHT loop failed then stops.
THEOREM ResultIsOwn == DiscoverySpec => []OwnResultUnlessRaced
<1>1. DiscIInv => OwnResultUnlessRaced
  BY DEF DiscIInv
<1> QED
  BY <1>1, DiscInvariance, PTL

-----------------------------------------------------------------------------
(* The credit ledger, for every number of handlers and accounts, every set *)
(* of operations and every modulus: what races, failures and overflow can  *)
(* and cannot do to it.                                                    *)

\* What one call adds fits a counter.
AmountsFit == \A h \in Handlers : amt[h] \in -(Modulus - 1) .. Modulus - 1

\* A copy read earlier shows no more than has been added since.
CopiesBehind ==
    \A h \in Handlers : pc[h] # "idle" =>
        /\ reg[h].sent <= charged[acc[h]]
        /\ reg[h].recv <= credited[acc[h]]

\* On an undisturbed account there is one copy, and it is up to date.
SoleCopy ==
    \A h \in Handlers : pc[h] # "idle" /\ acc[h] \notin disturbed =>
        /\ reg[h].sent = db[acc[h]].sent
        /\ reg[h].recv = db[acc[h]].recv
        /\ \A g \in Handlers : pc[g] # "idle" /\ acc[g] = acc[h] => g = h

CreditIInv ==
    /\ TypeOK
    /\ AmountsFit
    /\ NeverOvercharged
    /\ ExactUndisturbed
    /\ CopiesBehind
    /\ SoleCopy

-----------------------------------------------------------------------------
(* Arithmetic modulo Modulus. *)

\* A quotient and a remainder are determined by the number they divide.
LEMMA RemainderUnique ==
    ASSUME NEW q \in Int, NEW p \in Int, NEW r \in 0 .. Modulus - 1,
           NEW s \in 0 .. Modulus - 1, Modulus * q + r = Modulus * p + s
    PROVE  r = s
<1> USE CreditAssumption
<1>1. ASSUME NEW d \in Int, d >= 1 PROVE Modulus * d >= Modulus
  BY <1>1
<1>2. /\ Modulus * (q - p) = s - r /\ Modulus * (p - q) = r - s
      /\ Modulus * q \in Int /\ Modulus * p \in Int
  OBVIOUS
<1>3. ~(q - p >= 1)
  BY <1>1, <1>2
<1>4. ~(p - q >= 1)
  BY <1>1, <1>2
<1>5. p = q
  BY <1>3, <1>4
<1> QED
  BY <1>2, <1>5

\* The addition of uint64 is addition modulo Modulus.
LEMMA Add64Mod ==
    ASSUME NEW c \in Nat, NEW n \in 0 .. Modulus - 1
    PROVE  (c + n) % Modulus = Add64(c % Modulus, n)
<1> USE CreditAssumption
<1> DEFINE q == c \div Modulus
           r == c % Modulus
           p == (c + n) \div Modulus
           s == (c + n) % Modulus
           t == Add64(r, n)
           u == IF r + n < Modulus THEN q ELSE q + 1
<1>1. c = Modulus * q + r /\ r \in 0 .. Modulus - 1 /\ q \in Int
  OBVIOUS
<1>2. c + n = Modulus * p + s /\ s \in 0 .. Modulus - 1 /\ p \in Int
  OBVIOUS
<1>3. c + n = Modulus * u + t /\ u \in Int /\ t \in 0 .. Modulus - 1
  <2> HIDE DEF q, r
  <2>1. Modulus * (q + 1) = Modulus * q + Modulus /\ Modulus * q \in Int
    BY <1>1
  <2> QED
    BY <1>1, <2>1 DEF Add64
<1>4. s = t
  <2> HIDE DEF q, r, p, s, t, u
  <2> QED
    BY <1>2, <1>3, RemainderUnique
<1> QED
  BY <1>4

\* A sum of counters is a counter, and no more than the sum without overflow.
LEMMA Add64Type ==
    ASSUME NEW x \in 0 .. Modulus - 1, NEW n \in 0 .. Modulus - 1
    PROVE  Add64(x, n) \in 0 .. Modulus - 1 /\ Add64(x, n) <= x + n /\ Add64(x, 0) = x
BY CreditAssumption DEF Add64

\* The level AddCreditPoint, CheckCredit and PaymentCreditBill compute, when the
\* division does not panic: the remainder of a negative int is not positive.
LEMMA LevelType ==
    ASSUME NEW s \in 0 .. Modulus - 1, NEW v \in 0 .. Modulus - 1, ~Overflows(v)
    PROVE  Level(s, v) \in -1 .. 3
<1> USE CreditAssumption
<1>1. Add64(v, 1) \in Nat \ {0}
  BY DEF Add64, Overflows
<1>2. s \div Add64(v, 1) \in Int
  BY <1>1
<1>3. Int64(s \div Add64(v, 1)) \in Int
  BY <1>2 DEF Int64
<1>4. ASSUME NEW x \in Int PROVE Rem3(x) \in -2 .. 2
  <2>1. x % 3 \in 0 .. 2 /\ (-x) % 3 \in 0 .. 2
    OBVIOUS
  <2> QED
    BY <2>1 DEF Rem3
<1> QED
  BY <1>3, <1>4 DEF Level

\* Sent and Received add to one counter and make a stored record.
LEMMA AddedRecord ==
    ASSUME NEW r \in RecordType, NEW n \in 0 .. Modulus - 1
    PROVE  /\ ~Overflows(r.recv) =>
                /\ Sent(r, n) \in RecordType
                /\ Sent(r, n).sent = Add64(r.sent, n)
                /\ Sent(r, n).recv = r.recv
           /\ ~Overflows(Add64(r.recv, n)) =>
                /\ Received(r, n) \in RecordType
                /\ Received(r, n).sent = r.sent
                /\ Received(r, n).recv = Add64(r.recv, n)
<1>1. /\ r.sent \in 0 .. Modulus - 1 /\ r.recv \in 0 .. Modulus - 1
      /\ Add64(r.sent, n) \in 0 .. Modulus - 1
      /\ Add64(r.recv, n) \in 0 .. Modulus - 1
  BY Add64Type DEF RecordType
<1>2. ~Overflows(r.recv) => Level(Add64(r.sent, n), r.recv) \in -1 .. 3
  BY <1>1, LevelType
<1>3. ~Overflows(Add64(r.recv, n)) => Level(r.sent, Add64(r.recv, n)) \in -1 .. 3
  BY <1>1, LevelType
<1> QED
  BY <1>1, <1>2, <1>3 DEF Sent, Received, Record, RecordType

\* The zero record is a record.
LEMMA ZeroType == Zero \in RecordType
BY CreditAssumption DEF Zero, Record, RecordType

-----------------------------------------------------------------------------
\* Writing back a copy whose counters were raised by x and y keeps the
\* invariant when the ghosts are raised by the same, and so does a write that
\* fails.
LEMMA PutKeeps ==
    ASSUME CreditIInv, NEW h \in Handlers, pc[h] # "idle",
           NEW r \in RecordType, NEW x \in 0 .. Modulus - 1, NEW y \in 0 .. Modulus - 1,
           r.sent = Add64(reg[h].sent, x), r.recv = Add64(reg[h].recv, y),
           charged' = [charged EXCEPT ![acc[h]] = @ + x],
           credited' = [credited EXCEPT ![acc[h]] = @ + y],
           Put(h, r)
    PROVE  CreditIInv'
<1> DEFINE a == acc[h]
<1>1. /\ a \in Accounts
      /\ pc' = [pc EXCEPT ![h] = "idle"]
      /\ reg' = [reg EXCEPT ![h] = Zero]
      /\ amt' = [amt EXCEPT ![h] = 0]
      /\ acc' = acc
      /\ Modulus \in Nat \ {0}
  BY CreditAssumption DEF CreditIInv, TypeOK, Put, Done
<1>2. \/ db' = [db EXCEPT ![a] = r] /\ disturbed' = disturbed
      \/ db' = db /\ disturbed' = disturbed \cup {a}
  BY DEF Put
<1>3. /\ reg[h].sent \in 0 .. Modulus - 1 /\ reg[h].recv \in 0 .. Modulus - 1
      /\ reg[h].sent <= charged[a] /\ reg[h].recv <= credited[a]
      /\ charged[a] \in Nat /\ credited[a] \in Nat
      /\ charged'[a] = charged[a] + x /\ credited'[a] = credited[a] + y
      /\ \A b \in Accounts : b # a => charged'[b] = charged[b] /\ credited'[b] = credited[b]
  BY <1>1 DEF CreditIInv, TypeOK, RecordType, CopiesBehind
<1>4. r.sent <= charged'[a] /\ r.recv <= credited'[a]
  <2>1. r.sent <= reg[h].sent + x /\ r.recv <= reg[h].recv + y
    BY <1>3, Add64Type
  <2> QED
    BY <1>1, <1>3, <2>1 DEF RecordType
<1>5. TypeOK'
  <2>1. db' \in [Accounts -> RecordType] /\ disturbed' \subseteq Accounts
    BY <1>1, <1>2 DEF CreditIInv, TypeOK
  <2>2. charged' \in [Accounts -> Nat] /\ credited' \in [Accounts -> Nat]
    BY <1>1 DEF CreditIInv, TypeOK
  <2> QED
    BY <1>1, <2>1, <2>2, ZeroType DEF CreditIInv, TypeOK
<1>6. AmountsFit'
  BY <1>1 DEF CreditIInv, TypeOK, AmountsFit
<1>7. NeverOvercharged'
  <2> SUFFICES ASSUME NEW b \in Accounts
               PROVE  db'[b].sent <= charged'[b] /\ db'[b].recv <= credited'[b]
    BY DEF NeverOvercharged
  <2>1. db'[b] = db[b] \/ (b = a /\ db'[b] = r)
    BY <1>1, <1>2 DEF CreditIInv, TypeOK
  <2>2. /\ db[b].sent <= charged[b] /\ db[b].recv <= credited[b]
        /\ db[b].sent \in Nat /\ db[b].recv \in Nat
        /\ charged[b] \in Nat /\ credited[b] \in Nat
    BY <1>1 DEF CreditIInv, TypeOK, RecordType, NeverOvercharged
  <2> QED
    BY <1>1, <1>3, <1>4, <2>1, <2>2
<1>8. ExactUndisturbed'
  <2> SUFFICES ASSUME NEW b \in Accounts, b \notin disturbed'
               PROVE  /\ db'[b].sent = charged'[b] % Modulus
                      /\ db'[b].recv = credited'[b] % Modulus
    BY DEF ExactUndisturbed
  <2>1. b \notin disturbed
    BY <1>2
  <2>2. CASE b # a
    <3>1. db'[b] = db[b]
      BY <1>2, <2>2 DEF CreditIInv, TypeOK
    <3> QED
      BY <1>3, <2>1, <2>2, <3>1 DEF CreditIInv, ExactUndisturbed
  <2>3. CASE b = a
    <3>1. db'[a] = r
      BY <1>1, <1>2, <2>3 DEF CreditIInv, TypeOK
    <3>2. /\ reg[h].sent = charged[a] % Modulus
          /\ reg[h].recv = credited[a] % Modulus
      BY <2>1, <2>3 DEF CreditIInv, SoleCopy, ExactUndisturbed
    <3>3. /\ (charged[a] + x) % Modulus = Add64(charged[a] % Modulus, x)
          /\ (credited[a] + y) % Modulus = Add64(credited[a] % Modulus, y)
      BY <1>3, Add64Mod
    <3> QED
      BY <1>3, <2>3, <3>1, <3>2, <3>3
  <2> QED
    BY <2>2, <2>3
<1>9. CopiesBehind'
  <2> SUFFICES ASSUME NEW g \in Handlers, pc'[g] # "idle"
               PROVE  /\ reg'[g].sent <= charged'[acc'[g]]
                      /\ reg'[g].recv <= credited'[acc'[g]]
    BY DEF CopiesBehind
  <2>1. g # h /\ pc[g] # "idle" /\ reg'[g] = reg[g] /\ acc'[g] = acc[g] /\ acc[g] \in Accounts
    BY <1>1 DEF CreditIInv, TypeOK
  <2>2. /\ reg[g].sent <= charged[acc[g]] /\ reg[g].recv <= credited[acc[g]]
        /\ reg[g].sent \in Nat /\ reg[g].recv \in Nat
        /\ charged[acc[g]] \in Nat /\ credited[acc[g]] \in Nat
    BY <1>1, <2>1 DEF CreditIInv, TypeOK, RecordType, CopiesBehind
  <2> QED
    BY <1>1, <1>3, <2>1, <2>2
<1>10. SoleCopy'
  <2> SUFFICES ASSUME NEW g \in Handlers, pc'[g] # "idle", acc'[g] \notin disturbed'
               PROVE  /\ reg'[g].sent = db'[acc'[g]].sent
                      /\ reg'[g].recv = db'[acc'[g]].recv
                      /\ \A k \in Handlers :
                            pc'[k] # "idle" /\ acc'[k] = acc'[g] => k = g
    BY DEF SoleCopy
  <2>1. g # h /\ pc[g] # "idle" /\ reg'[g] = reg[g] /\ acc'[g] = acc[g] /\ acc[g] \in Accounts
    BY <1>1 DEF CreditIInv, TypeOK
  <2>2. acc[g] \notin disturbed
    BY <1>2, <2>1
  <2>3. acc[g] # a
    BY <2>1, <2>2 DEF CreditIInv, SoleCopy
  <2>4. db'[acc[g]] = db[acc[g]]
    BY <1>2, <2>1, <2>3 DEF CreditIInv, TypeOK
  <2>5. \A k \in Handlers : pc'[k] # "idle" => pc[k] # "idle"
    BY <1>1 DEF CreditIInv, TypeOK
  <2> QED
    BY <1>1, <2>1, <2>2, <2>4, <2>5 DEF CreditIInv, SoleCopy
<1> QED
  BY <1>5, <1>6, <1>7, <1>8, <1>9, <1>10 DEF CreditIInv

\* Returning without a write keeps it.
LEMMA DoneKeeps ==
    ASSUME CreditIInv, NEW h \in Handlers, Done(h),
           UNCHANGED <<db, charged, credited, disturbed>>
    PROVE  CreditIInv'
<1>1. TypeOK'
  BY ZeroType DEF CreditIInv, TypeOK, Done
<1>2. AmountsFit'
  BY CreditAssumption DEF CreditIInv, TypeOK, AmountsFit, Done
<1>3. NeverOvercharged' /\ ExactUndisturbed'
  BY DEF CreditIInv, NeverOvercharged, ExactUndisturbed
<1>4. CopiesBehind' /\ SoleCopy'
  BY DEF CreditIInv, TypeOK, Done, CopiesBehind, SoleCopy
<1> QED
  BY <1>1, <1>2, <1>3, <1>4 DEF CreditIInv

\* Reading a record keeps it: the copy is up to date, and an account on which
\* another operation is in progress, or whose read fails, is marked.
LEMMA GetKeeps ==
    ASSUME CreditIInv, NEW h \in Handlers, NEW a \in Accounts, NEW r \in Reads(a),
           NEW next \in {"add", "newLimit", "calcLimit", "newCheck", "order", "pay"},
           Get(h, a, r, next), NEW n \in -(Modulus - 1) .. Modulus - 1,
           amt' = [amt EXCEPT ![h] = n] \/ amt' = amt,
           UNCHANGED <<db, charged, credited>>
    PROVE  CreditIInv'
<1>0. /\ r \in RecordType
      /\ r.sent <= charged[a] /\ r.recv <= credited[a]
  <2>1. CASE r = db[a]
    BY <2>1 DEF CreditIInv, TypeOK, NeverOvercharged
  <2>2. CASE r = Zero
    BY <2>2, ZeroType DEF CreditIInv, TypeOK, Zero, Record
  <2> QED
    BY <2>1, <2>2 DEF Reads
<1>1. TypeOK'
  BY <1>0, CreditAssumption DEF CreditIInv, TypeOK, Get
<1>2. AmountsFit' /\ NeverOvercharged'
  BY DEF CreditIInv, TypeOK, AmountsFit, NeverOvercharged
<1>3. disturbed \subseteq disturbed'
  BY DEF Get
<1>4. ExactUndisturbed'
  BY <1>3 DEF CreditIInv, ExactUndisturbed
<1>5. CopiesBehind'
  BY <1>0 DEF CreditIInv, TypeOK, Get, CopiesBehind
<1>6. SoleCopy'
  <2> SUFFICES ASSUME NEW g \in Handlers, pc'[g] # "idle", acc'[g] \notin disturbed'
               PROVE  /\ reg'[g].sent = db[acc'[g]].sent
                      /\ reg'[g].recv = db[acc'[g]].recv
                      /\ \A k \in Handlers :
                            pc'[k] # "idle" /\ acc'[k] = acc'[g] => k = g
    BY DEF SoleCopy
  <2>1. CASE g = h
    <3>1. acc'[g] = a /\ reg'[g] = r
      BY <2>1 DEF Get, CreditIInv, TypeOK
    <3>2. InFlight(a) = {} /\ r = db[a]
      BY <3>1 DEF Get, CreditIInv, TypeOK
    <3>3. \A k \in Handlers : pc'[k] # "idle" /\ acc'[k] = a => k = g
      BY <2>1, <3>2 DEF Get, CreditIInv, TypeOK, InFlight
    <3> QED
      BY <3>1, <3>2, <3>3
  <2>2. CASE g # h
    <3>1. pc'[g] = pc[g] /\ acc'[g] = acc[g] /\ reg'[g] = reg[g]
      BY <2>2 DEF Get, CreditIInv, TypeOK
    <3>2. acc[g] \notin disturbed
      BY <1>3, <3>1
    <3>3. acc[g] # a
      BY <3>1, <3>2 DEF Get, InFlight
    <3> QED
      BY <2>2, <3>1, <3>2, <3>3 DEF Get, CreditIInv, TypeOK, SoleCopy
  <2> QED
    BY <2>1, <2>2
<1> QED
  BY <1>1, <1>2, <1>4, <1>5, <1>6 DEF CreditIInv

-----------------------------------------------------------------------------
\* The inductive invariant holds initially.
LEMMA CreditInit == Init => CreditIInv
<1> SUFFICES ASSUME Init PROVE CreditIInv
  OBVIOUS
<1>1. Sizes \cup {0} \subseteq 0 .. Modulus - 1 /\ Modulus \in Nat \ {0}
  BY CreditAssumption
<1>2. db \in [Accounts -> [sent : 0 .. Modulus - 1, recv : 0 .. Modulus - 1,
                           level : {0}, bad : BOOLEAN]]
  BY <1>1 DEF Init
<1>3. TypeOK
  <2>1. db \in [Accounts -> RecordType]
    BY <1>1, <1>2 DEF RecordType
  <2>2. charged \in [Accounts -> Nat] /\ credited \in [Accounts -> Nat]
    BY <1>1, <1>2 DEF Init
  <2> QED
    BY <2>1, <2>2, ZeroType DEF Init, TypeOK
<1>4. AmountsFit
  BY <1>1 DEF Init, AmountsFit
<1>5. NeverOvercharged /\ ExactUndisturbed
  <2>1. ASSUME NEW x \in 0 .. Modulus - 1 PROVE x % Modulus = x /\ x <= x
    BY <1>1
  <2> QED
    BY <1>2, <2>1 DEF Init, NeverOvercharged, ExactUndisturbed
<1>6. CopiesBehind /\ SoleCopy
  BY DEF Init, CopiesBehind, SoleCopy
<1> QED
  BY <1>3, <1>4, <1>5, <1>6 DEF CreditIInv

\* The first step of an operation.
LEMMA CallKeeps ==
    ASSUME CreditIInv, NEW h \in Handlers, NEW a \in Accounts, Call(h, a)
    PROVE  CreditIInv'
<1>1. 0 \in -(Modulus - 1) .. Modulus - 1
  BY CreditAssumption
<1>2. ASSUME NEW n \in -(Modulus - 1) .. Modulus - 1, AddCreditPoint(h, a, n)
      PROVE  CreditIInv'
  BY <1>2, GetKeeps DEF AddCreditPoint
<1>3. CASE IsLimited(h, a)
  <2>1. PICK r \in Reads(a) : Get(h, a, r, IF GetOk(r) THEN "calcLimit" ELSE "newLimit")
    BY <1>3 DEF IsLimited
  <2>2. (IF GetOk(r) THEN "calcLimit" ELSE "newLimit")
            \in {"add", "newLimit", "calcLimit", "newCheck", "order", "pay"}
    OBVIOUS
  <2> QED
    BY <1>1, <1>3, <2>1, <2>2, GetKeeps DEF IsLimited
<1>4. CASE CheckCredit(h, a)
  <2>1. PICK r \in Reads(a) : Get(h, a, r, IF GetOk(r) THEN "order" ELSE "newCheck")
    BY <1>4 DEF CheckCredit
  <2>2. (IF GetOk(r) THEN "order" ELSE "newCheck")
            \in {"add", "newLimit", "calcLimit", "newCheck", "order", "pay"}
    OBVIOUS
  <2> QED
    BY <1>1, <1>4, <2>1, <2>2, GetKeeps DEF CheckCredit
<1>5. CASE PaymentCreditBill(h, a)
  BY <1>1, <1>5, GetKeeps DEF PaymentCreditBill
<1>6. /\ \A n \in Sizes : -n \in -(Modulus - 1) .. Modulus - 1
      /\ FragmentSize \in -(Modulus - 1) .. Modulus - 1
  BY CreditAssumption
<1> QED
  BY <1>2, <1>3, <1>4, <1>5, <1>6 DEF Call

\* The last step of an operation.
LEMMA FinishKeeps ==
    ASSUME CreditIInv, NEW h \in Handlers, Finish(h)
    PROVE  CreditIInv'
<1> DEFINE a == acc[h]
           R == reg[h]
<1>1. /\ a \in Accounts /\ R \in RecordType /\ amt[h] \in Int
      /\ amt[h] \in -(Modulus - 1) .. Modulus - 1
      /\ R.sent \in 0 .. Modulus - 1 /\ R.recv \in 0 .. Modulus - 1
      /\ charged \in [Accounts -> Nat] /\ credited \in [Accounts -> Nat]
      /\ Orders \subseteq 0 .. Modulus - 1 /\ Modulus \in Nat \ {0}
  BY CreditAssumption DEF CreditIInv, TypeOK, AmountsFit, RecordType
<1>2. /\ charged = [charged EXCEPT ![a] = @ + 0]
      /\ credited = [credited EXCEPT ![a] = @ + 0]
      /\ 0 \in 0 .. Modulus - 1
      /\ Add64(R.sent, 0) = R.sent /\ Add64(R.recv, 0) = R.recv
  <2>1. /\ charged = [charged EXCEPT ![a] = @ + 0]
        /\ credited = [credited EXCEPT ![a] = @ + 0]
    BY <1>1
  <2>2. 0 \in 0 .. Modulus - 1
    BY <1>1
  <2> QED
    BY <1>1, <2>1, <2>2, Add64Type
<1>4. ASSUME NEW n \in 0 .. Modulus - 1, pc[h] # "idle", ~Overflows(R.recv),
             Put(h, Sent(R, n)),
             charged' = [charged EXCEPT ![a] = @ + n], UNCHANGED credited
      PROVE  CreditIInv'
  <2>1. /\ Sent(R, n) \in RecordType
        /\ Sent(R, n).sent = Add64(R.sent, n)
        /\ Sent(R, n).recv = Add64(R.recv, 0)
    BY <1>1, <1>2, <1>4, AddedRecord
  <2>2. credited' = [credited EXCEPT ![a] = @ + 0]
    BY <1>2, <1>4
  <2> QED
    BY <1>2, <1>4, <2>1, <2>2, PutKeeps
<1>5. ASSUME NEW n \in 0 .. Modulus - 1, pc[h] # "idle", ~Overflows(Add64(R.recv, n)),
             Put(h, Received(R, n)),
             credited' = [credited EXCEPT ![a] = @ + n], UNCHANGED charged
      PROVE  CreditIInv'
  <2>1. /\ Received(R, n) \in RecordType
        /\ Received(R, n).sent = Add64(R.sent, 0)
        /\ Received(R, n).recv = Add64(R.recv, n)
    BY <1>1, <1>2, <1>5, AddedRecord
  <2>2. charged' = [charged EXCEPT ![a] = @ + 0]
    BY <1>2, <1>5
  <2> QED
    BY <1>2, <1>5, <2>1, <2>2, PutKeeps
<1>6. ASSUME pc[h] # "idle", Put(h, Stored(R)), UNCHANGED <<charged, credited>>
      PROVE  CreditIInv'
  <2>1. Stored(R) \in RecordType
    BY <1>1 DEF RecordType, Stored, Record
  <2>2. Stored(R).sent = R.sent /\ Stored(R).recv = R.recv
    BY DEF Stored, Record
  <2>3. Stored(R).sent = Add64(R.sent, 0) /\ Stored(R).recv = Add64(R.recv, 0)
    BY <1>2, <2>2
  <2>4. /\ charged' = [charged EXCEPT ![a] = @ + 0]
        /\ credited' = [credited EXCEPT ![a] = @ + 0]
    BY <1>2, <1>6
  <2> QED
    BY <1>2, <1>6, <2>1, <2>3, <2>4, PutKeeps
<1>7. CASE AddCreditPointPut(h)
  <2>1. CASE amt[h] < 0
    <3>1. /\ -amt[h] \in 0 .. Modulus - 1
          /\ charged' = [charged EXCEPT ![a] = @ + (-amt[h])]
      BY <1>1, <1>7, <2>1 DEF AddCreditPointPut
    <3>2. Put(h, Sent(R, -amt[h])) /\ UNCHANGED credited /\ pc[h] # "idle"
      BY <1>1, <1>7, <2>1 DEF AddCreditPointPut
    <3>3. ~Overflows(R.recv)
      BY <1>2, <1>7, <2>1 DEF AddCreditPointPut, AddedTo
    <3> QED
      BY <1>4, <3>1, <3>2, <3>3
  <2>2. CASE amt[h] >= 0
    <3>1. amt[h] \in 0 .. Modulus - 1 /\ ~(amt[h] < 0)
      BY <1>1, <2>2
    <3>2. /\ Put(h, Received(R, amt[h])) /\ UNCHANGED charged /\ pc[h] # "idle"
          /\ credited' = [credited EXCEPT ![a] = @ + amt[h]]
      BY <1>7, <3>1 DEF AddCreditPointPut
    <3>3. ~Overflows(Add64(R.recv, amt[h]))
      BY <1>7, <3>1 DEF AddCreditPointPut, AddedTo
    <3> QED
      BY <1>5, <3>1, <3>2, <3>3
  <2> QED
    BY <1>1, <2>1, <2>2
<1>8. CASE IsLimitedPut(h)
  BY <1>6, <1>8 DEF IsLimitedPut
<1>9. CASE CheckCreditNewPut(h)
  BY <1>6, <1>9 DEF CheckCreditNewPut
<1>10. CASE IsLimitedCalc(h) \/ CheckCreditNoOrder(h) \/ PaymentCreditBillFails(h)
  BY <1>10, DoneKeeps DEF IsLimitedCalc, CheckCreditNoOrder, PaymentCreditBillFails
<1>11. ASSUME NEW n \in Orders, CheckCreditOrder(h, n) PROVE CreditIInv'
  BY <1>1, <1>5, <1>11 DEF CheckCreditOrder
<1>12. ASSUME NEW n \in Orders, PaymentCreditBillPut(h, n) PROVE CreditIInv'
  BY <1>1, <1>4, <1>12 DEF PaymentCreditBillPut
<1> QED
  BY <1>7, <1>8, <1>9, <1>10, <1>11, <1>12 DEF Finish

\* The end of the process, by a crash or a panic, loses the copies only.
LEMMA DiesKeeps ==
    ASSUME CreditIInv, Dies
    PROVE  CreditIInv'
<1>1. TypeOK'
  BY ZeroType DEF CreditIInv, TypeOK, Dies
<1>2. AmountsFit'
  BY CreditAssumption DEF Dies, AmountsFit
<1>3. NeverOvercharged' /\ ExactUndisturbed'
  BY DEF CreditIInv, Dies, NeverOvercharged, ExactUndisturbed
<1>4. CopiesBehind' /\ SoleCopy'
  BY DEF Dies, CopiesBehind, SoleCopy
<1> QED
  BY <1>1, <1>2, <1>3, <1>4 DEF CreditIInv

\* Every step keeps the inductive invariant: one case per action.
LEMMA CreditNext == CreditIInv /\ [Next]_vars => CreditIInv'
<1> SUFFICES ASSUME CreditIInv, [Next]_vars PROVE CreditIInv'
  OBVIOUS
<1>1. CASE Crash \/ \E h \in Handlers : Panic(h)
  BY <1>1, DiesKeeps DEF Crash, Panic
<1>2. ASSUME NEW h \in Handlers, NEW a \in Accounts, Call(h, a) PROVE CreditIInv'
  BY <1>2, CallKeeps
<1>3. ASSUME NEW h \in Handlers, Finish(h) PROVE CreditIInv'
  BY <1>3, FinishKeeps
<1>4. CASE UNCHANGED vars
  BY <1>4 DEF vars, CreditIInv, TypeOK, AmountsFit, NeverOvercharged, ExactUndisturbed,
              CopiesBehind, SoleCopy
<1> QED
  BY <1>1, <1>2, <1>3, <1>4 DEF Next

-----------------------------------------------------------------------------
\* The invariant holds in every execution.
LEMMA CreditInvariance == Spec => []CreditIInv
BY CreditInit, CreditNext, PTL DEF Spec

\* Counters stay below 2^64 and levels between -1 and LEVEL_UNTRUST, for any
\* amounts, wrapping counters included.
THEOREM CreditTypeCorrect == Spec => []TypeOK
<1>1. CreditIInv => TypeOK
  BY DEF CreditIInv
<1> QED
  BY CreditInvariance, <1>1, PTL

\* For any number of concurrent callers, any failing read or write and any crash,
\* the unlocked ledger never shows an account more than the completed calls
\* added.
THEOREM RacesOnlyLose == Spec => []NeverOvercharged
<1>1. CreditIInv => NeverOvercharged
  BY DEF CreditIInv
<1> QED
  BY CreditInvariance, <1>1, PTL

\* An account on which no two operations overlapped and no read or write failed
\* has an exact record, modulo 2^64.
THEOREM ExactIfSerial == Spec => []ExactUndisturbed
<1>1. CreditIInv => ExactUndisturbed
  BY DEF CreditIInv
<1> QED
  BY CreditInvariance, <1>1, PTL

=============================================================================
