----------------------------- MODULE CacheActor -----------------------------
(***************************************************************************)
(* The cache node: the stream handlers of CacheService, the download queue *)
(* and its threads (RunDownloadServer), the resource actor as a mailbox    *)
(* that is answered or not (StoragedFiles is its inside), the cache actor, *)
(* the file records in LevelDB with the callbacks that count the items of  *)
(* a directory, and restart with RestoreCacheFiles.                        *)
(*                                                                         *)
(* A key is the sequence of its path's components: <<File, s, k>> for      *)
(* fragment k of segment s, <<File, s>> for the segment, <<name>> for a    *)
(* URL, where name stands for the hash of the URL's last component.  The   *)
(* credit check is Credit's.  A request that is refused, a query of a      *)
(* segment that is being loaded and the download of a cached file change   *)
(* nothing here.                                                           *)
(*                                                                         *)
(* FileCache (external) drops an item together with its file, then calls   *)
(* the delete callback, on a goroutine of its own; the add callback runs   *)
(* on the goroutine that adds: the walk of RestoreCacheFiles, later the    *)
(* cache actor.                                                            *)
(***************************************************************************)
EXTENDS Integers, Sequences, FiniteSets

CONSTANTS
    File,          \* the file whose segments are cached
    Segs,          \* its segments
    FragmentNum,   \* fragments of a segment that are downloaded
    Urls,          \* site resources
    Workloads,     \* what clients may ask for; bound: restarts meanwhile
    Base,          \* filepath.Base of each URL
    FragmentSized, \* URLs whose resource has as many bytes as a fragment
    Empty,         \* URLs whose resource has no bytes
    Handlers,      \* concurrent streams
    Threads,       \* download threads
    DataShards,    \* config.DataShards
    EnoughResps,   \* the literal 4 of CacheActor.Receive
    CacheDir,      \* the components of the cache directory's path
    None,          \* no value
    MaxReq,        \* the highest request count told apart; 5 tells all, 0 none
    MaxMail,       \* bound: messages in a mailbox when another is sent
    MaxCount       \* bound: fragment count of a directory

ASSUME CacheActorAssumption ==
    /\ IsFiniteSet(Segs) /\ IsFiniteSet(Urls) /\ None \notin Urls
    /\ FragmentNum \in Nat /\ DataShards \in Nat /\ EnoughResps \in Nat
    /\ FragmentSized \subseteq Urls /\ Empty \subseteq Urls \ FragmentSized
    /\ Workloads \subseteq [ask : SUBSET (Segs \cup Urls), restarts : Nat]
    /\ MaxReq \in 0 .. 5
    /\ CacheDir \in Seq(STRING)
    /\ MaxMail \in Nat /\ MaxCount \in Nat

VARIABLES
    life,      \* "down", "boot" (handlers on, no queue yet) or "serving"
    walk,      \* files RestoreCacheFiles has still to come to
    queue,     \* dlQueue: the Source of the task under each key, or None
    handler,   \* what each stream is about to look up, or None
    visit,     \* the task each thread has read in Range, or None
    inbox,     \* mailbox of the resource actor
    mail,      \* mailbox of the cache actor
    moving,    \* files of the response in hand still to be moved
    cache,     \* FileCache: the path of the file under each key, or None
    disk,      \* what the file at each path holds, or None
    adding,    \* the add callback in progress and the count it has read
    dropping,  \* the delete callback of each item in progress, likewise
    fragRec,   \* records ending in RECORD_FRAGMENTS; 0 if there is none
    reqRec,    \* records ending in RECORD_REQUESTS
    restarts,  \* stops of the process still to come
    asked,     \* the sources that are asked for in this behaviour
    disturbed  \* ghost: directories on which an add and a delete callback have
               \* overlapped, or the count of an added item failed, since the start

tasks == <<queue, handler, visit, inbox, mail, moving>>
files == <<cache, disk>>
counts == <<adding, dropping, fragRec, disturbed>>
vars == <<life, walk, tasks, files, counts, reqRec, restarts, asked>>

-----------------------------------------------------------------------------
(* Keys *)

SegKey(s) == <<File, s>>
FragKey(s, k) == <<File, s, k>>

SiteKey(u) == <<Base[u]>>

FragKeys == {FragKey(s, k) : s \in Segs, k \in 1 .. FragmentNum}
SiteKeys == {SiteKey(u) : u \in Urls}

\* The last three components of a path in the cache directory, reversed; a path
\* of less than four is not taken up.
Reversed(path) ==
    LET whole == CacheDir \o path
        n == Len(whole)
    IN  <<whole[n], whole[n - 1], whole[n - 2]>>

Long(path) == Len(CacheDir) + Len(path) >= 4

Paths == FragKeys \cup SiteKeys
CacheKeys == Paths \cup {Reversed(p) : p \in {x \in Paths : Long(x)}}
QueueKeys == {SegKey(s) : s \in Segs} \cup SiteKeys

ASSUME NoneAssumption == None \notin CacheKeys

Sources == Segs \cup Urls

KeyOf(src) == IF src \in Urls THEN SiteKey(src) ELSE SegKey(src)

\* filepath.Split keeps the slash that ends the directory, GetFileRecord's
\* callers have none: the two make different record keys of one segment.
Slash(d) == <<"slash", d>>
Plain(q) == <<"plain", q>>
Dir(key) == SubSeq(key, 1, Len(key) - 1)
Dirs == {Dir(k) : k \in CacheKeys}
RecordKeys == {Slash(d) : d \in Dirs} \cup {Plain(q) : q \in QueueKeys}

\* Mutant: the count is taken down twice for one item.
RemovedTwice(n) == IF n > 1 THEN n - 2 ELSE 0

\* What the add and the delete callback make of the count.
Added(n) == n + 1

Removed(n) == IF n > 0 THEN n - 1 ELSE 0

\* A callback is not running, about to read the count or about to write it.
NoCallback == [at |-> "no", val |-> 0]
NoAdd == [key |-> None, at |-> "no", val |-> 0]

-----------------------------------------------------------------------------
Init ==
    /\ life = "down"
    /\ walk = {}
    /\ queue = [q \in QueueKeys |-> None]
    /\ handler = [h \in Handlers |-> None]
    /\ visit = [t \in Threads |-> None]
    /\ inbox = <<>>
    /\ mail = <<>>
    /\ moving = {}
    /\ cache = [k \in CacheKeys |-> None]
    /\ disk = [p \in Paths |-> None]
    /\ adding = NoAdd
    /\ dropping = [k \in CacheKeys |-> NoCallback]
    /\ fragRec = [r \in RecordKeys |-> 0]
    /\ reqRec = [r \in RecordKeys |-> 0]
    /\ \E w \in Workloads : asked = w.ask /\ restarts = w.restarts
    /\ disturbed = {}

\* What a stop of the process leaves: the files and the LevelDB records.
Stopped ==
    /\ restarts > 0
    /\ life' = "down"
    /\ walk' = {}
    /\ queue' = [q \in QueueKeys |-> None]
    /\ handler' = [h \in Handlers |-> None]
    /\ visit' = [t \in Threads |-> None]
    /\ inbox' = <<>>
    /\ mail' = <<>>
    /\ moving' = {}
    /\ cache' = [k \in CacheKeys |-> None]
    /\ adding' = NoAdd
    /\ dropping' = [k \in CacheKeys |-> NoCallback]
    /\ disturbed' = {}
    /\ restarts' = restarts - 1
    /\ UNCHANGED <<disk, fragRec, asked>>

\* The process is killed, or stops on a signal.
Crash ==
    /\ life # "down"
    /\ Stopped
    /\ UNCHANGED reqRec

-----------------------------------------------------------------------------
(* The callbacks of AddCallbackOfAddItem and AddCallbackOfDeleteItem: a Get *)
(* and a Put of the count of the item's directory, without a lock.          *)

\* FileCache has the file at path under key, and calls the add callback.
AddItem(key, path) ==
    /\ adding.at = "no"
    /\ cache' = [cache EXCEPT ![key] = path]
    /\ adding' = [key |-> key, at |-> "get", val |-> 0]
    /\ UNCHANGED <<dropping, fragRec, disturbed>>

\* The cache actor has added a site resource: its task leaves the queue.  (The
\* walk has no queue.)
AddEnds ==
    /\ adding' = NoAdd
    /\ queue' = IF adding.key \in SiteKeys THEN [queue EXCEPT ![adding.key] = None]
                                            ELSE queue
    /\ UNCHANGED <<life, walk, handler, visit, inbox, mail, moving, files, dropping,
                   reqRec, restarts, asked>>

AddGet ==
    LET d == Dir(adding.key) IN
    /\ adding.at = "get"
    /\ adding' = [adding EXCEPT !.at = "put", !.val = fragRec[Slash(d)]]
    /\ disturbed' = IF \E k \in CacheKeys : dropping[k].at = "put" /\ Dir(k) = d
                    THEN disturbed \cup {d} ELSE disturbed
    /\ UNCHANGED <<life, walk, tasks, files, dropping, fragRec, reqRec, restarts, asked>>

AddPut ==
    LET d == Dir(adding.key) IN
    /\ adding.at = "put"
    /\ adding.val < MaxCount
    /\ fragRec' = [fragRec EXCEPT ![Slash(d)] = Added(adding.val)]
    /\ AddEnds
    /\ UNCHANGED disturbed

\* Get reports an error other than ErrNotFound, or Put does: not counted.
AddFails ==
    /\ adding.at # "no"
    /\ disturbed' = disturbed \cup {Dir(adding.key)}
    /\ AddEnds
    /\ UNCHANGED fragRec

\* FileCache drops an item (expiry or lack of space) and removes its file.
Expire(key) ==
    /\ cache[key] # None
    /\ dropping[key].at = "no"
    /\ cache' = [cache EXCEPT ![key] = None]
    /\ disk' = [disk EXCEPT ![cache[key]] = None]
    /\ dropping' = [dropping EXCEPT ![key] = [at |-> "get", val |-> 0]]
    /\ UNCHANGED <<life, walk, tasks, adding, fragRec, disturbed, reqRec, restarts, asked>>

DropGet(key) ==
    LET d == Dir(key) IN
    /\ dropping[key].at = "get"
    /\ dropping' = [dropping EXCEPT ![key] = [at |-> "put", val |-> fragRec[Slash(d)]]]
    /\ disturbed' = IF adding.at = "put" /\ Dir(adding.key) = d
                    THEN disturbed \cup {d} ELSE disturbed
    /\ UNCHANGED <<life, walk, tasks, files, adding, fragRec, reqRec, restarts, asked>>

\* The request record next to the count is reset when too few fragments are left.
DropPut(key) ==
    LET d == Dir(key)
        n == Removed(dropping[key].val)
    IN
    /\ dropping[key].at = "put"
    /\ dropping' = [dropping EXCEPT ![key] = NoCallback]
    /\ fragRec' = [fragRec EXCEPT ![Slash(d)] = n]
    /\ reqRec' = IF n < DataShards THEN [reqRec EXCEPT ![Slash(d)] = 0] ELSE reqRec
    /\ UNCHANGED <<life, walk, tasks, files, adding, disturbed, restarts, asked>>

\* Get or Put reports an error: the count stays as it is.  When Put does, the
\* request record may be reset all the same.
DropFails(key) ==
    /\ dropping[key].at # "no"
    /\ dropping' = [dropping EXCEPT ![key] = NoCallback]
    /\ reqRec' \in {reqRec, [reqRec EXCEPT ![Slash(Dir(key))] = 0]}
    /\ UNCHANGED <<life, walk, tasks, files, adding, fragRec, disturbed, restarts,
                   asked>>

-----------------------------------------------------------------------------
(* Start of the process *)

OfFragmentSize(p) == p \in FragKeys \/ disk[p] \in FragmentSized

\* Mutant: only files of the size of a fragment are restored.
RestoredKeyOfFragment(p) ==
    IF OfFragmentSize(p) /\ Long(p) THEN Reversed(p) ELSE None

\* The key RestoreCacheFiles gives to the file at a path, by its size alone, or
\* None.
RestoredKey(p) ==
    IF OfFragmentSize(p) THEN (IF Long(p) THEN Reversed(p) ELSE None)
    ELSE IF disk[p] \in Empty THEN None ELSE <<p[Len(p)]>>

\* The stream handler is registered, then RestoreCacheFiles begins its walk.
Restore ==
    /\ life = "down"
    /\ life' = "boot"
    /\ walk' = {p \in Paths : disk[p] # None}
    /\ UNCHANGED <<tasks, files, counts, reqRec, restarts, asked>>

RestoreFile(p) ==
    /\ life = "boot"
    /\ p \in walk
    /\ walk' = walk \ {p}
    /\ adding.at = "no"
    /\ \/ RestoredKey(p) = None /\ UNCHANGED <<cache, counts>>
       \/ RestoredKey(p) # None /\ AddItem(RestoredKey(p), p)
    /\ UNCHANGED <<life, tasks, disk, reqRec, restarts, asked>>

\* The walk fails, at the cache directory, below it or at a file: the node ends.
RestoreFails ==
    /\ life = "boot"
    /\ adding.at = "no"
    /\ Stopped
    /\ UNCHANGED reqRec

\* RunDownloadServer makes the queue and starts the threads.
RunDownloadServer ==
    /\ life = "boot"
    /\ walk = {} /\ adding.at = "no"
    /\ life' = "serving"
    /\ UNCHANGED <<walk, tasks, files, counts, reqRec, restarts, asked>>

-----------------------------------------------------------------------------
(* CacheService *)

\* "query", unless the segment is in the queue and so being loaded.  Before the
\* queue exists, asking it panics.
Query(h, src) ==
    /\ life # "down"
    /\ handler[h] = None
    /\ \/ /\ src \in Urls \/ (life = "serving" /\ queue[KeyOf(src)] = None)
          /\ handler' = [handler EXCEPT ![h] = src]
          /\ UNCHANGED <<life, walk, queue, visit, inbox, mail, moving, files, counts,
                         reqRec, restarts, asked>>
       \/ /\ src \in Segs
          /\ life = "boot"
          /\ Stopped
          /\ UNCHANGED reqRec

\* Does QueryCacheResource queue the key for this account, request number and
\* load?
Admitted(level, light, req) ==
    \/ level = 0
    \/ light /\ level < 3
    \/ level < 2 /\ req >= 2
    \/ req > 4

\* LoadOrStore.
Stored(q, src) == [queue EXCEPT ![q] = IF @ = None THEN src ELSE @]

\* What Admitted can say: the account and the load are Credit's and FileCache's.
Admissions(req) == {Admitted(level, light, req) : level \in -1 .. 3, light \in BOOLEAN}

\* The request is counted and queued; what is cached is read and answered.
QueryCacheResource(h, admitted) ==
    LET src == handler[h]
        q == KeyOf(src)
        req == IF reqRec[Plain(q)] < MaxReq THEN reqRec[Plain(q)] + 1 ELSE MaxReq
    IN
    /\ src # None
    /\ admitted \in Admissions(req)
    /\ reqRec' = [reqRec EXCEPT ![Plain(q)] = req]
    /\ \/ /\ ~admitted \/ life = "serving"
          /\ handler' = [handler EXCEPT ![h] = None]
          /\ queue' = IF admitted THEN Stored(q, src) ELSE queue
          /\ UNCHANGED <<life, walk, visit, inbox, mail, moving, files, counts,
                         restarts, asked>>
       \/ /\ admitted
          /\ life = "boot"
          /\ Stopped

-----------------------------------------------------------------------------
(* RunDownloadServer's threads *)

\* Range gives the thread the task under key q: a segment whose record says
\* that it is complete leaves the queue, a cached URL does too but is not
\* passed over.
Visit(t, q) ==
    LET src == queue[q] IN
    /\ life = "serving"
    /\ visit[t] = None
    /\ src # None
    /\ Len(inbox) < MaxMail
    /\ \/ /\ src \in Segs
          /\ fragRec[Plain(q)] >= DataShards
          /\ queue' = [queue EXCEPT ![q] = None]
          /\ UNCHANGED visit
       \/ /\ src \in Segs
          /\ fragRec[Plain(q)] < DataShards
          /\ visit' = [visit EXCEPT ![t] = src]
          /\ UNCHANGED queue
       \/ /\ src \in Urls
          /\ visit' = [visit EXCEPT ![t] = src]
          /\ queue' = IF cache[q] # None THEN [queue EXCEPT ![q] = None] ELSE queue
    /\ UNCHANGED <<life, walk, handler, inbox, mail, moving, files, counts, reqRec,
                   restarts, asked>>

\* dlQueue.Store of the task as it was read, and the request to the resource
\* actor.
StoreAndSend(t) ==
    LET src == visit[t] IN
    /\ src # None
    /\ queue' = [queue EXCEPT ![KeyOf(src)] = src]
    /\ inbox' = Append(inbox, src)
    /\ visit' = [visit EXCEPT ![t] = None]
    /\ UNCHANGED <<life, walk, handler, mail, moving, files, counts, reqRec,
                   restarts, asked>>

-----------------------------------------------------------------------------
(* ResourceActor.Receive *)

\* The download of the first request fails.  For a segment, a response without
\* files is sent, which the cache actor passes over.
FetchFails ==
    /\ inbox # <<>>
    /\ Len(mail) < MaxMail
    /\ inbox' = Tail(inbox)
    /\ UNCHANGED <<life, walk, queue, handler, visit, mail, moving, files, counts,
                   reqRec, restarts, asked>>

\* Some files of the requested and of other segments are fetched; the first
\* of them belongs to segment `first`.
FetchNode(s, first, got) ==
    /\ inbox # <<>>
    /\ Head(inbox) = s
    /\ Len(mail) < MaxMail
    /\ \E f \in got : f[2] = first
    /\ inbox' = Tail(inbox)
    /\ mail' = Append(mail, [src |-> first, files |-> got])
    /\ UNCHANGED <<life, walk, queue, handler, visit, moving, files, counts, reqRec,
                   restarts, asked>>

FetchSite(u) ==
    /\ inbox # <<>>
    /\ Head(inbox) = u
    /\ Len(mail) < MaxMail
    /\ inbox' = Tail(inbox)
    /\ mail' = Append(mail, [src |-> u, files |-> {}])
    /\ UNCHANGED <<life, walk, queue, handler, visit, moving, files, counts, reqRec,
                   restarts, asked>>

-----------------------------------------------------------------------------
(* CacheActor.Receive *)

Ready == moving = {} /\ adding.at = "no" /\ mail # <<>>

\* []DownloadResponse: the task of the first file's segment leaves the queue,
\* then the files are moved one by one.
ReceiveNode(s) ==
    LET resp == Head(mail) IN
    /\ Ready
    /\ resp.src = s
    /\ mail' = Tail(mail)
    /\ queue' = IF Cardinality(resp.files) >= EnoughResps
                THEN [queue EXCEPT ![SegKey(s)] = None] ELSE queue
    /\ moving' = resp.files
    /\ UNCHANGED <<life, walk, handler, visit, inbox, files, counts, reqRec, restarts,
                   asked>>

\* MoveFileToCache succeeds.
MoveFile(key) ==
    /\ key \in moving
    /\ moving' = moving \ {key}
    /\ AddItem(key, key)
    /\ disk' = [disk EXCEPT ![key] = key]
    /\ UNCHANGED <<life, walk, queue, handler, visit, inbox, mail, reqRec, restarts,
                   asked>>

MoveFails(key) ==
    /\ key \in moving
    /\ adding.at = "no"
    /\ moving' = moving \ {key}
    /\ UNCHANGED <<life, walk, queue, handler, visit, inbox, mail, files, counts,
                   reqRec, restarts, asked>>

\* Mutant: the response takes the task off the queue before the file is moved.
ReceiveSiteFailsDeletes(u) ==
    /\ Ready
    /\ Head(mail).src = u
    /\ mail' = Tail(mail)
    /\ queue' = [queue EXCEPT ![SiteKey(u)] = None]
    /\ UNCHANGED <<life, walk, handler, visit, inbox, moving, files, counts, reqRec,
                   restarts, asked>>

\* DownloadResponse: MoveFileToCache fails and the task stays.
ReceiveSiteFails(u) ==
    /\ Ready
    /\ Head(mail).src = u
    /\ mail' = Tail(mail)
    /\ UNCHANGED <<life, walk, queue, handler, visit, inbox, moving, files, counts,
                   reqRec, restarts, asked>>

\* DownloadResponse: the file is moved; the task leaves the queue in AddEnds.
ReceiveSite(u) ==
    LET key == SiteKey(u) IN
    /\ Ready
    /\ Head(mail).src = u
    /\ mail' = Tail(mail)
    /\ AddItem(key, key)
    /\ disk' = [disk EXCEPT ![key] = u]
    /\ UNCHANGED <<life, walk, queue, handler, visit, inbox, moving, reqRec, restarts,
                   asked>>

-----------------------------------------------------------------------------
Serve ==
    \/ \E h \in Handlers, src \in asked : Query(h, src)
    \/ \E h \in Handlers, admitted \in BOOLEAN : QueryCacheResource(h, admitted)

Start == Restore \/ RunDownloadServer \/ \E p \in Paths : RestoreFile(p)

Count == AddGet \/ AddPut \/ AddFails

Drop(key) == Expire(key) \/ DropGet(key) \/ DropPut(key) \/ DropFails(key)

Fetch ==
    \/ FetchFails
    \/ \E s, first \in Segs, got \in SUBSET FragKeys : FetchNode(s, first, got)
    \/ \E u \in Urls : FetchSite(u)

Receive ==
    \/ \E s \in Segs : ReceiveNode(s)
    \/ \E u \in Urls : ReceiveSite(u) \/ ReceiveSiteFails(u)
    \/ \E key \in FragKeys : MoveFile(key) \/ MoveFails(key)

Next ==
    \/ Crash \/ RestoreFails
    \/ Start
    \/ Count
    \/ Serve
    \/ \E t \in Threads : StoreAndSend(t) \/ \E q \in QueueKeys : Visit(t, q)
    \/ Fetch
    \/ Receive
    \/ \E key \in CacheKeys : Drop(key)

\* The process is started again, its goroutines and actors run, every pass of
\* Range comes to every key, and the download or the move of a site resource
\* that is tried again and again succeeds some time.  Nothing has to expire.
Fairness ==
    /\ WF_vars(Start)
    /\ WF_vars(Count)
    /\ \A t \in Threads : /\ WF_vars(StoreAndSend(t))
                          /\ \A q \in QueueKeys : SF_vars(Visit(t, q))
    /\ WF_vars(Fetch)
    /\ WF_vars(Receive)
    /\ \A q \in SiteKeys :
          /\ SF_vars(\E u \in Urls : SiteKey(u) = q /\ FetchSite(u))
          /\ SF_vars(\E u \in Urls : SiteKey(u) = q /\ ReceiveSite(u))

Spec == Init /\ [][Next]_vars /\ Fairness

-----------------------------------------------------------------------------
(* Properties *)

Cached(d) == {k \in CacheKeys : cache[k] # None /\ Dir(k) = d}

\* No callback is counting an item of directory d.
Quiet(d) ==
    /\ adding.at # "no" => Dir(adding.key) # d
    /\ \A k \in CacheKeys : dropping[k].at # "no" => Dir(k) # d

\* The fragment record of a directory is less than the number of items the cache
\* has in it only after an add and a delete callback have overlapped on it, or an
\* addition was not counted, since the node was started: items added twice,
\* deleted together, restored under another key or left over from before a
\* restart never make it too small.
NeverUndercounted ==
    \A d \in Dirs \ disturbed :
        Quiet(d) => Cardinality(Cached(d)) <= fragRec[Slash(d)]

\* A site resource that is on the disk, also from before a restart, is found under
\* the key its URL is looked up with as soon as the walk of RestoreCacheFiles has
\* come to it, unless its size is zero or that of a fragment.
RestoredSitesServable ==
    life # "down" => \A k \in SiteKeys \ walk :
        disk[k] \in Urls \ (FragmentSized \cup Empty) => cache[k] = k

\* A site resource that was queued is cached in the end, unless the node stops:
\* failed downloads and failed moves are retried.  (While one is being added its
\* task is about to leave the queue, although it may be dropped before that.)  A
\* segment has no such property: its task leaves the queue before its files are
\* moved.
SiteEventuallyCached ==
    \A q \in SiteKeys :
        queue[q] # None /\ adding.key # q ~> cache[q] # None \/ life # "serving"

=============================================================================
