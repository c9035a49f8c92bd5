---------------------------- MODULE UploadQueue ----------------------------
(***************************************************************************)
(* The client's uploads: PreprocessFileAndPutIntoUploadQueue splits a file *)
(* into fragments, places a storage order and puts a task into a bounded   *)
(* channel; UploadServer takes a task, sends each group of fragments (the  *)
(* i-th fragment of every segment) to a storage node of its own, and puts  *)
(* the task back until the chain lists every group.  The server puts tasks *)
(* back into the channel that only it reads.                               *)
(*                                                                         *)
(* The chain and the storage nodes are the environment.  A task is named   *)
(* by the call that made it: its Group slice is shared by all copies.      *)
(* RPC errors and absent entries are both a non-nil error to the client.   *)
(* The server's exit on an empty FileHash is unreachable: nothing closes   *)
(* the channel, and no task has an empty hash.                             *)
(*                                                                         *)
(* FullProcessing (external) is given c.tmpDir by every call and puts the  *)
(* fragments of a file there or in a directory below it; ClearTmpFile      *)
(* removes the whole directory of a task's fragments.                      *)
(***************************************************************************)
EXTENDS Integers, Sequences, FiniteSets

CONSTANTS
    Calls,       \* calls of PreprocessFileAndPutIntoUploadQueue
    Files,       \* contents (root hashes)
    Uploads,     \* assignments of a file to each call
    BadPaths,    \* files whose fragment paths have not three components
    DirOf,       \* the directory that has the fragments of each file
    Servers,     \* goroutines that run UploadServer
    Peers,       \* storage nodes
    NoPeer,      \* PeerID ""
    GroupNum,    \* config.DataShards + config.ParShards
    QueueSize    \* SetConfig's uploadQueueSize

ASSUME UploadAssumption ==
    /\ Uploads \subseteq [Calls -> Files]
    /\ BadPaths \subseteq Files
    /\ NoPeer \notin Peers
    /\ GroupNum \in Nat \ {0}
    /\ QueueSize \in Nat \ {0}

Groups == 1 .. GroupNum

VARIABLES
    file,       \* the file each call uploads
    call,       \* where each call is
    queue,      \* c.uploadQueue
    server,     \* where each server is
    task,       \* the call whose task the server has
    grp,        \* task.Group
    i,          \* the server's loop index
    sucCount,   \* groups seen on chain in this pass
    order,      \* order.CompleteList, read at the start of the pass
    used,       \* savedPeers, computed at the start of the pass
    itor,       \* peers the iterator has still to give
    cancelled,  \* ctx is done
    tmp,        \* files whose fragments are all in their directory
    stored,     \* environment: groups that storage nodes hold
    complete,   \* environment: the groups the chain has for each file
    active      \* environment: files QueryFile finds

inputVars == <<file, cancelled>>
passVars == <<i, sucCount, order, used, itor>>
serverVars == <<server, task, passVars>>
chainVars == <<stored, complete, active>>
vars == <<call, queue, serverVars, grp, inputVars, tmp, chainVars>>

-----------------------------------------------------------------------------
NewGroup == [saved |-> FALSE, onChain |-> FALSE, fresh |-> FALSE, peer |-> NoPeer]

\* Files of other users may be on chain already.
Init ==
    /\ file \in Uploads
    /\ call = [c \in Calls |-> "idle"]
    /\ queue = <<>>
    /\ server = [s \in Servers |-> "select"]
    /\ task \in [Servers -> Calls]
    /\ grp = [c \in Calls |-> [g \in Groups |-> NewGroup]]
    /\ i = [s \in Servers |-> 1]
    /\ sucCount = [s \in Servers |-> 0]
    /\ order = [s \in Servers |-> {}]
    /\ used = [s \in Servers |-> {}]
    /\ itor = [s \in Servers |-> {}]
    /\ cancelled = FALSE
    /\ tmp = {}
    /\ stored = {}
    /\ active \in SUBSET Files
    /\ complete = [f \in Files |-> IF f \in active THEN Groups ELSE {}]

-----------------------------------------------------------------------------
(* PreprocessFileAndPutIntoUploadQueue *)

\* FullProcessing writes the fragments.
Preprocess(c) ==
    /\ call[c] = "idle"
    /\ tmp' = tmp \cup {file[c]}
    /\ call' = [call EXCEPT ![c] = "process"]
    /\ UNCHANGED <<queue, serverVars, grp, inputVars, chainVars>>

\* QueryFile does not find the file.
PreprocessNew(c) ==
    /\ call[c] = "process"
    /\ call' = [call EXCEPT ![c] = "order"]
    /\ UNCHANGED <<queue, serverVars, grp, inputVars, tmp, chainVars>>

\* QueryFile finds it: this user owns it, or an order makes him an owner; no
\* upload follows, and the fragments stay in the temporary directory.
PreprocessKnown(c) ==
    /\ call[c] = "process"
    /\ file[c] \in active
    /\ call' = [call EXCEPT ![c] = "returned"]
    /\ UNCHANGED <<queue, serverVars, grp, inputVars, tmp, chainVars>>

\* The file cannot be read, is empty or a directory, or FullProcessing fails.
PreprocessFails(c) ==
    /\ call[c] \in {"idle", "process"}
    /\ call' = [call EXCEPT ![c] = "returned"]
    /\ UNCHANGED <<queue, serverVars, grp, inputVars, tmp, chainVars>>

PlaceStorageOrder(c) ==
    /\ call[c] = "order"
    /\ call' = [call EXCEPT ![c] = "send"]
    /\ UNCHANGED <<queue, serverVars, grp, inputVars, tmp, chainVars>>

\* Mutant: the fragments are removed when the order fails.
PlaceStorageOrderFailsClears(c) ==
    /\ call[c] = "order"
    /\ call' = [call EXCEPT ![c] = "returned"]
    /\ tmp' = tmp \ {file[c]}
    /\ UNCHANGED <<queue, serverVars, grp, inputVars, chainVars>>

PlaceStorageOrderFails(c) ==
    /\ call[c] = "order"
    /\ call' = [call EXCEPT ![c] = "returned"]
    /\ UNCHANGED <<queue, serverVars, grp, inputVars, tmp, chainVars>>

\* c.uploadQueue <- status
Enqueue(c) ==
    /\ call[c] = "send"
    /\ Len(queue) < QueueSize
    /\ queue' = Append(queue, c)
    /\ call' = [call EXCEPT ![c] = "queued"]
    /\ UNCHANGED <<serverVars, grp, inputVars, tmp, chainVars>>

-----------------------------------------------------------------------------
(* UploadServer *)

\* task = <-c.uploadQueue
Take(s) ==
    /\ server[s] = "select"
    /\ queue # <<>>
    /\ task' = [task EXCEPT ![s] = Head(queue)]
    /\ queue' = Tail(queue)
    /\ server' = [server EXCEPT ![s] = "query"]
    /\ UNCHANGED <<call, grp, passVars, inputVars, tmp, chainVars>>

\* <-ctx.Done()
Stop(s) ==
    /\ server[s] = "select"
    /\ cancelled
    /\ server' = [server EXCEPT ![s] = "stopped"]
    /\ UNCHANGED <<call, queue, task, grp, passVars, inputVars, tmp, chainVars>>

\* The variables of one pass through the loop end with it.
EndPass(s) ==
    /\ i' = [i EXCEPT ![s] = 1]
    /\ sucCount' = [sucCount EXCEPT ![s] = 0]
    /\ order' = [order EXCEPT ![s] = {}]
    /\ used' = [used EXCEPT ![s] = {}]
    /\ itor' = [itor EXCEPT ![s] = {}]

\* ClearTmpFile: what has its fragments in the same directory loses them too.
ClearTmpFile(f) == {h \in tmp : DirOf[h] # DirOf[f]}

\* ClearTmpFile(task) and task.CallBack(task).
Complete(s) ==
    /\ tmp' = ClearTmpFile(file[task[s]])
    /\ call' = [call EXCEPT ![task[s]] = "finished"]
    /\ server' = [server EXCEPT ![s] = "select"]
    /\ EndPass(s)
    /\ UNCHANGED <<queue, task, grp, inputVars, chainVars>>

\* QueryFile finds the file.
AlreadyActive(s) ==
    /\ server[s] = "query"
    /\ file[task[s]] \in active
    /\ Complete(s)

GiveUp(s, next) ==
    /\ server[s] = "query"
    /\ server' = [server EXCEPT ![s] = next]
    /\ UNCHANGED <<call, task, grp, passVars, inputVars, tmp, chainVars>>

\* Mutant: the task is dropped when the order cannot be read.
QueryDealMapFailsDrops(s) == GiveUp(s, "select") /\ UNCHANGED queue

\* QueryDealMap or NewPeersIterator fails.
QueryDealMapFails(s) == GiveUp(s, "putback") /\ UNCHANGED queue

\* Peers a group of the task is saved on.
SavedPeers(c) == {grp[c][g].peer : g \in {h \in Groups : grp[c][h].saved}} \ {NoPeer}

\* The order is open (its entry is gone once the file is active); the
\* iterator will give at most GroupNum different peers.
QueryDealMap(s, peers) ==
    /\ server[s] = "query"
    /\ file[task[s]] \notin active
    /\ Cardinality(peers) <= GroupNum
    /\ used' = [used EXCEPT ![s] = SavedPeers(task[s])]
    /\ order' = [order EXCEPT ![s] = complete[file[task[s]]]]
    /\ itor' = [itor EXCEPT ![s] = peers]
    /\ i' = [i EXCEPT ![s] = 1]
    /\ sucCount' = [sucCount EXCEPT ![s] = 0]
    /\ server' = [server EXCEPT ![s] = "group"]
    /\ UNCHANGED <<call, queue, task, grp, inputVars, tmp, chainVars>>

\* Group i of the task, after the entries of CompleteList are noted in it; the
\* FlushTime of a group on chain is not read again.
Noted(s) ==
    LET g == grp[task[s]][i[s]] IN
    IF i[s] \in order[s] /\ ~g.onChain
    THEN [g EXCEPT !.saved = TRUE, !.onChain = TRUE, !.fresh = FALSE]
    ELSE g

\* The loop body up to the choice of a peer: `counted` groups add to sucCount,
\* `settled` ones need no peer.
Visit(s, counted, settled) ==
    /\ server[s] = "group"
    /\ i[s] <= GroupNum
    /\ grp' = [grp EXCEPT ![task[s]][i[s]] = Noted(s)]
    /\ sucCount' = [sucCount EXCEPT ![s] = IF counted THEN @ + 1 ELSE @]
    /\ IF settled
       THEN i' = [i EXCEPT ![s] = @ + 1] /\ UNCHANGED server
       ELSE server' = [server EXCEPT ![s] = "peer"] /\ UNCHANGED i
    /\ UNCHANGED <<call, queue, task, order, used, itor, inputVars, tmp, chainVars>>

\* Mutant: a group counts as done once it was sent.
VisitGroupSaved(s) == Visit(s, Noted(s).saved, Noted(s).saved)

\* A group on chain is counted; one that was sent less than
\* DEFAULT_TASK_INTERVAL ago is left alone.
VisitGroup(s) ==
    Visit(s, Noted(s).onChain,
          Noted(s).onChain \/ (Noted(s).saved /\ Noted(s).fresh))

\* A peer that has another group of the file, or cannot be reached, or fails
\* in the middle of a transfer, is passed over for the rest of the pass.
SkipPeer(s, p) ==
    /\ server[s] = "peer"
    /\ p \in itor[s]
    /\ itor' = [itor EXCEPT ![s] = @ \ {p}]
    /\ UNCHANGED <<call, queue, server, task, grp, i, sucCount, order, used, inputVars,
                   tmp, chainVars>>

\* Every fragment of the group is read and written to p.  A path that does not
\* split into three components is skipped without an error.
WriteGroup(s, p) ==
    /\ server[s] = "peer"
    /\ file[task[s]] \in tmp \cup BadPaths
    /\ itor' = [itor EXCEPT ![s] = @ \ {p}]
    /\ grp' = [grp EXCEPT ![task[s]][i[s]] =
                  [@ EXCEPT !.saved = TRUE, !.peer = p, !.fresh = TRUE]]
    /\ stored' = IF file[task[s]] \in BadPaths THEN stored
                 ELSE stored \cup {<<file[task[s]], i[s]>>}
    /\ i' = [i EXCEPT ![s] = @ + 1]
    /\ server' = [server EXCEPT ![s] = "group"]
    /\ UNCHANGED <<call, queue, task, sucCount, order, used, inputVars, tmp,
                   complete, active>>

\* Mutant: a peer that holds another group of the file is not passed over.
SendGroupAnywhere(s, p) == p \in itor[s] /\ WriteGroup(s, p)

SendGroup(s, p) == p \in itor[s] \ used[s] /\ WriteGroup(s, p)

\* The iterator is used up; the group waits for the next pass.
NoMorePeers(s) ==
    /\ server[s] = "peer"
    /\ itor[s] = {}
    /\ i' = [i EXCEPT ![s] = @ + 1]
    /\ server' = [server EXCEPT ![s] = "group"]
    /\ UNCHANGED <<call, queue, task, grp, sucCount, order, used, itor, inputVars, tmp,
                   chainVars>>

\* sucCount < DataShards + ParShards
PassIncomplete(s) ==
    /\ server[s] = "group"
    /\ i[s] > GroupNum
    /\ sucCount[s] < GroupNum
    /\ server' = [server EXCEPT ![s] = "putback"]
    /\ EndPass(s)
    /\ UNCHANGED <<call, queue, task, grp, inputVars, tmp, chainVars>>

PassComplete(s) ==
    /\ server[s] = "group"
    /\ i[s] > GroupNum
    /\ sucCount[s] >= GroupNum
    /\ Complete(s)

\* c.uploadQueue <- task.  The server blocks while the channel is full.
PutBack(s) ==
    /\ server[s] = "putback"
    /\ Len(queue) < QueueSize
    /\ queue' = Append(queue, task[s])
    /\ server' = [server EXCEPT ![s] = "select"]
    /\ UNCHANGED <<call, task, grp, passVars, inputVars, tmp, chainVars>>

-----------------------------------------------------------------------------
(* The environment *)

Cancel ==
    /\ ~cancelled
    /\ cancelled' = TRUE
    /\ UNCHANGED <<file, call, queue, serverVars, grp, tmp, chainVars>>

\* DEFAULT_TASK_INTERVAL passes since the FlushTime of group g.
Lapse(c, g) ==
    /\ grp[c][g].fresh
    /\ grp' = [grp EXCEPT ![c][g].fresh = FALSE]
    /\ UNCHANGED <<call, queue, serverVars, inputVars, tmp, chainVars>>

\* A storage node reports that it keeps group g of file f.
Report(f, g) ==
    /\ <<f, g>> \in stored
    /\ g \notin complete[f]
    /\ complete' = [complete EXCEPT ![f] = @ \cup {g}]
    /\ UNCHANGED <<call, queue, serverVars, grp, inputVars, tmp, stored, active>>

\* The order of a complete file is closed and its metadata published.
Activate(f) ==
    /\ complete[f] = Groups
    /\ f \notin active
    /\ active' = active \cup {f}
    /\ UNCHANGED <<call, queue, serverVars, grp, inputVars, tmp, stored, complete>>

-----------------------------------------------------------------------------
CallStep(c) ==
    \/ Preprocess(c)
    \/ PreprocessNew(c)
    \/ PreprocessKnown(c)
    \/ PreprocessFails(c)
    \/ PlaceStorageOrder(c)
    \/ PlaceStorageOrderFails(c)
    \/ Enqueue(c)

ServerStep(s) ==
    \/ Take(s)
    \/ Stop(s)
    \/ AlreadyActive(s)
    \/ QueryDealMapFails(s)
    \/ \E peers \in SUBSET Peers : QueryDealMap(s, peers)
    \/ VisitGroup(s)
    \/ \E p \in Peers : SkipPeer(s, p) \/ SendGroup(s, p)
    \/ NoMorePeers(s)
    \/ PassIncomplete(s)
    \/ PassComplete(s)
    \/ PutBack(s)

Chain == \E f \in Files : Activate(f) \/ \E g \in Groups : Report(f, g)

Next ==
    \/ \E c \in Calls : CallStep(c) \/ \E g \in Groups : Lapse(c, g)
    \/ \E s \in Servers : ServerStep(s)
    \/ Chain
    \/ Cancel

\* The goroutines run and the chain takes in what the nodes report.  Nothing
\* makes a server's queries or transfers succeed but their being tried again:
\* a file that is on chain is found, and an order is read and a group sent
\* once it has been tried often enough.
Fairness ==
    /\ \A c \in Calls : WF_vars(Enqueue(c))
    /\ WF_vars(Chain)
    /\ \A s \in Servers :
        /\ WF_vars(ServerStep(s))
        /\ SF_vars(AlreadyActive(s))
        /\ SF_vars(QueryDealMap(s, Peers))
        /\ \A g \in Groups : SF_vars(i[s] = g /\ \E p \in Peers : SendGroup(s, p))

Spec == Init /\ [][Next]_vars /\ Fairness

-----------------------------------------------------------------------------
(* Properties *)

Holders(c) == {s \in Servers : server[s] \notin {"select", "stopped"} /\ task[s] = c}

Slots(c) == {k \in DOMAIN queue : queue[k] = c}

\* A task that was accepted is in exactly one place, the channel or one
\* server, until it is finished, and never after: it is neither lost nor
\* processed twice, whichever of its steps fail.
TaskInOnePlace ==
    \A c \in Calls :
        Cardinality(Slots(c)) + Cardinality(Holders(c))
            = IF call[c] = "queued" THEN 1 ELSE 0

\* The groups of a task are on different storage nodes, also after groups
\* whose time lapsed were sent again elsewhere.
GroupsOnDifferentPeers ==
    \A c \in Calls : \A g, h \in Groups :
        g # h /\ grp[c][g].peer = grp[c][h].peer => grp[c][g].peer = NoPeer

\* The call needs the fragments of its file, for the chain has not every group.
Needs(c) ==
    /\ call[c] \in {"process", "order", "send", "queued"}
    /\ complete[file[c]] # Groups

\* The fragments of a file stay in their directory while a task may still have
\* to send them, also when two tasks upload the same file: only the end of the
\* upload of another file in that directory removes them.
FragmentsKept ==
    \A c \in Calls :
        Needs(c) => \/ file[c] \in tmp
                    \/ \E d \in Calls : /\ call[d] = "finished"
                                        /\ file[d] # file[c]
                                        /\ DirOf[file[d]] = DirOf[file[c]]

\* Files whose fragments are gone although a call needs them.
Lost == {file[c] : c \in {d \in Calls : Needs(d)}} \ tmp

\* Every server waits to put a task back into the full channel.
Blocked ==
    /\ Len(queue) = QueueSize
    /\ \A s \in Servers : server[s] = "putback"

Phase(c) == CASE call[c] = "queued" -> "accepted"
              [] call[c] = "finished" -> "done"
              [] call[c] = "returned" -> "refused"
              [] OTHER -> "new"

Promise == INSTANCE UploadPromise
    WITH Regular <- Files \ BadPaths,
         phase <- [c \in Calls |-> Phase(c)],
         kept <- {f \in Files : complete[f] = Groups},
         lost <- Lost,
         halted <- Blocked \/ cancelled

\* The queue implements UploadPromise, with passes, retries and failures
\* hidden: the callback of an accepted upload is called once, only when the
\* chain has every group, and it is called in the end unless the servers have
\* blocked on their own channel or are told to stop, or the end of another
\* upload has removed its fragments.
KeepsPromise == Promise!Spec

=============================================================================
