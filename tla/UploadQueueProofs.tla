-------------------------- MODULE UploadQueueProofs --------------------------
(***************************************************************************)
(* Proofs about UploadQueue, for any number of calls, files, servers,      *)
(* storage nodes and groups and any size of the channel: its safety        *)
(* invariants, and that its steps are steps of UploadPromise.              *)
(***************************************************************************)
EXTENDS UploadQueue, FiniteSetTheorems, SequenceTheorems, TLAPS

GroupRecord == [saved : BOOLEAN, onChain : BOOLEAN, fresh : BOOLEAN,
                peer : Peers \cup {NoPeer}]

CallStates == {"idle", "process", "order", "send", "queued", "returned", "finished"}

ServerStates == {"select", "query", "group", "peer", "putback", "stopped"}

USE DEF CallStates, ServerStates

TypeOK ==
    /\ file \in [Calls -> Files]
    /\ call \in [Calls -> CallStates]
    /\ queue \in Seq(Calls)
    /\ server \in [Servers -> ServerStates]
    /\ task \in [Servers -> Calls]
    /\ grp \in [Calls -> [Groups -> GroupRecord]]
    /\ i \in [Servers -> Nat \ {0}]
    /\ sucCount \in [Servers -> Nat]
    /\ order \in [Servers -> SUBSET Groups]
    /\ used \in [Servers -> SUBSET Peers]
    /\ itor \in [Servers -> SUBSET Peers]
    /\ stored \subseteq Files \X Groups
    /\ complete \in [Files -> SUBSET Groups]
    /\ active \subseteq Files

\* The server has a task.
Holding(s) == server[s] \notin {"select", "stopped"}

\* The server is in the loop over the groups of its task.
InPass(s) == server[s] \in {"group", "peer"}

\* TaskInOnePlace without counting: no two places have the same task, and the
\* tasks in them are the accepted ones.
OnePlace ==
    /\ \A k, l \in 1 .. Len(queue) : queue[k] = queue[l] => k = l
    /\ \A s, t \in Servers : Holding(s) /\ Holding(t) /\ task[s] = task[t] => s = t
    /\ \A k \in 1 .. Len(queue), s \in Servers : Holding(s) => queue[k] # task[s]
    /\ \A k \in 1 .. Len(queue) : call[queue[k]] = "queued"
    /\ \A s \in Servers : Holding(s) => call[task[s]] = "queued"
    /\ \A c \in Calls : call[c] = "queued" =>
          \/ \E k \in 1 .. Len(queue) : queue[k] = c
          \/ \E s \in Servers : Holding(s) /\ task[s] = c

\* A peer that the pass may still choose has no group of the task: it is not
\* in savedPeers, and the peers chosen in this pass have left the iterator.
FreePeers ==
    /\ \A c \in Calls, g \in Groups : grp[c][g].peer # NoPeer => grp[c][g].saved
    /\ \A s \in Servers, g \in Groups :
          InPass(s) => grp[task[s]][g].peer \notin itor[s] \ used[s]

\* What the client believes of the chain is true.
ChainKnown ==
    /\ \A f \in active : complete[f] = Groups
    /\ \A c \in Calls, g \in Groups : grp[c][g].onChain => g \in complete[file[c]]
    /\ \A s \in Servers : InPass(s) => order[s] \subseteq complete[file[task[s]]]

\* sucCount counts groups before the loop index that are on chain, so that it
\* reaches GroupNum only if all are.
CountIsSound ==
    \A s \in Servers :
        /\ InPass(s) => /\ sucCount[s] < i[s]
                        /\ i[s] <= GroupNum + 1
                        /\ sucCount[s] + 1 = i[s] =>
                              \A g \in Groups : g < i[s] => grp[task[s]][g].onChain
        /\ server[s] = "peer" => i[s] <= GroupNum

\* A group is stored for a call that was accepted, and that is finished only
\* when the whole file is on chain.
StoredForCall ==
    \A f \in Files, g \in Groups :
        <<f, g>> \in stored =>
            /\ f \notin BadPaths
            /\ complete[f] = Groups \/ \E c \in Calls : call[c] = "queued" /\ file[c] = f

IInv ==
    /\ TypeOK
    /\ OnePlace
    /\ FreePeers
    /\ GroupsOnDifferentPeers
    /\ ChainKnown
    /\ CountIsSound
    /\ FragmentsKept
    /\ StoredForCall

-----------------------------------------------------------------------------
(* What the actions do, field by field. *)

\* Group g of the task of c becomes r, and no other group changes.
GroupBecomes(c, g, r) ==
    /\ grp' \in [Calls -> [Groups -> GroupRecord]]
    /\ grp'[c][g] = r
    /\ \A d \in Calls, h \in Groups : d # c \/ h # g => grp'[d][h] = grp[d][h]

\* An update of one group.
LEMMA GroupUpdated ==
    ASSUME TypeOK, NEW c \in Calls, NEW g \in Groups, NEW r \in GroupRecord,
           grp' = [grp EXCEPT ![c][g] = r]
    PROVE  GroupBecomes(c, g, r)
BY DEF TypeOK, GroupBecomes

\* A group that is noted has the peer it had, and is on chain if it was so or
\* if CompleteList has it.
LEMMA NotedGroup ==
    ASSUME TypeOK, NEW s \in Servers, i[s] \in Groups
    PROVE  LET g == grp[task[s]][i[s]] IN
           /\ g \in GroupRecord /\ Noted(s) \in GroupRecord
           /\ Noted(s).peer = g.peer
           /\ g.saved => Noted(s).saved
           /\ Noted(s).onChain => g.onChain \/ i[s] \in order[s]
           /\ g.onChain => Noted(s).onChain
<1> DEFINE g == grp[task[s]][i[s]]
<1>1. g \in GroupRecord
  BY DEF TypeOK
<1>2. Noted(s) = IF i[s] \in order[s] /\ ~g.onChain
                 THEN [g EXCEPT !.saved = TRUE, !.onChain = TRUE, !.fresh = FALSE]
                 ELSE g
  BY DEF Noted
<1> HIDE DEF g
<1>3. /\ Noted(s) \in GroupRecord
      /\ Noted(s).peer = g.peer
      /\ g.saved => Noted(s).saved
      /\ Noted(s).onChain => g.onChain \/ i[s] \in order[s]
      /\ g.onChain => Noted(s).onChain
  BY <1>1, <1>2 DEF GroupRecord
<1> QED
  BY <1>1, <1>3 DEF g

\* A visit notes the group, and leaves the loop index only for a group that
\* still needs a peer, which is not counted.
Visits(s) ==
    /\ server[s] = "group"
    /\ i[s] \in Groups
    /\ GroupBecomes(task[s], i[s], Noted(s))
    /\ \/ /\ i' = [i EXCEPT ![s] = @ + 1] /\ server' = server
          /\ \/ Noted(s).onChain /\ sucCount' = [sucCount EXCEPT ![s] = @ + 1]
             \/ sucCount' = sucCount
       \/ /\ i' = i /\ server' = [server EXCEPT ![s] = "peer"]
          /\ sucCount' = sucCount
    /\ UNCHANGED <<call, queue, task, order, used, itor, inputVars, tmp, chainVars>>

\* VisitGroup does just that.
LEMMA VisitEffect ==
    ASSUME TypeOK, NEW s \in Servers, VisitGroup(s)
    PROVE  Visits(s)
<1>1. server[s] = "group" /\ i[s] \in Groups
  BY UploadAssumption DEF VisitGroup, Visit, TypeOK, Groups
<1>2. Noted(s) \in GroupRecord
  BY <1>1, NotedGroup
<1>3. task[s] \in Calls /\ sucCount[s] \in Nat /\ sucCount \in [Servers -> Nat]
  BY DEF TypeOK
<1>4. GroupBecomes(task[s], i[s], Noted(s))
  BY <1>1, <1>2, <1>3, GroupUpdated DEF VisitGroup, Visit
<1>5. CASE Noted(s).onChain
  BY <1>1, <1>3, <1>4, <1>5 DEF Visits, VisitGroup, Visit
<1>6. CASE ~Noted(s).onChain
  <2>1. sucCount' = sucCount
    BY <1>3, <1>6 DEF VisitGroup, Visit
  <2> QED
    BY <1>1, <1>4, <2>1 DEF Visits, VisitGroup, Visit
<1> QED
  BY <1>5, <1>6

\* The record of a group that was sent to p.
SentTo(s, p) ==
    [grp[task[s]][i[s]] EXCEPT !.saved = TRUE, !.peer = p, !.fresh = TRUE]

\* Sending a group changes the record of that group alone.
LEMMA SendEffect ==
    ASSUME TypeOK, CountIsSound, NEW s \in Servers, NEW p \in Peers, SendGroup(s, p)
    PROVE  /\ i[s] \in Groups
           /\ GroupBecomes(task[s], i[s], SentTo(s, p))
           /\ SentTo(s, p).saved /\ SentTo(s, p).peer = p
           /\ SentTo(s, p).onChain = grp[task[s]][i[s]].onChain
<1>1. i[s] \in Groups /\ task[s] \in Calls
  BY UploadAssumption DEF SendGroup, WriteGroup, TypeOK, Groups, CountIsSound
<1>2. grp[task[s]][i[s]] \in GroupRecord
  BY <1>1 DEF TypeOK
<1>3. /\ SentTo(s, p) \in GroupRecord
      /\ SentTo(s, p).saved /\ SentTo(s, p).peer = p
      /\ SentTo(s, p).onChain = grp[task[s]][i[s]].onChain
  BY <1>2 DEF SentTo, GroupRecord
<1>4. grp' = [grp EXCEPT ![task[s]][i[s]] = SentTo(s, p)]
  BY DEF SendGroup, WriteGroup, SentTo
<1> QED
  BY <1>1, <1>3, <1>4, GroupUpdated

\* A lapse changes the time of a group and nothing else.
LEMMA LapseEffect ==
    ASSUME TypeOK, NEW c \in Calls, NEW g \in Groups, Lapse(c, g)
    PROVE  /\ grp' \in [Calls -> [Groups -> GroupRecord]]
           /\ \A d \in Calls, h \in Groups :
                 /\ grp'[d][h].peer = grp[d][h].peer
                 /\ grp'[d][h].saved = grp[d][h].saved
                 /\ grp'[d][h].onChain = grp[d][h].onChain
<1> DEFINE r == [grp[c][g] EXCEPT !.fresh = FALSE]
<1>1. grp[c][g] \in GroupRecord
  BY DEF TypeOK
<1>2. /\ r \in GroupRecord
      /\ r.peer = grp[c][g].peer /\ r.saved = grp[c][g].saved
      /\ r.onChain = grp[c][g].onChain
  BY ONLY <1>1 DEF GroupRecord
<1>3. grp' = [grp EXCEPT ![c][g] = r]
  BY DEF Lapse
<1> HIDE DEF r
<1>4. GroupBecomes(c, g, r)
  BY <1>2, <1>3, GroupUpdated
<1> QED
  BY <1>2, <1>4 DEF GroupBecomes

\* The steps of PreprocessFileAndPutIntoUploadQueue before the task is queued.
CallMoves(c) ==
    /\ call[c] \in {"idle", "process", "order"}
    /\ \E to \in {"process", "order", "send", "returned"} :
          /\ call' = [call EXCEPT ![c] = to]
          /\ to = "process" => call[c] = "idle" /\ tmp' = tmp \cup {file[c]}
          /\ to # "process" => tmp' = tmp
          /\ to = "order" => call[c] = "process"
          /\ to = "send" => call[c] = "order"
    /\ UNCHANGED <<queue, serverVars, grp, inputVars, chainVars>>

\* A call takes one of these steps or puts its task into the channel.
LEMMA CallSteps ==
    ASSUME NEW c \in Calls, CallStep(c)
    PROVE  CallMoves(c) \/ Enqueue(c)
BY DEF CallStep, CallMoves, Preprocess, PreprocessNew, PreprocessKnown, PreprocessFails,
       PlaceStorageOrder, PlaceStorageOrderFails

\* A server gives up a task for good only when the chain has the whole file,
\* whether it found the file active or counted all groups.
Completes(s) ==
    /\ server[s] \in {"query", "group"}
    /\ complete[file[task[s]]] = Groups
    /\ Complete(s)

\* Both ways to complete a task are of this kind.
LEMMA CompleteSteps ==
    ASSUME TypeOK, ChainKnown, CountIsSound, NEW s \in Servers,
           AlreadyActive(s) \/ PassComplete(s)
    PROVE  Completes(s)
<1>1. task[s] \in Calls /\ file[task[s]] \in Files
  BY DEF TypeOK
<1>2. CASE AlreadyActive(s)
  BY <1>1, <1>2 DEF AlreadyActive, Completes, ChainKnown
<1>3. CASE PassComplete(s)
  <2>1. server[s] = "group" /\ InPass(s) /\ i[s] \in Nat /\ sucCount[s] \in Nat
    BY <1>3 DEF PassComplete, InPass, TypeOK
  <2>2. i[s] > GroupNum /\ sucCount[s] >= GroupNum
    BY <1>3 DEF PassComplete
  <2>3. sucCount[s] < i[s] /\ i[s] <= GroupNum + 1
    BY <2>1 DEF CountIsSound
  <2>4. sucCount[s] + 1 = i[s] /\ i[s] = GroupNum + 1
    BY <2>1, <2>2, <2>3, UploadAssumption
  <2>5. \A g \in Groups : grp[task[s]][g].onChain
    BY <2>1, <2>4, UploadAssumption DEF CountIsSound, Groups
  <2>6. \A g \in Groups : g \in complete[file[task[s]]]
    BY <1>1, <2>5 DEF ChainKnown
  <2>7. complete[file[task[s]]] = Groups
    BY <1>1, <2>6 DEF TypeOK
  <2> QED
    BY <1>3, <2>1, <2>7 DEF PassComplete, Completes
<1> QED
  BY <1>2, <1>3

-----------------------------------------------------------------------------
(* The inductive invariant. *)

\* It holds initially.
LEMMA InitIInv == Init => IInv
<1> SUFFICES ASSUME Init PROVE IInv
  OBVIOUS
<1>1. NewGroup \in GroupRecord /\ NewGroup.peer = NoPeer /\ NewGroup.onChain = FALSE
  BY DEF NewGroup, GroupRecord
<1>2. queue = <<>> /\ Len(queue) = 0 /\ queue \in Seq(Calls)
  BY DEF Init
<1>3. \A c \in Calls, g \in Groups : grp[c][g] = NewGroup
  BY DEF Init
<1>4. TypeOK
  <2>1. grp \in [Calls -> [Groups -> GroupRecord]]
    BY <1>1 DEF Init
  <2>2. complete \in [Files -> SUBSET Groups]
    BY DEF Init
  <2>3. file \in [Calls -> Files]
    BY UploadAssumption DEF Init
  <2> QED
    BY <1>2, <2>1, <2>2, <2>3 DEF Init, TypeOK
<1>5. OnePlace
  BY <1>2 DEF Init, OnePlace, Holding
<1>6. FreePeers /\ GroupsOnDifferentPeers
  BY <1>1, <1>3 DEF Init, FreePeers, GroupsOnDifferentPeers, InPass
<1>7. ChainKnown
  BY <1>1, <1>3 DEF Init, ChainKnown, InPass
<1>8. CountIsSound /\ FragmentsKept /\ StoredForCall
  BY DEF Init, CountIsSound, FragmentsKept, Needs, StoredForCall, InPass
<1> QED
  BY <1>4, <1>5, <1>6, <1>7, <1>8 DEF IInv

\* One step keeps the types.
LEMMA TypeNext == TypeOK /\ ChainKnown /\ CountIsSound /\ [Next]_vars =>
    TypeOK'
<1> SUFFICES ASSUME TypeOK, ChainKnown, CountIsSound, [Next]_vars PROVE
                    TypeOK'
  OBVIOUS
<1> USE UploadAssumption
<1>1. ASSUME NEW c \in Calls, CallMoves(c) PROVE TypeOK'
  BY <1>1 DEF TypeOK, CallMoves, serverVars, passVars, inputVars, chainVars
<1>2. ASSUME NEW c \in Calls, Enqueue(c) PROVE TypeOK'
  BY <1>2 DEF TypeOK, Enqueue, serverVars, passVars, inputVars, chainVars
<1>3. ASSUME NEW s \in Servers, Take(s) PROVE TypeOK'
  BY <1>3 DEF TypeOK, Take, passVars, inputVars, chainVars
<1>4. ASSUME NEW s \in Servers, Stop(s) PROVE TypeOK'
  BY <1>4 DEF TypeOK, Stop, passVars, inputVars, chainVars
<1>5. ASSUME NEW s \in Servers, Completes(s) PROVE TypeOK'
  BY <1>5 DEF TypeOK, Completes, Complete, EndPass, inputVars, chainVars
<1>6. ASSUME NEW s \in Servers, QueryDealMapFails(s) PROVE TypeOK'
  BY <1>6 DEF TypeOK, QueryDealMapFails, GiveUp, passVars, inputVars,
     chainVars
<1>7. ASSUME NEW s \in Servers, NEW peers \in SUBSET Peers, QueryDealMap(s, peers)
      PROVE  TypeOK'
  <2>1. task[s] \in Calls
    BY DEF TypeOK
  <2>2. \A g \in Groups : grp[task[s]][g].peer \in Peers \cup {NoPeer}
    BY <2>1 DEF TypeOK, GroupRecord
  <2>3. SavedPeers(task[s]) \in SUBSET Peers
    BY <2>2 DEF SavedPeers
  <2>4. complete[file[task[s]]] \in SUBSET Groups
    BY <2>1 DEF TypeOK
  <2> QED
    BY <1>7, <2>3, <2>4 DEF TypeOK, QueryDealMap, inputVars, chainVars
<1>8. ASSUME NEW s \in Servers, Visits(s) PROVE TypeOK'
  <2>1. grp' \in [Calls -> [Groups -> GroupRecord]]
    BY <1>8 DEF Visits, GroupBecomes
  <2>2. i \in [Servers -> Nat \ {0}] /\ sucCount \in [Servers -> Nat]
    BY DEF TypeOK
  <2>3. i' = i \/ i' = [i EXCEPT ![s] = @ + 1]
    BY <1>8 DEF Visits
  <2>4. i' \in [Servers -> Nat \ {0}]
    BY <2>2, <2>3
  <2>5. sucCount' = sucCount \/ sucCount' = [sucCount EXCEPT ![s] = @ + 1]
    BY <1>8 DEF Visits
  <2>6. sucCount' \in [Servers -> Nat]
    BY <2>2, <2>5
  <2>7. server' \in [Servers -> ServerStates]
    BY <1>8 DEF TypeOK, Visits
  <2> QED
    BY <1>8, <2>1, <2>4, <2>6, <2>7 DEF TypeOK, Visits, inputVars, chainVars
<1>9. ASSUME NEW s \in Servers, NEW p \in Peers, SkipPeer(s, p) PROVE TypeOK'
  BY <1>9 DEF TypeOK, SkipPeer, inputVars, chainVars
<1>10. ASSUME NEW s \in Servers, NEW p \in Peers, SendGroup(s, p) PROVE TypeOK'
  <2>1. grp' \in [Calls -> [Groups -> GroupRecord]] /\ i[s] \in Groups
    BY <1>10, SendEffect DEF GroupBecomes
  <2>2. stored' \subseteq Files \X Groups
    <3>1. <<file[task[s]], i[s]>> \in Files \X Groups
      BY <2>1 DEF TypeOK
    <3> QED
      BY <1>10, <3>1 DEF TypeOK, SendGroup, WriteGroup
  <2> QED
    BY <1>10, <2>1, <2>2 DEF TypeOK, SendGroup, WriteGroup, inputVars
<1>11. ASSUME NEW s \in Servers, NoMorePeers(s) PROVE TypeOK'
  BY <1>11 DEF TypeOK, NoMorePeers, inputVars, chainVars
<1>12. ASSUME NEW s \in Servers, PassIncomplete(s) PROVE TypeOK'
  BY <1>12 DEF TypeOK, PassIncomplete, EndPass, inputVars, chainVars
<1>13. ASSUME NEW s \in Servers, PutBack(s) PROVE TypeOK'
  BY <1>13 DEF TypeOK, PutBack, passVars, inputVars, chainVars
<1>14. ASSUME NEW c \in Calls, NEW g \in Groups, Lapse(c, g) PROVE TypeOK'
  BY <1>14, LapseEffect DEF TypeOK, Lapse, serverVars, passVars, inputVars,
     chainVars
<1>15. ASSUME NEW f \in Files, NEW g \in Groups, Report(f, g) PROVE TypeOK'
  BY <1>15 DEF TypeOK, Report, serverVars, passVars, inputVars
<1>16. ASSUME NEW f \in Files, Activate(f) PROVE TypeOK'
  BY <1>16 DEF TypeOK, Activate, serverVars, passVars, inputVars
<1>17. CASE Cancel
  BY <1>17 DEF TypeOK, Cancel, serverVars, passVars, chainVars
<1>18. CASE UNCHANGED vars
  BY <1>18 DEF TypeOK, vars, serverVars, passVars, inputVars, chainVars
<1> QED
  BY <1>1, <1>2, <1>3, <1>4, <1>5, <1>6, <1>7, <1>8, <1>9, <1>10, <1>11,
     <1>12, <1>13, <1>14, <1>15, <1>16, <1>17, <1>18, CallSteps,
     CompleteSteps, VisitEffect DEF Next, ServerStep, Chain

\* What appending to the channel does to its places.
LEMMA Appended ==
    ASSUME NEW c \in Calls, queue \in Seq(Calls), queue' = Append(queue, c)
    PROVE  /\ Len(queue) \in Nat
           /\ Len(queue') = Len(queue) + 1
           /\ \A k \in 1 .. Len(queue) : queue'[k] = queue[k]
           /\ queue'[Len(queue) + 1] = c
BY AppendProperties, LenProperties

\* And what taking the first task does.
LEMMA Taken ==
    ASSUME queue \in Seq(Calls), queue # <<>>, queue' = Tail(queue)
    PROVE  /\ Len(queue) \in Nat \ {0}
           /\ Len(queue') = Len(queue) - 1
           /\ \A k \in 1 .. Len(queue') : queue'[k] = queue[k + 1]
           /\ Head(queue) = queue[1] /\ Head(queue) \in Calls
BY HeadTailProperties, LenProperties, EmptySeq

\* Where the tasks are does not change when the servers that have a task and
\* the calls that wait for one stay the same.
LEMMA SamePlaces ==
    ASSUME OnePlace, UNCHANGED <<queue, task>>,
           \A t \in Servers : Holding(t)' <=> Holding(t),
           \A d \in Calls : call'[d] = "queued" <=> call[d] = "queued",
           queue \in Seq(Calls), task \in [Servers -> Calls]
    PROVE  OnePlace'
<1>1. \A k \in 1 .. Len(queue) : queue[k] \in Calls
  BY ElementOfSeq
<1> QED
  BY <1>1 DEF OnePlace, Holding

\* A task moves from its call to the channel, between the channel and one server,
\* and leaves both when it is finished.
LEMMA PlaceNext == TypeOK /\ ChainKnown /\ CountIsSound /\ OnePlace /\
    [Next]_vars => OnePlace'
<1> SUFFICES ASSUME TypeOK, ChainKnown, CountIsSound, OnePlace, [Next]_vars
                    PROVE OnePlace'
  OBVIOUS
<1>0. /\ call \in [Calls -> CallStates]
      /\ server \in [Servers -> ServerStates]
      /\ queue \in Seq(Calls) /\ task \in [Servers -> Calls]
  BY DEF TypeOK
<1>1. CASE UNCHANGED <<call, queue, server, task>>
  BY <1>1 DEF OnePlace, Holding
<1>2. ASSUME NEW c \in Calls, CallMoves(c) PROVE OnePlace'
  <2>1. \A d \in Calls : call'[d] = "queued" <=> call[d] = "queued"
    BY <1>2, <1>0 DEF CallMoves
  <2> QED
    BY <1>2, <1>0, <2>1, SamePlaces DEF CallMoves, Holding, serverVars
<1>3. ASSUME NEW c \in Calls, Enqueue(c) PROVE OnePlace'
  <2>1. UNCHANGED <<server, task>> /\ call[c] = "send" /\ call' = [call EXCEPT ![c] = "queued"]
    BY <1>3 DEF Enqueue, serverVars
  <2>2. queue' = Append(queue, c)
    BY <1>3 DEF Enqueue
  <2>3. /\ Len(queue) \in Nat
        /\ Len(queue') = Len(queue) + 1
        /\ \A k \in 1 .. Len(queue) : queue'[k] = queue[k]
        /\ queue'[Len(queue) + 1] = c
    BY <1>0, <2>2, Appended
  <2>4. \A k \in 1 .. Len(queue') :
           \/ k \in 1 .. Len(queue) /\ queue'[k] = queue[k]
           \/ k = Len(queue) + 1 /\ queue'[k] = c
    BY <2>3
  <2>5. /\ \A d \in Calls : d # c => call'[d] = call[d]
        /\ call'[c] = "queued" /\ call[c] # "queued"
        /\ \A k \in 1 .. Len(queue) : queue[k] \in Calls
    BY <1>0, <2>1, ElementOfSeq
  <2>6. \A k, l \in 1 .. Len(queue') : queue'[k] = queue'[l] => k = l
    BY <2>4, <2>5 DEF OnePlace
  <2>7. /\ \A k \in 1 .. Len(queue'), s \in Servers : Holding(s)' => queue'[k] # task'[s]
        /\ \A k \in 1 .. Len(queue') : call'[queue'[k]] = "queued"
    BY <2>1, <2>4, <2>5 DEF OnePlace, Holding
  <2>8. \A s \in Servers : Holding(s)' => call'[task'[s]] = "queued"
    BY <1>0, <2>1, <2>5 DEF OnePlace, Holding
  <2>9. ASSUME NEW d \in Calls, call'[d] = "queued"
        PROVE  \/ \E k \in 1 .. Len(queue') : queue'[k] = d
               \/ \E s \in Servers : Holding(s)' /\ task'[s] = d
    BY <2>1, <2>3, <2>5, <2>9 DEF OnePlace, Holding
  <2> QED
    BY <2>1, <2>6, <2>7, <2>8, <2>9 DEF OnePlace, Holding
<1>4. ASSUME NEW s \in Servers, Take(s) PROVE OnePlace'
  <2>1. /\ server[s] = "select" /\ server' = [server EXCEPT ![s] = "query"]
        /\ queue # <<>> /\ queue' = Tail(queue) /\ call' = call
        /\ task' = [task EXCEPT ![s] = Head(queue)]
    BY <1>4 DEF Take
  <2>2. /\ Len(queue) \in Nat \ {0}
        /\ Len(queue') = Len(queue) - 1
        /\ \A k \in 1 .. Len(queue') : queue'[k] = queue[k + 1]
        /\ Head(queue) = queue[1] /\ Head(queue) \in Calls
    BY <1>0, <2>1, Taken
  <2>3. /\ \A t \in Servers : t # s => task'[t] = task[t] /\ (Holding(t)' <=> Holding(t))
        /\ Holding(s)' /\ task'[s] = queue[1] /\ ~Holding(s)
    BY <1>0, <2>1, <2>2 DEF Holding
  <2>4. /\ \A k, l \in 1 .. Len(queue') : queue'[k] = queue'[l] => k = l
        /\ \A t, u \in Servers : Holding(t)' /\ Holding(u)' /\ task'[t] = task'[u] => t = u
        /\ \A k \in 1 .. Len(queue'), t \in Servers : Holding(t)' => queue'[k] # task'[t]
        /\ \A k \in 1 .. Len(queue') : call'[queue'[k]] = "queued"
        /\ \A t \in Servers : Holding(t)' => call'[task'[t]] = "queued"
    BY <1>0, <2>1, <2>2, <2>3 DEF OnePlace
  <2>5. ASSUME NEW c \in Calls, call'[c] = "queued"
        PROVE  \/ \E k \in 1 .. Len(queue') : queue'[k] = c
               \/ \E t \in Servers : Holding(t)' /\ task'[t] = c
    <3>1. CASE \E k \in 1 .. Len(queue) : queue[k] = c
      <4>1. PICK k \in 1 .. Len(queue) : queue[k] = c
        BY <3>1
      <4>2. CASE k = 1
        BY <2>3, <4>1, <4>2
      <4>3. CASE k # 1
        <5>1. k - 1 \in 1 .. Len(queue') /\ queue'[k - 1] = c
          BY <2>2, <4>1, <4>3
        <5> QED
          BY <5>1
      <4> QED
        BY <4>2, <4>3
    <3>2. CASE \E t \in Servers : Holding(t) /\ task[t] = c
      BY <2>3, <3>2
    <3> QED
      BY <2>1, <2>5, <3>1, <3>2 DEF OnePlace
  <2> QED
    BY <2>4, <2>5 DEF OnePlace
<1>5. ASSUME NEW s \in Servers, Stop(s) PROVE OnePlace'
  <2>1. \A t \in Servers : Holding(t)' <=> Holding(t)
    BY <1>5, <1>0 DEF Holding, Stop
  <2> QED
    BY <1>5, <1>0, <2>1, SamePlaces DEF Stop
<1>6. ASSUME NEW s \in Servers, Completes(s) PROVE OnePlace'
  <2>1. /\ UNCHANGED <<queue, task>> /\ server[s] \in {"query", "group"}
        /\ server' = [server EXCEPT ![s] = "select"]
        /\ call' = [call EXCEPT ![task[s]] = "finished"]
    BY <1>6 DEF Completes, Complete
  <2>2. /\ \A t \in Servers : t # s => (Holding(t)' <=> Holding(t))
        /\ ~Holding(s)' /\ Holding(s)
    BY <1>0, <2>1 DEF Holding
  <2>3. \A k \in 1 .. Len(queue) : queue[k] \in Calls
    BY <1>0, ElementOfSeq
  <2>4. /\ \A k, l \in 1 .. Len(queue') : queue'[k] = queue'[l] => k = l
        /\ \A t, u \in Servers : Holding(t)' /\ Holding(u)' /\ task'[t] = task'[u] => t = u
        /\ \A k \in 1 .. Len(queue'), t \in Servers : Holding(t)' => queue'[k] # task'[t]
        /\ \A k \in 1 .. Len(queue') : call'[queue'[k]] = "queued"
        /\ \A t \in Servers : Holding(t)' => call'[task'[t]] = "queued"
    BY <1>0, <2>1, <2>2, <2>3 DEF OnePlace
  <2>5. ASSUME NEW c \in Calls, call'[c] = "queued"
        PROVE  \/ \E k \in 1 .. Len(queue') : queue'[k] = c
               \/ \E t \in Servers : Holding(t)' /\ task'[t] = c
    BY <1>0, <2>1, <2>2, <2>5 DEF OnePlace
  <2> QED
    BY <2>4, <2>5 DEF OnePlace
<1>7. ASSUME NEW s \in Servers, QueryDealMapFails(s) PROVE OnePlace'
  <2>1. \A t \in Servers : Holding(t)' <=> Holding(t)
    BY <1>7, <1>0 DEF Holding, QueryDealMapFails, GiveUp
  <2> QED
    BY <1>7, <1>0, <2>1, SamePlaces DEF QueryDealMapFails, GiveUp
<1>8. ASSUME NEW s \in Servers, NEW peers \in SUBSET Peers, QueryDealMap(s, peers)
      PROVE  OnePlace'
  <2>1. \A t \in Servers : Holding(t)' <=> Holding(t)
    BY <1>8, <1>0 DEF Holding, QueryDealMap
  <2> QED
    BY <1>8, <1>0, <2>1, SamePlaces DEF QueryDealMap
<1>9. ASSUME NEW s \in Servers, Visits(s) PROVE OnePlace'
  <2>1. \A t \in Servers : Holding(t)' <=> Holding(t)
    BY <1>9, <1>0 DEF Holding, Visits
  <2> QED
    BY <1>9, <1>0, <2>1, SamePlaces DEF Visits
<1>10. ASSUME NEW s \in Servers, NEW p \in Peers, SendGroup(s, p)
       PROVE  OnePlace'
  <2>1. \A t \in Servers : Holding(t)' <=> Holding(t)
    BY <1>10, <1>0 DEF Holding, SendGroup, WriteGroup
  <2> QED
    BY <1>10, <1>0, <2>1, SamePlaces DEF SendGroup, WriteGroup
<1>11. ASSUME NEW s \in Servers, NoMorePeers(s) PROVE OnePlace'
  <2>1. \A t \in Servers : Holding(t)' <=> Holding(t)
    BY <1>11, <1>0 DEF Holding, NoMorePeers
  <2> QED
    BY <1>11, <1>0, <2>1, SamePlaces DEF NoMorePeers
<1>12. ASSUME NEW s \in Servers, PassIncomplete(s) PROVE OnePlace'
  <2>1. \A t \in Servers : Holding(t)' <=> Holding(t)
    BY <1>12, <1>0 DEF Holding, PassIncomplete
  <2> QED
    BY <1>12, <1>0, <2>1, SamePlaces DEF PassIncomplete
<1>13. ASSUME NEW s \in Servers, PutBack(s) PROVE OnePlace'
  <2>1. /\ UNCHANGED <<call, task>> /\ server[s] = "putback"
        /\ server' = [server EXCEPT ![s] = "select"]
        /\ queue' = Append(queue, task[s])
    BY <1>13 DEF PutBack
  <2>2. /\ \A t \in Servers : t # s => (Holding(t)' <=> Holding(t))
        /\ ~Holding(s)' /\ Holding(s)
    BY <1>0, <2>1 DEF Holding
  <2>3. /\ Len(queue) \in Nat
        /\ Len(queue') = Len(queue) + 1
        /\ \A k \in 1 .. Len(queue) : queue'[k] = queue[k]
        /\ queue'[Len(queue) + 1] = task[s]
    BY <1>0, <2>1, Appended
  <2>4. /\ \A k, l \in 1 .. Len(queue') : queue'[k] = queue'[l] => k = l
        /\ \A t, u \in Servers : Holding(t)' /\ Holding(u)' /\ task'[t] = task'[u] => t = u
        /\ \A k \in 1 .. Len(queue'), t \in Servers : Holding(t)' => queue'[k] # task'[t]
        /\ \A k \in 1 .. Len(queue') : call'[queue'[k]] = "queued"
        /\ \A t \in Servers : Holding(t)' => call'[task'[t]] = "queued"
    <3>1. \A k \in 1 .. Len(queue') :
             \/ k \in 1 .. Len(queue) /\ queue'[k] = queue[k]
             \/ k = Len(queue) + 1 /\ queue'[k] = task[s]
      BY <2>3
    <3>2. \A k, l \in 1 .. Len(queue') : queue'[k] = queue'[l] => k = l
      BY <2>1, <2>2, <3>1 DEF OnePlace
    <3>3. \A k \in 1 .. Len(queue'), t \in Servers : Holding(t)' => queue'[k] # task'[t]
      BY <2>1, <2>2, <3>1 DEF OnePlace
    <3>4. \A k \in 1 .. Len(queue') : call'[queue'[k]] = "queued"
      BY <2>1, <2>2, <3>1 DEF OnePlace
    <3> QED
      BY <2>1, <2>2, <3>2, <3>3, <3>4 DEF OnePlace
  <2>5. ASSUME NEW c \in Calls, call'[c] = "queued"
        PROVE  \/ \E k \in 1 .. Len(queue') : queue'[k] = c
               \/ \E t \in Servers : Holding(t)' /\ task'[t] = c
    BY <1>0, <2>1, <2>2, <2>3, <2>5 DEF OnePlace
  <2> QED
    BY <2>4, <2>5 DEF OnePlace
<1> QED
  BY <1>1, <1>2, <1>3, <1>4, <1>5, <1>6, <1>7, <1>8, <1>9, <1>10, <1>11,
     <1>12, <1>13, CallSteps, CompleteSteps, VisitEffect DEF Next, ServerStep,
     Chain, SkipPeer, inputVars, chainVars, Lapse, serverVars, passVars,
     Report, Activate, Cancel, vars

\* The peers stay right in a step that gives no group another peer and no pass
\* more peers to choose from.
LEMMA KeepsPeers ==
    ASSUME TypeOK, FreePeers, GroupsOnDifferentPeers,
           \A d \in Calls, h \in Groups : grp'[d][h].peer = grp[d][h].peer
                                          /\ (grp[d][h].saved => grp'[d][h].saved),
           \A t \in Servers : InPass(t)' =>
               InPass(t) /\ task'[t] = task[t] /\ itor'[t] \ used'[t] \subseteq itor[t] \ used[t]
    PROVE  FreePeers' /\ GroupsOnDifferentPeers'
<1>1. \A t \in Servers : task[t] \in Calls
  BY DEF TypeOK
<1> QED
  BY <1>1 DEF FreePeers, GroupsOnDifferentPeers

\* A group is sent to a peer that has no group of the task, since only one server
\* works on the task.
LEMMA PeersNext == TypeOK /\ ChainKnown /\ CountIsSound /\ OnePlace /\
    FreePeers /\ GroupsOnDifferentPeers /\ [Next]_vars => FreePeers' /\ GroupsOnDifferentPeers'
<1> SUFFICES ASSUME TypeOK, ChainKnown, CountIsSound, OnePlace, FreePeers,
                    GroupsOnDifferentPeers, [Next]_vars PROVE FreePeers' /\ GroupsOnDifferentPeers'
  OBVIOUS
<1>0. /\ server \in [Servers -> ServerStates]
      /\ task \in [Servers -> Calls]
      /\ used \in [Servers -> SUBSET Peers] /\ itor \in [Servers -> SUBSET Peers]
  BY DEF TypeOK
<1>1. CASE UNCHANGED <<server, task, grp, used, itor>>
  BY <1>1 DEF FreePeers, GroupsOnDifferentPeers, InPass
<1>2. ASSUME NEW s \in Servers, Take(s)
      PROVE  FreePeers' /\ GroupsOnDifferentPeers'
  <2>1. \A t \in Servers : InPass(t)' =>
           InPass(t) /\ task'[t] = task[t] /\ itor'[t] = itor[t] /\ used'[t] = used[t]
    BY <1>2, <1>0 DEF InPass, Take, passVars
  <2>2. grp' = grp
    BY <1>2 DEF Take, passVars
  <2> QED
    BY <2>1, <2>2, KeepsPeers
<1>3. ASSUME NEW s \in Servers, Stop(s)
      PROVE  FreePeers' /\ GroupsOnDifferentPeers'
  <2>1. \A t \in Servers : InPass(t)' =>
           InPass(t) /\ task'[t] = task[t] /\ itor'[t] = itor[t] /\ used'[t] = used[t]
    BY <1>3, <1>0 DEF InPass, Stop, passVars
  <2>2. grp' = grp
    BY <1>3 DEF Stop, passVars
  <2> QED
    BY <2>1, <2>2, KeepsPeers
<1>4. ASSUME NEW s \in Servers, Completes(s)
      PROVE  FreePeers' /\ GroupsOnDifferentPeers'
  <2>1. \A t \in Servers : InPass(t)' =>
           InPass(t) /\ task'[t] = task[t] /\ itor'[t] = itor[t] /\ used'[t] = used[t]
    BY <1>4, <1>0 DEF InPass, Completes, Complete, EndPass
  <2>2. grp' = grp
    BY <1>4 DEF Completes, Complete, EndPass
  <2> QED
    BY <2>1, <2>2, KeepsPeers
<1>5. ASSUME NEW s \in Servers, QueryDealMapFails(s)
      PROVE  FreePeers' /\ GroupsOnDifferentPeers'
  <2>1. \A t \in Servers : InPass(t)' =>
           InPass(t) /\ task'[t] = task[t] /\ itor'[t] = itor[t] /\ used'[t] = used[t]
    BY <1>5, <1>0 DEF InPass, QueryDealMapFails, GiveUp, passVars
  <2>2. grp' = grp
    BY <1>5 DEF QueryDealMapFails, GiveUp, passVars
  <2> QED
    BY <2>1, <2>2, KeepsPeers
<1>6. ASSUME NEW s \in Servers, NEW peers \in SUBSET Peers, QueryDealMap(s, peers)
      PROVE  FreePeers' /\ GroupsOnDifferentPeers'
  <2>1. /\ UNCHANGED <<grp, task>> /\ used'[s] = SavedPeers(task[s]) /\ itor'[s] = peers
        /\ \A t \in Servers : t # s /\ InPass(t)' =>
              InPass(t) /\ itor'[t] = itor[t] /\ used'[t] = used[t]
    BY <1>6, <1>0 DEF QueryDealMap, InPass
  <2>2. \A g \in Groups : grp[task[s]][g].peer # NoPeer =>
            grp[task[s]][g].peer \in SavedPeers(task[s])
    BY <1>0 DEF FreePeers, SavedPeers
  <2>3. \A g \in Groups : grp[task[s]][g].peer \notin peers \ SavedPeers(task[s])
    BY <2>2, UploadAssumption
  <2>4. FreePeers'
    BY <2>1, <2>3 DEF FreePeers
  <2> QED
    BY <2>1, <2>4 DEF GroupsOnDifferentPeers
<1>7. ASSUME NEW s \in Servers, Visits(s)
      PROVE  FreePeers' /\ GroupsOnDifferentPeers'
  <2>1. UNCHANGED <<task, used, itor>> /\ \A t \in Servers : InPass(t)' => InPass(t)
    BY <1>7, <1>0 DEF Visits, InPass
  <2>2. \A d \in Calls, h \in Groups : grp'[d][h].peer = grp[d][h].peer
                                       /\ (grp[d][h].saved => grp'[d][h].saved)
    BY <1>7, <1>0, NotedGroup DEF Visits, GroupBecomes
  <2> QED
    BY <2>1, <2>2, KeepsPeers
<1>8. ASSUME NEW s \in Servers, NEW p \in Peers, SkipPeer(s, p)
      PROVE  FreePeers' /\ GroupsOnDifferentPeers'
  <2>1. \A t \in Servers : itor'[t] \subseteq itor[t]
    BY <1>8, <1>0 DEF SkipPeer
  <2>2. UNCHANGED <<server, task, used, grp>>
    BY <1>8 DEF SkipPeer
  <2>3. \A t \in Servers : InPass(t)' =>
           InPass(t) /\ task'[t] = task[t] /\ itor'[t] \ used'[t] \subseteq itor[t] \ used[t]
    BY <2>1, <2>2 DEF InPass
  <2> QED
    BY <2>2, <2>3, KeepsPeers
<1>9. ASSUME NEW s \in Servers, NEW p \in Peers, SendGroup(s, p)
      PROVE  FreePeers' /\ GroupsOnDifferentPeers'
  <2> DEFINE d == task[s]
  <2>1. /\ UNCHANGED <<task, used>> /\ p \in itor[s] \ used[s] /\ itor'[s] = itor[s] \ {p}
        /\ InPass(s) /\ Holding(s)
        /\ \A t \in Servers : t # s => (InPass(t)' <=> InPass(t)) /\ itor'[t] = itor[t]
    BY <1>9, <1>0 DEF SendGroup, WriteGroup, InPass, Holding
  <2>2. /\ d \in Calls /\ i[s] \in Groups
        /\ grp'[d][i[s]].peer = p /\ grp'[d][i[s]].saved
        /\ \A e \in Calls, h \in Groups : e # d \/ h # i[s] => grp'[e][h] = grp[e][h]
    BY <1>9, <1>0, SendEffect DEF GroupBecomes
  <2>3. \A g \in Groups : grp[d][g].peer # p
    BY <2>1 DEF FreePeers
  <2>4. \A t \in Servers : t # s /\ InPass(t) => task[t] # d
    BY <2>1 DEF OnePlace, InPass, Holding
  <2> HIDE DEF d
  <2>5. GroupsOnDifferentPeers'
    BY <2>2, <2>3 DEF GroupsOnDifferentPeers
  <2>6. \A c \in Calls, g \in Groups : grp'[c][g].peer # NoPeer => grp'[c][g].saved
    BY <2>2 DEF FreePeers
  <2>7. ASSUME NEW t \in Servers, NEW g \in Groups, InPass(t)'
        PROVE  grp'[task'[t]][g].peer \notin itor'[t] \ used'[t]
    <3>1. CASE t = s
      <4>1. g # i[s] => grp[d][g].peer \notin itor[s] \ used[s]
        BY <2>1 DEF FreePeers, d
      <4> QED
        BY <2>1, <2>2, <3>1, <4>1 DEF d
    <3>2. CASE t # s
      <4>1. grp'[task[t]][g] = grp[task[t]][g] /\ InPass(t)
        BY <1>0, <2>1, <2>2, <2>4, <2>7, <3>2
      <4> QED
        BY <2>1, <3>2, <4>1 DEF FreePeers
    <3> QED
      BY <3>1, <3>2
  <2> QED
    BY <2>5, <2>6, <2>7 DEF FreePeers
<1>10. ASSUME NEW s \in Servers, NoMorePeers(s)
       PROVE  FreePeers' /\ GroupsOnDifferentPeers'
  <2>1. \A t \in Servers : InPass(t)' =>
           InPass(t) /\ task'[t] = task[t] /\ itor'[t] = itor[t] /\ used'[t] = used[t]
    BY <1>10, <1>0 DEF InPass, NoMorePeers
  <2>2. grp' = grp
    BY <1>10 DEF NoMorePeers
  <2> QED
    BY <2>1, <2>2, KeepsPeers
<1>11. ASSUME NEW s \in Servers, PassIncomplete(s)
       PROVE  FreePeers' /\ GroupsOnDifferentPeers'
  <2>1. \A t \in Servers : InPass(t)' =>
           InPass(t) /\ task'[t] = task[t] /\ itor'[t] = itor[t] /\ used'[t] = used[t]
    BY <1>11, <1>0 DEF InPass, PassIncomplete, EndPass
  <2>2. grp' = grp
    BY <1>11 DEF PassIncomplete, EndPass
  <2> QED
    BY <2>1, <2>2, KeepsPeers
<1>12. ASSUME NEW s \in Servers, PutBack(s)
       PROVE  FreePeers' /\ GroupsOnDifferentPeers'
  <2>1. \A t \in Servers : InPass(t)' =>
           InPass(t) /\ task'[t] = task[t] /\ itor'[t] = itor[t] /\ used'[t] = used[t]
    BY <1>12, <1>0 DEF InPass, PutBack, passVars
  <2>2. grp' = grp
    BY <1>12 DEF PutBack, passVars
  <2> QED
    BY <2>1, <2>2, KeepsPeers
<1>13. ASSUME NEW c \in Calls, NEW g \in Groups, Lapse(c, g)
       PROVE  FreePeers' /\ GroupsOnDifferentPeers'
  <2>1. UNCHANGED <<task, used, itor, server>>
    BY <1>13 DEF Lapse, serverVars, passVars
  <2> QED
    BY <1>13, <2>1, LapseEffect, KeepsPeers DEF InPass
<1> QED
  BY <1>1, <1>2, <1>3, <1>4, <1>5, <1>6, <1>7, <1>8, <1>9, <1>10, <1>11,
     <1>12, <1>13, CallSteps, CompleteSteps, VisitEffect DEF Next, ServerStep,
     Chain, CallMoves, serverVars, passVars, inputVars, chainVars, Enqueue,
     Report, Activate, Cancel, vars

\* What is believed of the chain stays true while the chain only gains groups.
LEMMA KeepsChain ==
    ASSUME TypeOK, ChainKnown, file' = file, active' = active,
           \A f \in Files : complete[f] \subseteq complete'[f] /\ complete'[f] \subseteq Groups,
           \A d \in Calls, h \in Groups :
               grp'[d][h].onChain => grp[d][h].onChain \/ h \in complete[file[d]],
           \A t \in Servers : InPass(t)' =>
               InPass(t) /\ task'[t] = task[t] /\ order'[t] = order[t]
    PROVE  ChainKnown'
<1>1. \A d \in Calls : file[d] \in Files
  BY DEF TypeOK
<1>2. \A t \in Servers : task[t] \in Calls
  BY DEF TypeOK
<1>3. active \subseteq Files
  BY DEF TypeOK
<1>4. ASSUME NEW f \in active' PROVE complete'[f] = Groups
  <2>1. f \in Files /\ complete[f] = Groups
    BY <1>3 DEF ChainKnown
  <2>2. Groups \subseteq complete'[f] /\ complete'[f] \subseteq Groups
    BY <2>1
  <2> QED
    BY <2>2
<1>5. \A c \in Calls, g \in Groups : grp'[c][g].onChain => g \in complete'[file'[c]]
  BY <1>1 DEF ChainKnown
<1>6. \A t \in Servers : InPass(t)' => order'[t] \subseteq complete'[file'[task'[t]]]
  BY <1>1, <1>2 DEF ChainKnown
<1> QED
  BY <1>4, <1>5, <1>6 DEF ChainKnown

\* CompleteList is read from the chain, and groups never leave the chain.
LEMMA ChainNext == TypeOK /\ ChainKnown /\ CountIsSound /\ [Next]_vars =>
    ChainKnown'
<1> SUFFICES ASSUME TypeOK, ChainKnown, CountIsSound, [Next]_vars PROVE
                    ChainKnown'
  OBVIOUS
<1>0. /\ server \in [Servers -> ServerStates]
      /\ task \in [Servers -> Calls] /\ order \in [Servers -> SUBSET Groups]
      /\ complete \in [Files -> SUBSET Groups]
  BY DEF TypeOK
<1>1. CASE UNCHANGED <<server, task, grp, order, file, active, complete>>
  BY <1>1 DEF ChainKnown, InPass
<1>2. ASSUME NEW s \in Servers, Take(s) PROVE ChainKnown'
  <2>1. \A t \in Servers : InPass(t)' =>
           InPass(t) /\ task'[t] = task[t] /\ order'[t] = order[t]
    BY <1>2, <1>0 DEF InPass, Take, passVars
  <2>2. UNCHANGED <<grp, file, active, complete>>
    BY <1>2 DEF inputVars, chainVars, Take, passVars
  <2> QED
    BY <1>0, <2>1, <2>2, KeepsChain
<1>3. ASSUME NEW s \in Servers, Stop(s) PROVE ChainKnown'
  <2>1. \A t \in Servers : InPass(t)' =>
           InPass(t) /\ task'[t] = task[t] /\ order'[t] = order[t]
    BY <1>3, <1>0 DEF InPass, Stop, passVars
  <2>2. UNCHANGED <<grp, file, active, complete>>
    BY <1>3 DEF inputVars, chainVars, Stop, passVars
  <2> QED
    BY <1>0, <2>1, <2>2, KeepsChain
<1>4. ASSUME NEW s \in Servers, Completes(s) PROVE ChainKnown'
  <2>1. \A t \in Servers : InPass(t)' =>
           InPass(t) /\ task'[t] = task[t] /\ order'[t] = order[t]
    BY <1>4, <1>0 DEF InPass, Completes, Complete, EndPass
  <2>2. UNCHANGED <<grp, file, active, complete>>
    BY <1>4 DEF inputVars, chainVars, Completes, Complete, EndPass
  <2> QED
    BY <1>0, <2>1, <2>2, KeepsChain
<1>5. ASSUME NEW s \in Servers, QueryDealMapFails(s) PROVE ChainKnown'
  <2>1. \A t \in Servers : InPass(t)' =>
           InPass(t) /\ task'[t] = task[t] /\ order'[t] = order[t]
    BY <1>5, <1>0 DEF InPass, QueryDealMapFails, GiveUp, passVars
  <2>2. UNCHANGED <<grp, file, active, complete>>
    BY <1>5 DEF inputVars, chainVars, QueryDealMapFails, GiveUp, passVars
  <2> QED
    BY <1>0, <2>1, <2>2, KeepsChain
<1>6. ASSUME NEW s \in Servers, NEW peers \in SUBSET Peers, QueryDealMap(s, peers)
      PROVE  ChainKnown'
  <2>1. /\ UNCHANGED <<grp, task, file, active, complete>>
        /\ order'[s] = complete[file[task[s]]]
        /\ \A t \in Servers : t # s /\ InPass(t)' => InPass(t) /\ order'[t] = order[t]
    BY <1>6, <1>0 DEF QueryDealMap, InPass, inputVars, chainVars
  <2>2. \A t \in Servers : InPass(t)' => order'[t] \subseteq complete'[file'[task'[t]]]
    BY <2>1 DEF ChainKnown
  <2> QED
    BY <2>1, <2>2 DEF ChainKnown
<1>7. ASSUME NEW s \in Servers, Visits(s) PROVE ChainKnown'
  <2>1. UNCHANGED <<task, order, file, active, complete>>
    BY <1>7 DEF Visits, inputVars, chainVars
  <2>2. InPass(s) /\ \A t \in Servers : InPass(t)' => InPass(t)
    BY <1>7, <1>0 DEF Visits, InPass
  <2>3. i[s] \in Groups /\ GroupBecomes(task[s], i[s], Noted(s))
    BY <1>7 DEF Visits
  <2>4. order[s] \subseteq complete[file[task[s]]]
    BY <2>2 DEF ChainKnown
  <2>5. \A d \in Calls, h \in Groups :
           grp'[d][h].onChain => grp[d][h].onChain \/ h \in complete[file[d]]
    BY <1>0, <2>3, <2>4, NotedGroup DEF GroupBecomes
  <2> QED
    BY <1>0, <2>1, <2>2, <2>5, KeepsChain
<1>8. ASSUME NEW s \in Servers, NEW p \in Peers, SendGroup(s, p)
      PROVE  ChainKnown'
  <2>1. UNCHANGED <<task, order, file, active, complete>>
    BY <1>8 DEF SendGroup, WriteGroup, inputVars
  <2>2. \A t \in Servers : InPass(t)' => InPass(t)
    BY <1>8, <1>0 DEF SendGroup, WriteGroup, InPass
  <2>3. \A d \in Calls, h \in Groups : grp'[d][h].onChain => grp[d][h].onChain
    BY <1>8, <1>0, SendEffect DEF GroupBecomes
  <2> QED
    BY <1>0, <2>1, <2>2, <2>3, KeepsChain
<1>9. ASSUME NEW s \in Servers, NoMorePeers(s) PROVE ChainKnown'
  <2>1. \A t \in Servers : InPass(t)' =>
           InPass(t) /\ task'[t] = task[t] /\ order'[t] = order[t]
    BY <1>9, <1>0 DEF InPass, NoMorePeers
  <2>2. UNCHANGED <<grp, file, active, complete>>
    BY <1>9 DEF inputVars, chainVars, NoMorePeers
  <2> QED
    BY <1>0, <2>1, <2>2, KeepsChain
<1>10. ASSUME NEW s \in Servers, PassIncomplete(s) PROVE ChainKnown'
  <2>1. \A t \in Servers : InPass(t)' =>
           InPass(t) /\ task'[t] = task[t] /\ order'[t] = order[t]
    BY <1>10, <1>0 DEF InPass, PassIncomplete, EndPass
  <2>2. UNCHANGED <<grp, file, active, complete>>
    BY <1>10 DEF inputVars, chainVars, PassIncomplete, EndPass
  <2> QED
    BY <1>0, <2>1, <2>2, KeepsChain
<1>11. ASSUME NEW s \in Servers, PutBack(s) PROVE ChainKnown'
  <2>1. \A t \in Servers : InPass(t)' =>
           InPass(t) /\ task'[t] = task[t] /\ order'[t] = order[t]
    BY <1>11, <1>0 DEF InPass, PutBack, passVars
  <2>2. UNCHANGED <<grp, file, active, complete>>
    BY <1>11 DEF inputVars, chainVars, PutBack, passVars
  <2> QED
    BY <1>0, <2>1, <2>2, KeepsChain
<1>12. ASSUME NEW c \in Calls, NEW g \in Groups, Lapse(c, g) PROVE ChainKnown'
  <2>1. UNCHANGED <<task, order, server, file, active, complete>>
    BY <1>12 DEF Lapse, serverVars, passVars, inputVars, chainVars
  <2> QED
    BY <1>12, <1>0, <2>1, LapseEffect, KeepsChain DEF InPass
<1>13. ASSUME NEW f \in Files, NEW g \in Groups, Report(f, g) PROVE ChainKnown'
  <2>1. UNCHANGED <<task, order, server, file, active, grp>>
    BY <1>13 DEF Report, serverVars, passVars, inputVars
  <2>2. \A e \in Files : complete[e] \subseteq complete'[e] /\ complete'[e] \subseteq Groups
    BY <1>13, <1>0 DEF Report
  <2> QED
    BY <2>1, <2>2, KeepsChain DEF InPass
<1>14. ASSUME NEW f \in Files, Activate(f) PROVE ChainKnown'
  <2>1. UNCHANGED <<task, order, server, file, complete, grp>>
    BY <1>14 DEF Activate, serverVars, passVars, inputVars
  <2>2. active' = active \cup {f} /\ complete[f] = Groups
    BY <1>14 DEF Activate
  <2> QED
    BY <2>1, <2>2 DEF ChainKnown, InPass
<1> QED
  BY <1>1, <1>2, <1>3, <1>4, <1>5, <1>6, <1>7, <1>8, <1>9, <1>10, <1>11,
     <1>12, <1>13, <1>14, CallSteps, CompleteSteps, VisitEffect DEF Next,
     ServerStep, Chain, CallMoves, serverVars, passVars, inputVars, chainVars,
     Enqueue, SkipPeer, Cancel, vars

\* The count of a pass stays right while the pass stands still.
LEMMA KeepsCount ==
    ASSUME TypeOK, CountIsSound, NEW S \in SUBSET Servers,
           \A d \in Calls, h \in Groups : grp[d][h].onChain => grp'[d][h].onChain,
           \A t \in S : InPass(t)' =>
               /\ InPass(t) /\ task'[t] = task[t]
               /\ i'[t] = i[t] /\ sucCount'[t] = sucCount[t]
               /\ server'[t] = "peer" => server[t] = "peer"
    PROVE  \A t \in S :
               /\ InPass(t)' => /\ sucCount'[t] < i'[t]
                                /\ i'[t] <= GroupNum + 1
                                /\ sucCount'[t] + 1 = i'[t] =>
                                      \A g \in Groups : g < i'[t] => grp'[task'[t]][g].onChain
               /\ server'[t] = "peer" => i'[t] <= GroupNum
<1> SUFFICES ASSUME NEW t \in S, InPass(t)'
             PROVE  /\ sucCount'[t] < i'[t]
                    /\ i'[t] <= GroupNum + 1
                    /\ sucCount'[t] + 1 = i'[t] =>
                          \A g \in Groups : g < i'[t] => grp'[task'[t]][g].onChain
                    /\ server'[t] = "peer" => i'[t] <= GroupNum
  BY DEF InPass
<1>1. task[t] \in Calls
  BY DEF TypeOK
<1> QED
  BY <1>1 DEF CountIsSound

\* sucCount grows only with the loop index, and only by groups on chain.
LEMMA CountNext == TypeOK /\ ChainKnown /\ CountIsSound /\ [Next]_vars =>
    CountIsSound'
<1> SUFFICES ASSUME TypeOK, ChainKnown, CountIsSound, [Next]_vars PROVE
                    CountIsSound'
  OBVIOUS
<1> USE UploadAssumption
<1>0. /\ server \in [Servers -> ServerStates]
      /\ task \in [Servers -> Calls]
      /\ i \in [Servers -> Nat \ {0}] /\ sucCount \in [Servers -> Nat]
  BY DEF TypeOK
<1>1. CASE UNCHANGED <<server, task, grp, i, sucCount>>
  BY <1>1 DEF CountIsSound, InPass
<1>2. ASSUME NEW s \in Servers, Take(s) PROVE CountIsSound'
  <2>1. \A t \in Servers : InPass(t)' =>
           /\ InPass(t) /\ task'[t] = task[t]
           /\ i'[t] = i[t] /\ sucCount'[t] = sucCount[t]
           /\ server'[t] = "peer" => server[t] = "peer"
    BY <1>2, <1>0 DEF InPass, Take, passVars
  <2>2. grp' = grp
    BY <1>2 DEF Take, passVars
  <2> QED
    BY <2>1, <2>2, KeepsCount DEF CountIsSound
<1>3. ASSUME NEW s \in Servers, Stop(s) PROVE CountIsSound'
  <2>1. \A t \in Servers : InPass(t)' =>
           /\ InPass(t) /\ task'[t] = task[t]
           /\ i'[t] = i[t] /\ sucCount'[t] = sucCount[t]
           /\ server'[t] = "peer" => server[t] = "peer"
    BY <1>3, <1>0 DEF InPass, Stop, passVars
  <2>2. grp' = grp
    BY <1>3 DEF Stop, passVars
  <2> QED
    BY <2>1, <2>2, KeepsCount DEF CountIsSound
<1>4. ASSUME NEW s \in Servers, Completes(s) PROVE CountIsSound'
  <2>1. \A t \in Servers : InPass(t)' =>
           /\ InPass(t) /\ task'[t] = task[t]
           /\ i'[t] = i[t] /\ sucCount'[t] = sucCount[t]
           /\ server'[t] = "peer" => server[t] = "peer"
    BY <1>4, <1>0 DEF InPass, Completes, Complete, EndPass
  <2>2. grp' = grp
    BY <1>4 DEF Completes, Complete, EndPass
  <2> QED
    BY <2>1, <2>2, KeepsCount DEF CountIsSound
<1>5. ASSUME NEW s \in Servers, QueryDealMapFails(s) PROVE CountIsSound'
  <2>1. \A t \in Servers : InPass(t)' =>
           /\ InPass(t) /\ task'[t] = task[t]
           /\ i'[t] = i[t] /\ sucCount'[t] = sucCount[t]
           /\ server'[t] = "peer" => server[t] = "peer"
    BY <1>5, <1>0 DEF InPass, QueryDealMapFails, GiveUp, passVars
  <2>2. grp' = grp
    BY <1>5 DEF QueryDealMapFails, GiveUp, passVars
  <2> QED
    BY <2>1, <2>2, KeepsCount DEF CountIsSound
<1>6. ASSUME NEW s \in Servers, NEW peers \in SUBSET Peers, QueryDealMap(s, peers)
      PROVE  CountIsSound'
  <2>1. i'[s] = 1 /\ sucCount'[s] = 0 /\ server'[s] = "group" /\ grp' = grp
    BY <1>6, <1>0 DEF QueryDealMap
  <2>2. \A t \in Servers \ {s} : InPass(t)' =>
           /\ InPass(t) /\ task'[t] = task[t]
           /\ i'[t] = i[t] /\ sucCount'[t] = sucCount[t]
           /\ server'[t] = "peer" => server[t] = "peer"
    BY <1>6, <1>0 DEF InPass, QueryDealMap
  <2>3. \A d \in Calls, h \in Groups : grp[d][h].onChain => grp'[d][h].onChain
    BY <2>1
  <2>4. /\ InPass(s)' => /\ sucCount'[s] < i'[s]
                         /\ i'[s] <= GroupNum + 1
                         /\ sucCount'[s] + 1 = i'[s] =>
                               \A g \in Groups : g < i'[s] => grp'[task'[s]][g].onChain
        /\ server'[s] = "peer" => i'[s] <= GroupNum
    BY <2>1 DEF Groups
  <2>5. \A t \in Servers \ {s} :
               /\ InPass(t)' => /\ sucCount'[t] < i'[t]
                                /\ i'[t] <= GroupNum + 1
                                /\ sucCount'[t] + 1 = i'[t] =>
                                      \A g \in Groups : g < i'[t] => grp'[task'[t]][g].onChain
               /\ server'[t] = "peer" => i'[t] <= GroupNum
    BY <2>2, <2>3, KeepsCount
  <2> QED
    BY <2>4, <2>5 DEF CountIsSound
<1>7. ASSUME NEW s \in Servers, Visits(s) PROVE CountIsSound'
  <2>1. /\ i[s] \in Groups /\ task' = task /\ task[s] \in Calls
        /\ GroupBecomes(task[s], i[s], Noted(s))
        /\ sucCount[s] < i[s] /\ i[s] <= GroupNum
        /\ sucCount[s] + 1 = i[s] => \A g \in Groups : g < i[s] => grp[task[s]][g].onChain
    BY <1>7, <1>0 DEF Visits, CountIsSound, InPass, Groups
  <2>2. \A t \in Servers \ {s} : InPass(t)' =>
           /\ InPass(t) /\ task'[t] = task[t]
           /\ i'[t] = i[t] /\ sucCount'[t] = sucCount[t]
           /\ server'[t] = "peer" => server[t] = "peer"
    BY <1>7, <1>0 DEF InPass, Visits
  <2>3. ASSUME NEW d \in Calls, NEW h \in Groups, grp[d][h].onChain
        PROVE  grp'[d][h].onChain
    <3>1. CASE d = task[s] /\ h = i[s]
      <4>1. Noted(s).onChain
        BY <2>1, <2>3, <3>1, NotedGroup
      <4> QED
        BY <2>1, <3>1, <4>1 DEF GroupBecomes
    <3>2. CASE d # task[s] \/ h # i[s]
      BY <2>1, <2>3, <3>2 DEF GroupBecomes
    <3> QED
      BY <3>1, <3>2
  <2>4. /\ InPass(s)' => /\ sucCount'[s] < i'[s]
                         /\ i'[s] <= GroupNum + 1
                         /\ sucCount'[s] + 1 = i'[s] =>
                               \A g \in Groups : g < i'[s] => grp'[task'[s]][g].onChain
        /\ server'[s] = "peer" => i'[s] <= GroupNum
    <3>1. CASE i'[s] = i[s] + 1 /\ sucCount'[s] = sucCount[s] + 1
              /\ Noted(s).onChain /\ server' = server
      <4>1. ASSUME sucCount'[s] + 1 = i'[s], NEW g \in Groups, g < i'[s]
            PROVE  grp'[task'[s]][g].onChain
        <5>1. CASE g = i[s]
          BY <2>1, <3>1, <5>1 DEF GroupBecomes
        <5>2. CASE g < i[s]
          <6>1. sucCount[s] + 1 = i[s]
            BY <1>0, <3>1, <4>1
          <6> QED
            BY <2>1, <2>3, <5>2, <6>1
        <5> QED
          BY <1>0, <3>1, <4>1, <5>1, <5>2 DEF Groups
      <4> QED
        BY <1>7, <1>0, <2>1, <3>1, <4>1 DEF Visits
    <3>2. CASE i'[s] = i[s] + 1 /\ sucCount'[s] = sucCount[s] /\ server' = server
      BY <1>7, <1>0, <2>1, <3>2 DEF Visits
    <3>3. CASE i'[s] = i[s] /\ sucCount'[s] = sucCount[s]
      BY <1>0, <2>1, <2>3, <3>3
    <3> QED
      BY <1>7, <1>0, <3>1, <3>2, <3>3 DEF Visits
  <2>5. \A t \in Servers \ {s} :
               /\ InPass(t)' => /\ sucCount'[t] < i'[t]
                                /\ i'[t] <= GroupNum + 1
                                /\ sucCount'[t] + 1 = i'[t] =>
                                      \A g \in Groups : g < i'[t] => grp'[task'[t]][g].onChain
               /\ server'[t] = "peer" => i'[t] <= GroupNum
    BY <2>2, <2>3, KeepsCount
  <2> QED
    BY <2>4, <2>5 DEF CountIsSound
<1>8. ASSUME NEW s \in Servers, NEW p \in Peers, SendGroup(s, p)
      PROVE  CountIsSound'
  <2>1. /\ i'[s] = i[s] + 1 /\ sucCount'[s] = sucCount[s] /\ server'[s] = "group"
        /\ sucCount[s] < i[s] /\ i[s] <= GroupNum
    BY <1>8, <1>0 DEF SendGroup, WriteGroup, CountIsSound, InPass
  <2>2. \A t \in Servers \ {s} : InPass(t)' =>
           /\ InPass(t) /\ task'[t] = task[t]
           /\ i'[t] = i[t] /\ sucCount'[t] = sucCount[t]
           /\ server'[t] = "peer" => server[t] = "peer"
    BY <1>8, <1>0 DEF InPass, SendGroup, WriteGroup
  <2>3. \A d \in Calls, h \in Groups : grp[d][h].onChain => grp'[d][h].onChain
    BY <1>8, <1>0, SendEffect DEF GroupBecomes, SendGroup
  <2>4. /\ InPass(s)' => /\ sucCount'[s] < i'[s]
                         /\ i'[s] <= GroupNum + 1
                         /\ sucCount'[s] + 1 = i'[s] =>
                               \A g \in Groups : g < i'[s] => grp'[task'[s]][g].onChain
        /\ server'[s] = "peer" => i'[s] <= GroupNum
    BY <1>0, <2>1
  <2>5. \A t \in Servers \ {s} :
               /\ InPass(t)' => /\ sucCount'[t] < i'[t]
                                /\ i'[t] <= GroupNum + 1
                                /\ sucCount'[t] + 1 = i'[t] =>
                                      \A g \in Groups : g < i'[t] => grp'[task'[t]][g].onChain
               /\ server'[t] = "peer" => i'[t] <= GroupNum
    BY <2>2, <2>3, KeepsCount
  <2> QED
    BY <2>4, <2>5 DEF CountIsSound
<1>9. ASSUME NEW s \in Servers, NoMorePeers(s) PROVE CountIsSound'
  <2>1. /\ i'[s] = i[s] + 1 /\ sucCount'[s] = sucCount[s] /\ server'[s] = "group" /\ grp' = grp
        /\ sucCount[s] < i[s] /\ i[s] <= GroupNum
    BY <1>9, <1>0 DEF NoMorePeers, CountIsSound, InPass
  <2>2. \A t \in Servers \ {s} : InPass(t)' =>
           /\ InPass(t) /\ task'[t] = task[t]
           /\ i'[t] = i[t] /\ sucCount'[t] = sucCount[t]
           /\ server'[t] = "peer" => server[t] = "peer"
    BY <1>9, <1>0 DEF InPass, NoMorePeers
  <2>3. \A d \in Calls, h \in Groups : grp[d][h].onChain => grp'[d][h].onChain
    BY <2>1
  <2>4. /\ InPass(s)' => /\ sucCount'[s] < i'[s]
                         /\ i'[s] <= GroupNum + 1
                         /\ sucCount'[s] + 1 = i'[s] =>
                               \A g \in Groups : g < i'[s] => grp'[task'[s]][g].onChain
        /\ server'[s] = "peer" => i'[s] <= GroupNum
    BY <1>0, <2>1
  <2>5. \A t \in Servers \ {s} :
               /\ InPass(t)' => /\ sucCount'[t] < i'[t]
                                /\ i'[t] <= GroupNum + 1
                                /\ sucCount'[t] + 1 = i'[t] =>
                                      \A g \in Groups : g < i'[t] => grp'[task'[t]][g].onChain
               /\ server'[t] = "peer" => i'[t] <= GroupNum
    BY <2>2, <2>3, KeepsCount
  <2> QED
    BY <2>4, <2>5 DEF CountIsSound
<1>10. ASSUME NEW s \in Servers, PassIncomplete(s) PROVE CountIsSound'
  <2>1. \A t \in Servers : InPass(t)' =>
           /\ InPass(t) /\ task'[t] = task[t]
           /\ i'[t] = i[t] /\ sucCount'[t] = sucCount[t]
           /\ server'[t] = "peer" => server[t] = "peer"
    BY <1>10, <1>0 DEF InPass, PassIncomplete, EndPass
  <2>2. grp' = grp
    BY <1>10 DEF PassIncomplete, EndPass
  <2> QED
    BY <2>1, <2>2, KeepsCount DEF CountIsSound
<1>11. ASSUME NEW s \in Servers, PutBack(s) PROVE CountIsSound'
  <2>1. \A t \in Servers : InPass(t)' =>
           /\ InPass(t) /\ task'[t] = task[t]
           /\ i'[t] = i[t] /\ sucCount'[t] = sucCount[t]
           /\ server'[t] = "peer" => server[t] = "peer"
    BY <1>11, <1>0 DEF InPass, PutBack, passVars
  <2>2. grp' = grp
    BY <1>11 DEF PutBack, passVars
  <2> QED
    BY <2>1, <2>2, KeepsCount DEF CountIsSound
<1>12. ASSUME NEW c \in Calls, NEW g \in Groups, Lapse(c, g) PROVE CountIsSound'
  <2>1. UNCHANGED <<task, server, i, sucCount>>
    BY <1>12 DEF Lapse, serverVars, passVars
  <2>2. \A t \in Servers : InPass(t)' =>
           /\ InPass(t) /\ task'[t] = task[t]
           /\ i'[t] = i[t] /\ sucCount'[t] = sucCount[t]
           /\ server'[t] = "peer" => server[t] = "peer"
    BY <2>1 DEF InPass
  <2>3. \A d \in Calls, h \in Groups : grp[d][h].onChain => grp'[d][h].onChain
    BY <1>12, LapseEffect
  <2> QED
    BY <2>2, <2>3, KeepsCount DEF CountIsSound
<1> QED
  BY <1>1, <1>2, <1>3, <1>4, <1>5, <1>6, <1>7, <1>8, <1>9, <1>10, <1>11,
     <1>12, CallSteps, CompleteSteps, VisitEffect DEF Next, ServerStep, Chain,
     CallMoves, serverVars, passVars, inputVars, chainVars, Enqueue, SkipPeer,
     Report, Activate, Cancel, vars

\* Fragments are removed only when the chain has the whole file, or with those of
\* another file that it has.
LEMMA KeptNext == TypeOK /\ ChainKnown /\ CountIsSound /\ FragmentsKept /\
    [Next]_vars => FragmentsKept'
<1> SUFFICES ASSUME TypeOK, ChainKnown, CountIsSound, FragmentsKept,
                    [Next]_vars PROVE FragmentsKept'
  OBVIOUS
<1>0. /\ file \in [Calls -> Files] /\ complete \in [Files -> SUBSET Groups]
      /\ call \in [Calls -> CallStates]
      /\ task \in [Servers -> Calls]
  BY DEF TypeOK
<1>1. CASE UNCHANGED <<call, tmp, complete, file, stored>>
  BY <1>1 DEF FragmentsKept, Needs
<1>2. ASSUME NEW c \in Calls, CallMoves(c) PROVE FragmentsKept'
  <2>1. /\ UNCHANGED <<file, complete>> /\ tmp \subseteq tmp'
        /\ \A d \in Calls : d # c => call'[d] = call[d]
        /\ call[c] # "finished"
    BY <1>2, <1>0 DEF CallMoves, inputVars, chainVars
  <2>2. /\ call'[c] = "process" => file[c] \in tmp'
        /\ call'[c] = "order" => call[c] = "process"
        /\ call'[c] = "send" => call[c] = "order"
        /\ call'[c] # "queued"
    BY <1>2, <1>0 DEF CallMoves
  <2> QED
    BY <2>1, <2>2 DEF FragmentsKept, Needs
<1>3. ASSUME NEW c \in Calls, Enqueue(c) PROVE FragmentsKept'
  <2>1. /\ UNCHANGED <<file, complete, tmp>> /\ call[c] = "send"
        /\ \A d \in Calls : d # c => call'[d] = call[d]
    BY <1>3, <1>0 DEF Enqueue, inputVars, chainVars
  <2> QED
    BY <2>1 DEF FragmentsKept, Needs
<1>4. ASSUME NEW s \in Servers, Completes(s) PROVE FragmentsKept'
  <2>1. /\ UNCHANGED <<file, complete>> /\ complete[file[task[s]]] = Groups
        /\ tmp' = {h \in tmp : DirOf[h] # DirOf[file[task[s]]]}
        /\ task[s] \in Calls /\ call'[task[s]] = "finished"
        /\ \A d \in Calls : d # task[s] => call'[d] = call[d]
    BY <1>4, <1>0 DEF Completes, Complete, ClearTmpFile, inputVars, chainVars
  <2> SUFFICES ASSUME NEW c \in Calls, Needs(c)', file[c] \notin tmp'
               PROVE  \E d \in Calls : /\ call'[d] = "finished" /\ file[d] # file[c]
                                       /\ DirOf[file[d]] = DirOf[file[c]]
    BY <2>1 DEF FragmentsKept
  <2>2. c # task[s] /\ Needs(c) /\ file[c] # file[task[s]]
    BY <2>1 DEF Needs
  <2>3. CASE file[c] \in tmp
    BY <2>1, <2>2, <2>3
  <2>4. CASE file[c] \notin tmp
    <3>1. PICK d \in Calls : /\ call[d] = "finished" /\ file[d] # file[c]
                             /\ DirOf[file[d]] = DirOf[file[c]]
      BY <2>2, <2>4 DEF FragmentsKept
    <3>2. call'[d] = "finished"
      BY <2>1, <3>1
    <3> QED
      BY <3>1, <3>2
  <2> QED
    BY <2>3, <2>4
<1>5. ASSUME NEW s \in Servers, Visits(s) PROVE FragmentsKept'
  <2>1. UNCHANGED <<call, tmp, complete, file>>
    BY <1>5 DEF Visits, inputVars, chainVars
  <2> QED
    BY <2>1 DEF FragmentsKept, Needs
<1>6. ASSUME NEW s \in Servers, NEW p \in Peers, SendGroup(s, p)
      PROVE  FragmentsKept'
  <2>1. UNCHANGED <<call, tmp, complete, file>>
    BY <1>6 DEF SendGroup, WriteGroup, inputVars, chainVars
  <2> QED
    BY <2>1 DEF FragmentsKept, Needs
<1>7. ASSUME NEW f \in Files, NEW g \in Groups, Report(f, g)
      PROVE  FragmentsKept'
  <2>1. /\ UNCHANGED <<file, call, tmp>>
        /\ \A e \in Files : complete[e] = Groups => complete'[e] = Groups
    BY <1>7, <1>0 DEF Report, inputVars
  <2> QED
    BY <1>0, <2>1 DEF FragmentsKept, Needs
<1> QED
  BY <1>1, <1>2, <1>3, <1>4, <1>5, <1>6, <1>7, CallSteps, CompleteSteps,
     VisitEffect DEF Next, ServerStep, Chain, Take, passVars, inputVars,
     chainVars, Stop, QueryDealMapFails, GiveUp, QueryDealMap, SkipPeer,
     NoMorePeers, PassIncomplete, PutBack, Lapse, serverVars, Activate,
     Cancel, vars

\* Groups are sent only for an accepted call, which finishes only with the file
\* on chain.
LEMMA StoredNext == TypeOK /\ ChainKnown /\ CountIsSound /\ OnePlace /\
    StoredForCall /\ [Next]_vars => StoredForCall'
<1> SUFFICES ASSUME TypeOK, ChainKnown, CountIsSound, OnePlace,
                    StoredForCall, [Next]_vars PROVE StoredForCall'
  OBVIOUS
<1>0. /\ file \in [Calls -> Files] /\ complete \in [Files -> SUBSET Groups]
      /\ call \in [Calls -> CallStates]
      /\ task \in [Servers -> Calls]
  BY DEF TypeOK
<1>1. CASE UNCHANGED <<call, tmp, complete, file, stored>>
  BY <1>1 DEF StoredForCall
<1>2. ASSUME NEW c \in Calls, CallMoves(c) PROVE StoredForCall'
  <2>1. /\ UNCHANGED <<file, complete, stored>>
        /\ \A d \in Calls : call[d] = "queued" => call'[d] = "queued"
    BY <1>2, <1>0 DEF CallMoves, inputVars, chainVars
  <2> QED
    BY <2>1 DEF StoredForCall
<1>3. ASSUME NEW c \in Calls, Enqueue(c) PROVE StoredForCall'
  <2>1. /\ UNCHANGED <<file, complete, stored>>
        /\ \A d \in Calls : call[d] = "queued" => call'[d] = "queued"
    BY <1>3, <1>0 DEF Enqueue, inputVars, chainVars
  <2> QED
    BY <2>1 DEF StoredForCall
<1>4. ASSUME NEW s \in Servers, Completes(s) PROVE StoredForCall'
  <2>1. /\ UNCHANGED <<file, complete, stored>> /\ complete[file[task[s]]] = Groups
        /\ \A d \in Calls : call[d] = "queued" => call'[d] = "queued" \/ d = task[s]
    BY <1>4, <1>0 DEF Completes, Complete, inputVars, chainVars
  <2> QED
    BY <2>1 DEF StoredForCall
<1>5. ASSUME NEW s \in Servers, Visits(s) PROVE StoredForCall'
  <2>1. UNCHANGED <<call, stored, complete, file>>
    BY <1>5 DEF Visits, inputVars, chainVars
  <2> QED
    BY <2>1 DEF StoredForCall
<1>6. ASSUME NEW s \in Servers, NEW p \in Peers, SendGroup(s, p)
      PROVE  StoredForCall'
  <2>1. /\ UNCHANGED <<call, complete, file>>
        /\ \/ stored' = stored
           \/ file[task[s]] \notin BadPaths /\ stored' = stored \cup {<<file[task[s]], i[s]>>}
    BY <1>6 DEF SendGroup, WriteGroup, inputVars
  <2>2. call[task[s]] = "queued" /\ task[s] \in Calls
    BY <1>6, <1>0 DEF SendGroup, WriteGroup, OnePlace, Holding
  <2> QED
    BY <2>1, <2>2 DEF StoredForCall
<1>7. ASSUME NEW f \in Files, NEW g \in Groups, Report(f, g)
      PROVE  StoredForCall'
  <2>1. /\ UNCHANGED <<file, call, stored>>
        /\ \A e \in Files : complete[e] = Groups => complete'[e] = Groups
    BY <1>7, <1>0 DEF Report, inputVars
  <2> QED
    BY <1>0, <2>1 DEF StoredForCall
<1> QED
  BY <1>1, <1>2, <1>3, <1>4, <1>5, <1>6, <1>7, CallSteps, CompleteSteps,
     VisitEffect DEF Next, ServerStep, Chain, Take, passVars, inputVars,
     chainVars, Stop, QueryDealMapFails, GiveUp, QueryDealMap, SkipPeer,
     NoMorePeers, PassIncomplete, PutBack, Lapse, serverVars, Activate,
     Cancel, vars

\* The inductive invariant holds in every state.
THEOREM Invariance == Spec => []IInv
<1>1. IInv /\ [Next]_vars => IInv'
  BY TypeNext, PlaceNext, PeersNext, ChainNext, CountNext, KeptNext, StoredNext DEF IInv
<1> QED
  BY <1>1, InitIInv, PTL DEF Spec

\* Whatever fails, the groups of a task are on different storage nodes: the
\* peers a pass may choose were checked against savedPeers when it began, and
\* nobody else sends groups of that task meanwhile.
THEOREM DifferentPeers == Spec => []GroupsOnDifferentPeers
<1>1. IInv => GroupsOnDifferentPeers
  BY DEF IInv
<1> QED
  BY <1>1, Invariance, PTL

\* ClearTmpFile removes no fragment that a task may still have to send, also when
\* the tasks of two calls share the fragments of one file, unless it clears the
\* directory after the upload of another file.
THEOREM KeepsFragments == Spec => []FragmentsKept
<1>1. IInv => FragmentsKept
  BY DEF IInv
<1> QED
  BY <1>1, Invariance, PTL

\* An accepted task is in the channel once or with one server, never both.
THEOREM OneTaskOnePlace == Spec => []TaskInOnePlace
<1>1. IInv => TaskInOnePlace
  <2> SUFFICES ASSUME TypeOK, OnePlace, NEW c \in Calls
               PROVE  Cardinality(Slots(c)) + Cardinality(Holders(c))
                          = IF call[c] = "queued" THEN 1 ELSE 0
    BY DEF IInv, TaskInOnePlace
  <2>1. /\ Slots(c) = {k \in 1 .. Len(queue) : queue[k] = c}
        /\ Holders(c) = {s \in Servers : Holding(s) /\ task[s] = c}
    BY LenProperties DEF TypeOK, Slots, Holders, Holding
  <2>2. Cardinality({}) = 0
    BY FS_EmptySet
  <2>3. CASE call[c] # "queued"
    <3>1. Slots(c) = {} /\ Holders(c) = {}
      BY <2>1, <2>3 DEF OnePlace
    <3> QED
      BY <2>2, <2>3, <3>1
  <2>4. ASSUME call[c] = "queued", NEW k \in 1 .. Len(queue), queue[k] = c
        PROVE  Cardinality(Slots(c)) + Cardinality(Holders(c)) = 1
    <3>1. Slots(c) = {k} /\ Holders(c) = {}
      BY <2>1, <2>4 DEF OnePlace
    <3>2. Cardinality({k}) = 1
      BY FS_Singleton
    <3> QED
      BY <2>2, <3>1, <3>2
  <2>5. ASSUME call[c] = "queued", NEW s \in Servers, Holding(s), task[s] = c
        PROVE  Cardinality(Slots(c)) + Cardinality(Holders(c)) = 1
    <3>1. Slots(c) = {}
      BY <2>1, <2>5 DEF OnePlace
    <3>2. Holders(c) = {s}
      BY <2>1, <2>5 DEF OnePlace
    <3>3. Cardinality({s}) = 1
      BY FS_Singleton
    <3> QED
      BY <2>2, <3>1, <3>2, <3>3
  <2> QED
    BY <2>3, <2>4, <2>5 DEF OnePlace
<1> QED
  BY <1>1, Invariance, PTL

-----------------------------------------------------------------------------
(* The steps of the queue are steps of UploadPromise. *)

Phases == [c \in Calls |-> Phase(c)]

Kept == {f \in Files : complete[f] = Groups}

Halted == Blocked \/ cancelled

\* What the fragments are needed for does not change.
LEMMA SameLost ==
    ASSUME UNCHANGED <<file, tmp>>, \A c \in Calls : Needs(c)' <=> Needs(c)
    PROVE  Lost' = Lost
BY DEF Lost

\* How the state of a call shows, and what is seen of a call that moves.
LEMMA PhaseOf ==
    ASSUME NEW c \in Calls
    PROVE  /\ Phases[c] = Phase(c)
           /\ call[c] = "queued" <=> Phase(c) = "accepted"
           /\ call[c] \notin {"queued", "finished", "returned"} <=> Phase(c) = "new"
BY DEF Phases, Phase

\* Only the phase of c changes.
LEMMA PhaseMoves ==
    ASSUME NEW c \in Calls, NEW to,
           call \in [Calls -> CallStates],
           call' = [call EXCEPT ![c] = to]
    PROVE  /\ to = "queued" => Phases' = [Phases EXCEPT ![c] = "accepted"]
           /\ to = "finished" => Phases' = [Phases EXCEPT ![c] = "done"]
           /\ to = "returned" => Phases' = [Phases EXCEPT ![c] = "refused"]
           /\ to \in {"process", "order", "send"} => Phases' = [Phases EXCEPT ![c] = "new"]
<1>1. \A d \in Calls : d # c => call'[d] = call[d]
  OBVIOUS
<1>2. call'[c] = to
  OBVIOUS
<1>3. \A d \in Calls : d # c => Phase(d)' = Phase(d)
  BY <1>1 DEF Phase
<1>4. /\ to = "queued" => Phase(c)' = "accepted"
      /\ to = "finished" => Phase(c)' = "done"
      /\ to = "returned" => Phase(c)' = "refused"
      /\ to \in {"process", "order", "send"} => Phase(c)' = "new"
  BY <1>2 DEF Phase
<1> QED
  BY <1>3, <1>4 DEF Phases

\* A step that moves no call, completes no file and does not bring a halted
\* service back is a stutter, or it halts the service.
LEMMA MayHalt ==
    ASSUME UNCHANGED <<call, complete, file, tmp>>, Halted => Halted'
    PROVE  [Promise!Next]_(Promise!vars)
<1>1. Phases' = Phases /\ Kept' = Kept /\ Lost' = Lost
  BY SameLost DEF Phases, Phase, Kept, Needs
<1>2. CASE ~Halted /\ Halted'
  <2>1. Promise!Halt
    BY <1>1, <1>2 DEF Promise!Halt, Phases, Kept, Halted
  <2> QED
    BY <2>1 DEF Promise!Next
<1>3. CASE Halted' = Halted
  BY <1>1, <1>3 DEF Promise!vars, Phases, Kept, Halted
<1> QED
  BY <1>2, <1>3 DEF Halted

\* Every step maps to a step of UploadPromise or to a stutter.
LEMMA StepRefines == TypeOK /\ ChainKnown /\ CountIsSound /\ OnePlace /\
    StoredForCall /\ [Next]_vars => [Promise!Next]_(Promise!vars)
<1> SUFFICES ASSUME TypeOK, ChainKnown, CountIsSound, OnePlace,
                    StoredForCall, [Next]_vars PROVE [Promise!Next]_(Promise!vars)
  OBVIOUS
<1>0. /\ file \in [Calls -> Files] /\ complete \in [Files -> SUBSET Groups]
      /\ call \in [Calls -> CallStates]
      /\ server \in [Servers -> ServerStates]
      /\ task \in [Servers -> Calls] /\ Len(queue) \in Nat
  BY LenProperties DEF TypeOK
<1>1. ASSUME NEW c \in Calls, CallMoves(c) PROVE [Promise!Next]_(Promise!vars)
  <2>1. /\ UNCHANGED <<complete, file, cancelled, queue, server>>
        /\ call[c] \notin {"queued", "finished", "returned"}
    BY <1>1 DEF CallMoves, inputVars, chainVars, serverVars
  <2>2. PICK to \in {"process", "order", "send", "returned"} :
              /\ call' = [call EXCEPT ![c] = to]
              /\ to = "process" => call[c] = "idle" /\ tmp' = tmp \cup {file[c]}
              /\ to # "process" => tmp' = tmp
              /\ to = "order" => call[c] = "process"
              /\ to = "send" => call[c] = "order"
    BY <1>1 DEF CallMoves
  <2>3. Kept' = Kept /\ (Halted' = Halted)
    BY <2>1 DEF Kept, Halted, Blocked
  <2>4. Phases[c] = "new"
    BY <2>1, PhaseOf
  <2>5. call'[c] = to /\ \A d \in Calls : d # c => call'[d] = call[d]
    BY <1>0, <2>2
  <2>6. \A d \in Calls : d # c => (Needs(d)' <=> Needs(d))
    BY <2>1, <2>5 DEF Needs
  <2>7. CASE to = "returned"
    <3>1. Phases' = [Phases EXCEPT ![c] = "refused"]
      BY <1>0, <2>2, <2>7, PhaseMoves
    <3>2. ~Needs(c)' /\ tmp' = tmp
      BY <2>2, <2>5, <2>7 DEF Needs
    <3>3. Lost' \subseteq Lost
      BY <2>1, <2>6, <3>2 DEF Lost
    <3>4. Promise!Refuse(c)
      BY <2>1, <2>3, <2>4, <3>1, <3>3 DEF Promise!Refuse, Phases, Kept, Halted
    <3> QED
      BY <3>4 DEF Promise!Next
  <2>8. CASE to # "returned"
    <3>1. Phases' = [Phases EXCEPT ![c] = "new"]
      BY <1>0, <2>2, <2>8, PhaseMoves
    <3>2. Phases' = Phases
      BY <2>4, <3>1 DEF Phases
    <3>3. CASE to \in {"order", "send"}
      <4>1. Needs(c)' <=> Needs(c)
        BY <2>1, <2>2, <2>5, <3>3 DEF Needs
      <4>2. tmp' = tmp
        BY <2>2, <3>3
      <4>3. Lost' = Lost
        BY <2>1, <2>6, <4>1, <4>2, SameLost
      <4> QED
        BY <2>1, <2>3, <3>2, <4>3 DEF Promise!vars, Phases, Kept, Halted
    <3>4. CASE to = "process"
      <4>1. tmp' = tmp \cup {file[c]} /\ ~Needs(c)
        BY <2>2, <3>4 DEF Needs
      <4>2. Lost' = Lost \ {file[c]}
        BY <2>1, <2>6, <4>1 DEF Lost
      <4>3. CASE file[c] \in Lost
        <5>1. file[c] \in Files
          BY <1>0
        <5>2. Promise!Regain(file[c])
          BY <2>1, <2>3, <2>4, <3>2, <4>2, <4>3 DEF Promise!Regain, Phases, Kept, Halted
        <5> QED
          BY <5>1, <5>2 DEF Promise!Next
      <4>4. CASE file[c] \notin Lost
        <5>1. Lost' = Lost
          BY <4>2, <4>4
        <5> QED
          BY <2>1, <2>3, <3>2, <5>1 DEF Promise!vars, Phases, Kept, Halted
      <4> QED
        BY <4>3, <4>4
    <3> QED
      BY <2>8, <3>3, <3>4
  <2> QED
    BY <2>7, <2>8
<1>2. ASSUME NEW c \in Calls, Enqueue(c) PROVE [Promise!Next]_(Promise!vars)
  <2>1. /\ UNCHANGED <<complete, file, cancelled, server, tmp>> /\ call[c] = "send"
        /\ Len(queue) < QueueSize /\ call' = [call EXCEPT ![c] = "queued"]
    BY <1>2 DEF Enqueue, inputVars, chainVars, serverVars
  <2>2. Kept' = Kept
    BY <2>1 DEF Kept
  <2>3. Halted => Halted'
    BY <1>0, <2>1, UploadAssumption DEF Halted, Blocked
  <2>4. Halted' \in {Halted, TRUE}
    BY <2>3 DEF Halted
  <2>5. Phases[c] = "new" /\ Phases' = [Phases EXCEPT ![c] = "accepted"]
    BY <1>0, <2>1, PhaseOf, PhaseMoves
  <2>6. \A d \in Calls : Needs(d)' <=> Needs(d)
    BY <1>0, <2>1 DEF Needs
  <2>7. Lost' = Lost
    BY <2>1, <2>6, SameLost
  <2>8. Promise!Accept(c)
    BY <2>1, <2>2, <2>4, <2>5, <2>7 DEF Promise!Accept, Phases, Kept, Halted
  <2> QED
    BY <2>8 DEF Promise!Next
<1>3. ASSUME NEW s \in Servers, Take(s) PROVE [Promise!Next]_(Promise!vars)
  <2>1. UNCHANGED <<call, complete, file, cancelled, tmp>>
    BY <1>3 DEF inputVars, chainVars, Take
  <2>2. ~Blocked
    BY <1>3, <1>0 DEF Blocked, Take
  <2> QED
    BY <2>1, <2>2, MayHalt DEF Halted
<1>4. ASSUME NEW s \in Servers, Stop(s) PROVE [Promise!Next]_(Promise!vars)
  <2>1. UNCHANGED <<call, complete, file, cancelled, tmp>>
    BY <1>4 DEF inputVars, chainVars, Stop
  <2>2. ~Blocked
    BY <1>4, <1>0 DEF Blocked, Stop
  <2> QED
    BY <2>1, <2>2, MayHalt DEF Halted
<1>5. ASSUME NEW s \in Servers, Completes(s) PROVE [Promise!Next]_(Promise!vars)
  <2>1. /\ UNCHANGED <<complete, file, cancelled>> /\ task[s] \in Calls
        /\ call' = [call EXCEPT ![task[s]] = "finished"]
        /\ server[s] # "putback" /\ server'[s] # "putback"
        /\ complete[file[task[s]]] = Groups /\ file[task[s]] \in Files
    BY <1>5, <1>0 DEF Completes, Complete, inputVars, chainVars
  <2>2. Kept' = Kept /\ file[task[s]] \in Kept
    BY <2>1 DEF Kept
  <2>3. Halted' = Halted
    BY <2>1 DEF Halted, Blocked
  <2>4. Phases[task[s]] = "accepted" /\ Phases' = [Phases EXCEPT ![task[s]] = "done"]
    <3>1. call[task[s]] = "queued"
      BY <1>5 DEF Completes, OnePlace, Holding
    <3> QED
      BY <1>0, <2>1, <3>1, PhaseOf, PhaseMoves
  <2>5. /\ tmp' \subseteq tmp
        /\ \A d \in Calls : d # task[s] => call'[d] = call[d]
    BY <1>0, <1>5, <2>1 DEF Completes, Complete, ClearTmpFile
  <2>6. Lost \subseteq Lost'
    <3> SUFFICES ASSUME NEW f \in Lost PROVE f \in Lost'
      OBVIOUS
    <3>1. PICK c \in Calls : Needs(c) /\ file[c] = f /\ f \notin tmp
      BY DEF Lost
    <3>2. c # task[s]
      BY <2>1, <3>1 DEF Needs
    <3>3. Needs(c)' /\ file'[c] = f /\ f \notin tmp'
      BY <2>1, <2>5, <3>1, <3>2 DEF Needs
    <3> QED
      BY <3>3 DEF Lost
  <2>7. Lost' \subseteq Files \ Kept
    <3> SUFFICES ASSUME NEW f \in Lost' PROVE f \in Files /\ f \notin Kept
      OBVIOUS
    <3>1. PICK c \in Calls : Needs(c)' /\ file'[c] = f
      BY DEF Lost
    <3> QED
      BY <1>0, <2>1, <3>1 DEF Needs, Kept
  <2>8. Promise!CallBack(task[s])
    BY <2>1, <2>2, <2>3, <2>4, <2>6, <2>7 DEF Promise!CallBack, Phases, Kept, Halted
  <2> QED
    BY <2>1, <2>8 DEF Promise!Next
<1>6. ASSUME NEW s \in Servers, QueryDealMapFails(s)
      PROVE  [Promise!Next]_(Promise!vars)
  <2>1. UNCHANGED <<call, complete, file, cancelled, tmp>>
    BY <1>6 DEF inputVars, chainVars, QueryDealMapFails, GiveUp
  <2>2. ~Blocked
    BY <1>6, <1>0 DEF Blocked, QueryDealMapFails, GiveUp
  <2> QED
    BY <2>1, <2>2, MayHalt DEF Halted
<1>7. ASSUME NEW s \in Servers, NEW peers \in SUBSET Peers, QueryDealMap(s, peers)
      PROVE  [Promise!Next]_(Promise!vars)
  <2>1. UNCHANGED <<call, complete, file, cancelled, tmp>>
    BY <1>7 DEF inputVars, chainVars, QueryDealMap
  <2>2. ~Blocked
    BY <1>7, <1>0 DEF Blocked, QueryDealMap
  <2> QED
    BY <2>1, <2>2, MayHalt DEF Halted
<1>8. ASSUME NEW s \in Servers, Visits(s) PROVE [Promise!Next]_(Promise!vars)
  <2>1. UNCHANGED <<call, complete, file, cancelled, tmp>>
    BY <1>8 DEF inputVars, chainVars, Visits
  <2>2. ~Blocked
    BY <1>8, <1>0 DEF Blocked, Visits
  <2> QED
    BY <2>1, <2>2, MayHalt DEF Halted
<1>9. ASSUME NEW s \in Servers, NEW p \in Peers, SkipPeer(s, p)
      PROVE  [Promise!Next]_(Promise!vars)
  <2>1. UNCHANGED <<call, complete, file, cancelled, tmp>>
    BY <1>9 DEF inputVars, chainVars, SkipPeer
  <2>2. ~Blocked
    BY <1>9, <1>0 DEF Blocked, SkipPeer
  <2> QED
    BY <2>1, <2>2, MayHalt DEF Halted
<1>10. ASSUME NEW s \in Servers, NEW p \in Peers, SendGroup(s, p)
       PROVE  [Promise!Next]_(Promise!vars)
  <2>1. UNCHANGED <<call, complete, file, cancelled, tmp>>
    BY <1>10 DEF inputVars, chainVars, SendGroup, WriteGroup
  <2>2. ~Blocked
    BY <1>10, <1>0 DEF Blocked, SendGroup, WriteGroup
  <2> QED
    BY <2>1, <2>2, MayHalt DEF Halted
<1>11. ASSUME NEW s \in Servers, NoMorePeers(s)
       PROVE  [Promise!Next]_(Promise!vars)
  <2>1. UNCHANGED <<call, complete, file, cancelled, tmp>>
    BY <1>11 DEF inputVars, chainVars, NoMorePeers
  <2>2. ~Blocked
    BY <1>11, <1>0 DEF Blocked, NoMorePeers
  <2> QED
    BY <2>1, <2>2, MayHalt DEF Halted
<1>12. ASSUME NEW s \in Servers, PassIncomplete(s)
       PROVE  [Promise!Next]_(Promise!vars)
  <2>1. UNCHANGED <<call, complete, file, cancelled, tmp>>
    BY <1>12 DEF inputVars, chainVars, PassIncomplete
  <2>2. ~Blocked
    BY <1>12, <1>0 DEF Blocked, PassIncomplete
  <2> QED
    BY <2>1, <2>2, MayHalt DEF Halted
<1>13. ASSUME NEW s \in Servers, PutBack(s) PROVE [Promise!Next]_(Promise!vars)
  <2>1. UNCHANGED <<call, complete, file, cancelled, tmp>>
    BY <1>13 DEF inputVars, chainVars, PutBack
  <2>2. ~Blocked
    BY <1>13, <1>0 DEF Blocked, PutBack
  <2> QED
    BY <2>1, <2>2, MayHalt DEF Halted
<1>14. ASSUME NEW c \in Calls, NEW g \in Groups, Lapse(c, g)
       PROVE  [Promise!Next]_(Promise!vars)
  <2>1. UNCHANGED <<call, complete, file, cancelled, queue, server, tmp>>
    BY <1>14 DEF inputVars, chainVars, serverVars, vars, Lapse
  <2> QED
    BY <2>1, MayHalt DEF Halted, Blocked
<1>15. ASSUME NEW f \in Files, NEW g \in Groups, Report(f, g)
       PROVE  [Promise!Next]_(Promise!vars)
  <2>1. /\ UNCHANGED <<call, file, cancelled, queue, server, tmp>> /\ <<f, g>> \in stored
        /\ g \notin complete[f] /\ complete' = [complete EXCEPT ![f] = @ \cup {g}]
    BY <1>15 DEF Report, inputVars, serverVars
  <2>2. Phases' = Phases /\ (Halted' = Halted)
    BY <2>1 DEF Phases, Phase, Halted, Blocked
  <2>3. complete[f] # Groups
    BY <2>1
  <2>4. \A e \in Files : e # f => complete'[e] = complete[e]
    BY <1>0, <2>1
  <2>5. CASE complete'[f] = Groups
    <3>1. f \in (Files \ BadPaths) \ Kept /\ Kept' = Kept \cup {f}
      BY <2>1, <2>3, <2>4, <2>5 DEF Kept, StoredForCall
    <3>2. PICK c \in Calls : call[c] = "queued" /\ file[c] = f
      BY <2>1, <2>3 DEF StoredForCall
    <3>3. Phases[c] = "accepted" /\ file[c] = f
      BY <3>2, PhaseOf
    <3>4. \A d \in Calls : Needs(d)' => Needs(d)
      BY <1>0, <2>1, <2>3, <2>4 DEF Needs
    <3>5. Lost' \subseteq Lost
      BY <2>1, <3>4 DEF Lost
    <3>6. Promise!Keep(f)
      BY <2>1, <2>2, <3>1, <3>3, <3>5 DEF Promise!Keep, Phases, Kept, Halted
    <3> QED
      BY <3>6 DEF Promise!Next
  <2>6. CASE complete'[f] # Groups
    <3>1. Kept' = Kept
      BY <2>3, <2>4, <2>6 DEF Kept
    <3>2. \A d \in Calls : Needs(d)' <=> Needs(d)
      BY <1>0, <2>1, <2>3, <2>4, <2>6 DEF Needs
    <3>3. Lost' = Lost
      BY <2>1, <3>2, SameLost
    <3> QED
      BY <2>1, <2>2, <3>1, <3>3 DEF Promise!vars, Phases, Kept, Halted
  <2> QED
    BY <2>5, <2>6
<1>16. ASSUME NEW f \in Files, Activate(f) PROVE [Promise!Next]_(Promise!vars)
  <2>1. UNCHANGED <<call, complete, file, cancelled, queue, server, tmp>>
    BY <1>16 DEF inputVars, chainVars, serverVars, vars, Activate
  <2> QED
    BY <2>1, MayHalt DEF Halted, Blocked
<1>17. CASE Cancel
  <2>1. UNCHANGED <<call, complete, file, tmp>> /\ cancelled'
    BY <1>17 DEF Cancel, chainVars
  <2> QED
    BY <2>1, MayHalt DEF Halted
<1>18. CASE UNCHANGED vars
  <2>1. UNCHANGED <<call, complete, file, cancelled, queue, server, tmp>>
    BY <1>18 DEF inputVars, chainVars, serverVars, vars, vars
  <2> QED
    BY <2>1, MayHalt DEF Halted, Blocked
<1> QED
  BY <1>1, <1>2, <1>3, <1>4, <1>5, <1>6, <1>7, <1>8, <1>9, <1>10, <1>11,
     <1>12, <1>13, <1>14, <1>15, <1>16, <1>17, <1>18, CallSteps,
     CompleteSteps, VisitEffect DEF Next, ServerStep, Chain

\* The safety half of KeepsPromise: with passes, retries and failures hidden, a
\* call is refused or accepted, the callback of an accepted one is called once,
\* and only when the chain has every group of a file whose groups were sent for
\* an accepted call; only the end of another upload makes it lose the fragments of
\* a file; a service that has halted does not come back.
THEOREM PromiseSafety == Spec => Promise!Safety
<1>1. Init => Promise!Init
  <2> SUFFICES ASSUME Init PROVE Promise!Init
    OBVIOUS
  <2>1. file \in [Calls -> Files]
    BY UploadAssumption DEF Init
  <2>2. Phases = [c \in Calls |-> "new"]
    BY DEF Init, Phases, Phase
  <2>3. Kept \subseteq Files
    BY DEF Kept
  <2>4. Halted = FALSE
    BY UploadAssumption DEF Init, Halted, Blocked
  <2>5. Lost = {}
    BY DEF Init, Lost, Needs
  <2> QED
    BY <2>1, <2>2, <2>3, <2>4, <2>5 DEF Promise!Init, Phases, Kept, Halted
<1>2. IInv /\ [Next]_vars => [Promise!Next]_(Promise!vars)
  BY StepRefines DEF IInv
<1> QED
  BY <1>1, <1>2, Invariance, PTL DEF Spec, Promise!Safety

=============================================================================
