------------------------------ MODULE Discovery ------------------------------
(***************************************************************************)
(* Discovery of peers, in the node (ResourceActor.RunDiscovery) and in the *)
(* client (Client.RunDiscovery).  Producers put the peers they find into   *)
(* bounded channels: the DHT loop and mDNS the cachers, in the client also *)
(* Subscribe the storage nodes.  One goroutine consumes both channels and  *)
(* fills the selectors' tables; it leaves when the context is cancelled,   *)
(* and the producers' sends do not watch the context.                      *)
(*                                                                         *)
(* RunDiscovery itself runs the DHT loop in the node (under a context that *)
(* is never cancelled) and Subscribe in the client, and returns its error  *)
(* through the variable err, which the other goroutines assign too, and    *)
(* which is read again after it was tested.  In the node an error of       *)
(* RunDiscovery cancels the program's context.                             *)
(*                                                                         *)
(* Whether FlushPeerNodes keeps a peer is left open.                       *)
(***************************************************************************)
EXTENDS Integers, FiniteSets, Sequences

CONSTANTS
    Peers,      \* peers that can be found
    Self,       \* this host, which the DHT lists too
    NoPeer,     \* no peer
    Cap,        \* places in a channel (64 in the node, 128 in the client)
    MaxCachers  \* MaxCacheNodeNum

ASSUME DiscoveryAssumption ==
    /\ IsFiniteSet(Peers)
    /\ Self \notin Peers /\ NoPeer \notin Peers \cup {Self}
    /\ Cap \in Nat \ {0}
    /\ MaxCachers \in Nat \ {0}

VARIABLES
    prog,       \* "node" or "client"
    cancelled,  \* ctx is done
    cacheCh,    \* the channel of cachers (the node's ch)
    peerCh,     \* how many storage nodes are in the client's other channel
    dht,        \* where the DHT loop is and what it sends
    mdns,       \* peers whose HandlePeerFound is sending
    started,    \* mDNS: "no", "yes" or "failed"
    sub,        \* where Subscribe is
    cons,       \* where the consumer is and the peer it deals with
    cachers,    \* the table of cachers
    err,        \* the shared variable: "nil", the error "own" of the call that
                \* RunDiscovery waits for, or the error "other" of another
                \* goroutine
    main,       \* "run", "check" (that call has returned), "wrap" (err was not
                \* nil) or "done"
    result,     \* what RunDiscovery returned
    own,        \* what the call it waits for returned (not in the code)
    raced       \* err was assigned between the return of that call and the last
                \* read of err (not in the code)

chans == <<cacheCh, peerCh>>
resultVars == <<err, main, result, own, raced>>
discoveryVars == <<prog, cancelled, chans, dht, mdns, started, sub, cons, cachers, resultVars>>

DiscoveryInit ==
    /\ prog \in {"node", "client"}
    /\ cancelled = FALSE
    /\ cacheCh = <<>> /\ peerCh = 0
    /\ dht = [at |-> "wait", peer |-> NoPeer]
    /\ mdns = {} /\ started = "no"
    /\ sub = IF prog = "client" THEN "setup" ELSE "off"
    /\ cons = [at |-> "select", peer |-> NoPeer]
    /\ cachers = {}
    /\ err = "nil" /\ result = "nil" /\ own = "nil"
    /\ main = "run" /\ raced = FALSE

\* Another goroutine assigns err.
Assign(e) ==
    /\ err' = e
    /\ raced' = (raced \/ main \in {"check", "wrap"})
    /\ UNCHANGED <<main, result, own>>

\* Mutant: an error that err holds already is kept.
ReturnedKeeps(e) ==
    /\ err' = IF e = "nil" THEN err ELSE e
    /\ own' = e
    /\ main' = "check"
    /\ UNCHANGED <<result, raced>>

\* The call that RunDiscovery waits for returns e.
Returned(e) ==
    /\ err' = e
    /\ own' = e
    /\ main' = "check"
    /\ UNCHANGED <<result, raced>>

Cancel ==
    /\ ~cancelled
    /\ cancelled' = TRUE
    /\ UNCHANGED <<prog, chans, dht, mdns, started, sub, cons, cachers, resultVars>>

-----------------------------------------------------------------------------
(* StartDiscoveryFromDHT *)

DhtMoves(to) == dht' = to /\ UNCHANGED <<prog, cancelled, peerCh, mdns, started, sub, cons, cachers>>

DhtEnds(ok) ==
    /\ DhtMoves([dht EXCEPT !.at = "done"])
    /\ IF prog = "node" THEN Returned("own") ELSE Assign(IF ok THEN "nil" ELSE "other")
    /\ UNCHANGED cacheCh

\* Only the client's loop has a context that ends.
DhtCancelled == dht.at = "wait" /\ prog = "client" /\ cancelled /\ DhtEnds(TRUE)

FindPeersFails == dht.at = "wait" /\ DhtEnds(FALSE)

FindPeers ==
    /\ dht.at = "wait"
    /\ DhtMoves([dht EXCEPT !.at = "range"])
    /\ UNCHANGED <<cacheCh, resultVars>>

\* The next peer of the answer; this host is passed over.
DhtPeer(p) ==
    /\ dht.at = "range"
    /\ DhtMoves(IF p = Self THEN dht ELSE [at |-> "send", peer |-> p])
    /\ UNCHANGED <<cacheCh, resultVars>>

\* The send waits for a place in the channel.
DhtSends ==
    /\ dht.at = "send"
    /\ Len(cacheCh) < Cap
    /\ cacheCh' = Append(cacheCh, dht.peer)
    /\ DhtMoves([at |-> "range", peer |-> NoPeer])
    /\ UNCHANGED resultVars

\* The answer is used up, or its context was cancelled.
DhtRangeEnds ==
    /\ dht.at = "range"
    /\ DhtMoves([dht EXCEPT !.at = "wait"])
    /\ UNCHANGED <<cacheCh, resultVars>>

-----------------------------------------------------------------------------
(* mDNS: each HandlePeerFound has a goroutine of its own. *)

StartDiscoveryFromMDNS ==
    /\ started = "no"
    /\ \/ started' = "yes" /\ Assign("nil")
       \/ started' = "failed" /\ Assign("other")
    /\ UNCHANGED <<prog, cancelled, chans, dht, mdns, sub, cons, cachers>>

HandlePeerFound(p) ==
    /\ started = "yes"
    /\ p \notin mdns
    /\ mdns' = mdns \cup {p}
    /\ UNCHANGED <<prog, cancelled, chans, dht, started, sub, cons, cachers, resultVars>>

MdnsSends(p) ==
    /\ p \in mdns
    /\ Len(cacheCh) < Cap
    /\ cacheCh' = Append(cacheCh, p)
    /\ mdns' = mdns \ {p}
    /\ UNCHANGED <<prog, cancelled, peerCh, dht, started, sub, cons, cachers, resultVars>>

-----------------------------------------------------------------------------
(* Subscribe *)

SubMoves(to) == sub' = to /\ UNCHANGED <<prog, cancelled, cacheCh, dht, mdns, started, cons, cachers>>

\* Without a topic, or a subscription, the program panics; that is left out.
Join ==
    /\ sub = "setup"
    /\ SubMoves("wait")
    /\ UNCHANGED <<peerCh, resultVars>>

SubEnds(e) ==
    /\ SubMoves("done")
    /\ Returned(e)
    /\ UNCHANGED peerCh

GossipFails == sub = "setup" /\ SubEnds("own")

\* Mutant: the context is looked at only while nothing is queued.
SubCancelledLate == sub = "wait" /\ cancelled /\ peerCh = 0 /\ SubEnds("nil")

SubCancelled == sub = "wait" /\ cancelled /\ SubEnds("nil")

\* A message with a peer; others are passed over.
Message ==
    /\ sub = "wait"
    /\ SubMoves("send")
    /\ UNCHANGED <<peerCh, resultVars>>

SubSends ==
    /\ sub = "send"
    /\ peerCh < Cap
    /\ peerCh' = peerCh + 1
    /\ SubMoves("wait")
    /\ UNCHANGED resultVars

-----------------------------------------------------------------------------
(* The consumer *)

ConsMoves(to) == cons' = to /\ UNCHANGED <<prog, cancelled, dht, mdns, started, sub>>

ConsumerLeaves ==
    /\ cons.at = "select"
    /\ cancelled
    /\ ConsMoves([cons EXCEPT !.at = "gone"])
    /\ UNCHANGED <<chans, cachers, resultVars>>

\* Mutant: the storage nodes wait for room in the table of cachers.
TakeStorageInRoom ==
    /\ cons.at = "select"
    /\ peerCh > 0
    /\ Cardinality(cachers) < MaxCachers
    /\ ConsMoves([cons EXCEPT !.at = "storage"])
    /\ peerCh' = peerCh - 1
    /\ UNCHANGED <<cacheCh, cachers, resultVars>>

TakeStorage ==
    /\ cons.at = "select"
    /\ peerCh > 0
    /\ ConsMoves([cons EXCEPT !.at = "storage"])
    /\ peerCh' = peerCh - 1
    /\ UNCHANGED <<cacheCh, cachers, resultVars>>

\* Mutant: the size of the table is not looked at.
RoomForAll == TRUE

\* The client takes no cacher when its table is full.
Room == prog = "client" => Cardinality(cachers) < MaxCachers

TakeCacher ==
    /\ cons.at = "select"
    /\ cacheCh # <<>>
    /\ cacheCh' = Tail(cacheCh)
    /\ ConsMoves(IF Room THEN [at |-> IF prog = "client" THEN "connect" ELSE "dial",
                               peer |-> Head(cacheCh)]
                 ELSE cons)
    /\ UNCHANGED <<peerCh, cachers, resultVars>>

\* The client's Connect assigns the shared err.
Connect ==
    /\ cons.at = "connect"
    /\ Assign("nil") \/ Assign("other")
    /\ ConsMoves([cons EXCEPT !.at = "connected"])
    /\ UNCHANGED <<chans, cachers>>

\* The test of err may see what another goroutine has assigned since.
ConnectTested ==
    /\ cons.at = "connected"
    /\ ConsMoves(IF err = "nil" THEN [cons EXCEPT !.at = "dial"]
                 ELSE [at |-> "select", peer |-> NoPeer])
    /\ UNCHANGED <<chans, cachers, resultVars>>

\* FlushPeerNodes, with DailCacheNode for a cacher.
Flush ==
    /\ cons.at \in {"dial", "storage"}
    /\ cachers' \in IF cons.at = "storage" THEN {cachers}
                    ELSE {cachers, cachers \cup {cons.peer}, cachers \ {cons.peer}}
    /\ ConsMoves([at |-> "select", peer |-> NoPeer])
    /\ UNCHANGED <<chans, resultVars>>

-----------------------------------------------------------------------------
(* RunDiscovery tests err and returns; the node's program stops on an error. *)

Check ==
    /\ main = "check"
    /\ main' = IF err = "nil" THEN "done" ELSE "wrap"
    /\ UNCHANGED <<prog, cancelled, chans, dht, mdns, started, sub, cons, cachers,
                   err, result, own, raced>>

\* errors.Wrap reads err again; it makes nil of nil.
Wrap ==
    /\ main = "wrap"
    /\ main' = "done"
    /\ result' = err
    /\ cancelled' = (cancelled \/ (prog = "node" /\ err # "nil"))
    /\ UNCHANGED <<prog, chans, dht, mdns, started, sub, cons, cachers, err, own, raced>>

Dht ==
    \/ DhtCancelled \/ DhtSends \/ DhtRangeEnds
    \/ \E p \in Peers \cup {Self} : DhtPeer(p)

Found ==
    \/ FindPeersFails \/ FindPeers \/ Message
    \/ \E p \in Peers : HandlePeerFound(p)

Mdns == StartDiscoveryFromMDNS \/ \E p \in Peers : MdnsSends(p)

Sub == Join \/ GossipFails \/ SubCancelled \/ SubSends

Deal == Connect \/ ConnectTested \/ Flush

DiscoveryNext ==
    \/ Cancel \/ Found \/ Dht \/ Mdns \/ Sub
    \/ ConsumerLeaves \/ TakeStorage \/ TakeCacher \/ Deal
    \/ Check \/ Wrap

\* Every goroutine runs, every call on a peer returns, and select chooses each
\* ready case in the long run.  Nothing has to be found or cancelled.
DiscoverySpec ==
    /\ DiscoveryInit /\ [][DiscoveryNext]_discoveryVars
    /\ WF_discoveryVars(Dht) /\ WF_discoveryVars(Sub)
    /\ WF_discoveryVars(Deal) /\ WF_discoveryVars(Check \/ Wrap)
    /\ SF_discoveryVars(DhtSends) /\ SF_discoveryVars(SubSends)
    /\ SF_discoveryVars(SubCancelled) /\ SF_discoveryVars(ConsumerLeaves)
    /\ SF_discoveryVars(TakeStorage) /\ SF_discoveryVars(TakeCacher)

-----------------------------------------------------------------------------
(* Properties *)

\* The client's table of cachers never exceeds MaxCacheNodeNum: its size is
\* tested before a connection and a dial that take their time.
CachersBounded == prog = "client" => Cardinality(cachers) <= MaxCachers

\* RunDiscovery returns what its own call returned, and not an error that
\* another goroutine left in err, unless err is assigned between the return of
\* that call and the last read of err, in errors.Wrap when err was not nil.  A
\* node whose DHT loop failed then stops.
OwnResultUnlessRaced ==
    main = "done" /\ ~raced => result = own /\ (prog = "node" => cancelled)

\* While the context lives neither the DHT loop nor Subscribe waits for ever
\* for a place in its channel, however many peers are found, and whether or
\* not there is room in the table.
SendsComplete ==
    /\ dht.at = "send" ~> dht.at # "send" \/ cancelled
    /\ sub = "send" ~> sub # "send" \/ cancelled

\* The client's RunDiscovery returns after a cancellation, unless it is sending
\* on a full channel that the consumer has left.
CancelReturns ==
    (prog = "client" /\ cancelled) ~>
        \/ main = "done"
        \/ sub = "send" /\ peerCh = Cap /\ cons.at = "gone"

=============================================================================
