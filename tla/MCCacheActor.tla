---------------------------- MODULE MCCacheActor ----------------------------
(* Model checking CacheActor. *)
EXTENDS CacheActor, TLC

CONSTANT name1   \* the last component of a URL

\* Every URL has the same last component.
SameBase == [u \in Urls |-> name1]

\* An absolute path: a fragment's has six components, a site resource's four.
OptCache == <<"", "opt", "cache">>

\* Clients ask for the segments, or for a site resource that has the size of a
\* fragment, or for an ordinary one and an empty one; the node is restarted while
\* they ask for site resources.
SegmentOrSites ==
    {[ask |-> Segs, restarts |-> 0],
     [ask |-> FragmentSized, restarts |-> 1],
     [ask |-> Urls \ FragmentSized, restarts |-> 1]}

=============================================================================
