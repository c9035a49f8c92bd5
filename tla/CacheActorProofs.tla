-------------------------- MODULE CacheActorProofs --------------------------
(***************************************************************************)
(* Proofs about CacheActor, for any finite file and set of URLs and any    *)
(* bounds: its two invariants.                                             *)
(***************************************************************************)
EXTENDS CacheActor, FiniteSetTheorems, FunctionTheorems, TLAPS

CallbackStates == {"no", "get", "put"}

TypeOK ==
    /\ cache \in [CacheKeys -> Paths \cup {None}]
    /\ DOMAIN disk = Paths
    /\ adding \in [key : CacheKeys \cup {None}, at : CallbackStates, val : Nat]
    /\ adding.at # "no" => adding.key \in CacheKeys
    /\ dropping \in [CacheKeys -> [at : CallbackStates, val : Nat]]
    /\ fragRec \in [RecordKeys -> Nat]

\* The items of directory d that were dropped and whose callback is not through.
Drops(d) == {k \in CacheKeys : dropping[k].at # "no" /\ Dir(k) = d}

\* What the record of d has to stand for, and the addition still to be counted.
Load(d) == Cardinality(Cached(d)) + Cardinality(Drops(d))
Pending(d) == IF adding.at # "no" /\ Dir(adding.key) = d THEN 1 ELSE 0

\* An undisturbed record stands for every item and every item on its way out, but
\* for the addition in progress; so does a count that a delete callback has read,
\* and the count an add callback has read is that of the record.
CountInv ==
    \A d \in Dirs \ disturbed :
        /\ Load(d) <= fragRec[Slash(d)] + Pending(d)
        /\ adding.at = "put" /\ Dir(adding.key) = d =>
              /\ adding.val = fragRec[Slash(d)]
              /\ \A k \in CacheKeys : Dir(k) = d => dropping[k].at # "put"
        /\ \A k \in CacheKeys : Dir(k) = d /\ dropping[k].at = "put" =>
              Load(d) <= dropping[k].val + Pending(d)

IInv == TypeOK /\ CountInv /\ RestoredSitesServable

-----------------------------------------------------------------------------
(* Keys and record keys. *)

\* A set onto which a finite set can be mapped is finite and not larger.
LEMMA Covered ==
    ASSUME NEW S, IsFiniteSet(S), NEW T, NEW F \in [S -> T],
           \A t \in T : \E x \in S : F[x] = t
    PROVE  IsFiniteSet(T) /\ Cardinality(T) <= Cardinality(S)
<1>1. F \in Surjection(S, T)
  BY Fun_IsSurj
<1> QED
  BY <1>1, FS_Surjection

\* There are finitely many keys.
LEMMA KeysFinite == IsFiniteSet(CacheKeys)
<1>1. IsFiniteSet(FragKeys)
  <2> DEFINE S == Segs \X (1 .. FragmentNum)
             F == [x \in S |-> FragKey(x[1], x[2])]
  <2>1. IsFiniteSet(1 .. FragmentNum)
    BY CacheActorAssumption, FS_Interval
  <2>2. IsFiniteSet(S)
    BY <2>1, CacheActorAssumption, FS_Product
  <2>3. F \in [S -> FragKeys]
    BY DEF FragKeys
  <2>4. ASSUME NEW t \in FragKeys PROVE \E x \in S : F[x] = t
    <3>1. PICK s \in Segs, k \in 1 .. FragmentNum : t = FragKey(s, k)
      BY DEF FragKeys
    <3>2. <<s, k>> \in S /\ F[<<s, k>>] = t
      BY <3>1
    <3> QED
      BY <3>2
  <2> HIDE DEF S, F
  <2> QED
    BY <2>2, <2>3, <2>4, Covered
<1>2. IsFiniteSet(SiteKeys)
  <2> DEFINE F == [u \in Urls |-> SiteKey(u)]
  <2>1. F \in [Urls -> SiteKeys] /\ \A t \in SiteKeys : \E u \in Urls : F[u] = t
    BY DEF SiteKeys
  <2> HIDE DEF F
  <2> QED
    BY <2>1, CacheActorAssumption, Covered
<1>3. IsFiniteSet(Paths)
  BY <1>1, <1>2, FS_Union DEF Paths
<1> DEFINE L == {x \in Paths : Long(x)}
           T == {Reversed(p) : p \in L}
           F == [p \in L |-> Reversed(p)]
<1>4. F \in [L -> T] /\ \A t \in T : \E p \in L : F[p] = t
  OBVIOUS
<1>5. CacheKeys = Paths \cup T
  BY DEF CacheKeys
<1>6. L \in SUBSET Paths
  OBVIOUS
<1> HIDE DEF L, F, T
<1>7. IsFiniteSet(T)
  BY <1>3, <1>4, <1>6, FS_Subset, Covered
<1> QED
  BY <1>3, <1>5, <1>7, FS_Union

\* The items of a directory, and those on their way out, are finitely many.
LEMMA LoadFinite ==
    \A d : /\ IsFiniteSet(Cached(d)) /\ Cardinality(Cached(d)) \in Nat
           /\ IsFiniteSet(Drops(d)) /\ Cardinality(Drops(d)) \in Nat
           /\ Load(d) \in Nat
<1> SUFFICES ASSUME NEW d
             PROVE  /\ IsFiniteSet(Cached(d)) /\ Cardinality(Cached(d)) \in Nat
                    /\ IsFiniteSet(Drops(d)) /\ Cardinality(Drops(d)) \in Nat
                    /\ Load(d) \in Nat
  OBVIOUS
<1>1. Cached(d) \in SUBSET CacheKeys /\ Drops(d) \in SUBSET CacheKeys
  BY DEF Cached, Drops
<1> QED
  BY <1>1, KeysFinite, FS_Subset, FS_CardinalityType DEF Load

\* The record of a directory, and that two directories have two.
LEMMA RecordOf ==
    /\ \A k \in CacheKeys : Dir(k) \in Dirs
    /\ \A d \in Dirs : Slash(d) \in RecordKeys /\ Slash(d)[1] = "slash" /\ Slash(d)[2] = d
    /\ \A d, e : Slash(d) = Slash(e) => d = e
<1>1. \A k \in CacheKeys : Dir(k) \in Dirs
  BY DEF Dirs
<1>2. \A d \in Dirs : Slash(d) \in RecordKeys
  BY DEF RecordKeys
<1>3. \A d : Slash(d)[1] = "slash" /\ Slash(d)[2] = d
  BY DEF Slash
<1> QED
  BY <1>1, <1>2, <1>3

\* The key of a site has one component, a fragment's and a reversed one three.
LEMMA SiteKeysApart ==
    ASSUME NEW k \in SiteKeys
    PROVE  /\ k \in Paths /\ k \in CacheKeys /\ k # None /\ k \notin FragKeys
           /\ <<k[Len(k)]>> = k
           /\ \A p : Reversed(p) # k
<1>1. PICK u \in Urls : k = <<Base[u]>>
  BY DEF SiteKeys, SiteKey
<1>2. Len(k) = 1
  BY <1>1
<1>3. ASSUME NEW p PROVE Reversed(p) # k
  <2>1. Len(Reversed(p)) = 3
    BY DEF Reversed
  <2> QED
    BY <1>2, <2>1
<1>4. ASSUME NEW p \in FragKeys PROVE p # k
  <2>1. PICK s \in Segs, n \in 1 .. FragmentNum : p = <<File, s, n>>
    BY DEF FragKeys, FragKey
  <2>2. Len(p) = 3
    BY <2>1
  <2> QED
    BY <1>2, <2>2
<1>5. k \in CacheKeys
  BY DEF CacheKeys, Paths
<1> QED
  BY <1>1, <1>3, <1>4, <1>5, NoneAssumption DEF Paths

-----------------------------------------------------------------------------
(* Counts. *)

\* A finite set that gains at most one element grows by at most one.
LEMMA GrowsByOne ==
    ASSUME NEW S, IsFiniteSet(S), NEW x, NEW T, T \subseteq S \cup {x}
    PROVE  IsFiniteSet(T) /\ Cardinality(T) <= Cardinality(S) + 1
<1>1. IsFiniteSet(S \cup {x}) /\ Cardinality(S \cup {x}) <= Cardinality(S) + 1
  <2>1. Cardinality(S) \in Nat
    BY FS_CardinalityType
  <2>2. /\ IsFiniteSet(S \cup {x})
        /\ Cardinality(S \cup {x}) = IF x \in S THEN Cardinality(S) ELSE Cardinality(S) + 1
    BY FS_AddElement
  <2> QED
    BY <2>1, <2>2
<1>2. IsFiniteSet(T) /\ Cardinality(T) <= Cardinality(S \cup {x})
  BY <1>1, FS_Subset
<1>3. Cardinality(T) \in Nat /\ Cardinality(S) \in Nat /\ Cardinality(S \cup {x}) \in Nat
  BY <1>1, <1>2, FS_CardinalityType
<1> QED
  BY <1>1, <1>2, <1>3

\* A finite set that loses an element shrinks by one.
LEMMA ShrinksByOne ==
    ASSUME NEW S, IsFiniteSet(S), NEW x \in S
    PROVE  /\ IsFiniteSet(S \ {x})
           /\ Cardinality(S \ {x}) = Cardinality(S) - 1
           /\ Cardinality(S) > 0
<1>1. IsFiniteSet(S \ {x}) /\ Cardinality(S \ {x}) = Cardinality(S) - 1
  BY FS_RemoveElement
<1>2. Cardinality(S) \in Nat /\ Cardinality(S \ {x}) \in Nat
  BY <1>1, FS_CardinalityType
<1> QED
  BY <1>1, <1>2

\* What CountInv says of one directory.
Counts(d) ==
    /\ Load(d) <= fragRec[Slash(d)] + Pending(d)
    /\ adding.at = "put" /\ Dir(adding.key) = d =>
          /\ adding.val = fragRec[Slash(d)]
          /\ \A k \in CacheKeys : Dir(k) = d => dropping[k].at # "put"
    /\ \A k \in CacheKeys : Dir(k) = d /\ dropping[k].at = "put" =>
          Load(d) <= dropping[k].val + Pending(d)

\* Every directory that is undisturbed is counted, and its record is a number.
LEMMA CountsOf ==
    ASSUME TypeOK, CountInv, NEW d \in Dirs \ disturbed
    PROVE  /\ Counts(d) /\ fragRec[Slash(d)] \in Nat
           /\ Pending(d) \in {0, 1} /\ Load(d) \in Nat
           /\ \A k \in CacheKeys : dropping[k].val \in Nat
<1>1. Counts(d)
  BY DEF CountInv, Counts
<1>2. fragRec[Slash(d)] \in Nat /\ \A k \in CacheKeys : dropping[k].val \in Nat
  BY RecordOf DEF TypeOK
<1> QED
  BY <1>1, <1>2, LoadFinite DEF Pending

\* A directory whose items, callbacks and record a step leaves alone.
LEMMA CountsElsewhere ==
    ASSUME NEW d, Counts(d),
           Cached(d)' = Cached(d), Drops(d)' = Drops(d),
           fragRec'[Slash(d)] = fragRec[Slash(d)],
           \A k \in CacheKeys : Dir(k) = d => dropping'[k] = dropping[k],
           \/ adding' = adding
           \/ /\ adding.at = "no" \/ Dir(adding.key) # d
              /\ adding'.at = "no" \/ Dir(adding'.key) # d
    PROVE  Counts(d)'
<1>1. Load(d)' = Load(d)
  BY DEF Load
<1>2. Pending(d)' = Pending(d)
  BY DEF Pending
<1> QED
  BY <1>1, <1>2 DEF Counts

\* An item is added, again or for the first time.
LEMMA AddsItem ==
    ASSUME TypeOK, CountInv, NEW key \in CacheKeys, NEW path \in Paths, AddItem(key, path)
    PROVE  CountInv' /\ cache' \in [CacheKeys -> Paths \cup {None}]
<1>1. /\ adding.at = "no" /\ adding' = [key |-> key, at |-> "get", val |-> 0]
      /\ cache' = [cache EXCEPT ![key] = path]
      /\ dropping' = dropping /\ fragRec' = fragRec /\ disturbed' = disturbed
  BY DEF AddItem
<1>2. /\ cache' \in [CacheKeys -> Paths \cup {None}]
      /\ \A k \in CacheKeys : k # key => cache'[k] = cache[k]
  BY <1>1 DEF TypeOK
<1>3. ASSUME NEW d \in Dirs \ disturbed PROVE Counts(d)'
  <2>1. Drops(d)' = Drops(d)
    BY <1>1 DEF Drops
  <2>2. Counts(d) /\ Load(d) \in Nat /\ fragRec[Slash(d)] \in Nat
        /\ \A k \in CacheKeys : dropping[k].val \in Nat
    BY CountsOf
  <2>3. CASE Dir(key) # d
    <3>1. Cached(d)' = Cached(d)
      BY <1>2, <2>3 DEF Cached
    <3> QED
      BY <1>1, <2>1, <2>2, <2>3, <3>1, CountsElsewhere
  <2>4. CASE Dir(key) = d
    <3>1. Cached(d)' \subseteq Cached(d) \cup {key}
      BY <1>2 DEF Cached
    <3>2. Cardinality(Cached(d)') <= Cardinality(Cached(d)) + 1
          /\ IsFiniteSet(Cached(d)')
      BY <3>1, LoadFinite, GrowsByOne
    <3>3. Cardinality(Cached(d)') \in Nat
      BY <3>2, FS_CardinalityType
    <3>4. Load(d)' <= Load(d) + 1 /\ Load(d)' \in Nat
      BY <2>1, <3>2, <3>3, LoadFinite DEF Load
    <3>5. Pending(d) = 0 /\ Pending(d)' = 1
      BY <1>1, <2>4 DEF Pending
    <3>6. Load(d) <= fragRec[Slash(d)]
          /\ \A k \in CacheKeys : Dir(k) = d /\ dropping[k].at = "put" =>
                Load(d) <= dropping[k].val
      BY <2>2, <3>5 DEF Counts
    <3>7. Load(d)' <= fragRec'[Slash(d)] + Pending(d)'
      BY <1>1, <2>2, <3>4, <3>5, <3>6
    <3>8. \A k \in CacheKeys : Dir(k) = d /\ dropping'[k].at = "put" =>
                Load(d)' <= dropping'[k].val + Pending(d)'
      BY <1>1, <2>2, <3>4, <3>5, <3>6
    <3>9. adding'.at # "put"
      BY <1>1
    <3> QED
      BY <3>7, <3>8, <3>9 DEF Counts
  <2> QED
    BY <2>3, <2>4
<1> QED
  BY <1>1, <1>2, <1>3 DEF CountInv, Counts

\* The add callback reads the count: nothing else has one in its hands then, or
\* the directory is disturbed.
LEMMA AddGetCounts ==
    ASSUME TypeOK, CountInv, AddGet PROVE CountInv'
<1> DEFINE e == Dir(adding.key)
<1>1. /\ adding.at = "get"
      /\ adding' = [adding EXCEPT !.at = "put", !.val = fragRec[Slash(e)]]
      /\ disturbed' = IF \E k \in CacheKeys : dropping[k].at = "put" /\ Dir(k) = e
                      THEN disturbed \cup {e} ELSE disturbed
      /\ cache' = cache /\ dropping' = dropping /\ fragRec' = fragRec
  BY DEF AddGet, files
<1>2. adding'.at = "put" /\ adding'.key = adding.key /\ adding'.val = fragRec[Slash(e)]
  BY <1>1 DEF TypeOK
<1>3. ASSUME NEW d \in Dirs \ disturbed' PROVE Counts(d)'
  <2>1. Cached(d)' = Cached(d) /\ Drops(d)' = Drops(d)
    BY <1>1 DEF Cached, Drops
  <2>2. Load(d)' = Load(d) /\ Pending(d)' = Pending(d)
    BY <1>1, <1>2, <2>1 DEF Load, Pending
  <2>3. d \in Dirs \ disturbed
    BY <1>1
  <2>4. Counts(d)
    BY <2>3, CountsOf
  <2>5. d = e => \A k \in CacheKeys : Dir(k) = d => dropping[k].at # "put"
    BY <1>1
  <2> QED
    BY <1>1, <1>2, <2>2, <2>4, <2>5 DEF Counts
<1> QED
  BY <1>3 DEF CountInv, Counts

\* The add callback writes the count it has read, which is the record's, plus one.
LEMMA AddPutCounts ==
    ASSUME TypeOK, CountInv, AddPut PROVE CountInv' /\ fragRec' \in [RecordKeys -> Nat]
<1> DEFINE e == Dir(adding.key)
<1>1. /\ adding.at = "put" /\ adding' = NoAdd
      /\ fragRec' = [fragRec EXCEPT ![Slash(e)] = adding.val + 1]
      /\ cache' = cache /\ dropping' = dropping /\ disturbed' = disturbed
  BY DEF AddPut, AddEnds, Added, files
<1>2. e \in Dirs /\ Slash(e) \in RecordKeys /\ adding.val \in Nat
  BY <1>1, RecordOf DEF TypeOK
<1>3. /\ fragRec' \in [RecordKeys -> Nat]
      /\ fragRec'[Slash(e)] = adding.val + 1
      /\ \A r \in RecordKeys : r # Slash(e) => fragRec'[r] = fragRec[r]
  BY <1>1, <1>2 DEF TypeOK
<1>4. adding'.at = "no"
  BY <1>1 DEF NoAdd
<1>5. ASSUME NEW d \in Dirs \ disturbed PROVE Counts(d)'
  <2>1. Cached(d)' = Cached(d) /\ Drops(d)' = Drops(d) /\ Load(d)' = Load(d)
    BY <1>1 DEF Cached, Drops, Load
  <2>2. Counts(d) /\ Load(d) \in Nat /\ fragRec[Slash(d)] \in Nat
    BY CountsOf
  <2>3. CASE d # e
    <3>1. fragRec'[Slash(d)] = fragRec[Slash(d)]
      BY <1>3, <2>3, RecordOf
    <3> QED
      BY <1>1, <1>4, <2>1, <2>2, <2>3, <3>1, CountsElsewhere
  <2>4. CASE d = e
    <3>1. Pending(d) = 1 /\ Pending(d)' = 0
      BY <1>1, <1>4, <2>4 DEF Pending
    <3>2. /\ Load(d) <= fragRec[Slash(d)] + 1
          /\ adding.val = fragRec[Slash(d)]
          /\ \A k \in CacheKeys : Dir(k) = d => dropping[k].at # "put"
      BY <1>1, <2>2, <2>4, <3>1 DEF Counts
    <3>3. Load(d)' <= fragRec'[Slash(d)] + Pending(d)'
      BY <1>2, <1>3, <2>1, <2>2, <2>4, <3>1, <3>2
    <3> QED
      BY <1>1, <1>4, <3>2, <3>3 DEF Counts
  <2> QED
    BY <2>3, <2>4
<1> QED
  BY <1>1, <1>3, <1>5 DEF CountInv, Counts

\* An addition that is not counted disturbs its directory.
LEMMA AddFailsCounts ==
    ASSUME TypeOK, CountInv, AddFails PROVE CountInv'
<1>1. /\ adding.at # "no" /\ adding' = NoAdd
      /\ disturbed' = disturbed \cup {Dir(adding.key)}
      /\ cache' = cache /\ dropping' = dropping /\ fragRec' = fragRec
  BY DEF AddFails, AddEnds, files
<1>2. adding'.at = "no"
  BY <1>1 DEF NoAdd
<1>3. ASSUME NEW d \in Dirs \ disturbed' PROVE Counts(d)'
  <2>1. Cached(d)' = Cached(d) /\ Drops(d)' = Drops(d)
    BY <1>1 DEF Cached, Drops
  <2>2. Counts(d) /\ d # Dir(adding.key)
    BY <1>1, CountsOf
  <2> QED
    BY <1>1, <1>2, <2>1, <2>2, CountsElsewhere
<1> QED
  BY <1>3 DEF CountInv, Counts

\* An item is dropped: its callback takes its place.
LEMMA ExpireCounts ==
    ASSUME TypeOK, CountInv, NEW key \in CacheKeys, Expire(key)
    PROVE  /\ CountInv'
           /\ cache' \in [CacheKeys -> Paths \cup {None}]
           /\ dropping' \in [CacheKeys -> [at : CallbackStates, val : Nat]]
<1>1. /\ cache[key] # None /\ dropping[key].at = "no"
      /\ cache' = [cache EXCEPT ![key] = None]
      /\ dropping' = [dropping EXCEPT ![key] = [at |-> "get", val |-> 0]]
      /\ adding' = adding /\ fragRec' = fragRec /\ disturbed' = disturbed
  BY DEF Expire
<1>2. /\ cache' \in [CacheKeys -> Paths \cup {None}] /\ cache'[key] = None
      /\ \A k \in CacheKeys : k # key => cache'[k] = cache[k]
  BY <1>1 DEF TypeOK
<1>3. /\ dropping' \in [CacheKeys -> [at : CallbackStates, val : Nat]]
      /\ dropping'[key].at = "get"
      /\ \A k \in CacheKeys : k # key => dropping'[k] = dropping[k]
  BY <1>1 DEF TypeOK, CallbackStates
<1>4. ASSUME NEW d \in Dirs \ disturbed PROVE Counts(d)'
  <2>1. Counts(d)
    BY CountsOf
  <2>2. CASE Dir(key) # d
    <3>1. Cached(d)' = Cached(d) /\ Drops(d)' = Drops(d)
      BY <1>2, <1>3, <2>2 DEF Cached, Drops
    <3> QED
      BY <1>1, <1>3, <2>1, <2>2, <3>1, CountsElsewhere
  <2>3. CASE Dir(key) = d
    <3>1. key \in Cached(d) /\ Cached(d)' = Cached(d) \ {key}
      BY <1>1, <1>2, <2>3 DEF Cached
    <3>2. Drops(d)' \subseteq Drops(d) \cup {key}
      BY <1>3 DEF Drops
    <3>3. /\ IsFiniteSet(Cached(d)') /\ Cardinality(Cached(d)') = Cardinality(Cached(d)) - 1
          /\ IsFiniteSet(Drops(d)') /\ Cardinality(Drops(d)') <= Cardinality(Drops(d)) + 1
      BY <3>1, <3>2, LoadFinite, ShrinksByOne, GrowsByOne
    <3>4. Cardinality(Cached(d)') \in Nat /\ Cardinality(Drops(d)') \in Nat
      BY <3>3, FS_CardinalityType
    <3>5. Load(d)' <= Load(d) /\ Load(d)' \in Nat
      BY <3>3, <3>4, LoadFinite DEF Load
    <3>6. Pending(d)' = Pending(d) /\ Pending(d) \in {0, 1}
      BY <1>1 DEF Pending
    <3>7. /\ fragRec[Slash(d)] \in Nat /\ Load(d) \in Nat
          /\ \A k \in CacheKeys : dropping[k].val \in Nat
      BY CountsOf
    <3>8. Load(d)' <= fragRec'[Slash(d)] + Pending(d)'
      BY <1>1, <2>1, <3>5, <3>6, <3>7 DEF Counts
    <3>9. ASSUME NEW k \in CacheKeys, Dir(k) = d, dropping'[k].at = "put"
          PROVE  k # key /\ Load(d)' <= dropping'[k].val + Pending(d)'
      BY <1>3, <2>1, <3>5, <3>6, <3>7, <3>9 DEF Counts
    <3>10. adding'.at = "put" /\ Dir(adding'.key) = d =>
              /\ adding'.val = fragRec'[Slash(d)]
              /\ \A k \in CacheKeys : Dir(k) = d => dropping'[k].at # "put"
      BY <1>1, <1>3, <2>1 DEF Counts
    <3> QED
      BY <3>8, <3>9, <3>10 DEF Counts
  <2> QED
    BY <2>2, <2>3
<1> QED
  BY <1>1, <1>2, <1>3, <1>4 DEF CountInv, Counts

\* A delete callback reads the count: no add callback has one in its hands then,
\* or the directory is disturbed.
LEMMA DropGetCounts ==
    ASSUME TypeOK, CountInv, NEW key \in CacheKeys, DropGet(key)
    PROVE  CountInv' /\ dropping' \in [CacheKeys -> [at : CallbackStates, val : Nat]]
<1> DEFINE e == Dir(key)
<1>1. /\ dropping[key].at = "get"
      /\ dropping' = [dropping EXCEPT ![key] = [at |-> "put", val |-> fragRec[Slash(e)]]]
      /\ disturbed' = IF adding.at = "put" /\ Dir(adding.key) = e
                      THEN disturbed \cup {e} ELSE disturbed
      /\ cache' = cache /\ adding' = adding /\ fragRec' = fragRec
  BY DEF DropGet, files
<1>2. fragRec[Slash(e)] \in Nat
  BY RecordOf DEF TypeOK
<1>3. /\ dropping' \in [CacheKeys -> [at : CallbackStates, val : Nat]]
      /\ dropping'[key].at = "put" /\ dropping'[key].val = fragRec[Slash(e)]
      /\ \A k \in CacheKeys : k # key => dropping'[k] = dropping[k]
  BY <1>1, <1>2 DEF TypeOK, CallbackStates
<1>4. ASSUME NEW d \in Dirs \ disturbed' PROVE Counts(d)'
  <2>1. d \in Dirs \ disturbed
    BY <1>1
  <2>2. Counts(d)
    BY <2>1, CountsOf
  <2>3. Cached(d)' = Cached(d) /\ Drops(d)' = Drops(d)
    BY <1>1, <1>3 DEF Cached, Drops
  <2>4. Load(d)' = Load(d) /\ Pending(d)' = Pending(d)
    BY <1>1, <2>3 DEF Load, Pending
  <2>5. ~(d = e /\ adding.at = "put" /\ Dir(adding.key) = d)
    BY <1>1
  <2>6. \A k \in CacheKeys : Dir(k) = d /\ dropping'[k].at = "put" =>
              Load(d)' <= dropping'[k].val + Pending(d)'
    BY <1>3, <2>2, <2>4 DEF Counts
  <2>7. adding'.at = "put" /\ Dir(adding'.key) = d =>
              /\ adding'.val = fragRec'[Slash(d)]
              /\ \A k \in CacheKeys : Dir(k) = d => dropping'[k].at # "put"
    BY <1>1, <1>3, <2>2, <2>5 DEF Counts
  <2> QED
    BY <1>1, <2>2, <2>4, <2>6, <2>7 DEF Counts
<1> QED
  BY <1>3, <1>4 DEF CountInv, Counts

\* A delete callback ends, with the record written or not.
LEMMA DropEndsCounts ==
    ASSUME TypeOK, CountInv, NEW key \in CacheKeys, DropPut(key) \/ DropFails(key)
    PROVE  /\ CountInv'
           /\ dropping' \in [CacheKeys -> [at : CallbackStates, val : Nat]]
           /\ fragRec' \in [RecordKeys -> Nat]
<1> DEFINE e == Dir(key)
<1>1. /\ dropping[key].at # "no"
      /\ dropping' = [dropping EXCEPT ![key] = NoCallback]
      /\ cache' = cache /\ adding' = adding /\ disturbed' = disturbed
  BY DEF DropPut, DropFails, files
<1>2. /\ dropping' \in [CacheKeys -> [at : CallbackStates, val : Nat]]
      /\ dropping'[key].at = "no"
      /\ \A k \in CacheKeys : k # key => dropping'[k] = dropping[k]
  BY <1>1 DEF TypeOK, NoCallback, CallbackStates
<1>3. e \in Dirs /\ Slash(e) \in RecordKeys /\ dropping[key].val \in Nat
  BY RecordOf DEF TypeOK
<1>4. \/ /\ dropping[key].at = "put"
         /\ fragRec' = [fragRec EXCEPT ![Slash(e)] = Removed(dropping[key].val)]
      \/ fragRec' = fragRec
  BY DEF DropPut, DropFails
<1>5. Removed(dropping[key].val) \in Nat
  BY <1>3 DEF Removed
<1>6. /\ fragRec' \in [RecordKeys -> Nat]
      /\ \A r \in RecordKeys : r # Slash(e) => fragRec'[r] = fragRec[r]
      /\ \/ dropping[key].at = "put" /\ fragRec'[Slash(e)] = Removed(dropping[key].val)
         \/ fragRec'[Slash(e)] = fragRec[Slash(e)]
  BY <1>3, <1>4, <1>5 DEF TypeOK
<1>7. ASSUME NEW d \in Dirs \ disturbed PROVE Counts(d)'
  <2>1. /\ Counts(d) /\ fragRec[Slash(d)] \in Nat /\ Pending(d) \in {0, 1}
        /\ Load(d) \in Nat /\ \A k \in CacheKeys : dropping[k].val \in Nat
    BY CountsOf
  <2>2. Cached(d)' = Cached(d)
    BY <1>1 DEF Cached
  <2>3. CASE d # e
    <3>1. Drops(d)' = Drops(d)
      BY <1>2, <2>3 DEF Drops
    <3>2. fragRec'[Slash(d)] = fragRec[Slash(d)]
      BY <1>6, <2>3, RecordOf
    <3> QED
      BY <1>1, <1>2, <2>1, <2>2, <2>3, <3>1, <3>2, CountsElsewhere
  <2>4. CASE d = e
    <3>1. key \in Drops(d) /\ Drops(d)' = Drops(d) \ {key}
      BY <1>1, <1>2, <2>4 DEF Drops
    <3>2. Cardinality(Drops(d)') = Cardinality(Drops(d)) - 1 /\ Cardinality(Drops(d)) > 0
      BY <3>1, LoadFinite, ShrinksByOne
    <3>3. Load(d)' = Load(d) - 1 /\ Load(d) > 0
      BY <2>2, <3>2, LoadFinite DEF Load
    <3>4. Pending(d)' = Pending(d)
      BY <1>1 DEF Pending
    <3>5. Load(d)' <= fragRec'[Slash(d)] + Pending(d)'
      <4>1. CASE dropping[key].at = "put" /\ fragRec'[Slash(e)] = Removed(dropping[key].val)
        <5>1. Load(d) <= dropping[key].val + Pending(d)
          BY <2>1, <2>4, <4>1 DEF Counts
        <5> QED
          BY <1>3, <2>1, <2>4, <3>3, <3>4, <4>1, <5>1 DEF Removed
      <4>2. CASE fragRec'[Slash(e)] = fragRec[Slash(e)]
        <5>1. Load(d) <= fragRec[Slash(d)] + Pending(d)
          BY <2>1 DEF Counts
        <5> QED
          BY <2>1, <2>4, <3>3, <3>4, <4>2, <5>1
      <4> QED
        BY <1>6, <4>1, <4>2
    <3>6. \A k \in CacheKeys : Dir(k) = d /\ dropping'[k].at = "put" =>
                Load(d)' <= dropping'[k].val + Pending(d)'
      <4> SUFFICES ASSUME NEW k \in CacheKeys, Dir(k) = d, dropping'[k].at = "put"
                   PROVE  Load(d)' <= dropping'[k].val + Pending(d)'
        OBVIOUS
      <4>1. dropping'[k] = dropping[k]
        BY <1>2
      <4>2. Load(d) <= dropping[k].val + Pending(d)
        BY <2>1, <4>1 DEF Counts
      <4> QED
        BY <2>1, <3>3, <3>4, <4>1, <4>2
    <3>7. ASSUME adding'.at = "put", Dir(adding'.key) = d
          PROVE  /\ adding'.val = fragRec'[Slash(d)]
                 /\ \A k \in CacheKeys : Dir(k) = d => dropping'[k].at # "put"
      <4>1. /\ adding.val = fragRec[Slash(d)]
            /\ \A k \in CacheKeys : Dir(k) = d => dropping[k].at # "put"
        BY <1>1, <2>1, <3>7 DEF Counts
      <4> QED
        BY <1>1, <1>2, <1>6, <2>4, <4>1
    <3> QED
      BY <3>5, <3>6, <3>7 DEF Counts
  <2> QED
    BY <2>3, <2>4
<1> QED
  BY <1>1, <1>2, <1>6, <1>7 DEF CountInv, Counts

\* The cache is empty and no callback runs.
Clean ==
    /\ cache = [k \in CacheKeys |-> None]
    /\ adding = NoAdd
    /\ dropping = [k \in CacheKeys |-> NoCallback]
    /\ fragRec \in [RecordKeys -> Nat]
    /\ DOMAIN disk = Paths

\* An empty cache without callbacks is not undercounted, whatever the records say.
LEMMA Emptied == Clean => TypeOK /\ CountInv
<1> SUFFICES ASSUME Clean PROVE TypeOK /\ CountInv
  OBVIOUS
<1> USE DEF Clean
<1>1. adding.at = "no" /\ \A k \in CacheKeys : dropping[k].at = "no"
  BY DEF NoAdd, NoCallback
<1>2. TypeOK
  BY <1>1 DEF TypeOK, NoAdd, NoCallback, CallbackStates
<1>3. \A d : Cached(d) = {} /\ Drops(d) = {}
  BY <1>1 DEF Cached, Drops
<1>4. \A d : Load(d) = 0 /\ Pending(d) = 0
  <2> SUFFICES ASSUME NEW d PROVE Load(d) = 0 /\ Pending(d) = 0
    OBVIOUS
  <2>1. Cardinality({}) = 0
    BY FS_EmptySet
  <2>2. Load(d) = 0
    BY <1>3, <2>1 DEF Load
  <2> QED
    BY <1>1, <2>2 DEF Pending
<1>5. \A d \in Dirs : fragRec[Slash(d)] \in Nat
  BY RecordOf
<1> QED
  BY <1>1, <1>2, <1>4, <1>5 DEF CountInv

-----------------------------------------------------------------------------
(* The invariant. *)

\* A step that leaves the cache, its files, counts and callbacks alone, and does
\* not start the process.
Idle ==
    /\ UNCHANGED <<cache, disk, adding, dropping, fragRec, disturbed>>
    /\ walk' = walk
    /\ life' # "down" => life # "down"

\* Every step is idle, stops or starts the node, or is one of the walk, of a move
\* or of a callback.
LEMMA StepKinds ==
    ASSUME [Next]_vars
    PROVE  \/ Idle \/ Stopped \/ Restore
           \/ \E p \in Paths : RestoreFile(p)
           \/ AddGet \/ AddPut \/ AddFails
           \/ \E key \in FragKeys : MoveFile(key)
           \/ \E u \in Urls : ReceiveSite(u)
           \/ \E key \in CacheKeys : Drop(key)
<1>1. CASE Crash \/ RestoreFails
  BY <1>1 DEF Crash, RestoreFails
<1>2. CASE Start
  BY <1>2 DEF Start, RunDownloadServer, Idle, files, counts
<1>3. CASE Serve
  <2>1. ASSUME NEW h \in Handlers, NEW src \in asked, Query(h, src)
        PROVE  Idle \/ Stopped
    BY <2>1 DEF Query, Idle, files, counts
  <2>2. ASSUME NEW h \in Handlers, NEW admitted \in BOOLEAN, QueryCacheResource(h, admitted)
        PROVE  Idle \/ Stopped
    BY <2>2 DEF QueryCacheResource, Idle, files, counts
  <2> QED
    BY <1>3, <2>1, <2>2 DEF Serve
<1>4. ASSUME NEW t \in Threads, StoreAndSend(t) PROVE Idle
  BY <1>4 DEF StoreAndSend, Idle, files, counts
<1>5. ASSUME NEW t \in Threads, NEW q \in QueueKeys, Visit(t, q) PROVE Idle
  BY <1>5 DEF Visit, Idle, files, counts
<1>6. CASE Fetch
  BY <1>6 DEF Fetch, FetchFails, FetchNode, FetchSite, Idle, files, counts
<1>7. CASE Receive
  <2>1. ASSUME NEW src \in Segs, ReceiveNode(src) PROVE Idle
    BY <2>1 DEF ReceiveNode, Idle, files, counts
  <2>2. ASSUME NEW u \in Urls, ReceiveSiteFails(u) PROVE Idle
    BY <2>2 DEF ReceiveSiteFails, Idle, files, counts
  <2>3. ASSUME NEW key \in FragKeys, MoveFails(key) PROVE Idle
    BY <2>3 DEF MoveFails, Idle, files, counts
  <2> QED
    BY <1>7, <2>1, <2>2, <2>3 DEF Receive
<1>8. CASE UNCHANGED vars
  BY <1>8 DEF vars, Idle, files, counts
<1> QED
  BY <1>1, <1>2, <1>3, <1>4, <1>5, <1>6, <1>7, <1>8 DEF Next, Count

\* Adding an item keeps the types.
LEMMA AddItemTypes ==
    ASSUME TypeOK, CountInv, NEW key \in CacheKeys, NEW path \in Paths, AddItem(key, path),
           DOMAIN disk' = Paths
    PROVE  TypeOK' /\ CountInv'
<1>1. CountInv' /\ cache' \in [CacheKeys -> Paths \cup {None}]
  BY AddsItem
<1>2. adding' = [key |-> key, at |-> "get", val |-> 0]
      /\ dropping' = dropping /\ fragRec' = fragRec
  BY DEF AddItem
<1>3. /\ adding' \in [key : CacheKeys \cup {None}, at : CallbackStates, val : Nat]
      /\ adding'.key \in CacheKeys
  BY <1>2 DEF CallbackStates
<1> QED
  BY <1>1, <1>2, <1>3 DEF TypeOK

\* The walk takes an ordinary site resource up under its own path, and no other
\* file under such a key.
LEMMA RestoredKeys ==
    ASSUME NEW p \in Paths
    PROVE  /\ RestoredKey(p) # None => RestoredKey(p) \in CacheKeys
           /\ RestoredKey(p) \in SiteKeys => RestoredKey(p) = p
           /\ p \in SiteKeys /\ disk[p] \in Urls \ (FragmentSized \cup Empty) =>
                 RestoredKey(p) = p /\ p # None
<1>1. CASE p \in SiteKeys
  <2>1. <<p[Len(p)]>> = p /\ p \in CacheKeys /\ p # None /\ p \notin FragKeys
    BY <1>1, SiteKeysApart
  <2>2. Long(p) => Reversed(p) \in CacheKeys
    BY DEF CacheKeys
  <2>3. Reversed(p) \notin SiteKeys
    BY SiteKeysApart
  <2>4. None \notin SiteKeys
    BY SiteKeysApart
  <2> QED
    BY <2>1, <2>2, <2>3, <2>4 DEF RestoredKey, OfFragmentSize
<1>2. CASE p \in FragKeys /\ p \notin SiteKeys
  <2>1. RestoredKey(p) = IF Long(p) THEN Reversed(p) ELSE None
    BY <1>2 DEF RestoredKey, OfFragmentSize
  <2>2. Long(p) => Reversed(p) \in CacheKeys
    BY DEF CacheKeys
  <2>3. Reversed(p) \notin SiteKeys /\ None \notin SiteKeys
    BY SiteKeysApart
  <2> QED
    BY <1>2, <2>1, <2>2, <2>3
<1> QED
  BY <1>1, <1>2 DEF Paths

\* One step keeps the invariant.
LEMMA NextIInv == IInv /\ [Next]_vars => IInv'
<1> SUFFICES ASSUME IInv, [Next]_vars PROVE IInv'
  OBVIOUS
<1> USE DEF IInv
<1>1. CASE Idle
  <2>1. TypeOK'
    BY <1>1 DEF Idle, TypeOK
  <2>2. CountInv'
    BY <1>1 DEF Idle, CountInv, Load, Pending, Cached, Drops
  <2>3. RestoredSitesServable'
    BY <1>1 DEF Idle, RestoredSitesServable
  <2> QED
    BY <2>1, <2>2, <2>3
<1>2. CASE Stopped
  <2>1. /\ cache' = [k \in CacheKeys |-> None] /\ adding' = NoAdd
        /\ dropping' = [k \in CacheKeys |-> NoCallback]
        /\ fragRec' = fragRec /\ disk' = disk /\ life' = "down"
    BY <1>2 DEF Stopped
  <2>2. Clean'
    BY <2>1 DEF Clean, TypeOK
  <2>3. TypeOK' /\ CountInv'
    BY <2>2, Emptied, PTL
  <2> QED
    BY <2>1, <2>3 DEF RestoredSitesServable
<1>3. CASE Restore
  <2>1. /\ cache' = cache /\ disk' = disk /\ adding' = adding /\ dropping' = dropping
        /\ fragRec' = fragRec /\ disturbed' = disturbed
        /\ walk' = {p \in Paths : disk[p] # None}
    BY <1>3 DEF Restore, files, counts
  <2>2. TypeOK'
    BY <2>1 DEF TypeOK
  <2>3. CountInv'
    BY <2>1 DEF CountInv, Load, Pending, Cached, Drops
  <2>4. \A k \in SiteKeys \ walk' : disk'[k] = None
    BY <2>1, SiteKeysApart
  <2> QED
    BY <2>2, <2>3, <2>4, CacheActorAssumption DEF RestoredSitesServable
<1>4. ASSUME NEW p \in Paths, RestoreFile(p) PROVE IInv'
  <2>1. life # "down" /\ walk' = walk \ {p} /\ disk' = disk
    BY <1>4 DEF RestoreFile
  <2>2. CASE RestoredKey(p) = None /\ UNCHANGED <<cache, counts>>
    <3>1. TypeOK'
      BY <2>1, <2>2 DEF TypeOK, counts
    <3>2. CountInv'
      BY <2>2 DEF CountInv, Load, Pending, Cached, Drops, counts
    <3>3. p \in SiteKeys => disk[p] \notin Urls \ (FragmentSized \cup Empty)
      BY <2>2, RestoredKeys
    <3> QED
      BY <2>1, <2>2, <3>1, <3>2, <3>3 DEF RestoredSitesServable
  <2>3. CASE RestoredKey(p) # None /\ AddItem(RestoredKey(p), p)
    <3> DEFINE key == RestoredKey(p)
    <3>1. key \in CacheKeys
      BY <2>3, RestoredKeys
    <3>2. TypeOK' /\ CountInv'
      BY <2>1, <2>3, <3>1, AddItemTypes DEF TypeOK
    <3>3. /\ cache' = [cache EXCEPT ![key] = p]
          /\ key \in SiteKeys => key = p
          /\ p \in SiteKeys /\ disk[p] \in Urls \ (FragmentSized \cup Empty) => key = p
      BY <2>3, RestoredKeys DEF AddItem
    <3> HIDE DEF key
    <3>4. /\ cache'[key] = p
          /\ \A k \in CacheKeys : k # key => cache'[k] = cache[k]
      BY <3>1, <3>3 DEF TypeOK
    <3>5. ASSUME NEW k \in SiteKeys \ walk',
                 disk[k] \in Urls \ (FragmentSized \cup Empty)
          PROVE  cache'[k] = k
      <4>1. k \in CacheKeys
        BY SiteKeysApart
      <4>2. CASE k = p
        BY <3>3, <3>4, <3>5, <4>2
      <4>3. CASE k # p
        <5>1. k # key /\ k \notin walk
          BY <2>1, <3>3, <3>5, <4>3
        <5>2. cache[k] = k
          BY <2>1, <3>5, <5>1 DEF RestoredSitesServable
        <5> QED
          BY <3>4, <4>1, <5>1, <5>2
      <4> QED
        BY <4>2, <4>3
    <3> QED
      BY <2>1, <3>2, <3>5 DEF RestoredSitesServable
  <2> QED
    BY <1>4, <2>2, <2>3 DEF RestoreFile
<1>5. CASE AddGet
  <2>1. /\ cache' = cache /\ disk' = disk /\ dropping' = dropping /\ fragRec' = fragRec
        /\ life' = life /\ walk' = walk /\ adding.at = "get"
        /\ adding' = [adding EXCEPT !.at = "put", !.val = fragRec[Slash(Dir(adding.key))]]
    BY <1>5 DEF AddGet, files
  <2>2. adding.key \in CacheKeys /\ fragRec[Slash(Dir(adding.key))] \in Nat
    BY <2>1, RecordOf DEF TypeOK
  <2>3. TypeOK'
    BY <2>1, <2>2 DEF TypeOK, CallbackStates
  <2> QED
    BY <1>5, <2>1, <2>3, AddGetCounts DEF RestoredSitesServable
<1>6. CASE AddPut \/ AddFails
  <2>1. /\ cache' = cache /\ disk' = disk /\ dropping' = dropping
        /\ life' = life /\ walk' = walk /\ adding' = NoAdd
    BY <1>6 DEF AddPut, AddFails, AddEnds, files
  <2>2. CountInv' /\ fragRec' \in [RecordKeys -> Nat]
    <3>1. CASE AddPut
      BY <3>1, AddPutCounts
    <3>2. CASE AddFails
      BY <3>2, AddFailsCounts DEF AddFails, TypeOK
    <3> QED
      BY <1>6, <3>1, <3>2
  <2>3. TypeOK'
    BY <2>1, <2>2 DEF TypeOK, NoAdd, CallbackStates
  <2> QED
    BY <2>1, <2>2, <2>3 DEF RestoredSitesServable
<1>7. ASSUME NEW key \in FragKeys, MoveFile(key) PROVE IInv'
  <2>1. /\ AddItem(key, key) /\ disk' = [disk EXCEPT ![key] = key]
        /\ life' = life /\ walk' = walk
    BY <1>7 DEF MoveFile
  <2>2. key \in Paths /\ key \in CacheKeys
    BY DEF CacheKeys, Paths
  <2>3. TypeOK' /\ CountInv'
    BY <2>1, <2>2, AddItemTypes DEF TypeOK
  <2>4. \A k \in SiteKeys : k # key /\ cache'[k] = cache[k] /\ disk'[k] = disk[k]
    BY <2>1, SiteKeysApart DEF TypeOK, AddItem
  <2> QED
    BY <2>1, <2>3, <2>4 DEF RestoredSitesServable
<1>8. ASSUME NEW u \in Urls, ReceiveSite(u) PROVE IInv'
  <2> DEFINE key == SiteKey(u)
  <2>1. /\ AddItem(key, key) /\ disk' = [disk EXCEPT ![key] = u]
        /\ life' = life /\ walk' = walk
    BY <1>8 DEF ReceiveSite
  <2>2. key \in SiteKeys /\ key \in CacheKeys /\ key \in Paths
    BY DEF CacheKeys, Paths, SiteKeys
  <2> HIDE DEF key
  <2>3. TypeOK' /\ CountInv'
    BY <2>1, <2>2, AddItemTypes DEF TypeOK
  <2>4. \A k \in SiteKeys : k # key => cache'[k] = cache[k] /\ disk'[k] = disk[k]
    BY <2>1, SiteKeysApart DEF TypeOK, AddItem
  <2>5. cache'[key] = key
    BY <2>1, <2>2 DEF TypeOK, AddItem
  <2> QED
    BY <2>1, <2>3, <2>4, <2>5 DEF RestoredSitesServable
<1>9. ASSUME NEW key \in CacheKeys, Expire(key) PROVE IInv'
  <2>1. /\ cache[key] # None /\ cache' = [cache EXCEPT ![key] = None]
        /\ disk' = [disk EXCEPT ![cache[key]] = None]
        /\ adding' = adding /\ fragRec' = fragRec
        /\ life' = life /\ walk' = walk
    BY <1>9 DEF Expire
  <2>2. TypeOK' /\ CountInv'
    BY <1>9, <2>1, ExpireCounts DEF TypeOK
  <2>3. ASSUME NEW k \in SiteKeys \ walk, life # "down",
               disk'[k] \in Urls \ (FragmentSized \cup Empty)
        PROVE  cache'[k] = k
    <3>1. k \in CacheKeys /\ k \in Paths
      BY SiteKeysApart
    <3>2. cache[key] # k
      BY <2>1, <2>3, <3>1, CacheActorAssumption DEF TypeOK
    <3>3. disk'[k] = disk[k]
      BY <2>1, <3>1, <3>2 DEF TypeOK
    <3>4. cache[k] = k
      BY <2>3, <3>3 DEF RestoredSitesServable
    <3> QED
      BY <2>1, <3>1, <3>2, <3>4 DEF TypeOK
  <2> QED
    BY <2>1, <2>2, <2>3 DEF RestoredSitesServable
<1>10. ASSUME NEW key \in CacheKeys, DropGet(key) \/ DropPut(key) \/ DropFails(key)
       PROVE  IInv'
  <2>1. /\ cache' = cache /\ disk' = disk /\ adding' = adding
        /\ life' = life /\ walk' = walk
    BY <1>10 DEF DropGet, DropPut, DropFails, files
  <2>2. /\ CountInv'
        /\ dropping' \in [CacheKeys -> [at : CallbackStates, val : Nat]]
        /\ fragRec' \in [RecordKeys -> Nat]
    <3>1. CASE DropGet(key)
      BY <3>1, DropGetCounts DEF DropGet, TypeOK
    <3>2. CASE DropPut(key) \/ DropFails(key)
      BY <3>2, DropEndsCounts
    <3> QED
      BY <1>10, <3>1, <3>2
  <2>3. TypeOK'
    BY <2>1, <2>2 DEF TypeOK
  <2> QED
    BY <2>1, <2>2, <2>3 DEF RestoredSitesServable
<1> QED
  BY <1>1, <1>2, <1>3, <1>4, <1>5, <1>6, <1>7, <1>8, <1>9, <1>10, StepKinds DEF Drop

\* The invariant holds in every state.
THEOREM Invariance == Spec => []IInv
<1>1. Init => IInv
  <2> SUFFICES ASSUME Init PROVE IInv
    OBVIOUS
  <2>1. TypeOK /\ CountInv
    BY Emptied DEF Init, Clean
  <2> QED
    BY <2>1 DEF Init, IInv, RestoredSitesServable
<1> QED
  BY <1>1, NextIInv, PTL DEF Spec

\* Where no callback is counting, the load of a directory is its items.
LEMMA QuietCounts == IInv => NeverUndercounted
<1> SUFFICES ASSUME IInv, NEW d \in Dirs \ disturbed, Quiet(d)
             PROVE  Cardinality(Cached(d)) <= fragRec[Slash(d)]
  BY DEF NeverUndercounted
<1>1. Pending(d) = 0 /\ Drops(d) = {}
  BY DEF Pending, Drops, Quiet
<1>2. Load(d) = Cardinality(Cached(d))
  BY <1>1, LoadFinite, FS_EmptySet DEF Load
<1>3. Load(d) <= fragRec[Slash(d)] + Pending(d) /\ fragRec[Slash(d)] \in Nat
  BY CountsOf DEF IInv, Counts
<1> QED
  BY <1>1, <1>2, <1>3

\* Items that are added twice, dropped together, restored under another key or left
\* from before a crash never make the fragment record of a directory smaller than
\* the number of its items: that takes an overlap of an add and a delete callback,
\* or an addition that LevelDB did not count.
THEOREM CountsSuffice == Spec => []NeverUndercounted
<1> QED
  BY QuietCounts, Invariance, PTL

\* After any number of crashes an ordinary site resource on disk is found under the
\* key of its URL as soon as the walk has come to it.
THEOREM SitesServable == Spec => []RestoredSitesServable
<1>1. IInv => RestoredSitesServable
  BY DEF IInv
<1> QED
  BY <1>1, Invariance, PTL

=============================================================================
