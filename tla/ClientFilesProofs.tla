-------------------------- MODULE ClientFilesProofs --------------------------
(***************************************************************************)
(* Proofs about the client's file operations: what CreateAFileBox packs,   *)
(* what DownloadFile, DownloadFileFromStorage and DownloadFileInBox give   *)
(* back, and what the calls leave in the directory.                        *)
(*                                                                         *)
(* The first part is about the algorithm: an invariant of the loop of      *)
(* CreateAFileBox, and from it that a retrievable file is cut out of the   *)
(* first segment byte for byte, for every directory.  The second part is   *)
(* about the calls: the effect of each action on the record of its call,   *)
(* then one invariant after the other.                                     *)
(***************************************************************************)
EXTENDS ClientFiles, FiniteSetTheorems, FunctionTheorems, SequenceTheorems,
        WellFoundedInduction, TLAPS

-----------------------------------------------------------------------------
(* Induction over data *)

\* The natural numbers are well founded.
LEMMA NatWellFounded ==
    \E R : IsWellFoundedOn(R, Nat) /\ \A x, y \in Nat : x < y => <<x, y>> \in R
<1>1. \A x, y \in Nat : x < y => <<x, y>> \in OpToRel(<, Nat)
  BY DEF OpToRel
<1> QED BY <1>1, NatLessThanWellFounded, Zenon

\* A nonempty set of natural numbers has a least element.  Induction over data
\* is done with it: a least counterexample is led to a contradiction.
LEMMA LeastNatural ==
    ASSUME NEW N, N \subseteq Nat, N # {}
    PROVE  \E x \in N : \A y \in N : x <= y
<1>1. PICK R : IsWellFoundedOn(R, Nat) /\ \A x, y \in Nat : x < y => <<x, y>> \in R
  BY NatWellFounded
<1>a. IsWellFoundedOn(R, Nat)
  BY <1>1
<1>2. \E x \in N : \A y \in N : ~ (<<y, x>> \in R)
  BY <1>a, WFMin
<1>3. PICK x \in N : \A y \in N : ~ (<<y, x>> \in R)
  BY <1>2, Zenon
<1>4. \A y \in N : ~ (y < x)
  BY <1>1, <1>3, Zenon
<1>5. \A y \in N : y \in Nat /\ x \in Nat
  OBVIOUS
<1> QED BY <1>3, <1>4, <1>5

\* The recursive equation of BoxLoop, up to entry m.
LoopEq(g, e, m) ==
    g = [i \in 0 .. m |-> IF i = 0 THEN EmptyBox ELSE AddEntry(g[i - 1], i, e[i])]

\* Some function satisfies it, for every directory.
LEMMA LoopExists ==
    ASSUME NEW e, NEW m \in Nat
    PROVE  \E g : LoopEq(g, e, m)
<1> DEFINE T == {n \in Nat : ~ \E g : LoopEq(g, e, n)}
<1> SUFFICES ASSUME T # {} PROVE FALSE
  OBVIOUS
<1>1. PICK n \in T : \A y \in T : n <= y
  BY LeastNatural
<1>2. CASE n = 0
  <2> DEFINE g == [i \in 0 .. 0 |-> EmptyBox]
  <2>1. g = [i \in 0 .. n |-> IF i = 0 THEN EmptyBox ELSE AddEntry(g[i - 1], i, e[i])]
    BY <1>2
  <2> QED BY <2>1 DEF LoopEq
<1>3. CASE n # 0
  <2>1. n \in Nat /\ n - 1 \in Nat /\ n - 1 \notin T
    BY <1>1, <1>3
  <2>2. PICK h : LoopEq(h, e, n - 1)
    BY <2>1
  <2> DEFINE g == [i \in 0 .. n |-> IF i = n THEN AddEntry(h[n - 1], n, e[n]) ELSE h[i]]
  <2>3. \A i \in 0 .. n : g[i] = IF i = 0 THEN EmptyBox ELSE AddEntry(g[i - 1], i, e[i])
    <3> SUFFICES ASSUME NEW i \in 0 .. n
                 PROVE  g[i] = IF i = 0 THEN EmptyBox ELSE AddEntry(g[i - 1], i, e[i])
      OBVIOUS
    <3>1. CASE i = n
      BY <3>1, <2>1
    <3>2. CASE i # n
      <4>1. i \in 0 .. n - 1 /\ (i # 0 => i - 1 \in 0 .. n - 1 /\ i - 1 # n)
        BY <3>2, <2>1
      <4> QED BY <4>1, <2>2, <3>2, <2>1 DEF LoopEq
    <3> QED BY <3>1, <3>2
  <2>4. g = [i \in 0 .. n |-> IF i = 0 THEN EmptyBox ELSE AddEntry(g[i - 1], i, e[i])]
    BY <2>3
  <2> QED BY <2>4 DEF LoopEq
<1> QED BY <1>2, <1>3

\* BoxLoop is one that does.
LEMMA LoopChoose ==
    ASSUME NEW e, NEW g, LoopEq(g, e, Len(e))
    PROVE  LoopEq(BoxLoop(e), e, Len(e))
BY Zenon DEF BoxLoop, LoopEq

\* What the loop of CreateAFileBox holds before the first entry and after each one.
LEMMA LoopSteps ==
    ASSUME NEW e, Len(e) \in Nat
    PROVE  /\ BoxLoop(e)[0] = EmptyBox
           /\ \A i \in 1 .. Len(e) : BoxLoop(e)[i] = AddEntry(BoxLoop(e)[i - 1], i, e[i])
<1>1. LoopEq(BoxLoop(e), e, Len(e))
  BY LoopExists, LoopChoose
<1> QED BY <1>1 DEF LoopEq

-----------------------------------------------------------------------------
(* The box that CreateAFileBox makes *)

\* The types of a box: its bytes, a plate, what the loop holds, a directory.
ByteSet == Nat \X Nat

Plate == [files : Seq(Nat), indexs : Seq(Nat)]

BoxState == [plates : Seq(Plate), plate : Plate, size : Nat, data : Seq(ByteSet)]

Entries == Seq(Nat \cup {Box})

\* A fragment fits in a segment.
LEMMA SegmentSizeFacts == SegmentSize \in Nat \ {0} /\ FragmentSize <= SegmentSize
<1>1. \A x, y \in Nat \ {0} : x * y \in Nat \ {0} /\ x <= x * y
  OBVIOUS
<1> QED BY <1>1, BoxAssumption DEF SegmentSize

\* The bytes of a file are a sequence of its length.
LEMMA BytesFacts ==
    ASSUME NEW i \in Nat, NEW n \in Nat
    PROVE  /\ Bytes(i, n) \in Seq(ByteSet)
           /\ Len(Bytes(i, n)) = n
           /\ \A k \in 1 .. n : Bytes(i, n)[k] = <<i, (k - 1) % SegmentSize>>
<1>1. \A k \in 1 .. n : (k - 1) % SegmentSize \in Nat
  BY SegmentSizeFacts
<1>2. Bytes(i, n) \in [1 .. n -> ByteSet]
  BY <1>1 DEF Bytes, ByteSet
<1>3. Bytes(i, n) \in Seq(ByteSet)
  BY <1>2, SeqDef
<1>4. DOMAIN Bytes(i, n) = 1 .. n
  BY DEF Bytes
<1>5. Len(Bytes(i, n)) = n
  BY <1>3, <1>4, LenProperties
<1> QED BY <1>3, <1>5 DEF Bytes

\* The padding is a sequence of its length, and empty if the plate is overfull.
LEMMA ZerosFacts ==
    ASSUME NEW n \in Int
    PROVE  /\ Zeros(n) \in Seq(ByteSet)
           /\ Len(Zeros(n)) = IF n > 0 THEN n ELSE 0
           /\ \A k \in 1 .. n : Zeros(n)[k] = Padding
<1> DEFINE m == IF n > 0 THEN n ELSE 0
<1>1. m \in Nat /\ 1 .. n = 1 .. m
  OBVIOUS
<1>2. Zeros(n) \in [1 .. m -> ByteSet]
  BY <1>1 DEF Zeros, ByteSet, Padding
<1> HIDE DEF m
<1>3. Zeros(n) \in Seq(ByteSet)
  BY <1>1, <1>2, SeqDef
<1>4. Len(Zeros(n)) = m
  BY <1>1, <1>2, <1>3, LenProperties
<1> QED BY <1>3, <1>4 DEF Zeros, m

\* ClosePlate, field by field.
LEMMA ClosePlateFacts ==
    ASSUME NEW b \in BoxState
    PROVE  /\ ClosePlate(b) \in BoxState
           /\ ClosePlate(b).plate = EmptyPlate
           /\ ClosePlate(b).size = 0
           /\ ClosePlate(b).data = b.data \o Zeros(FragmentSize - b.size)
           /\ \E p \in Plate :
                 /\ ClosePlate(b).plates = Append(b.plates, p)
                 /\ p.files = b.plate.files
                 /\ p.indexs = IF FragmentSize - b.size > 0
                               THEN Append(b.plate.indexs, b.size) ELSE b.plate.indexs
<1> DEFINE padding == FragmentSize - b.size
           p == IF padding > 0 THEN [b.plate EXCEPT !.indexs = Append(@, b.size)]
                ELSE b.plate
<1>1. /\ padding \in Int /\ b.plate.indexs \in Seq(Nat) /\ b.size \in Nat
      /\ b.plate \in Plate
  BY BoxAssumption DEF BoxState, Plate
<1>2. Append(b.plate.indexs, b.size) \in Seq(Nat)
  BY <1>1, AppendProperties
<1>3. /\ p \in Plate
      /\ p.files = b.plate.files
      /\ p.indexs = IF padding > 0 THEN Append(b.plate.indexs, b.size) ELSE b.plate.indexs
  BY <1>1, <1>2 DEF Plate
<1>4. ClosePlate(b) = [b EXCEPT !.plates = Append(@, p), !.plate = EmptyPlate, !.size = 0,
                                !.data = @ \o Zeros(padding)]
  BY DEF ClosePlate
<1>5. EmptyPlate \in Plate
  BY EmptySeq DEF EmptyPlate, Plate
<1> HIDE DEF p, padding
<1>6. Append(b.plates, p) \in Seq(Plate)
  BY <1>3, AppendProperties DEF BoxState
<1>7. b.data \o Zeros(padding) \in Seq(ByteSet)
  BY <1>1, ZerosFacts, ConcatProperties DEF BoxState
<1>8. /\ ClosePlate(b) \in BoxState
      /\ ClosePlate(b).plates = Append(b.plates, p)
      /\ ClosePlate(b).plate = EmptyPlate
      /\ ClosePlate(b).size = 0
      /\ ClosePlate(b).data = b.data \o Zeros(padding)
  <2> DEFINE r == ClosePlate(b)
             u == Append(b.plates, p)
             d == b.data \o Zeros(padding)
             P == Seq(Plate)
             D == Seq(ByteSet)
  <2>1. r = [b EXCEPT !.plates = u, !.plate = EmptyPlate, !.size = 0, !.data = d]
    BY <1>4
  <2>2. BoxState = [plates : P, plate : Plate, size : Nat, data : D]
    BY DEF BoxState
  <2>3. u \in P /\ d \in D
    BY <1>6, <1>7
  <2> HIDE DEF r, u, d, P, D
  <2>4. r.plates = u /\ r.plate = EmptyPlate /\ r.size = 0 /\ r.data = d
    BY <2>1, <2>2
  <2>5. r \in BoxState
    BY <2>1, <2>2, <2>3, <1>5
  <2> QED BY <2>4, <2>5 DEF r, u, d
<1> QED BY <1>3, <1>8 DEF padding

\* AddFile, field by field.
Added(r, b, i, n, bytes) ==
    /\ r \in BoxState
    /\ r.plates = b.plates
    /\ r.plate.files = Append(b.plate.files, i)
    /\ r.plate.indexs = Append(b.plate.indexs, b.size)
    /\ r.size = b.size + n
    /\ r.data = b.data \o bytes

\* AddFile has this effect.
LEMMA AddFileFacts ==
    ASSUME NEW b \in BoxState, NEW i \in Nat, NEW n \in Nat, NEW bytes \in Seq(ByteSet)
    PROVE  Added(AddFile(b, i, n, bytes), b, i, n, bytes)
<1> DEFINE p == [files |-> Append(b.plate.files, i), indexs |-> Append(b.plate.indexs, b.size)]
<1>1. AddFile(b, i, n, bytes) = [b EXCEPT !.plate = p, !.size = @ + n, !.data = @ \o bytes]
  BY DEF AddFile
<1>2. /\ Append(b.plate.files, i) \in Seq(Nat)
      /\ Append(b.plate.indexs, b.size) \in Seq(Nat)
  BY AppendProperties DEF BoxState, Plate
<1>3. b.data \o bytes \in Seq(ByteSet)
  BY ConcatProperties DEF BoxState
<1>4. p \in Plate /\ p.files = Append(b.plate.files, i)
      /\ p.indexs = Append(b.plate.indexs, b.size)
  BY <1>2 DEF Plate
<1> HIDE DEF p
<1>5. b.size + n \in Nat /\ b.plates \in Seq(Plate)
  BY DEF BoxState
<1> DEFINE r == AddFile(b, i, n, bytes)
           d == b.data \o bytes
           m == b.size + n
<1>6. r = [b EXCEPT !.plate = p, !.size = m, !.data = d]
  BY <1>1
<1>7. d \in Seq(ByteSet) /\ m \in Nat
  BY <1>3, <1>5
<1> DEFINE P == Seq(Plate)
           D == Seq(ByteSet)
<1>a. BoxState = [plates : P, plate : Plate, size : Nat, data : D]
  BY DEF BoxState
<1>b. d \in D
  BY <1>7
<1> HIDE DEF r, d, m, P, D
<1>8. r \in BoxState /\ r.plates = b.plates /\ r.plate = p /\ r.size = m /\ r.data = d
  BY <1>4, <1>a, <1>b, <1>6, <1>7
<1> QED BY <1>4, <1>8 DEF r, d, m, Added

\* File f, which is no box file, stands between from and to in the first plate.
Placed(data, e, f, from, to) ==
    /\ e[f] > 0
    /\ to = from + e[f]
    /\ to <= FragmentSize /\ to <= Len(data)
    /\ \A k \in 1 .. e[f] : data[from + k] = Bytes(f, e[f])[k]

\* The first plate while it is filled, after i entries: no byte is padding, and
\* every file stands where the next one's offset, or the end, says.
FirstOpen(files, indexs, data, e, i) ==
    /\ Len(data) <= FragmentSize
    /\ \A k \in 1 .. Len(data) : data[k] # Padding
    /\ Len(indexs) = Len(files)
    /\ \A j \in 1 .. Len(files) :
          /\ files[j] \in 1 .. i
          /\ e[files[j]] # Box =>
                Placed(data, e, files[j], indexs[j],
                       IF j < Len(files) THEN indexs[j + 1] ELSE Len(data))

\* The first plate once it is closed: a file that another one or padding follows
\* stands between its offset and the next one.
FirstClosed(files, indexs, data, e) ==
    /\ Len(data) >= FragmentSize
    /\ \A j \in 1 .. Len(files) :
          /\ files[j] \in 1 .. Len(e)
          /\ /\ e[files[j]] # Box
             /\ j < Len(files) \/ data[FragmentSize] = Padding
             => /\ j + 1 <= Len(indexs)
                /\ Placed(data, e, files[j], indexs[j], indexs[j + 1])

\* The invariant of the loop of CreateAFileBox.
LoopInv(b, e, i) ==
    /\ b \in BoxState
    /\ b.plates = <<>> => /\ Len(b.data) = b.size
                          /\ FirstOpen(b.plate.files, b.plate.indexs, b.data, e, i)
    /\ b.plates # <<>> => FirstClosed(b.plates[1].files, b.plates[1].indexs, b.data, e)

\* Data d starts with data.
Longer(d, data) ==
    /\ d \in Seq(ByteSet)
    /\ Len(d) >= Len(data)
    /\ \A k \in 1 .. Len(data) : d[k] = data[k]

\* Data that is appended leaves what is there.
LEMMA ConcatLonger ==
    ASSUME NEW data \in Seq(ByteSet), NEW t \in Seq(ByteSet)
    PROVE  /\ Longer(data \o t, data)
           /\ Len(data \o t) = Len(data) + Len(t)
           /\ \A k \in 1 .. Len(t) : (data \o t)[Len(data) + k] = t[k]
<1>1. Len(data) \in Nat /\ Len(t) \in Nat
  BY LenProperties
<1>2. data \o t \in Seq(ByteSet) /\ Len(data \o t) = Len(data) + Len(t)
  BY ConcatProperties
<1>3. \A k \in 1 .. Len(data) : (data \o t)[k] = data[k]
  BY <1>1, ConcatProperties
<1>4. ASSUME NEW k \in 1 .. Len(t)
      PROVE  (data \o t)[Len(data) + k] = t[k]
  <2>1. /\ Len(data) + k \in 1 .. Len(data) + Len(t) /\ ~(Len(data) + k <= Len(data))
        /\ (Len(data) + k) - Len(data) = k
    BY <1>1
  <2> QED BY <2>1, ConcatProperties
<1> QED BY <1>1, <1>2, <1>3, <1>4 DEF Longer

\* A file stays where it stands when data is appended.
LEMMA PlacedPrefix ==
    ASSUME NEW data \in Seq(ByteSet), NEW d, Longer(d, data), NEW e \in Entries,
           NEW f \in 1 .. Len(e), e[f] # Box, NEW from \in Nat, NEW to,
           Placed(data, e, f, from, to)
    PROVE  Placed(d, e, f, from, to)
<1>1. e[f] \in Nat
  BY ElementOfSeq DEF Entries
<1>2. Len(d) \in Nat /\ Len(data) \in Nat
  BY LenProperties DEF Longer
<1>3. \A k \in 1 .. e[f] : from + k \in 1 .. Len(data)
  BY <1>1, <1>2 DEF Placed
<1> QED BY <1>1, <1>2, <1>3 DEF Placed, Longer

\* So does every file of a closed first plate.
LEMMA ClosedPrefix ==
    ASSUME NEW files \in Seq(Nat), NEW indexs \in Seq(Nat), NEW data \in Seq(ByteSet),
           NEW d, Longer(d, data), NEW e \in Entries, FirstClosed(files, indexs, data, e)
    PROVE  FirstClosed(files, indexs, d, e)
<1>1. Len(data) \in Nat /\ Len(d) \in Nat /\ Len(data) <= Len(d)
  BY LenProperties DEF Longer
<1>2. FragmentSize \in 1 .. Len(data) /\ Len(d) >= FragmentSize
  BY <1>1, BoxAssumption DEF FirstClosed
<1>3. d[FragmentSize] = data[FragmentSize]
  BY <1>2 DEF Longer
<1>4. ASSUME NEW j \in 1 .. Len(files), e[files[j]] # Box,
             j < Len(files) \/ data[FragmentSize] = Padding
      PROVE  Placed(d, e, files[j], indexs[j], indexs[j + 1])
  <2>1. /\ files[j] \in 1 .. Len(e) /\ j + 1 <= Len(indexs)
        /\ Placed(data, e, files[j], indexs[j], indexs[j + 1])
    BY <1>4 DEF FirstClosed
  <2>2. indexs[j] \in Nat
    BY <2>1, LenProperties, ElementOfSeq
  <2> QED BY <2>1, <2>2, <1>4, PlacedPrefix
<1> QED BY <1>2, <1>3, <1>4 DEF FirstClosed

\* Closing the first plate: each file ends at the next one's offset, and the last
\* one at the offset of the padding, if there is any.
LEMMA CloseFirst ==
    ASSUME NEW files \in Seq(Nat), NEW indexs \in Seq(Nat), NEW data \in Seq(ByteSet),
           NEW e \in Entries, NEW i \in 0 .. Len(e), FirstOpen(files, indexs, data, e, i),
           NEW d, Longer(d, data), Len(d) = FragmentSize,
           NEW x,
           Len(data) < FragmentSize =>
               /\ Len(x) = Len(indexs) + 1
               /\ \A k \in 1 .. Len(indexs) : x[k] = indexs[k]
               /\ x[Len(indexs) + 1] = Len(data),
           Len(data) = FragmentSize => x = indexs
    PROVE  FirstClosed(files, x, d, e)
<1>1. /\ Len(data) \in Nat /\ Len(data) <= FragmentSize /\ FragmentSize \in Nat \ {0}
      /\ Len(files) \in Nat /\ Len(indexs) = Len(files) /\ Len(e) \in Nat /\ i <= Len(e)
  BY BoxAssumption, LenProperties DEF FirstOpen, Entries
<1>2. d[FragmentSize] = Padding => Len(data) < FragmentSize
  <2> SUFFICES ASSUME Len(data) = FragmentSize PROVE d[FragmentSize] # Padding
    BY <1>1
  <2>1. FragmentSize \in 1 .. Len(data)
    BY <1>1
  <2> QED BY <2>1 DEF FirstOpen, Longer
<1>3. ASSUME NEW j \in 1 .. Len(files), e[files[j]] # Box,
             j < Len(files) \/ Len(data) < FragmentSize
      PROVE  j + 1 <= Len(x) /\ Placed(d, e, files[j], x[j], x[j + 1])
  <2> DEFINE to == IF j < Len(files) THEN indexs[j + 1] ELSE Len(data)
  <2>1. Placed(data, e, files[j], indexs[j], to) /\ files[j] \in 1 .. Len(e)
    BY <1>1, <1>3 DEF FirstOpen
  <2>2. j \in 1 .. Len(indexs) /\ indexs[j] \in Nat
    BY <1>1, ElementOfSeq
  <2>3. x[j] = indexs[j] /\ x[j + 1] = to /\ j + 1 <= Len(x)
    <3>1. CASE Len(data) < FragmentSize
      <4>1. x[j] = indexs[j] /\ j + 1 <= Len(x)
        BY <3>1, <2>2, <1>1
      <4>2. CASE j < Len(files)
        <5>1. j + 1 \in 1 .. Len(indexs)
          BY <4>2, <1>1
        <5> QED BY <5>1, <4>1, <4>2, <3>1
      <4>3. CASE ~(j < Len(files))
        <5>1. j = Len(indexs)
          BY <4>3, <1>1
        <5>2. x[j + 1] = Len(data)
          BY <5>1, <3>1
        <5> QED BY <5>2, <4>1, <4>3
      <4> QED BY <4>2, <4>3
    <3>2. CASE Len(data) = FragmentSize
      BY <3>2, <1>1, <1>3, <2>2
    <3> QED BY <3>1, <3>2, <1>1
  <2> HIDE DEF to
  <2>4. Placed(d, e, files[j], indexs[j], to)
    BY <2>1, <2>2, <1>3, PlacedPrefix
  <2> QED BY <2>3, <2>4
<1>4. \A j \in 1 .. Len(files) : files[j] \in 1 .. Len(e)
  BY <1>1 DEF FirstOpen
<1>5. Len(d) >= FragmentSize
  BY <1>1
<1> QED BY <1>2, <1>3, <1>4, <1>5 DEF FirstClosed

\* Sequence s is t with x at its end.
Appended(s, t, x) ==
    /\ Len(s) = Len(t) + 1
    /\ s[Len(t) + 1] = x
    /\ \A k \in 1 .. Len(t) : s[k] = t[k]

\* Append does this.
LEMMA AppendAppends ==
    ASSUME NEW t \in Seq(Nat), NEW x \in Nat
    PROVE  Appended(Append(t, x), t, x)
BY AppendProperties DEF Appended

\* A file that fits is added to the first plate while it is filled.
LEMMA AddToFirst ==
    ASSUME NEW e \in Entries, NEW i \in 1 .. Len(e), NEW b \in BoxState, NEW r,
           NEW bytes \in Seq(ByteSet), Added(r, b, i, Len(bytes), bytes),
           b.plates = <<>>, LoopInv(b, e, i - 1),
           Len(bytes) > 0, b.size + Len(bytes) <= FragmentSize,
           \A k \in 1 .. Len(bytes) : bytes[k] # Padding,
           e[i] # Box => bytes = Bytes(i, e[i])
    PROVE  LoopInv(r, e, i)
<1> DEFINE files == b.plate.files
           indexs == b.plate.indexs
           data == b.data
           g == r.plate.files
           x == r.plate.indexs
           d == r.data
<1>0. /\ files \in Seq(Nat) /\ indexs \in Seq(Nat) /\ data \in Seq(ByteSet)
      /\ Len(data) = b.size /\ FirstOpen(files, indexs, data, e, i - 1)
      /\ Len(data) + Len(bytes) <= FragmentSize
  BY DEF BoxState, Plate, LoopInv
<1>c. r \in BoxState /\ r.plates = <<>> /\ r.size = Len(data) + Len(bytes)
  BY <1>0 DEF Added
<1>d. g = Append(files, i) /\ x = Append(indexs, Len(data)) /\ d = data \o bytes
  BY <1>0 DEF Added
<1> HIDE DEF files, indexs, data, g, x, d
<1>1. /\ Len(data) \in Nat /\ Len(bytes) \in Nat /\ FragmentSize \in Nat \ {0}
      /\ Len(files) \in Nat /\ Len(indexs) = Len(files) /\ Len(e) \in Nat
      /\ i \in Nat /\ i > 0 /\ i <= Len(e)
  BY <1>0, BoxAssumption, LenProperties DEF FirstOpen, Entries
<1>e. Appended(g, files, i) /\ Appended(x, indexs, Len(data))
  BY <1>0, <1>1, <1>d, AppendAppends
<1>f. /\ Longer(d, data) /\ Len(d) = Len(data) + Len(bytes)
      /\ \A k \in 1 .. Len(bytes) : d[Len(data) + k] = bytes[k]
  BY <1>0, <1>d, ConcatLonger
<1>a. /\ Len(g) = Len(files) + 1 /\ g[Len(files) + 1] = i
      /\ \A k \in 1 .. Len(files) : g[k] = files[k]
  BY <1>e DEF Appended
<1>b. /\ Len(x) = Len(indexs) + 1 /\ x[Len(indexs) + 1] = Len(data)
      /\ \A k \in 1 .. Len(indexs) : x[k] = indexs[k]
  BY <1>e DEF Appended
<1>2. ASSUME NEW k \in 1 .. Len(d) PROVE d[k] # Padding
  <2>1. CASE k \in 1 .. Len(data)
    BY <2>1, <1>0, <1>f DEF FirstOpen, Longer
  <2>2. CASE k \notin 1 .. Len(data)
    <3>1. k - Len(data) \in 1 .. Len(bytes) /\ Len(data) + (k - Len(data)) = k
      BY <2>2, <1>1, <1>f
    <3>2. d[Len(data) + (k - Len(data))] = bytes[k - Len(data)]
      BY <3>1, <1>f
    <3> QED BY <3>1, <3>2
  <2> QED BY <2>1, <2>2
<1>3. ASSUME NEW j \in 1 .. Len(files), e[files[j]] # Box
      PROVE  Placed(d, e, files[j], indexs[j], IF j < Len(files) THEN indexs[j + 1] ELSE Len(data))
  <2> DEFINE to == IF j < Len(files) THEN indexs[j + 1] ELSE Len(data)
  <2>1. Placed(data, e, files[j], indexs[j], to) /\ files[j] \in 1 .. Len(e)
    BY <1>0, <1>1, <1>3 DEF FirstOpen
  <2>2. indexs[j] \in Nat
    BY <1>0, <1>1, ElementOfSeq
  <2> HIDE DEF to
  <2>3. Placed(d, e, files[j], indexs[j], to)
    BY <2>1, <2>2, <1>0, <1>3, <1>f, PlacedPrefix
  <2> QED BY <2>3 DEF to
<1>4. ASSUME e[i] # Box
      PROVE  Placed(d, e, i, Len(data), Len(d))
  <2>1. e[i] \in Nat
    BY <1>1, <1>4, ElementOfSeq DEF Entries
  <2>2. Len(bytes) = e[i] /\ bytes = Bytes(i, e[i])
    <3>1. bytes = Bytes(i, e[i])
      BY <1>4
    <3>2. Len(Bytes(i, e[i])) = e[i]
      BY <1>1, <2>1, BytesFacts
    <3> QED BY <3>1, <3>2
  <2> QED BY <2>1, <2>2, <1>0, <1>1, <1>f DEF Placed
<1>5. ASSUME NEW j \in 1 .. Len(g)
      PROVE  /\ g[j] \in 1 .. i
             /\ e[g[j]] # Box =>
                   Placed(d, e, g[j], x[j], IF j < Len(g) THEN x[j + 1] ELSE Len(d))
  <2>1. CASE j = Len(files) + 1
    <3>1. g[j] = i /\ x[j] = Len(data) /\ ~(j < Len(g)) /\ i \in 1 .. i
      BY <2>1, <1>1, <1>a, <1>b
    <3> QED BY <3>1, <1>4
  <2>2. CASE j \in 1 .. Len(files)
    <3>1. g[j] = files[j] /\ x[j] = indexs[j] /\ j < Len(g)
      BY <2>2, <1>1, <1>a, <1>b
    <3>2. files[j] \in 1 .. i
      BY <2>2, <1>0, <1>1 DEF FirstOpen
    <3>3. x[j + 1] = IF j < Len(files) THEN indexs[j + 1] ELSE Len(data)
      <4>1. CASE j < Len(files)
        <5>1. j + 1 \in 1 .. Len(indexs)
          BY <4>1, <1>1
        <5> QED BY <5>1, <4>1, <1>b
      <4>2. CASE ~(j < Len(files))
        <5>1. j = Len(indexs)
          BY <4>2, <2>2, <1>1
        <5>2. x[j + 1] = Len(data)
          BY <5>1, <1>b
        <5> QED BY <5>2, <4>2
      <4> QED BY <4>1, <4>2
    <3> QED BY <3>1, <3>2, <3>3, <2>2, <1>3
  <2> QED BY <2>1, <2>2, <1>1, <1>a
<1>6. Len(d) <= FragmentSize /\ Len(x) = Len(g)
  BY <1>0, <1>1, <1>a, <1>b, <1>f
<1>7. FirstOpen(g, x, d, e, i)
  BY <1>2, <1>5, <1>6 DEF FirstOpen
<1> QED BY <1>7, <1>c, <1>f DEF LoopInv, g, x, d

\* The invariant once the first plate is closed.
ClosedInv(b, e) ==
    /\ b \in BoxState
    /\ b.plates # <<>>
    /\ FirstClosed(b.plates[1].files, b.plates[1].indexs, b.data, e)

\* The first plate is typed.
LEMMA FirstPlateTyped ==
    ASSUME NEW b \in BoxState, b.plates # <<>>
    PROVE  /\ b.plates[1] \in Plate
           /\ b.plates[1].files \in Seq(Nat) /\ b.plates[1].indexs \in Seq(Nat)
<1>1. b.plates \in Seq(Plate)
  BY DEF BoxState
<1>2. 1 \in 1 .. Len(b.plates)
  BY <1>1, EmptySeq
<1>3. b.plates[1] \in Plate
  BY <1>1, <1>2, ElementOfSeq
<1> QED BY <1>3 DEF Plate

\* ClosePlate establishes it, or keeps it.
LEMMA ClosePlateCloses ==
    ASSUME NEW e \in Entries, NEW i \in 0 .. Len(e), NEW b, LoopInv(b, e, i)
    PROVE  ClosedInv(ClosePlate(b), e)
<1> DEFINE c == ClosePlate(b)
           z == Zeros(FragmentSize - b.size)
<1>1. b \in BoxState
  BY DEF LoopInv
<1>2. /\ b.data \in Seq(ByteSet) /\ b.size \in Nat /\ b.plates \in Seq(Plate)
      /\ b.plate.files \in Seq(Nat) /\ b.plate.indexs \in Seq(Nat)
      /\ FragmentSize \in Nat \ {0}
  BY <1>1, BoxAssumption DEF BoxState, Plate
<1>3. z \in Seq(ByteSet) /\ (FragmentSize - b.size >= 0 => Len(z) = FragmentSize - b.size)
  <2>1. FragmentSize - b.size \in Int
    BY <1>2
  <2>2. ASSUME NEW m \in Int, m >= 0 PROVE Len(Zeros(m)) = m
    BY <2>2, ZerosFacts
  <2> QED BY <2>1, <2>2, ZerosFacts
<1>4. PICK p \in Plate :
          /\ c.plates = Append(b.plates, p)
          /\ p.files = b.plate.files
          /\ p.indexs = IF FragmentSize - b.size > 0
                        THEN Append(b.plate.indexs, b.size) ELSE b.plate.indexs
  BY <1>1, ClosePlateFacts
<1>5. c \in BoxState /\ c.data = b.data \o z
  BY <1>1, ClosePlateFacts
<1> HIDE DEF c, z
<1>6. /\ Longer(c.data, b.data) /\ Len(c.data) = Len(b.data) + Len(z)
  BY <1>2, <1>3, <1>5, ConcatLonger
<1>7. c.plates # <<>> /\ c.plates[1] = IF b.plates = <<>> THEN p ELSE b.plates[1]
  <2>1. /\ c.plates # <<>> /\ c.plates[Len(b.plates) + 1] = p
        /\ \A k \in 1 .. Len(b.plates) : c.plates[k] = b.plates[k]
    <3>1. c.plates = Append(b.plates, p) /\ b.plates \in Seq(Plate)
      BY <1>2, <1>4
    <3> QED BY <3>1, AppendProperties
  <2>2. CASE b.plates = <<>>
    BY <2>1, <2>2, EmptySeq
  <2>3. CASE b.plates # <<>>
    <3>1. 1 \in 1 .. Len(b.plates)
      BY <2>3, <1>2, EmptySeq
    <3> QED BY <2>1, <2>3, <3>1
  <2> QED BY <2>2, <2>3
<1>8. CASE b.plates = <<>>
  <2>1. Len(b.data) = b.size /\ FirstOpen(b.plate.files, b.plate.indexs, b.data, e, i)
    BY <1>8 DEF LoopInv
  <2>2. b.size <= FragmentSize /\ FragmentSize - b.size >= 0
    BY <2>1, <1>2 DEF FirstOpen
  <2>3. Len(c.data) = FragmentSize
    BY <2>1, <2>2, <1>2, <1>3, <1>6
  <2>4. ASSUME Len(b.data) < FragmentSize
        PROVE  /\ Len(p.indexs) = Len(b.plate.indexs) + 1
               /\ \A k \in 1 .. Len(b.plate.indexs) : p.indexs[k] = b.plate.indexs[k]
               /\ p.indexs[Len(b.plate.indexs) + 1] = Len(b.data)
    <3>1. p.indexs = Append(b.plate.indexs, b.size)
      BY <2>1, <2>4, <1>2, <1>4
    <3> QED BY <3>1, <2>1, <1>2, AppendProperties
  <2>5. Len(b.data) = FragmentSize => p.indexs = b.plate.indexs
    BY <2>1, <1>2, <1>4
  <2>6. FirstClosed(b.plate.files, p.indexs, c.data, e)
    BY <2>1, <2>3, <2>4, <2>5, <1>2, <1>6, CloseFirst
  <2> QED BY <2>6, <1>4, <1>5, <1>7, <1>8 DEF ClosedInv, c
<1>9. CASE b.plates # <<>>
  <2>1. FirstClosed(b.plates[1].files, b.plates[1].indexs, b.data, e)
    BY <1>9 DEF LoopInv
  <2>2. FirstClosed(b.plates[1].files, b.plates[1].indexs, c.data, e)
    BY <2>1, <1>1, <1>2, <1>6, <1>9, FirstPlateTyped, ClosedPrefix
  <2> QED BY <2>2, <1>5, <1>7, <1>9 DEF ClosedInv, c
<1> QED BY <1>8, <1>9

\* AddFile keeps it: the first plate is not touched any more.
LEMMA AddFileKeepsClosed ==
    ASSUME NEW e \in Entries, NEW b, ClosedInv(b, e), NEW i \in Nat, NEW n \in Nat,
           NEW bytes \in Seq(ByteSet)
    PROVE  ClosedInv(AddFile(b, i, n, bytes), e)
<1> DEFINE r == AddFile(b, i, n, bytes)
<1>0. b \in BoxState
  BY DEF ClosedInv
<1>1. b \in BoxState /\ b.data \in Seq(ByteSet)
  BY <1>0 DEF BoxState
<1>2. r \in BoxState /\ r.plates = b.plates /\ r.data = b.data \o bytes
  <2>1. Added(r, b, i, n, bytes)
    BY <1>0, AddFileFacts
  <2> QED BY <2>1 DEF Added
<1> HIDE DEF r
<1>3. Longer(r.data, b.data)
  BY <1>1, <1>2, ConcatLonger
<1>4. FirstClosed(b.plates[1].files, b.plates[1].indexs, r.data, e)
  BY <1>1, <1>3, FirstPlateTyped, ClosedPrefix DEF ClosedInv
<1> QED BY <1>2, <1>4 DEF ClosedInv, r

\* One turn of the loop keeps the invariant, whatever the entry is: a file, an
\* empty file, a box file of an earlier call.
LEMMA AddEntryKeepsInv ==
    ASSUME NEW e \in Entries, NEW i \in 1 .. Len(e), NEW b, LoopInv(b, e, i - 1)
    PROVE  LoopInv(AddEntry(b, i, e[i]), e, i)
<1> DEFINE n == IF e[i] = Box THEN Len(b.data) ELSE e[i]
           full == b.size = FragmentSize \/ n + b.size > FragmentSize
           next == IF full THEN ClosePlate(b) ELSE b
           bytes == IF e[i] = Box THEN next.data ELSE Bytes(i, n)
<1>1. /\ b \in BoxState /\ b.data \in Seq(ByteSet) /\ b.size \in Nat
      /\ b.plate.files \in Seq(Nat) /\ b.plate.indexs \in Seq(Nat)
  BY DEF LoopInv, BoxState, Plate
<1>2. /\ Len(e) \in Nat /\ i \in Nat /\ i - 1 \in 0 .. Len(e) /\ i > 0
      /\ e[i] # Box => e[i] \in Nat
  BY LenProperties, ElementOfSeq DEF Entries
<1>3. n \in Nat
  BY <1>1, <1>2, LenProperties
<1>4. AddEntry(b, i, e[i]) = IF n = 0 THEN b ELSE AddFile(next, i, n, bytes)
  BY DEF AddEntry
<1>5. CASE n = 0
  <2>1. ASSUME FirstOpen(b.plate.files, b.plate.indexs, b.data, e, i - 1)
        PROVE  FirstOpen(b.plate.files, b.plate.indexs, b.data, e, i)
    <3>1. \A k \in 1 .. i - 1 : k \in 1 .. i
      BY <1>2
    <3> QED BY <2>1, <3>1 DEF FirstOpen
  <2>2. LoopInv(b, e, i)
    BY <2>1 DEF LoopInv
  <2> QED BY <2>2, <1>4, <1>5
<1>6. CASE n # 0 /\ full
  <2>1. ClosedInv(next, e)
    BY <1>2, <1>6, ClosePlateCloses
  <2>2. bytes \in Seq(ByteSet)
    <3>1. next.data \in Seq(ByteSet)
      BY <2>1 DEF ClosedInv, BoxState
    <3> QED BY <3>1, <1>2, <1>3, BytesFacts
  <2> HIDE DEF next, bytes, n
  <2>3. ClosedInv(AddFile(next, i, n, bytes), e)
    BY <2>1, <2>2, <1>2, <1>3, AddFileKeepsClosed
  <2>4. ClosedInv(AddEntry(b, i, e[i]), e)
    BY <2>3, <1>4, <1>6
  <2> QED BY <2>4 DEF ClosedInv, LoopInv
<1>7. CASE n # 0 /\ ~full
  <2>1. next = b /\ n + b.size <= FragmentSize
    BY <1>1, <1>3, <1>7, BoxAssumption
  <2>2. bytes = IF e[i] = Box THEN b.data ELSE Bytes(i, e[i])
    BY <2>1
  <2>3. bytes \in Seq(ByteSet) /\ Len(bytes) = n
    BY <2>2, <1>1, <1>2, BytesFacts
  <2>4. AddEntry(b, i, e[i]) = AddFile(b, i, n, bytes)
    BY <2>1, <1>4, <1>7
  <2>5. \A k \in 1 .. Len(Bytes(i, e[i])) : e[i] # Box => Bytes(i, e[i])[k] # Padding
    <3> SUFFICES ASSUME e[i] # Box, NEW k \in 1 .. Len(Bytes(i, e[i]))
                 PROVE  Bytes(i, e[i])[k] # Padding
      OBVIOUS
    <3>1. Bytes(i, e[i])[k] = <<i, (k - 1) % SegmentSize>>
      BY <1>2, BytesFacts
    <3> QED BY <3>1, <1>2 DEF Padding
  <2>6. n # 0
    BY <1>7
  <2> HIDE DEF n, next, full, bytes
  <2> DEFINE r == AddFile(b, i, n, bytes)
  <2>7. CASE b.plates # <<>>
    <3>1. ClosedInv(b, e)
      BY <2>7 DEF LoopInv, ClosedInv
    <3>2. ClosedInv(r, e)
      BY <3>1, <2>3, <1>2, <1>3, AddFileKeepsClosed
    <3> QED BY <3>2, <2>4 DEF ClosedInv, LoopInv
  <2>8. CASE b.plates = <<>>
    <3>1. Len(b.data) = b.size /\ \A k \in 1 .. Len(b.data) : b.data[k] # Padding
      BY <2>8 DEF LoopInv, FirstOpen
    <3>2. \A k \in 1 .. Len(bytes) : bytes[k] # Padding
      BY <2>2, <2>5, <3>1
    <3>3. Len(bytes) > 0 /\ b.size + Len(bytes) <= FragmentSize
      BY <2>1, <2>3, <2>6, <1>1, <1>3, BoxAssumption
    <3>4. Added(r, b, i, n, bytes)
      BY <2>3, <1>1, <1>2, <1>3, AddFileFacts
    <3>5. Added(r, b, i, Len(bytes), bytes) /\ (e[i] # Box => bytes = Bytes(i, e[i]))
      BY <3>4, <2>2, <2>3
    <3> HIDE DEF r
    <3>6. LoopInv(r, e, i)
      BY <3>2, <3>3, <3>5, <2>3, <2>8, <1>1, AddToFirst
    <3> QED BY <3>6, <2>4 DEF r
  <2> QED BY <2>7, <2>8
<1> QED BY <1>5, <1>6, <1>7

\* The invariant holds when the loop ends, for every directory.
LEMMA LoopHolds ==
    ASSUME NEW e \in Entries
    PROVE  LoopInv(BoxLoop(e)[Len(e)], e, Len(e))
<1> DEFINE N == {i \in 0 .. Len(e) : ~LoopInv(BoxLoop(e)[i], e, i)}
<1>1. Len(e) \in Nat
  BY LenProperties DEF Entries
<1> SUFFICES ASSUME N # {} PROVE FALSE
  BY <1>1
<1>2. N \subseteq Nat
  BY <1>1
<1>3. PICK i \in N : \A j \in N : i <= j
  BY <1>2, LeastNatural
<1>4. CASE i = 0
  <2>1. BoxLoop(e)[0] = EmptyBox
    BY <1>1, LoopSteps
  <2>2. EmptyBox \in BoxState /\ EmptyBox.plates = <<>> /\ EmptyBox.data = <<>>
        /\ EmptyBox.size = 0 /\ EmptyBox.plate.files = <<>> /\ EmptyBox.plate.indexs = <<>>
    BY EmptySeq DEF EmptyBox, EmptyPlate, BoxState, Plate
  <2>3. FirstOpen(<<>>, <<>>, <<>>, e, 0)
    BY BoxAssumption DEF FirstOpen
  <2> QED BY <2>1, <2>2, <2>3, <1>3, <1>4 DEF LoopInv
<1>5. CASE i # 0
  <2>1. i \in 1 .. Len(e) /\ i - 1 \in 0 .. Len(e) /\ i - 1 < i
    BY <1>1, <1>3, <1>5
  <2>2. LoopInv(BoxLoop(e)[i - 1], e, i - 1)
    BY <2>1, <1>3
  <2>3. BoxLoop(e)[i] = AddEntry(BoxLoop(e)[i - 1], i, e[i])
    BY <2>1, <1>1, LoopSteps
  <2> QED BY <2>1, <2>2, <2>3, <1>3, AddEntryKeepsInv
<1> QED BY <1>4, <1>5

-----------------------------------------------------------------------------
(* What DownloadFileInBox cuts out of it *)

\* A nonempty bounded set of natural numbers has a greatest element.
LEMMA GreatestNatural ==
    ASSUME NEW N, N \subseteq Nat, N # {}, NEW top \in Nat, \A y \in N : y <= top
    PROVE  \E x \in N : \A y \in N : y <= x
<1> DEFINE U == {u \in Nat : \A y \in N : y <= u}
<1>1. U \subseteq Nat /\ U # {}
  OBVIOUS
<1>2. PICK u \in U : \A v \in U : u <= v
  BY <1>1, LeastNatural
<1>3. u \in Nat /\ \A y \in N : y <= u /\ y \in Nat
  BY <1>2
<1>4. CASE u \in N
  BY <1>3, <1>4
<1>5. CASE u \notin N
  <2>1. \A y \in N : y <= u - 1 /\ u - 1 >= 0
    BY <1>3, <1>5
  <2>2. u - 1 \in Nat
    <3>1. PICK y \in N : TRUE
      OBVIOUS
    <3> QED BY <3>1, <2>1, <1>3
  <2>3. u - 1 \in U
    BY <2>1, <2>2
  <2> QED BY <2>3, <1>2, <1>3
<1> QED BY <1>4, <1>5

\* A plate that PlateOf names has the file.
LEMMA PlateOfHolds ==
    ASSUME NEW plates \in Seq(Plate), NEW name, PlateOf(plates, name) = 1
    PROVE  1 \in 1 .. Len(plates) /\ Holds(plates[1], name)
<1> DEFINE has == {i \in DOMAIN plates : Holds(plates[i], name)}
<1>1. Len(plates) \in Nat /\ DOMAIN plates = 1 .. Len(plates)
  BY LenProperties
<1>2. has # {}
  BY DEF PlateOf
<1>3. has \subseteq Nat /\ \A i \in has : i <= Len(plates)
  BY <1>1
<1>4. \E i \in has : \A j \in has : j <= i
  BY <1>1, <1>2, <1>3, GreatestNatural
<1>5. PlateOf(plates, name) = CHOOSE i \in has : \A j \in has : j <= i
  BY <1>2 DEF PlateOf
<1> HIDE DEF has
<1>6. (CHOOSE i \in has : \A j \in has : j <= i) \in has
  BY <1>4
<1>7. 1 \in has
  BY <1>5, <1>6
<1> QED BY <1>1, <1>7 DEF has

\* The first segment of a plain upload starts with the first plate.
LEMMA FirstSegment ==
    ASSUME NEW data \in Seq(ByteSet), Len(data) >= FragmentSize
    PROVE  /\ Segment(data, FALSE, 1) \in Seq(ByteSet)
           /\ Len(Segment(data, FALSE, 1)) = SegmentSize
           /\ \A k \in 1 .. FragmentSize : Segment(data, FALSE, 1)[k] = data[k]
<1> DEFINE z == Zeros(SegmentSize)
           d == data \o z
<1>1. SegmentSize \in Nat \ {0} /\ FragmentSize <= SegmentSize /\ FragmentSize \in Nat \ {0}
  BY SegmentSizeFacts, BoxAssumption
<1>2. z \in Seq(ByteSet) /\ Len(z) = SegmentSize
  <2>1. ASSUME NEW m \in Nat PROVE Zeros(m) \in Seq(ByteSet) /\ Len(Zeros(m)) = m
    BY ZerosFacts
  <2> QED BY <2>1, <1>1
<1> HIDE DEF z
<1>3. Longer(d, data) /\ Len(d) = Len(data) + SegmentSize
  BY <1>2, ConcatLonger
<1>4. Len(data) \in Nat
  BY LenProperties
<1>5. Segment(data, FALSE, 1) = SubSeq(d, 1, SegmentSize)
  <2>1. PieceSize(FALSE) = SegmentSize
    BY DEF PieceSize
  <2>2. SegmentSize * (1 - 1) + 1 = 1 /\ SegmentSize * 1 = SegmentSize
    BY <1>1
  <2> QED BY <2>1, <2>2 DEF Segment, z
<1> HIDE DEF d
<1>6. \A k \in 1 .. SegmentSize : d[k] \in ByteSet
  <2>1. d \in Seq(ByteSet) /\ \A k \in 1 .. SegmentSize : k \in 1 .. Len(d)
    BY <1>1, <1>3, <1>4 DEF Longer
  <2> QED BY <2>1, ElementOfSeq
<1>7. /\ SubSeq(d, 1, SegmentSize) \in Seq(ByteSet)
      /\ Len(SubSeq(d, 1, SegmentSize)) = IF 1 <= SegmentSize THEN SegmentSize - 1 + 1 ELSE 0
      /\ \A k \in 1 .. SegmentSize - 1 + 1 : SubSeq(d, 1, SegmentSize)[k] = d[1 + k - 1]
  BY <1>1, <1>6, SubSeqProperties
<1>8. ASSUME NEW k \in 1 .. FragmentSize
      PROVE  SubSeq(d, 1, SegmentSize)[k] = data[k]
  <2>1. k \in 1 .. SegmentSize - 1 + 1 /\ 1 + k - 1 = k /\ k \in 1 .. Len(data)
    BY <1>1, <1>4
  <2>2. SubSeq(d, 1, SegmentSize)[k] = d[k]
    BY <2>1, <1>7
  <2> QED BY <2>1, <2>2, <1>3 DEF Longer
<1>9. Len(SubSeq(d, 1, SegmentSize)) = SegmentSize
  BY <1>1, <1>7
<1> QED BY <1>5, <1>7, <1>8, <1>9

\* Sequence s starts with t.
Behind(s, t) ==
    /\ s \in Seq(Nat)
    /\ Len(t) <= Len(s)
    /\ \A k \in 1 .. Len(t) : s[k] = t[k]

\* What DownloadFileInBox cuts out of the first segment for a retrievable file is
\* that file, and the slice is in range.
LEMMA CutIsRight ==
    ASSUME NEW files \in Seq(Nat), NEW indexs \in Seq(Nat), NEW data \in Seq(ByteSet),
           NEW e \in Entries, FirstClosed(files, indexs, data, e),
           NEW q, Behind(q.files, files), Behind(q.indexs, indexs),
           \A k \in 1 .. Len(q.files) : k > Len(files) => q.files[k] = NoName,
           NEW name \in 1 .. Len(e), e[name] # Box, Holds(q, name),
           \/ \E j \in 1 .. Len(q.files) - 1 : q.files[j] = name /\ q.files[j + 1] # NoName
           \/ data[FragmentSize] = Padding
    PROVE  /\ Cut(q, name, Segment(data, FALSE, 1)) = Bytes(name, e[name])
           /\ Bytes(name, e[name]) # OutOfRange
<1> DEFINE seg == Segment(data, FALSE, 1)
           N == {j \in 1 .. Len(q.files) : q.files[j] = name}
<1>1. /\ Len(files) \in Nat /\ Len(indexs) \in Nat /\ Len(data) \in Nat
      /\ Len(q.files) \in Nat /\ Len(q.indexs) \in Nat /\ Len(e) \in Nat
      /\ DOMAIN q.files = 1 .. Len(q.files) /\ FragmentSize \in Nat \ {0}
      /\ Len(data) >= FragmentSize
  BY LenProperties, BoxAssumption DEF Behind, Entries, FirstClosed
<1>2. N \subseteq Nat /\ N # {}
  BY <1>1 DEF Holds
<1>3. PICK m \in N : \A j \in N : m <= j
  BY <1>2, LeastNatural
<1> DEFINE least(j) == /\ q.files[j] = name
                       /\ \A k \in 1 .. j - 1 : q.files[k] # name
           d == CHOOSE j \in DOMAIN q.files : least(j)
<1>4. m \in DOMAIN q.files /\ least(m)
  BY <1>1, <1>3
<1>5. d \in DOMAIN q.files /\ least(d)
  BY <1>4
<1>6. Cut(q, name, seg) =
          IF q.indexs[d] <= (IF Len(q.indexs) > d THEN q.indexs[d + 1] ELSE Len(seg))
             /\ (IF Len(q.indexs) > d THEN q.indexs[d + 1] ELSE Len(seg)) <= Len(seg)
          THEN SubSeq(seg, q.indexs[d] + 1,
                      IF Len(q.indexs) > d THEN q.indexs[d + 1] ELSE Len(seg))
          ELSE OutOfRange
  BY DEF Cut
<1> HIDE DEF d
<1>7. d \in 1 .. Len(q.files) /\ d \in Nat /\ q.files[d] = name
      /\ \A k \in 1 .. d - 1 : q.files[k] # name
  BY <1>1, <1>5
<1> HIDE DEF seg, N
<1>8. d \in 1 .. Len(files) /\ files[d] = name
  <2>1. name # NoName
    BY <1>1 DEF NoName
  <2>2. d <= Len(files)
    BY <2>1, <1>1, <1>7
  <2>3. d \in 1 .. Len(files)
    BY <2>2, <1>1, <1>7
  <2>4. q.files[d] = files[d]
    BY <2>3 DEF Behind
  <2> QED BY <2>3, <2>4, <1>7
<1>9. d < Len(files) \/ data[FragmentSize] = Padding
  <2> SUFFICES ASSUME NEW j \in 1 .. Len(q.files) - 1, q.files[j] = name,
                      q.files[j + 1] # NoName
               PROVE  d < Len(files)
    OBVIOUS
  <2>1. j + 1 \in 1 .. Len(q.files) /\ j + 1 <= Len(files)
    BY <1>1
  <2>2. d <= j
    <3>1. j \notin 1 .. d - 1
      BY <1>7
    <3> QED BY <3>1, <1>1, <1>7
  <2> QED BY <2>1, <2>2, <1>1, <1>7
<1>10. d + 1 <= Len(indexs) /\ Placed(data, e, name, indexs[d], indexs[d + 1])
  BY <1>8, <1>9 DEF FirstClosed
<1> DEFINE from == indexs[d]
           to == indexs[d + 1]
<1>11. /\ q.indexs[d] = from /\ q.indexs[d + 1] = to /\ Len(q.indexs) > d
       /\ from \in Nat /\ to \in Nat
  <2>0. d + 1 <= Len(indexs)
    BY <1>10
  <2>1. d \in 1 .. Len(indexs) /\ d + 1 \in 1 .. Len(indexs)
    BY <2>0, <1>1, <1>8
  <2>2. Len(q.indexs) > d
    BY <2>1, <1>1, <1>7, <1>10 DEF Behind
  <2> QED BY <2>1, <2>2, ElementOfSeq DEF Behind
<1> HIDE DEF from, to
<1>12. /\ seg \in Seq(ByteSet) /\ Len(seg) = SegmentSize
       /\ \A k \in 1 .. FragmentSize : seg[k] = data[k]
  BY <1>1, FirstSegment DEF seg
<1>13. /\ e[name] \in Nat /\ e[name] > 0 /\ to = from + e[name] /\ to <= FragmentSize
       /\ SegmentSize \in Nat /\ FragmentSize <= SegmentSize
       /\ \A k \in 1 .. e[name] : data[from + k] = Bytes(name, e[name])[k]
  <2>1. e[name] \in Nat
    BY ElementOfSeq DEF Entries
  <2> QED BY <2>1, <1>10, SegmentSizeFacts DEF Placed, from, to
<1>14. Cut(q, name, seg) = SubSeq(seg, from + 1, to)
  <2>1. from <= to /\ to <= Len(seg)
    BY <1>11, <1>12, <1>13, <1>1
  <2> QED BY <2>1, <1>6, <1>11
<1>15. /\ SubSeq(seg, from + 1, to) \in Seq(ByteSet)
       /\ Len(SubSeq(seg, from + 1, to)) = e[name]
       /\ \A k \in 1 .. e[name] : SubSeq(seg, from + 1, to)[k] = seg[from + k]
  <2>1. \A k \in from + 1 .. to : k \in 1 .. Len(seg)
    BY <1>1, <1>11, <1>12, <1>13
  <2>2. \A k \in from + 1 .. to : seg[k] \in ByteSet
    BY <2>1, <1>12, ElementOfSeq
  <2>3. from + 1 \in Int /\ to \in Int
    BY <1>11
  <2>4. /\ SubSeq(seg, from + 1, to) \in Seq(ByteSet)
        /\ Len(SubSeq(seg, from + 1, to)) =
              IF from + 1 <= to THEN to - (from + 1) + 1 ELSE 0
        /\ \A k \in 1 .. to - (from + 1) + 1 :
              SubSeq(seg, from + 1, to)[k] = seg[(from + 1) + k - 1]
    BY <2>2, <2>3, SubSeqProperties
  <2>5. /\ to - (from + 1) + 1 = e[name] /\ from + 1 <= to
        /\ \A k \in 1 .. e[name] : (from + 1) + k - 1 = from + k
    BY <1>11, <1>13
  <2> QED BY <2>4, <2>5
<1>16. /\ Bytes(name, e[name]) \in Seq(ByteSet) /\ Len(Bytes(name, e[name])) = e[name]
       /\ \A k \in 1 .. e[name] : Bytes(name, e[name])[k] = <<name, (k - 1) % SegmentSize>>
  <2>1. name \in Nat /\ e[name] \in Nat
    BY <1>1, <1>13
  <2> QED BY <2>1, BytesFacts
<1>17. ASSUME NEW k \in 1 .. e[name]
       PROVE  SubSeq(seg, from + 1, to)[k] = Bytes(name, e[name])[k]
  <2>1. from + k \in 1 .. FragmentSize
    BY <1>1, <1>11, <1>13
  <2> QED BY <2>1, <1>12, <1>13, <1>15
<1>18. SubSeq(seg, from + 1, to) = Bytes(name, e[name])
  BY <1>15, <1>16, <1>17, SeqEqual
<1>19. Bytes(name, e[name]) # OutOfRange
  <2>1. 1 \in 1 .. e[name]
    BY <1>13
  <2>2. Bytes(name, e[name])[1] = <<name, (1 - 1) % SegmentSize>>
    BY <2>1, <1>16
  <2>3. OutOfRange[1] = <<-1, 0>>
    BY DEF OutOfRange
  <2> QED BY <2>2, <2>3, <1>1
<1> QED BY <1>14, <1>18, <1>19 DEF seg

\* Every retrievable file of directory e can be cut out of box bx.
BoxIsRight(bx, e) ==
    \A name \in 1 .. Len(e) :
        e[name] # Box /\ Retrievable(bx, name) =>
            /\ Cut(bx.plates[1], name, Segment(bx.data, FALSE, 1)) = Bytes(name, e[name])
            /\ Bytes(name, e[name]) # OutOfRange

\* The nameless file that CreateAFileBox adds to the last plate leaves what the
\* first plate has.
LEMMA LastPlate ==
    ASSUME NEW b \in BoxState, b.plates # <<>>, NEW plates,
           plates = [b.plates EXCEPT ![Len(b.plates)] =
                         [files |-> Append(@.files, NoName), indexs |-> Append(@.indexs, b.size)]]
    PROVE  /\ plates \in Seq(Plate)
           /\ plates # <<>>
           /\ Behind(plates[1].files, b.plates[1].files)
           /\ Behind(plates[1].indexs, b.plates[1].indexs)
           /\ \A k \in 1 .. Len(plates[1].files) :
                 k > Len(b.plates[1].files) => plates[1].files[k] = NoName
<1> DEFINE last == Len(b.plates)
           p == b.plates[last]
           f == Append(p.files, NoName)
           x == Append(p.indexs, b.size)
           v == [files |-> f, indexs |-> x]
<1>1. b.plates \in Seq(Plate) /\ b.size \in Nat
  BY DEF BoxState
<1>2. last \in 1 .. last /\ last \in Nat \ {0} /\ 1 \in 1 .. last
  BY <1>1, EmptySeq
<1>3. p \in Plate
  BY <1>1, <1>2, ElementOfSeq
<1>4. p.files \in Seq(Nat) /\ p.indexs \in Seq(Nat) /\ NoName \in Nat
  BY <1>3 DEF Plate, NoName
<1>5. /\ f \in Seq(Nat) /\ Len(f) = Len(p.files) + 1 /\ f[Len(p.files) + 1] = NoName
      /\ \A k \in 1 .. Len(p.files) : f[k] = p.files[k]
  BY <1>4, AppendProperties
<1>6. /\ x \in Seq(Nat) /\ Len(x) = Len(p.indexs) + 1
      /\ \A k \in 1 .. Len(p.indexs) : x[k] = p.indexs[k]
  BY <1>1, <1>4, AppendProperties
<1>7. plates = [b.plates EXCEPT ![last] = v]
  OBVIOUS
<1> HIDE DEF f, x
<1>8. v \in Plate /\ v.files = f /\ v.indexs = x
  BY <1>5, <1>6 DEF Plate
<1> HIDE DEF v, p, last
<1>9. plates \in Seq(Plate) /\ Len(plates) = Len(b.plates)
      /\ \A j \in 1 .. last : plates[j] = IF j = last THEN v ELSE b.plates[j]
  <2>1. b.plates \in [1 .. last -> Plate] /\ last \in Nat
    BY <1>1, LenProperties DEF last
  <2>2. plates \in [1 .. last -> Plate]
    BY <2>1, <1>2, <1>7, <1>8
  <2>3. plates \in Seq(Plate)
    BY <2>1, <2>2, SeqDef
  <2>4. Len(plates) = last
    BY <2>1, <2>2, <2>3, LenProperties
  <2>5. \A j \in 1 .. last : plates[j] = IF j = last THEN v ELSE b.plates[j]
    BY <2>1, <1>7
  <2> QED BY <2>3, <2>4, <2>5 DEF last
<1>10. plates # <<>>
  BY <1>2, <1>9, EmptySeq DEF last
<1>11. Len(p.files) \in Nat /\ Len(p.indexs) \in Nat
  BY <1>4, LenProperties
<1>12. CASE last = 1
  <2>1. plates[1] = v /\ b.plates[1] = p
    BY <1>2, <1>9, <1>12 DEF p
  <2>2. Behind(f, p.files) /\ Behind(x, p.indexs)
    BY <1>5, <1>6, <1>11 DEF Behind
  <2>3. ASSUME NEW k \in 1 .. Len(f), k > Len(p.files) PROVE f[k] = NoName
    <3>1. k = Len(p.files) + 1
      BY <2>3, <1>5, <1>11
    <3> QED BY <3>1, <1>5
  <2> QED BY <2>1, <2>2, <2>3, <1>8, <1>9, <1>10
<1>13. CASE last # 1
  <2>1. plates[1] = b.plates[1]
    BY <1>2, <1>9, <1>13
  <2>2. b.plates[1].files \in Seq(Nat) /\ b.plates[1].indexs \in Seq(Nat)
    BY FirstPlateTyped
  <2>3. /\ Len(b.plates[1].files) \in Nat /\ Len(b.plates[1].indexs) \in Nat
    BY <2>2, LenProperties
  <2>4. /\ Behind(b.plates[1].files, b.plates[1].files)
        /\ Behind(b.plates[1].indexs, b.plates[1].indexs)
    BY <2>2, <2>3 DEF Behind
  <2>5. \A k \in 1 .. Len(b.plates[1].files) : ~(k > Len(b.plates[1].files))
    BY <2>3
  <2> QED BY <2>1, <2>4, <2>5, <1>9, <1>10
<1> QED BY <1>12, <1>13

\* CreateAFileBox, for every directory: it panics, or the box has a full plate and
\* gives every retrievable file back byte for byte.  DownloadFileInBox relies on it.
THEOREM CreateAFileBoxIsRight ==
    ASSUME NEW e \in Entries, NEW bx, bx = CreateAFileBox(e)
    PROVE  /\ Len(bx.data) \in Nat
           /\ bx.plates \in Seq(Plate)
           /\ ~Panics(bx) => Len(bx.data) >= FragmentSize /\ BoxIsRight(bx, e)
<1> DEFINE b == BoxLoop(e)[Len(e)]
           plates == IF Len(b.plates) = 0 THEN <<>> ELSE
                     [b.plates EXCEPT ![Len(b.plates)] =
                         [files |-> Append(@.files, NoName), indexs |-> Append(@.indexs, b.size)]]
<1>1. LoopInv(b, e, Len(e))
  BY LoopHolds
<1>2. bx = [data |-> b.data, plates |-> plates]
  BY DEF CreateAFileBox
<1>3. bx.data = b.data /\ bx.plates = plates
  BY <1>2
<1> HIDE DEF b
<1>4. b \in BoxState /\ b.data \in Seq(ByteSet) /\ b.plates \in Seq(Plate)
  BY <1>1 DEF LoopInv, BoxState
<1>5. Len(bx.data) \in Nat
  BY <1>3, <1>4, LenProperties
<1>6. ASSUME ~Panics(bx)
      PROVE  Len(bx.data) >= FragmentSize /\ BoxIsRight(bx, e)
  <2>1. b.plates # <<>>
    BY <1>3, <1>4, <1>6, EmptySeq DEF Panics
  <2>2. bx.plates = [b.plates EXCEPT ![Len(b.plates)] =
            [files |-> Append(@.files, NoName), indexs |-> Append(@.indexs, b.size)]]
    BY <1>3, <1>4, <2>1, EmptySeq
  <2>3. FirstClosed(b.plates[1].files, b.plates[1].indexs, b.data, e)
    BY <1>1, <2>1 DEF LoopInv
  <2> DEFINE q == bx.plates[1]
             files == b.plates[1].files
             indexs == b.plates[1].indexs
  <2>4. /\ bx.plates \in Seq(Plate)
        /\ Behind(q.files, files)
        /\ Behind(q.indexs, indexs)
        /\ \A k \in 1 .. Len(q.files) : k > Len(files) => q.files[k] = NoName
    <3> DEFINE pl == bx.plates
    <3>1. pl = [b.plates EXCEPT ![Len(b.plates)] =
            [files |-> Append(@.files, NoName), indexs |-> Append(@.indexs, b.size)]]
      BY <2>2
    <3> HIDE DEF pl
    <3>2. /\ pl \in Seq(Plate)
          /\ Behind(pl[1].files, b.plates[1].files)
          /\ Behind(pl[1].indexs, b.plates[1].indexs)
          /\ \A k \in 1 .. Len(pl[1].files) :
                k > Len(b.plates[1].files) => pl[1].files[k] = NoName
      BY <3>1, <1>4, <2>1, LastPlate
    <3> QED BY <3>2 DEF pl
  <2>5. files \in Seq(Nat) /\ indexs \in Seq(Nat)
    BY <1>4, <2>1, FirstPlateTyped
  <2>6. ASSUME NEW name \in 1 .. Len(e), e[name] # Box, Retrievable(bx, name)
        PROVE  /\ Cut(q, name, Segment(b.data, FALSE, 1)) = Bytes(name, e[name])
               /\ Bytes(name, e[name]) # OutOfRange
    <3>1. Holds(q, name)
      BY <2>4, <2>6, PlateOfHolds DEF Retrievable
    <3>2. \/ \E j \in 1 .. Len(q.files) - 1 : q.files[j] = name /\ q.files[j + 1] # NoName
          \/ b.data[FragmentSize] = Padding
      BY <2>6, <1>3 DEF Retrievable
    <3> HIDE DEF q, files, indexs
    <3> QED BY <3>1, <3>2, <2>3, <2>4, <2>5, <2>6, <1>4, CutIsRight DEF files, indexs
  <2> QED BY <2>3, <2>6, <1>3 DEF BoxIsRight, FirstClosed
<1>7. bx.plates \in Seq(Plate)
  <2>1. CASE b.plates = <<>>
    <3>1. Len(b.plates) = 0
      BY <2>1
    <3>2. plates = <<>>
      BY <3>1
    <3> QED BY <3>2, <1>3
  <2>2. CASE b.plates # <<>>
    <3>1. bx.plates = [b.plates EXCEPT ![Len(b.plates)] =
            [files |-> Append(@.files, NoName), indexs |-> Append(@.indexs, b.size)]]
      BY <1>3, <1>4, <2>2, EmptySeq
    <3> DEFINE pl == bx.plates
    <3>2. pl = [b.plates EXCEPT ![Len(b.plates)] =
            [files |-> Append(@.files, NoName), indexs |-> Append(@.indexs, b.size)]]
      BY <3>1
    <3> HIDE DEF pl
    <3>3. pl \in Seq(Plate)
      BY <3>2, <1>4, <2>2, LastPlate
    <3> QED BY <3>3 DEF pl
  <2> QED BY <2>1, <2>2
<1> QED BY <1>5, <1>6, <1>7

-----------------------------------------------------------------------------
(* The inductive invariant *)

\* The types of a call.
Ops == {"none", "file", "storage", "box", "gateway", "upload"}
Places == {"idle", "meta", "segment", "fetch", "restore", "write", "fail", "recover",
           "read", "split", "send", "ok", "err", "blocked", "panic"}
CallState == [op : Ops, at : Places, i : Nat, name : Nat, got : SUBSET Fragments,
              paths : Seq(Nat), right : BOOLEAN]

\* The box has been stored.
Kept == stage \in {"queued", "gateway"}

\* The box that is stored is one that CreateAFileBox made of the directory.
BoxOK ==
    /\ dir \in Entries
    /\ cipher \in BOOLEAN
    /\ Len(box.data) \in Nat
    /\ box.plates \in Seq(Plate)
    /\ stage \in {"boxed", "queued", "gateway"} =>
           Len(box.data) >= FragmentSize /\ BoxIsRight(box, dir)
    /\ stage = "queued" => Num = Len(box.plates)
    /\ stage = "gateway" => boxChunks

\* Until something is stored no call is made; then the files are those of the
\* stored segments.
DirOK ==
    /\ Kept => DOMAIN disk = 1 .. Num /\ DOMAIN out = 1 .. Num /\ DOMAIN frags = 1 .. Num
    /\ ~Kept => ~chunks /\ \A c \in Calls : call[c] = Idle

\* The number of a segment or of a plate is in its list when it is used.
InRange(c) ==
    /\ call[c].at = "idle" => call[c].op = "none"
    /\ call[c].at \in {"fetch", "restore", "write", "read", "recover"} => call[c].i \in 1 .. Num
    /\ call[c].op \in {"file", "storage"} /\ call[c].at \in {"segment", "fail"} =>
           call[c].i \in 1 .. Num
    /\ call[c].op \in {"box", "gateway"} /\ call[c].at \in {"meta", "segment"} =>
           call[c].i \in 1 .. Len(box.plates)
    /\ call[c].op = "gateway" /\ call[c].at = "segment" => Num = Len(box.plates)

\* The type invariant, and the ranges that the calls rely on.
TypeInv ==
    /\ BoxOK
    /\ DirOK
    /\ call \in [Calls -> CallState]
    /\ clean \subseteq Calls
    /\ \A c \in Calls : InRange(c)

\* The places of a call between the first segment and its return.
Busy == {"segment", "fetch", "restore", "write", "fail", "recover"}

\* The calls that a segment file s in the directory is due to.
DiskOwner(c, s) ==
    \/ call[c].op \in {"box", "gateway"}
    \/ call[c].at = "blocked"
    \/ call[c].op = "storage" /\ call[c].at \in Busy
    \/ /\ call[c].op = "file" /\ call[c].at \in Busy
       /\ s \in Range(call[c].paths)
    \/ /\ call[c].op = "file" /\ call[c].at \in {"write", "fail", "err"}
       /\ call[c].i > 0 /\ Seg(c) = s

\* The calls that a fragment f of segment s in the directory is due to: one that
\* fetched it, or a DownloadFileFromStorage that runs and will remove all.
FragOwner(c, s, f) ==
    \/ /\ call[c].op \in {"file", "box"} /\ call[c].at \in {"restore", "write", "fail", "err"}
       /\ f \in call[c].got /\ Seg(c) = s
    \/ call[c].op = "storage" /\ call[c].at \in Busy

\* Every segment file, every fragment and the directory of chunks is due to a call.
DiskInv == \A s \in DOMAIN disk : disk[s] # "none" => \E c \in Calls : DiskOwner(c, s)

FragInv == \A s \in DOMAIN frags : \A f \in frags[s] : \E c \in Calls : FragOwner(c, s, f)

ChunkOwner(c) == call[c].op = "upload" /\ call[c].at \in {"split", "send", "err"}

ChunkInv == chunks => \E c \in Calls : ChunkOwner(c)

LeftInv == DiskInv /\ FragInv /\ ChunkInv

\* A clean call runs alone.
LoneInv == \A c \in clean : Active(c) => \A d \in Calls \ {c} : ~Active(d)

\* A clean call has enough fragments, and nobody else touches the file it writes.
MadeInv ==
    \A c \in clean :
        /\ call[c].at \in {"restore", "write"} => ~Short(c)
        /\ call[c].at = "write" => disk[Seg(c)] = "torn"

\* A clean call that gets the whole file.
WholeSoFar(c) ==
    /\ call[c].at = "meta" => call[c].paths = <<>>
    /\ call[c].at \in {"meta", "segment", "fetch", "restore", "write"} => call[c].right
    /\ call[c].at \in {"segment", "fetch", "restore", "write"} =>
           /\ Len(call[c].paths) <= call[c].i - 1
           /\ Len(call[c].paths) = call[c].i - 1 =>
                  \A j \in 1 .. call[c].i - 1 :
                      \/ disk[SegmentList[j]] = "whole"
                      \/ call[c].at = "write" /\ SegmentList[j] = Seg(c)
    /\ call[c].at = "recover" =>
           (Len(call[c].paths) = Num =>
               /\ call[c].right
               /\ \A j \in 1 .. Num : disk[SegmentList[j]] = "whole"
               /\ \A j \in 1 .. call[c].i - 1 : out[j] = "right")
    /\ call[c].at = "ok" => call[c].right

WholeInv == \A c \in clean : call[c].op \in {"file", "storage"} => WholeSoFar(c)

\* A call for a boxed file knows the plate of its file.
NamesInv ==
    \A c \in Calls : call[c].op \in {"box", "gateway"} =>
        call[c].name \in DOMAIN dir /\ call[c].i = PlateOf(box.plates, call[c].name)

\* A clean call for a boxed file reads a whole segment.
ReadInv ==
    \A c \in clean : call[c].op \in {"box", "gateway"} /\ call[c].at = "read" =>
        disk[Seg(c)] = "whole"

\* The invariant without its types.
Others ==
    LeftInv /\ LoneInv /\ MadeInv /\ WholeInv /\ NamesInv /\ ReadInv /\ BoxedFileIsRight

\* The inductive invariant.
IInv == TypeInv /\ Others

-----------------------------------------------------------------------------
(* Segments and plates *)

\* A segment holds at least one byte of the file.
LEMMA PieceSizeFacts ==
    ASSUME NEW x \in BOOLEAN
    PROVE  PieceSize(x) \in Nat \ {0}
<1>1. SegmentSize - Overhead \in Nat \ {0}
  BY SegmentSizeFacts, BoxAssumption
<1> QED BY <1>1, SegmentSizeFacts DEF PieceSize

\* Rounding up: a file that is not empty has a segment.
LEMMA DivFacts ==
    ASSUME NEW n \in Nat, NEW p \in Nat \ {0}
    PROVE  /\ (n + p - 1) \div p \in Nat
           /\ n > 0 => (n + p - 1) \div p \in Nat \ {0}
<1>1. ASSUME NEW m \in Nat PROVE m \div p \in Nat /\ (m >= p => m \div p > 0)
  OBVIOUS
<1>2. n + p - 1 \in Nat /\ (n > 0 => n + p - 1 >= p)
  OBVIOUS
<1> QED BY <1>1, <1>2

\* The number of segments; a stored file has one.
LEMMA NumFacts == BoxOK => Num \in Nat /\ (Kept => Num \in Nat \ {0})
<1> SUFFICES ASSUME BoxOK PROVE Num \in Nat /\ (Kept => Num \in Nat \ {0})
  OBVIOUS
<1>1. Len(box.data) \in Nat /\ cipher \in BOOLEAN
  BY DEF BoxOK
<1>2. Kept => Len(box.data) > 0
  BY <1>1, BoxAssumption DEF BoxOK, Kept
<1>3. PieceSize(cipher) \in Nat \ {0}
  BY <1>1, PieceSizeFacts
<1> QED BY <1>1, <1>2, <1>3, DivFacts DEF Num, SegmentNum

\* The hash of a segment is the number of this one or of an earlier one.
LEMMA HashFacts ==
    ASSUME NEW data, NEW x, NEW i \in Nat \ {0}
    PROVE  Hash(data, x, i) \in 1 .. i
<1> DEFINE first(j) == /\ Segment(data, x, j) = Segment(data, x, i)
                       /\ \A k \in 1 .. j - 1 : Segment(data, x, k) # Segment(data, x, i)
           N == {j \in 1 .. i : Segment(data, x, j) = Segment(data, x, i)}
<1>1. N \subseteq Nat /\ i \in N
  OBVIOUS
<1>2. PICK m \in N : \A j \in N : m <= j
  BY <1>1, LeastNatural
<1>3. m \in 1 .. i /\ first(m)
  <2>1. ASSUME NEW k \in 1 .. m - 1, Segment(data, x, k) = Segment(data, x, i) PROVE FALSE
    <3>1. k \in 1 .. i /\ k < m
      BY <1>2
    <3>2. k \in N
      BY <3>1, <2>1
    <3> QED BY <3>1, <3>2, <1>2
  <2> QED BY <2>1, <1>2
<1> HIDE DEF first
<1>4. (CHOOSE j \in 1 .. i : first(j)) \in 1 .. i
  BY <1>3
<1> QED BY <1>4 DEF Hash, first

\* So the hashes name segments of the file.
LEMMA SegmentListFacts ==
    ASSUME BoxOK
    PROVE  /\ \A i \in 1 .. Num : SegmentList[i] \in 1 .. i /\ SegmentList[i] \in 1 .. Num
           /\ Num \in Nat
<1>1. Num \in Nat
  BY NumFacts
<1>2. ASSUME NEW i \in 1 .. Num PROVE SegmentList[i] \in 1 .. i /\ SegmentList[i] \in 1 .. Num
  <2>1. SegmentList[i] = Hash(box.data, cipher, i)
    BY DEF SegmentList
  <2>2. i \in Nat \ {0}
    BY <1>1
  <2>3. SegmentList[i] \in 1 .. i
    BY <2>1, <2>2, HashFacts
  <2> QED BY <2>3, <1>1
<1> QED BY <1>1, <1>2

\* PlateOf gives 0 or the number of a plate.
LEMMA PlateOfRange ==
    ASSUME NEW plates \in Seq(Plate), NEW name
    PROVE  PlateOf(plates, name) = 0 \/ PlateOf(plates, name) \in 1 .. Len(plates)
<1> DEFINE has == {i \in DOMAIN plates : Holds(plates[i], name)}
<1>1. Len(plates) \in Nat /\ DOMAIN plates = 1 .. Len(plates)
  BY LenProperties
<1>2. CASE has = {}
  BY <1>2 DEF PlateOf
<1>3. CASE has # {}
  <2>1. has \subseteq Nat /\ \A i \in has : i <= Len(plates)
    BY <1>1
  <2>2. \E i \in has : \A j \in has : j <= i
    BY <1>1, <1>3, <2>1, GreatestNatural
  <2>3. PlateOf(plates, name) = CHOOSE i \in has : \A j \in has : j <= i
    BY <1>3 DEF PlateOf
  <2> HIDE DEF has
  <2>4. (CHOOSE i \in has : \A j \in has : j <= i) \in has
    BY <2>2
  <2>5. PlateOf(plates, name) \in has
    BY <2>3, <2>4
  <2> QED BY <2>5, <1>1 DEF has
<1> QED BY <1>2, <1>3

-----------------------------------------------------------------------------
(* The effect of each action on the calls *)

\* Call record r is k with these fields; the operation and the name are kept.
Made(r, k, at, i, got, paths, right) ==
    /\ r \in CallState
    /\ r.op = k.op /\ r.name = k.name
    /\ r.at = at /\ r.i = i /\ r.got = got /\ r.paths = paths /\ r.right = right

\* The updates of a call record that the actions make.
LEMMA SetFields ==
    ASSUME NEW k \in CallState, NEW at \in Places, NEW i \in Nat, NEW got \in SUBSET Fragments,
           NEW paths \in Seq(Nat), NEW right \in BOOLEAN, NEW r,
           \/ r = [k EXCEPT !.at = at] /\ i = k.i /\ got = k.got /\ paths = k.paths /\ right = k.right
           \/ r = [k EXCEPT !.at = at, !.i = i] /\ got = k.got /\ paths = k.paths /\ right = k.right
           \/ r = [k EXCEPT !.i = i, !.at = at] /\ got = k.got /\ paths = k.paths /\ right = k.right
           \/ r = [k EXCEPT !.got = got] /\ at = k.at /\ i = k.i /\ paths = k.paths /\ right = k.right
           \/ r = [k EXCEPT !.got = got, !.paths = paths] /\ at = k.at /\ i = k.i /\ right = k.right
           \/ r = [k EXCEPT !.at = at, !.right = right] /\ i = k.i /\ got = k.got /\ paths = k.paths
           \/ r = [k EXCEPT !.i = i, !.right = right] /\ at = k.at /\ got = k.got /\ paths = k.paths
    PROVE  Made(r, k, at, i, got, paths, right)
<1> DEFINE G == SUBSET Fragments
           P == Seq(Nat)
<1>1. CallState = [op : Ops, at : Places, i : Nat, name : Nat, got : G, paths : P, right : BOOLEAN]
  BY DEF CallState
<1>2. got \in G /\ paths \in P
  OBVIOUS
<1> HIDE DEF G, P
<1> QED BY <1>1, <1>2 DEF Made

\* Call c has these fields after the step, and the other calls are as before.
Now(c, at, i, got, paths, right) ==
    /\ call' \in [Calls -> CallState]
    /\ \A d \in Calls \ {c} : call'[d] = call[d]
    /\ Made(call'[c], call[c], at, i, got, paths, right)

\* Call c goes to another place, and nothing else of it changes.
Goes(c, at) == Now(c, at, call[c].i, call[c].got, call[c].paths, call[c].right)

\* Call c returns, and its deferred removals are done.
Leaves(c, at, right) ==
    /\ Now(c, at, call[c].i, call[c].got, call[c].paths, right)
    /\ disk' = Removed(c)
    /\ frags' = RemovedFrags(c)

\* Advance
GoesOn(c, paths) ==
    IF call[c].i < Num THEN Now(c, "segment", call[c].i + 1, {}, paths, call[c].right)
    ELSE Now(c, "recover", 1, {}, paths, call[c].right)

\* The fields of a call are typed.
LEMMA CallTyped ==
    ASSUME call \in [Calls -> CallState], NEW c \in Calls
    PROVE  /\ call[c] \in CallState /\ call[c].op \in Ops /\ call[c].at \in Places
           /\ call[c].i \in Nat /\ call[c].name \in Nat /\ call[c].got \in SUBSET Fragments
           /\ call[c].paths \in Seq(Nat) /\ call[c].right \in BOOLEAN
<1>1. call[c] \in CallState
  OBVIOUS
<1> QED BY <1>1 DEF CallState

\* The updates one by one: the segment and the place.
LEMMA SetTurn ==
    ASSUME NEW k \in CallState, NEW at \in Places, NEW i \in Nat
    PROVE  Made([k EXCEPT !.i = i, !.at = at], k, at, i, k.got, k.paths, k.right)
<1>1. k.at \in Places /\ k.i \in Nat /\ k.got \in SUBSET Fragments /\ k.paths \in Seq(Nat)
      /\ k.right \in BOOLEAN
  BY DEF CallState
<1> QED BY <1>1, SetFields

\* The place and the segment.
LEMMA SetPlace ==
    ASSUME NEW k \in CallState, NEW at \in Places, NEW i \in Nat
    PROVE  Made([k EXCEPT !.at = at, !.i = i], k, at, i, k.got, k.paths, k.right)
<1>1. k.at \in Places /\ k.i \in Nat /\ k.got \in SUBSET Fragments /\ k.paths \in Seq(Nat)
      /\ k.right \in BOOLEAN
  BY DEF CallState
<1> QED BY <1>1, SetFields

\* The fragments.
LEMMA SetGot ==
    ASSUME NEW k \in CallState, NEW got \in SUBSET Fragments
    PROVE  Made([k EXCEPT !.got = got], k, k.at, k.i, got, k.paths, k.right)
<1>1. k.at \in Places /\ k.i \in Nat /\ k.got \in SUBSET Fragments /\ k.paths \in Seq(Nat)
      /\ k.right \in BOOLEAN
  BY DEF CallState
<1> QED BY <1>1, SetFields

\* The fragments and the paths.
LEMMA SetPaths ==
    ASSUME NEW k \in CallState, NEW got \in SUBSET Fragments, NEW paths \in Seq(Nat)
    PROVE  Made([k EXCEPT !.got = got, !.paths = paths], k, k.at, k.i, got, paths, k.right)
<1>1. k.at \in Places /\ k.i \in Nat /\ k.got \in SUBSET Fragments /\ k.paths \in Seq(Nat)
      /\ k.right \in BOOLEAN
  BY DEF CallState
<1> QED BY <1>1, SetFields

\* The place and the result.
LEMMA SetResult ==
    ASSUME NEW k \in CallState, NEW at \in Places, NEW right \in BOOLEAN
    PROVE  Made([k EXCEPT !.at = at, !.right = right], k, at, k.i, k.got, k.paths, right)
<1>1. k.at \in Places /\ k.i \in Nat /\ k.got \in SUBSET Fragments /\ k.paths \in Seq(Nat)
      /\ k.right \in BOOLEAN
  BY DEF CallState
<1> QED BY <1>1, SetFields

\* The segment and the result.
LEMMA SetPart ==
    ASSUME NEW k \in CallState, NEW i \in Nat, NEW right \in BOOLEAN
    PROVE  Made([k EXCEPT !.i = i, !.right = right], k, k.at, i, k.got, k.paths, right)
<1>1. k.at \in Places /\ k.i \in Nat /\ k.got \in SUBSET Fragments /\ k.paths \in Seq(Nat)
      /\ k.right \in BOOLEAN
  BY DEF CallState
<1> QED BY <1>1, SetFields

\* An update of call c leaves the other calls as they are.
LEMMA SetNow ==
    ASSUME call \in [Calls -> CallState], NEW c \in Calls, NEW k, Set(c, k),
           NEW at, NEW i, NEW got, NEW paths, NEW right,
           Made(k, call[c], at, i, got, paths, right)
    PROVE  Now(c, at, i, got, paths, right)
<1>1. k \in CallState
  BY DEF Made
<1>2. call' = [call EXCEPT ![c] = k]
  BY DEF Set
<1>3. call'[c] = k /\ call' \in [Calls -> CallState] /\ \A d \in Calls \ {c} : call'[d] = call[d]
  BY <1>1, <1>2
<1> QED BY <1>3 DEF Now

\* An update of the place only.
LEMMA SetGoes ==
    ASSUME call \in [Calls -> CallState], NEW c \in Calls, NEW at \in Places,
           Set(c, [call[c] EXCEPT !.at = at])
    PROVE  Goes(c, at)
<1> DEFINE k == [call[c] EXCEPT !.at = at]
<1>1. /\ call[c] \in CallState
      /\ call[c].i \in Nat /\ call[c].got \in SUBSET Fragments
      /\ call[c].paths \in Seq(Nat) /\ call[c].right \in BOOLEAN
  BY CallTyped
<1>2. Made(k, call[c], at, call[c].i, call[c].got, call[c].paths, call[c].right)
  BY <1>1, SetFields
<1> QED BY <1>2, SetNow DEF Goes

\* Return does the deferred removals.
LEMMA ReturnLeaves ==
    ASSUME call \in [Calls -> CallState], NEW c \in Calls, NEW at \in Places, Return(c, at)
    PROVE  Leaves(c, at, call[c].right)
<1>1. Goes(c, at)
  BY SetGoes DEF Return
<1> QED BY <1>1 DEF Leaves, Goes, Return

\* Advance: the next segment's turn, or the recovery after the last one.
LEMMA AdvanceMade ==
    ASSUME NEW c \in Calls, NEW k, NEW paths \in Seq(Nat), BoxOK, call \in [Calls -> CallState],
           Made(k, call[c], call[c].at, call[c].i, {}, paths, call[c].right)
    PROVE  IF call[c].i < Num
           THEN Made(Advance(k), call[c], "segment", call[c].i + 1, {}, paths, call[c].right)
           ELSE Made(Advance(k), call[c], "recover", 1, {}, paths, call[c].right)
<1>1. call[c].i \in Nat /\ call[c].right \in BOOLEAN /\ Num \in Nat
  BY CallTyped, NumFacts
<1>2. /\ k \in CallState /\ k.i = call[c].i /\ k.got = {} /\ k.paths = paths
      /\ k.right = call[c].right /\ k.op = call[c].op /\ k.name = call[c].name
  BY DEF Made
<1>3. {} \in SUBSET Fragments /\ "segment" \in Places /\ "recover" \in Places
  BY DEF Places
<1>4. CASE call[c].i < Num
  <2> DEFINE i == k.i + 1
  <2>1. Advance(k) = [k EXCEPT !.i = i, !.at = "segment"]
    BY <1>2, <1>4 DEF Advance
  <2>2. i \in Nat /\ i = call[c].i + 1
    BY <1>1, <1>2
  <2> HIDE DEF i
  <2>3. Made(Advance(k), k, "segment", i, k.got, k.paths, k.right)
    <3>1. k \in CallState /\ i \in Nat /\ "segment" \in Places
      BY <2>2, <1>2, <1>3
    <3>2. Made([k EXCEPT !.i = i, !.at = "segment"], k, "segment", i, k.got, k.paths, k.right)
      BY <3>1, SetTurn
    <3> QED BY <3>2, <2>1
  <2> QED BY <2>2, <2>3, <1>2, <1>4 DEF Made
<1>5. CASE ~(call[c].i < Num)
  <2>1. Advance(k) = [k EXCEPT !.i = 1, !.at = "recover"]
    BY <1>2, <1>5 DEF Advance
  <2>2. Made(Advance(k), k, "recover", 1, k.got, k.paths, k.right)
    <3>1. k \in CallState /\ 1 \in Nat /\ "recover" \in Places
      BY <1>2, <1>3
    <3>2. Made([k EXCEPT !.i = 1, !.at = "recover"], k, "recover", 1, k.got, k.paths, k.right)
      BY <3>1, SetTurn
    <3> QED BY <3>2, <2>1
  <2> QED BY <2>2, <1>2, <1>5 DEF Made
<1> QED BY <1>4, <1>5

\* What Meta does: the call returns, or goes to the first segment or to its own.
LEMMA MetaEffect ==
    ASSUME TypeInv, NEW c \in Calls, Meta(c)
    PROVE  /\ call[c].at = "meta" /\ call[c].op \in {"file", "storage", "gateway"}
           /\ UNCHANGED <<uploadVars, out, chunks, clean>>
           /\ \/ Leaves(c, "err", call[c].right)
              \/ /\ call[c].op \in {"file", "storage"} /\ UNCHANGED <<frags, disk>>
                 /\ Now(c, "segment", 1, call[c].got, call[c].paths, call[c].right)
              \/ /\ call[c].op = "gateway" /\ Num = Len(box.plates) /\ UNCHANGED <<frags, disk>>
                 /\ Goes(c, "segment")
<1>1. call \in [Calls -> CallState] /\ call[c] \in CallState /\ call[c].i \in Nat
  BY CallTyped DEF TypeInv
<1>2. /\ call[c].at = "meta" /\ call[c].op \in {"file", "storage", "gateway"}
      /\ UNCHANGED <<uploadVars, out, chunks, clean>>
  BY DEF Meta, At, Unshared
<1>3. "err" \in Places /\ "segment" \in Places
  BY DEF Places
<1>4. CASE Return(c, "err")
  BY <1>1, <1>2, <1>3, <1>4, ReturnLeaves
<1>5. CASE /\ call[c].op = "gateway" => Num = Len(box.plates)
           /\ LET file == call[c].op # "gateway"
              IN Set(c, [call[c] EXCEPT !.at = "segment", !.i = IF file THEN 1 ELSE @])
           /\ UNCHANGED <<frags, disk>>
  <2> DEFINE i == IF call[c].op # "gateway" THEN 1 ELSE call[c].i
             r == [call[c] EXCEPT !.at = "segment", !.i = i]
  <2>1. i \in Nat
    BY <1>1
  <2>2. Set(c, r)
    BY <1>5
  <2>3. Made(r, call[c], "segment", i, call[c].got, call[c].paths, call[c].right)
    <3> HIDE DEF i
    <3> QED BY <1>1, <1>3, <2>1, SetPlace
  <2>4. Now(c, "segment", i, call[c].got, call[c].paths, call[c].right)
    <3> HIDE DEF i, r
    <3> QED BY <2>2, <2>3, <1>1, SetNow
  <2>5. CASE call[c].op # "gateway"
    BY <2>4, <2>5, <1>2, <1>5
  <2>6. CASE call[c].op = "gateway"
    BY <2>4, <2>6, <1>2, <1>5 DEF Goes
  <2> QED BY <2>5, <2>6
<1> QED BY <1>4, <1>5 DEF Meta

\* What QueryCachers does: a cacher blocks the call, or it goes to the storage nodes.
LEMMA QueryEffect ==
    ASSUME TypeInv, NEW c \in Calls, QueryCachers(c)
    PROVE  /\ call[c].at = "segment" /\ call[c].op \in {"file", "storage", "box"}
           /\ UNCHANGED <<uploadVars, frags, disk, out, chunks, clean>>
           /\ \/ Goes(c, "fetch") /\ ~(call[c].op = "box" /\ stage = "gateway")
              \/ Goes(c, "blocked") /\ call[c].op # "storage"
              \/ Goes(c, "fail") /\ call[c].op = "box"
<1>1. call \in [Calls -> CallState]
  BY DEF TypeInv
<1>2. "fetch" \in Places /\ "blocked" \in Places /\ "fail" \in Places
  BY DEF Places
<1>3. PICK at : /\ Set(c, [call[c] EXCEPT !.at = at])
                /\ \/ at = "fetch" /\ ~(call[c].op = "box" /\ stage = "gateway")
                   \/ at = "blocked" /\ call[c].op # "storage"
                   \/ at = "fail" /\ call[c].op = "box"
  BY DEF QueryCachers
<1>4. Goes(c, at)
  BY <1>1, <1>2, <1>3, SetGoes
<1> QED BY <1>3, <1>4 DEF QueryCachers, At, filesVars

\* What Fetch does: the fragments are stored, and the segment is restored, has
\* failed, or is passed over.
LEMMA FetchEffect ==
    ASSUME TypeInv, NEW c \in Calls, Fetch(c)
    PROVE  /\ call[c].at = "fetch" /\ call[c].op \in {"file", "storage", "box"}
           /\ UNCHANGED <<uploadVars, disk, out, chunks>> /\ clean' \subseteq clean
           /\ \E got \in SUBSET Fragments :
                 /\ frags' = [frags EXCEPT ![Seg(c)] = @ \cup got]
                 /\ \/ /\ Now(c, "restore", call[c].i, got, call[c].paths, call[c].right)
                       /\ c \in clean' => ~(Cardinality(got) < DataShards)
                    \/ Now(c, "fail", call[c].i, got, call[c].paths, call[c].right)
                    \/ call[c].op = "storage" /\ GoesOn(c, call[c].paths)
<1>1. call \in [Calls -> CallState] /\ call[c] \in CallState /\ BoxOK
  BY CallTyped DEF TypeInv
<1>2. "restore" \in Places /\ "fail" \in Places /\ {} \in SUBSET Fragments
  BY DEF Places
<1>3. PICK got \in SUBSET Fragments :
          /\ frags' = [frags EXCEPT ![Seg(c)] = @ \cup got]
          /\ clean' \subseteq clean
          /\ \/ /\ Set(c, [[call[c] EXCEPT !.got = got] EXCEPT !.at = "restore"])
                /\ c \in clean' => ~(Cardinality(got) < DataShards)
             \/ Set(c, [[call[c] EXCEPT !.got = got] EXCEPT !.at = "fail"])
             \/ /\ [call[c] EXCEPT !.got = got].op = "storage"
                /\ Set(c, [Advance([call[c] EXCEPT !.got = got]) EXCEPT !.got = {}])
  BY DEF Fetch
<1> DEFINE k == [call[c] EXCEPT !.got = got]
<1>4. Made(k, call[c], call[c].at, call[c].i, got, call[c].paths, call[c].right)
  BY <1>1, SetGot
<1> HIDE DEF k
<1>5. k \in CallState
  BY <1>4 DEF Made
<1>6. ASSUME NEW x \in Places, Set(c, [k EXCEPT !.at = x])
      PROVE  Now(c, x, call[c].i, got, call[c].paths, call[c].right)
  <2> DEFINE r == [k EXCEPT !.at = x]
  <2>1. Made(r, k, x, k.i, k.got, k.paths, k.right)
    <3>1. /\ k.i \in Nat /\ k.got \in SUBSET Fragments
          /\ k.paths \in Seq(Nat) /\ k.right \in BOOLEAN
      BY <1>5 DEF CallState
    <3> QED BY <3>1, <1>5, SetFields
  <2>2. Made(r, call[c], x, call[c].i, got, call[c].paths, call[c].right)
    BY <2>1, <1>4 DEF Made
  <2> HIDE DEF r
  <2>3. Set(c, r)
    BY <1>6 DEF r
  <2> QED BY <2>2, <2>3, <1>1, SetNow
<1>7. ASSUME k.op = "storage", Set(c, [Advance(k) EXCEPT !.got = {}])
      PROVE  call[c].op = "storage" /\ GoesOn(c, call[c].paths)
  <2>1. call[c].op = "storage" /\ k.i = call[c].i
    BY <1>4, <1>7 DEF Made
  <2>2. call[c].i \in Nat /\ Num \in Nat /\ "segment" \in Places /\ "recover" \in Places
    BY <1>1, CallTyped, NumFacts DEF Places
  <2> DEFINE a == Advance(k)
             r == [a EXCEPT !.got = {}]
  <2>3. CASE call[c].i < Num
    <3> DEFINE i == k.i + 1
    <3>0. i \in Nat /\ i = call[c].i + 1
      BY <2>1, <2>2
    <3>1. a = [k EXCEPT !.i = i, !.at = "segment"]
      BY <2>1, <2>3 DEF Advance
    <3> HIDE DEF i, a
    <3>2. Made([k EXCEPT !.i = i, !.at = "segment"], k, "segment", i, k.got, k.paths, k.right)
      BY <3>0, <1>5, <2>2, SetTurn
    <3>3. Made(a, k, "segment", i, k.got, k.paths, k.right)
      BY <3>1, <3>2
    <3>4. a \in CallState
      BY <3>3 DEF Made
    <3>5. Made(r, a, a.at, a.i, {}, a.paths, a.right)
      BY <3>4, <1>2, SetGot
    <3>6. Made(r, call[c], "segment", call[c].i + 1, {}, call[c].paths, call[c].right)
      BY <3>0, <3>3, <3>5, <1>4 DEF Made
    <3> HIDE DEF r
    <3>7. Set(c, r)
      BY <1>7 DEF r, a
    <3>8. Now(c, "segment", call[c].i + 1, {}, call[c].paths, call[c].right)
      BY <3>6, <3>7, <1>1, SetNow
    <3> QED BY <3>8, <2>1, <2>3 DEF GoesOn
  <2>4. CASE ~(call[c].i < Num)
    <3>1. a = [k EXCEPT !.i = 1, !.at = "recover"]
      BY <2>1, <2>4 DEF Advance
    <3> HIDE DEF a
    <3>2. Made([k EXCEPT !.i = 1, !.at = "recover"], k, "recover", 1, k.got, k.paths, k.right)
      BY <1>5, <2>2, SetTurn
    <3>3. Made(a, k, "recover", 1, k.got, k.paths, k.right)
      BY <3>1, <3>2
    <3>4. a \in CallState
      BY <3>3 DEF Made
    <3>5. Made(r, a, a.at, a.i, {}, a.paths, a.right)
      BY <3>4, <1>2, SetGot
    <3>6. Made(r, call[c], "recover", 1, {}, call[c].paths, call[c].right)
      BY <3>3, <3>5, <1>4 DEF Made
    <3> HIDE DEF r
    <3>7. Set(c, r)
      BY <1>7 DEF r, a
    <3>8. Now(c, "recover", 1, {}, call[c].paths, call[c].right)
      BY <3>6, <3>7, <1>1, SetNow
    <3> QED BY <3>8, <2>1, <2>4 DEF GoesOn
  <2> QED BY <2>3, <2>4
<1>8. \/ /\ Now(c, "restore", call[c].i, got, call[c].paths, call[c].right)
         /\ c \in clean' => ~(Cardinality(got) < DataShards)
      \/ Now(c, "fail", call[c].i, got, call[c].paths, call[c].right)
      \/ call[c].op = "storage" /\ GoesOn(c, call[c].paths)
  BY <1>2, <1>3, <1>6, <1>7 DEF k
<1>9. /\ call[c].at = "fetch" /\ call[c].op \in {"file", "storage", "box"}
      /\ UNCHANGED <<uploadVars, disk, out, chunks>>
  BY DEF Fetch, At
<1> QED BY <1>3, <1>8, <1>9

\* What a failure does: the call returns with an error.
LEMMA FailEffect ==
    ASSUME TypeInv, NEW c \in Calls, Fail(c) \/ RestoreFails(c)
    PROVE  /\ call[c].at \in {"fail", "restore"}
           /\ call[c].op \in {"file", "storage", "box", "gateway"}
           /\ UNCHANGED <<uploadVars, out, chunks, clean>>
           /\ Leaves(c, "err", call[c].right)
<1>1. call \in [Calls -> CallState] /\ "err" \in Places
  BY DEF TypeInv, Places
<1>2. Return(c, "err")
  BY DEF Fail, RestoreFails
<1>3. Leaves(c, "err", call[c].right)
  BY <1>1, <1>2, ReturnLeaves
<1> QED BY <1>3 DEF Fail, RestoreFails, At, Unshared

\* What WriteBegins does: the segment's file is torn until the write ends.
LEMMA WriteBeginsEffect ==
    ASSUME TypeInv, NEW c \in Calls, WriteBegins(c)
    PROVE  /\ \/ call[c].at = "restore" /\ call[c].op \in {"file", "storage", "box"}
              \/ call[c].at = "segment" /\ call[c].op = "gateway"
           /\ UNCHANGED <<uploadVars, frags, out, chunks, clean>>
           /\ disk' = [disk EXCEPT ![Seg(c)] = "torn"]
           /\ Goes(c, "write")
<1>1. call \in [Calls -> CallState] /\ "write" \in Places
  BY DEF TypeInv, Places
<1>2. Set(c, [call[c] EXCEPT !.at = "write"])
  BY DEF WriteBegins
<1>3. Goes(c, "write")
  BY <1>1, <1>2, SetGoes
<1> QED BY <1>3 DEF WriteBegins, At, Unshared

\* What WriteFails does: the segment's file stays, whatever is in it.
LEMMA WriteFailsEffect ==
    ASSUME TypeInv, NEW c \in Calls, WriteFails(c)
    PROVE  /\ call[c].at = "write" /\ call[c].op \in {"file", "storage", "box", "gateway"}
           /\ UNCHANGED <<uploadVars, frags, out, chunks, clean>>
           /\ \E r : disk' = [disk EXCEPT ![Seg(c)] = r]
           /\ Goes(c, "fail")
<1>1. call \in [Calls -> CallState] /\ "fail" \in Places
  BY DEF TypeInv, Places
<1>2. Set(c, [call[c] EXCEPT !.at = "fail"])
  BY DEF WriteFails
<1>3. Goes(c, "fail")
  BY <1>1, <1>2, SetGoes
<1> QED BY <1>3 DEF WriteFails, At, Unshared

\* What WriteEnds does: the file has one of the results of Result, and the call
\* goes on to the next segment or reads the boxed file.
LEMMA WriteEndsEffect ==
    ASSUME TypeInv, NEW c \in Calls, WriteEnds(c)
    PROVE  /\ call[c].at = "write" /\ call[c].op \in {"file", "storage", "box", "gateway"}
           /\ Seg(c) \in Nat
           /\ UNCHANGED <<uploadVars, out, chunks, clean>>
           /\ frags' = Written(c)
           /\ \E r \in Result(c) : disk' = [disk EXCEPT ![Seg(c)] = r]
           /\ \/ /\ call[c].op \in {"file", "storage"}
                 /\ GoesOn(c, Append(call[c].paths, Seg(c)))
              \/ /\ call[c].op \in {"box", "gateway"}
                 /\ Now(c, "read", call[c].i, {}, Append(call[c].paths, Seg(c)), call[c].right)
<1>1. /\ call \in [Calls -> CallState] /\ call[c] \in CallState /\ call[c].paths \in Seq(Nat)
      /\ BoxOK /\ call[c].right \in BOOLEAN /\ call[c].i \in Nat
  BY CallTyped DEF TypeInv
<1>2. call[c].at = "write" /\ call[c].op \in {"file", "storage", "box", "gateway"}
  BY DEF WriteEnds, At
<1>3. call[c].i \in 1 .. Num /\ Num \in Nat
  BY <1>1, <1>2, NumFacts DEF TypeInv, InRange
<1>4. Seg(c) \in Nat
  BY <1>1, <1>3, SegmentListFacts DEF Seg
<1> DEFINE paths == Append(call[c].paths, Seg(c))
           k == [call[c] EXCEPT !.got = {}, !.paths = paths]
<1>5. paths \in Seq(Nat)
  BY <1>1, <1>4, AppendProperties
<1>6. "read" \in Places /\ {} \in SUBSET Fragments
  BY DEF Places
<1>7. Set(c, IF k.op \in {"file", "storage"} THEN Advance(k) ELSE [k EXCEPT !.at = "read"])
  BY DEF WriteEnds
<1>8. Made(k, call[c], call[c].at, call[c].i, {}, paths, call[c].right)
  <2> HIDE DEF paths
  <2> QED BY <1>1, <1>5, <1>6, SetPaths
<1> HIDE DEF k, paths
<1>9. ASSUME call[c].op \in {"file", "storage"} PROVE GoesOn(c, paths)
  <2>1. Set(c, Advance(k))
    BY <1>7, <1>8, <1>9 DEF Made
  <2>2. CASE call[c].i < Num
    <3>1. Made(Advance(k), call[c], "segment", call[c].i + 1, {}, paths, call[c].right)
      BY <1>1, <1>5, <1>8, <2>2, AdvanceMade
    <3>2. Now(c, "segment", call[c].i + 1, {}, paths, call[c].right)
      BY <3>1, <2>1, <1>1, SetNow
    <3> QED BY <3>2, <2>2 DEF GoesOn
  <2>3. CASE ~(call[c].i < Num)
    <3>1. Made(Advance(k), call[c], "recover", 1, {}, paths, call[c].right)
      BY <1>1, <1>5, <1>8, <2>3, AdvanceMade
    <3>2. Now(c, "recover", 1, {}, paths, call[c].right)
      BY <3>1, <2>1, <1>1, SetNow
    <3> QED BY <3>2, <2>3 DEF GoesOn
  <2> QED BY <2>2, <2>3
<1>10. ASSUME call[c].op \in {"box", "gateway"}
       PROVE  Now(c, "read", call[c].i, {}, paths, call[c].right)
  <2> DEFINE r == [k EXCEPT !.at = "read"]
  <2>1. Set(c, r)
    BY <1>7, <1>8, <1>10 DEF Made
  <2>2. k \in CallState
    BY <1>8 DEF Made
  <2>3. /\ k.i \in Nat /\ k.got \in SUBSET Fragments
        /\ k.paths \in Seq(Nat) /\ k.right \in BOOLEAN
    BY <2>2 DEF CallState
  <2>4. Made(r, k, "read", k.i, k.got, k.paths, k.right)
    BY <2>2, <2>3, <1>6, SetFields
  <2>5. Made(r, call[c], "read", call[c].i, {}, paths, call[c].right)
    BY <2>4, <1>8 DEF Made
  <2> HIDE DEF r
  <2> QED BY <2>1, <2>5, <1>1, SetNow
<1>11. \/ call[c].op \in {"file", "storage"} /\ GoesOn(c, paths)
       \/ /\ call[c].op \in {"box", "gateway"}
          /\ Now(c, "read", call[c].i, {}, paths, call[c].right)
  BY <1>2, <1>9, <1>10
<1>12. \E r \in Result(c) : disk' = [disk EXCEPT ![Seg(c)] = r]
  BY DEF WriteEnds
<1>13. frags' = Written(c) /\ UNCHANGED <<uploadVars, out, chunks, clean>>
  BY DEF WriteEnds, Unshared
<1> QED BY <1>2, <1>4, <1>11, <1>12, <1>13 DEF paths

\* What Recover does: the call returns, or writes one segment to the result.
LEMMA RecoverEffect ==
    ASSUME TypeInv, NEW c \in Calls, Recover(c)
    PROVE  /\ call[c].at = "recover" /\ call[c].op \in {"file", "storage"}
           /\ UNCHANGED <<uploadVars, chunks>>
           /\ clean' \subseteq clean /\ DOMAIN out' = DOMAIN out
           /\ \/ out' = out /\ Leaves(c, "err", call[c].right)
              \/ out' = out /\ Leaves(c, "panic", call[c].right)
              \/ /\ Len(call[c].paths) = Num /\ (c \in clean' => out' = Recovered(c))
                 /\ call[c].i < Num /\ UNCHANGED <<frags, disk>>
                 /\ Now(c, "recover", call[c].i + 1, call[c].got, call[c].paths,
                        out'[call[c].i] = "right")
              \/ /\ Len(call[c].paths) = Num /\ (c \in clean' => out' = Recovered(c))
                 /\ ~(call[c].i < Num)
                 /\ Leaves(c, "ok", \A i \in 1 .. Num : out'[i] = "right")
<1>1. /\ call \in [Calls -> CallState] /\ call[c] \in CallState /\ call[c].i \in Nat
      /\ call[c].right \in BOOLEAN
  BY CallTyped DEF TypeInv
<1>2. /\ call[c].at = "recover" /\ call[c].op \in {"file", "storage"}
      /\ UNCHANGED <<uploadVars, chunks>>
      /\ clean' \subseteq clean /\ DOMAIN out' = DOMAIN out
  BY DEF Recover, At, Recovered
<1>3. "err" \in Places /\ "panic" \in Places /\ "ok" \in Places
  BY DEF Places
<1> DEFINE right == \A i \in 1 .. Num : out'[i] = "right"
           part == [call[c] EXCEPT !.i = call[c].i + 1, !.right = out'[call[c].i] = "right"]
           end == [call[c] EXCEPT !.at = "ok", !.right = right]
<1>4. \/ Return(c, "err") /\ UNCHANGED out
      \/ Return(c, "panic") /\ UNCHANGED out
      \/ /\ Len(call[c].paths) = Num /\ (c \in clean' => out' = Recovered(c))
         /\ call[c].i < Num /\ UNCHANGED <<frags, disk>> /\ Set(c, part)
      \/ /\ Len(call[c].paths) = Num /\ (c \in clean' => out' = Recovered(c))
         /\ ~(call[c].i < Num) /\ Set(c, end)
         /\ disk' = Removed(c) /\ frags' = RemovedFrags(c)
  BY DEF Recover
<1>5. CASE Return(c, "err") /\ UNCHANGED out
  BY <1>1, <1>2, <1>3, <1>5, ReturnLeaves
<1>6. CASE Return(c, "panic") /\ UNCHANGED out
  BY <1>1, <1>2, <1>3, <1>6, ReturnLeaves
<1>7. CASE /\ Len(call[c].paths) = Num /\ (c \in clean' => out' = Recovered(c))
           /\ call[c].i < Num /\ UNCHANGED <<frags, disk>> /\ Set(c, part)
  <2> DEFINE i == call[c].i + 1
             x == out'[call[c].i] = "right"
  <2>1. i \in Nat /\ x \in BOOLEAN
    BY <1>1
  <2>2. part = [call[c] EXCEPT !.i = i, !.right = x]
    OBVIOUS
  <2> HIDE DEF i, x
  <2>3. Made([call[c] EXCEPT !.i = i, !.right = x], call[c], call[c].at, i, call[c].got,
             call[c].paths, x)
    BY <2>1, <1>1, SetPart
  <2>4. Made(part, call[c], "recover", i, call[c].got, call[c].paths, x)
    BY <2>2, <2>3, <1>2
  <2>5. Set(c, part)
    BY <1>7
  <2> HIDE DEF part
  <2>6. Now(c, "recover", i, call[c].got, call[c].paths, x)
    BY <2>4, <2>5, <1>1, SetNow
  <2> QED BY <2>6, <1>2, <1>7 DEF i, x
<1>8. CASE /\ Len(call[c].paths) = Num /\ (c \in clean' => out' = Recovered(c))
           /\ ~(call[c].i < Num) /\ Set(c, end)
           /\ disk' = Removed(c) /\ frags' = RemovedFrags(c)
  <2>1. right \in BOOLEAN
    OBVIOUS
  <2> HIDE DEF right
  <2>2. Made(end, call[c], "ok", call[c].i, call[c].got, call[c].paths, right)
    BY <2>1, <1>1, <1>3, SetResult
  <2>3. Set(c, end)
    BY <1>8
  <2> HIDE DEF end
  <2>4. Now(c, "ok", call[c].i, call[c].got, call[c].paths, right)
    BY <2>2, <2>3, <1>1, SetNow
  <2>5. Leaves(c, "ok", right)
    BY <2>4, <1>8 DEF Leaves
  <2> QED BY <2>5, <1>2, <1>8 DEF right
<1> HIDE DEF right, part, end
<1> QED BY <1>4, <1>5, <1>6, <1>7, <1>8

\* What DownloadFileInBox must give back.
Boxed(name) == IF dir[name] = Box THEN <<>> ELSE Bytes(name, dir[name])

\* What ReadBox does: the call returns, with the file if the segment is whole and
\* plain and the cut is right.
LEMMA ReadBoxEffect ==
    ASSUME TypeInv, NEW c \in Calls, ReadBox(c)
    PROVE  /\ call[c].at = "read" /\ call[c].op \in {"box", "gateway"}
           /\ UNCHANGED <<uploadVars, frags, disk, out, chunks, clean>>
           /\ \E at \in {"ok", "err", "panic"}, right \in BOOLEAN :
                 /\ Now(c, at, call[c].i, call[c].got, call[c].paths, right)
                 /\ /\ disk[Seg(c)] = "whole" /\ ~cipher
                    /\ Cut(box.plates[call[c].i], call[c].name,
                           Segment(box.data, cipher, call[c].i)) = Boxed(call[c].name)
                    /\ Boxed(call[c].name) # OutOfRange
                    => at = "ok" /\ right
<1>1. call \in [Calls -> CallState] /\ call[c] \in CallState
  BY CallTyped DEF TypeInv
<1>2. /\ call[c].at = "read" /\ call[c].op \in {"box", "gateway"}
      /\ UNCHANGED <<uploadVars, frags, disk, out, chunks, clean>>
  BY DEF ReadBox, At, filesVars
<1> DEFINE data == Cut(box.plates[call[c].i], call[c].name, Segment(box.data, cipher, call[c].i))
           file == Boxed(call[c].name)
           right == disk[Seg(c)] = "whole" /\ ~cipher /\ data = file
<1>3. PICK at \in CASE disk[Seg(c)] = "none" -> {"err"}
                    [] disk[Seg(c)] \in {"torn", "mixed"} -> {"ok", "panic"}
                    [] OTHER -> {IF data = OutOfRange THEN "panic" ELSE "ok"} :
          Set(c, [call[c] EXCEPT !.at = at, !.right = right])
  BY DEF ReadBox, Boxed
<1>4. at \in {"ok", "err", "panic"} /\ at \in Places
  <2> HIDE DEF data
  <2> QED BY <1>3 DEF Places
<1>5. right \in BOOLEAN
  <2> HIDE DEF data, file
  <2> QED OBVIOUS
<1>6. disk[Seg(c)] = "whole" /\ ~cipher /\ data = file /\ file # OutOfRange => at = "ok" /\ right
  <2> HIDE DEF data, file
  <2> QED BY <1>3
<1> DEFINE r == [call[c] EXCEPT !.at = at, !.right = right]
<1>7. Set(c, r)
  BY <1>3
<1> HIDE DEF right
<1>8. Made(r, call[c], at, call[c].i, call[c].got, call[c].paths, right)
  BY <1>1, <1>4, <1>5, SetResult
<1> HIDE DEF r
<1>9. Now(c, at, call[c].i, call[c].got, call[c].paths, right)
  BY <1>7, <1>8, <1>1, SetNow
<1> HIDE DEF data, file
<1>10. \E x \in {"ok", "err", "panic"}, y \in BOOLEAN :
          /\ Now(c, x, call[c].i, call[c].got, call[c].paths, y)
          /\ disk[Seg(c)] = "whole" /\ ~cipher /\ data = file /\ file # OutOfRange => x = "ok" /\ y
  BY <1>4, <1>5, <1>6, <1>9
<1> QED BY <1>2, <1>10 DEF data, file

\* What the steps of UploadFileToGateway do.
LEMMA UploadEffect ==
    ASSUME TypeInv, NEW c \in Calls, UploadStepFails(c) \/ Split(c) \/ UploadEnds(c)
    PROVE  /\ call[c].op = "upload" /\ call[c].at \in {"split", "send"}
           /\ UNCHANGED <<uploadVars, frags, disk, out, clean>>
           /\ \/ chunks' = chunks /\ (Goes(c, "err") \/ Goes(c, "send"))
              \/ chunks' = FALSE /\ Goes(c, "ok")
<1>1. call \in [Calls -> CallState] /\ "err" \in Places /\ "send" \in Places /\ "ok" \in Places
  BY DEF TypeInv, Places
<1>2. CASE UploadStepFails(c)
  <2>1. Goes(c, "err")
    BY <1>1, <1>2, SetGoes DEF UploadStepFails
  <2> QED BY <2>1, <1>2 DEF UploadStepFails, At, filesVars
<1>3. CASE Split(c)
  <2>1. Goes(c, "send")
    BY <1>1, <1>3, SetGoes DEF Split
  <2> QED BY <2>1, <1>3 DEF Split, At, filesVars
<1>4. CASE UploadEnds(c)
  <2>1. Goes(c, "ok")
    BY <1>1, <1>4, SetGoes DEF UploadEnds
  <2> QED BY <2>1, <1>4 DEF UploadEnds, At
<1> QED BY <1>2, <1>3, <1>4

\* The record of a call that starts.
NewCall(r, op, at, i, name) ==
    /\ r \in CallState
    /\ r.op = op /\ r.at = at /\ r.i = i /\ r.name = name
    /\ r.got = {} /\ r.paths = <<>> /\ r.right = TRUE

\* Call c starts; it counts as not overlapped only if no other call runs.
Starts(c, op, at, i, name) ==
    /\ Kept /\ call[c].at = "idle"
    /\ call' \in [Calls -> CallState]
    /\ \A d \in Calls \ {c} : call'[d] = call[d]
    /\ NewCall(call'[c], op, at, i, name)
    /\ clean' \subseteq clean
    /\ \A d \in clean' : d # c => ~Active(d)
    /\ c \in clean' => \A d \in Calls \ {c} : ~Active(d)

\* The record of a call for a boxed file.
LEMMA IdleSet ==
    ASSUME NEW op \in Ops, NEW at \in Places, NEW i \in Nat, NEW name \in Nat
    PROVE  NewCall([Idle EXCEPT !.op = op, !.at = at, !.i = i, !.name = name], op, at, i, name)
<1> DEFINE G == SUBSET Fragments
           P == Seq(Nat)
<1>1. CallState = [op : Ops, at : Places, i : Nat, name : Nat, got : G, paths : P, right : BOOLEAN]
  BY DEF CallState
<1>2. {} \in G /\ <<>> \in P
  OBVIOUS
<1> HIDE DEF G, P
<1> QED BY <1>1, <1>2 DEF NewCall, Idle

\* The record of another call.
LEMMA IdleFields ==
    ASSUME NEW op \in Ops, NEW at \in Places
    PROVE  NewCall([Idle EXCEPT !.op = op, !.at = at], op, at, 0, 0)
<1> DEFINE G == SUBSET Fragments
           P == Seq(Nat)
<1>1. CallState = [op : Ops, at : Places, i : Nat, name : Nat, got : G, paths : P, right : BOOLEAN]
  BY DEF CallState
<1>2. {} \in G /\ <<>> \in P
  OBVIOUS
<1> HIDE DEF G, P
<1> QED BY <1>1, <1>2 DEF NewCall, Idle

\* What Begin does.
LEMMA BeginEffect ==
    ASSUME TypeInv, NEW c \in Calls, NEW k, Begin(c, k),
           NEW op, NEW at, NEW i, NEW name, NewCall(k, op, at, i, name)
    PROVE  Starts(c, op, at, i, name)
<1>1. call \in [Calls -> CallState] /\ clean \subseteq Calls
  BY DEF TypeInv
<1>2. k \in CallState
  BY DEF NewCall
<1>3. call' = [call EXCEPT ![c] = k] /\ call[c].at = "idle" /\ Kept
  BY DEF Begin, Set, Kept
<1>4. call'[c] = k /\ call' \in [Calls -> CallState] /\ \A d \in Calls \ {c} : call'[d] = call[d]
  BY <1>1, <1>2, <1>3
<1> DEFINE others == {d \in Calls \ {c} : Active(d)}
<1>5. clean' = IF others = {} THEN clean ELSE clean \ (others \cup {c})
  BY DEF Begin
<1>6. /\ clean' \subseteq clean
      /\ \A d \in clean' : d # c => ~Active(d)
      /\ c \in clean' => \A d \in Calls \ {c} : ~Active(d)
  BY <1>1, <1>5
<1> QED BY <1>3, <1>4, <1>6 DEF Starts

\* What the starts do.
LEMMA StartEffect ==
    ASSUME TypeInv, NEW c \in Calls, Start(c)
    PROVE  /\ UNCHANGED <<uploadVars, frags, disk>>
           /\ \/ \E op \in {"file", "storage"} :
                    /\ Starts(c, op, "meta", 0, 0) /\ chunks' = chunks
                    /\ DOMAIN out' = DOMAIN out
              \/ \E op \in {"box", "gateway"}, name \in DOMAIN dir :
                    /\ \/ /\ PlateOf(box.plates, name) = 0
                          /\ Starts(c, op, "err", PlateOf(box.plates, name), name)
                       \/ /\ PlateOf(box.plates, name) \in 1 .. Len(box.plates)
                          /\ Starts(c, op, IF op = "box" THEN "segment" ELSE "meta",
                                    PlateOf(box.plates, name), name)
                    /\ UNCHANGED <<out, chunks>>
              \/ /\ \/ chunks /\ Starts(c, "upload", "err", 0, 0)
                    \/ Starts(c, "upload", "split", 0, 0)
                 /\ chunks' = TRUE /\ out' = out
<1>1. /\ "meta" \in Places /\ "err" \in Places /\ "segment" \in Places /\ "split" \in Places
      /\ "file" \in Ops /\ "storage" \in Ops /\ "box" \in Ops /\ "gateway" \in Ops /\ "upload" \in Ops
  BY DEF Places, Ops
<1>2. ASSUME NEW op \in {"file", "storage"}, StartFile(c, op)
      PROVE  /\ UNCHANGED <<uploadVars, frags, disk>>
             /\ Starts(c, op, "meta", 0, 0) /\ chunks' = chunks
             /\ DOMAIN out' = DOMAIN out
  <2> DEFINE k == [Idle EXCEPT !.op = op, !.at = "meta"]
  <2>1. NewCall(k, op, "meta", 0, 0)
    BY <1>1, IdleFields
  <2>2. Begin(c, k)
    BY <1>2 DEF StartFile
  <2> HIDE DEF k
  <2>3. Starts(c, op, "meta", 0, 0)
    BY <2>1, <2>2, BeginEffect
  <2> QED BY <2>3, <1>2 DEF StartFile
<1>3. ASSUME NEW op \in {"box", "gateway"}, NEW name \in DOMAIN dir, StartBox(c, op, name)
      PROVE  /\ UNCHANGED <<uploadVars, frags, disk, out, chunks>>
             /\ \/ /\ PlateOf(box.plates, name) = 0
                   /\ Starts(c, op, "err", PlateOf(box.plates, name), name)
                \/ /\ PlateOf(box.plates, name) \in 1 .. Len(box.plates)
                   /\ Starts(c, op, IF op = "box" THEN "segment" ELSE "meta",
                             PlateOf(box.plates, name), name)
  <2> DEFINE p == PlateOf(box.plates, name)
             at == IF p = 0 THEN "err" ELSE IF op = "box" THEN "segment" ELSE "meta"
             k == [Idle EXCEPT !.op = op, !.at = at, !.i = p, !.name = name]
  <2>1. Begin(c, k) /\ UNCHANGED <<uploadVars, frags, disk, out, chunks>>
    BY <1>3 DEF StartBox, filesVars
  <2>2. box.plates \in Seq(Plate) /\ dir \in Entries
    BY DEF TypeInv, BoxOK
  <2>3. name \in Nat /\ Len(box.plates) \in Nat
    BY <2>2, LenProperties DEF Entries
  <2>4. p = 0 \/ p \in 1 .. Len(box.plates)
    BY <2>2, PlateOfRange
  <2> HIDE DEF p
  <2>5. p \in Nat /\ at \in Places /\ op \in Ops
    BY <2>3, <2>4, <1>1
  <2> HIDE DEF at
  <2>6. NewCall(k, op, at, p, name)
    BY <2>3, <2>5, IdleSet
  <2> HIDE DEF k
  <2>7. Starts(c, op, at, p, name)
    BY <2>1, <2>6, BeginEffect
  <2>8. CASE p = 0
    BY <2>1, <2>7, <2>8 DEF at, p
  <2>9. CASE p \in 1 .. Len(box.plates)
    <3>1. at = IF op = "box" THEN "segment" ELSE "meta"
      BY <2>9, <2>3 DEF at
    <3> QED BY <2>1, <2>7, <2>9, <3>1 DEF p
  <2> QED BY <2>4, <2>8, <2>9
<1>4. ASSUME StartUpload(c)
      PROVE  /\ UNCHANGED <<uploadVars, frags, disk>>
             /\ \/ chunks /\ Starts(c, "upload", "err", 0, 0)
                \/ Starts(c, "upload", "split", 0, 0)
             /\ chunks' = TRUE /\ out' = out
  <2> DEFINE at == IF chunks THEN "err" ELSE "split"
             k == [Idle EXCEPT !.op = "upload", !.at = at]
  <2>1. Begin(c, k) /\ UNCHANGED <<uploadVars, frags, disk, out>> /\ chunks' = TRUE
    BY <1>4 DEF StartUpload
  <2>2. at \in Places
    BY <1>1
  <2> HIDE DEF at
  <2>3. NewCall(k, "upload", at, 0, 0)
    BY <2>2, <1>1, IdleFields
  <2> HIDE DEF k
  <2>4. Starts(c, "upload", at, 0, 0)
    BY <2>1, <2>3, BeginEffect
  <2> QED BY <2>1, <2>4 DEF at
<1> QED BY <1>2, <1>3, <1>4 DEF Start

-----------------------------------------------------------------------------
(* The type invariant *)

\* While the upload's state does not change, the segments do not.
LEMMA SameUpload ==
    ASSUME UNCHANGED uploadVars
    PROVE  /\ Num' = Num /\ SegmentList' = SegmentList /\ Kept' = Kept
           /\ box' = box /\ dir' = dir /\ cipher' = cipher /\ stage' = stage
           /\ BoxOK => BoxOK'
<1>1. box' = box /\ dir' = dir /\ cipher' = cipher /\ stage' = stage /\ boxChunks' = boxChunks
  BY DEF uploadVars
<1>2. Num' = Num /\ Kept' = Kept
  BY <1>1 DEF Num, Kept
<1>3. SegmentList' = SegmentList
  BY <1>1, <1>2 DEF SegmentList
<1> QED BY <1>1, <1>2, <1>3 DEF BoxOK

\* What every step of a call has in common.
StepFrame(c) ==
    /\ UNCHANGED uploadVars /\ clean' \subseteq clean
    /\ Kept /\ Active(c) /\ call[c].at # "idle"
    /\ call' \in [Calls -> CallState]
    /\ \A d \in Calls \ {c} : call'[d] = call[d]
    /\ call'[c].op = call[c].op /\ call'[c].name = call[c].name
    /\ call'[c].at # "idle"
    /\ DOMAIN disk' = DOMAIN disk /\ DOMAIN out' = DOMAIN out /\ DOMAIN frags' = DOMAIN frags

\* A step that sets the fields of a running call has the frame of a step.
LEMMA NowFrame ==
    ASSUME TypeInv, NEW c \in Calls, NEW at, NEW i, NEW got, NEW paths, NEW right,
           Now(c, at, i, got, paths, right), at # "idle",
           call[c].at \notin {"idle", "ok", "err", "blocked"},
           UNCHANGED uploadVars, clean' \subseteq clean,
           DOMAIN disk' = DOMAIN disk, DOMAIN out' = DOMAIN out, DOMAIN frags' = DOMAIN frags
    PROVE  StepFrame(c)
<1>1. Kept
  BY DEF TypeInv, DirOK, Idle
<1> QED BY <1>1 DEF StepFrame, Now, Made, Active, Ended

\* The removals keep the names of the files.
LEMMA LeavesDomains ==
    ASSUME NEW c, NEW at, NEW right, Leaves(c, at, right)
    PROVE  DOMAIN disk' = DOMAIN disk /\ DOMAIN frags' = DOMAIN frags
BY DEF Leaves, Removed, RemovedFrags

\* Every step of a call has that frame, and keeps its segment in range.
LEMMA StepKeepsType ==
    ASSUME TypeInv, NEW c \in Calls, Step(c)
    PROVE  StepFrame(c) /\ InRange(c)'
<1>1. /\ BoxOK /\ InRange(c) /\ call[c].i \in Nat /\ Num \in Nat
      /\ call[c].at # "idle" => Kept
  BY CallTyped, NumFacts DEF TypeInv, DirOK, Idle
<1>2. Kept => Num \in Nat \ {0}
  BY <1>1, NumFacts
<1>3. ASSUME UNCHANGED uploadVars PROVE Num' = Num /\ box' = box /\ stage' = stage
  BY <1>3, SameUpload
<1>4. CASE Meta(c)
  <2>1. /\ call[c].at = "meta" /\ call[c].op \in {"file", "storage", "gateway"}
        /\ UNCHANGED <<uploadVars, out, chunks, clean>>
    BY <1>4, MetaEffect
  <2>2. CASE Leaves(c, "err", call[c].right)
    <3>1. Now(c, "err", call[c].i, call[c].got, call[c].paths, call[c].right)
      BY <2>2 DEF Leaves
    <3>2. StepFrame(c)
      BY <3>1, <2>1, <2>2, LeavesDomains, NowFrame
    <3>3. InRange(c)'
      BY <3>1, <2>1 DEF InRange, Now, Made
    <3> QED BY <3>2, <3>3
  <2>3. CASE /\ call[c].op \in {"file", "storage"} /\ UNCHANGED <<frags, disk>>
             /\ Now(c, "segment", 1, call[c].got, call[c].paths, call[c].right)
    <3>1. StepFrame(c)
      BY <2>1, <2>3, NowFrame
    <3>2. 1 \in 1 .. Num'
      BY <1>1, <1>2, <1>3, <2>1
    <3>3. InRange(c)'
      BY <2>1, <2>3, <3>2 DEF InRange, Now, Made
    <3> QED BY <3>1, <3>3
  <2>4. CASE /\ call[c].op = "gateway" /\ Num = Len(box.plates) /\ UNCHANGED <<frags, disk>>
             /\ Goes(c, "segment")
    <3>1. StepFrame(c)
      BY <2>1, <2>4, NowFrame DEF Goes
    <3>2. InRange(c)'
      BY <1>1, <1>3, <2>1, <2>4 DEF InRange, Goes, Now, Made
    <3> QED BY <3>1, <3>2
  <2> QED BY <1>4, <2>2, <2>3, <2>4, MetaEffect
<1>5. CASE QueryCachers(c)
  <2>1. /\ call[c].at = "segment" /\ call[c].op \in {"file", "storage", "box"}
        /\ UNCHANGED <<uploadVars, frags, disk, out, chunks, clean>>
    BY <1>5, QueryEffect
  <2>2. CASE Goes(c, "fetch") /\ ~(call[c].op = "box" /\ stage = "gateway")
    <3>1. StepFrame(c)
      BY <2>1, <2>2, NowFrame DEF Goes
    <3>2. call[c].i \in 1 .. Num
      <4>1. CASE call[c].op = "box"
        <5>1. stage = "queued"
          BY <1>1, <2>1, <2>2, <4>1 DEF Kept
        <5> QED BY <5>1, <4>1, <2>1, <1>1 DEF BoxOK, InRange
      <4> QED BY <4>1, <2>1, <1>1 DEF InRange
    <3>3. InRange(c)'
      BY <1>3, <2>1, <2>2, <3>2 DEF InRange, Goes, Now, Made
    <3> QED BY <3>1, <3>3
  <2>3. CASE Goes(c, "blocked") \/ (Goes(c, "fail") /\ call[c].op = "box")
    <3>1. StepFrame(c)
      BY <2>1, <2>3, NowFrame DEF Goes
    <3>2. InRange(c)'
      BY <2>3 DEF InRange, Goes, Now, Made
    <3> QED BY <3>1, <3>2
  <2> QED BY <1>5, <2>2, <2>3, QueryEffect
<1>6. ASSUME NEW paths, GoesOn(c, paths), call[c].at \in {"fetch", "write"},
             call[c].op \in {"file", "storage"}, UNCHANGED uploadVars
      PROVE  /\ \E at, i : at # "idle" /\ Now(c, at, i, {}, paths, call[c].right)
             /\ InRange(c)'
  <2>1. Kept /\ call[c].i \in 1 .. Num
    BY <1>1, <1>6 DEF InRange
  <2>2. CASE call[c].i < Num
    <3>1. Now(c, "segment", call[c].i + 1, {}, paths, call[c].right)
      BY <2>2, <1>6 DEF GoesOn
    <3>2. call[c].i + 1 \in 1 .. Num' /\ call[c].op \in {"file", "storage"}
      BY <2>1, <2>2, <1>1, <1>3, <1>6
    <3> QED BY <3>1, <3>2 DEF InRange, Now, Made
  <2>3. CASE ~(call[c].i < Num)
    <3>1. Now(c, "recover", 1, {}, paths, call[c].right)
      BY <2>3, <1>6 DEF GoesOn
    <3>2. 1 \in 1 .. Num'
      BY <2>1, <1>2, <1>3, <1>6
    <3> QED BY <3>1, <3>2 DEF InRange, Now, Made
  <2> QED BY <2>2, <2>3
<1>7. CASE Fetch(c)
  <2>1. /\ call[c].at = "fetch" /\ call[c].op \in {"file", "storage", "box"}
        /\ UNCHANGED <<uploadVars, disk, out, chunks>> /\ clean' \subseteq clean
    BY <1>7, FetchEffect
  <2>2. PICK got \in SUBSET Fragments :
          /\ frags' = [frags EXCEPT ![Seg(c)] = @ \cup got]
          /\ \/ Now(c, "restore", call[c].i, got, call[c].paths, call[c].right)
             \/ Now(c, "fail", call[c].i, got, call[c].paths, call[c].right)
             \/ call[c].op = "storage" /\ GoesOn(c, call[c].paths)
    BY <1>7, FetchEffect
  <2>3. DOMAIN frags' = DOMAIN frags
    BY <2>2
  <2>4. CASE Now(c, "restore", call[c].i, got, call[c].paths, call[c].right)
    <3>1. StepFrame(c)
      BY <2>1, <2>3, <2>4, NowFrame
    <3>2. InRange(c)'
      BY <1>1, <1>3, <2>1, <2>4 DEF InRange, Now, Made
    <3> QED BY <3>1, <3>2
  <2>5. CASE Now(c, "fail", call[c].i, got, call[c].paths, call[c].right)
    <3>1. StepFrame(c)
      BY <2>1, <2>3, <2>5, NowFrame
    <3>2. InRange(c)'
      BY <1>1, <1>3, <2>1, <2>5 DEF InRange, Now, Made
    <3> QED BY <3>1, <3>2
  <2>6. CASE call[c].op = "storage" /\ GoesOn(c, call[c].paths)
    <3>1. PICK at, i : at # "idle" /\ Now(c, at, i, {}, call[c].paths, call[c].right)
      BY <1>6, <2>1, <2>6
    <3>2. StepFrame(c)
      BY <2>1, <2>3, <3>1, NowFrame
    <3> QED BY <3>2, <1>6, <2>1, <2>6
  <2> QED BY <2>2, <2>4, <2>5, <2>6
<1>8. CASE Fail(c) \/ RestoreFails(c)
  <2>1. /\ call[c].at \in {"fail", "restore"}
        /\ UNCHANGED <<uploadVars, out, chunks, clean>>
        /\ Leaves(c, "err", call[c].right)
    BY <1>8, FailEffect
  <2>2. Now(c, "err", call[c].i, call[c].got, call[c].paths, call[c].right)
    BY <2>1 DEF Leaves
  <2>3. StepFrame(c)
    BY <2>1, <2>2, LeavesDomains, NowFrame
  <2>4. InRange(c)'
    BY <2>2 DEF InRange, Now, Made
  <2> QED BY <2>3, <2>4
<1>9. CASE WriteBegins(c)
  <2>1. /\ \/ call[c].at = "restore" /\ call[c].op \in {"file", "storage", "box"}
           \/ call[c].at = "segment" /\ call[c].op = "gateway"
        /\ UNCHANGED <<uploadVars, frags, out, chunks, clean>>
        /\ disk' = [disk EXCEPT ![Seg(c)] = "torn"]
        /\ Goes(c, "write")
    BY <1>9, WriteBeginsEffect
  <2>2. DOMAIN disk' = DOMAIN disk
    BY <2>1
  <2>3. StepFrame(c)
    BY <2>1, <2>2, NowFrame DEF Goes
  <2>4. call[c].i \in 1 .. Num
    BY <1>1, <2>1 DEF InRange
  <2>5. InRange(c)'
    BY <1>3, <2>1, <2>4 DEF InRange, Goes, Now, Made
  <2> QED BY <2>3, <2>5
<1>10. CASE WriteFails(c)
  <2>1. /\ call[c].at = "write" /\ call[c].op \in {"file", "storage", "box", "gateway"}
        /\ UNCHANGED <<uploadVars, frags, out, chunks, clean>>
        /\ DOMAIN disk' = DOMAIN disk
        /\ Goes(c, "fail")
    BY <1>10, WriteFailsEffect
  <2>2. StepFrame(c)
    BY <2>1, NowFrame DEF Goes
  <2>3. InRange(c)'
    BY <1>1, <1>3, <2>1 DEF InRange, Goes, Now, Made
  <2> QED BY <2>2, <2>3
<1>11. CASE WriteEnds(c)
  <2> DEFINE paths == Append(call[c].paths, Seg(c))
  <2>1. /\ call[c].at = "write"
        /\ UNCHANGED <<uploadVars, out, chunks, clean>>
        /\ frags' = Written(c)
        /\ \E r : disk' = [disk EXCEPT ![Seg(c)] = r]
        /\ \/ call[c].op \in {"file", "storage"} /\ GoesOn(c, paths)
           \/ /\ call[c].op \in {"box", "gateway"}
              /\ Now(c, "read", call[c].i, {}, paths, call[c].right)
    BY <1>11, WriteEndsEffect
  <2> HIDE DEF paths
  <2>2. DOMAIN disk' = DOMAIN disk /\ DOMAIN frags' = DOMAIN frags
    BY <2>1 DEF Written
  <2>3. CASE call[c].op \in {"file", "storage"} /\ GoesOn(c, paths)
    <3>1. PICK at, i : at # "idle" /\ Now(c, at, i, {}, paths, call[c].right)
      BY <1>6, <2>1, <2>3
    <3>2. StepFrame(c)
      BY <2>1, <2>2, <3>1, NowFrame
    <3> QED BY <3>2, <1>6, <2>1, <2>3
  <2>4. CASE /\ call[c].op \in {"box", "gateway"}
             /\ Now(c, "read", call[c].i, {}, paths, call[c].right)
    <3>1. StepFrame(c)
      BY <2>1, <2>2, <2>4, NowFrame
    <3>2. InRange(c)'
      BY <1>1, <1>3, <2>1, <2>4 DEF InRange, Now, Made
    <3> QED BY <3>1, <3>2
  <2> QED BY <2>1, <2>3, <2>4
<1>12. CASE Recover(c)
  <2>1. /\ call[c].at = "recover" /\ call[c].op \in {"file", "storage"}
        /\ UNCHANGED <<uploadVars, chunks>> /\ clean' \subseteq clean
    BY <1>12, RecoverEffect
  <2>2. DOMAIN out' = DOMAIN out
    BY <1>12, RecoverEffect
  <2>3. ASSUME NEW at \in {"err", "panic", "ok"}, NEW right, Leaves(c, at, right)
        PROVE  StepFrame(c) /\ InRange(c)'
    <3>1. Now(c, at, call[c].i, call[c].got, call[c].paths, right)
      BY <2>3 DEF Leaves
    <3>2. StepFrame(c)
      BY <3>1, <2>1, <2>2, <2>3, LeavesDomains, NowFrame
    <3>3. InRange(c)'
      BY <3>1 DEF InRange, Now, Made
    <3> QED BY <3>2, <3>3
  <2>4. CASE /\ call[c].i < Num /\ UNCHANGED <<frags, disk>>
             /\ Now(c, "recover", call[c].i + 1, call[c].got, call[c].paths,
                    out'[call[c].i] = "right")
    <3>1. StepFrame(c)
      BY <2>1, <2>2, <2>4, NowFrame
    <3>2. call[c].i + 1 \in 1 .. Num'
      BY <1>1, <1>3, <2>1, <2>4
    <3>3. InRange(c)'
      BY <2>1, <2>4, <3>2 DEF InRange, Now, Made
    <3> QED BY <3>1, <3>3
  <2> QED BY <1>12, <2>3, <2>4, RecoverEffect
<1>13. CASE ReadBox(c)
  <2>1. /\ call[c].at = "read" /\ call[c].op \in {"box", "gateway"}
        /\ UNCHANGED <<uploadVars, frags, disk, out, chunks, clean>>
    BY <1>13, ReadBoxEffect
  <2>2. PICK at \in {"ok", "err", "panic"}, right \in BOOLEAN :
            Now(c, at, call[c].i, call[c].got, call[c].paths, right)
    BY <1>13, ReadBoxEffect
  <2>3. StepFrame(c)
    BY <2>1, <2>2, NowFrame
  <2>4. InRange(c)'
    BY <2>2 DEF InRange, Now, Made
  <2> QED BY <2>3, <2>4
<1>14. CASE UploadStepFails(c) \/ Split(c) \/ UploadEnds(c)
  <2>1. /\ call[c].op = "upload" /\ call[c].at \in {"split", "send"}
        /\ UNCHANGED <<uploadVars, frags, disk, out, clean>>
        /\ Goes(c, "err") \/ Goes(c, "send") \/ Goes(c, "ok")
    BY <1>14, UploadEffect
  <2>2. PICK at \in {"err", "send", "ok"} :
            Now(c, at, call[c].i, call[c].got, call[c].paths, call[c].right)
    BY <2>1 DEF Goes
  <2>3. StepFrame(c)
    BY <2>1, <2>2, NowFrame
  <2>4. InRange(c)'
    BY <2>1, <2>2 DEF InRange, Now, Made
  <2> QED BY <2>3, <2>4
<1> QED BY <1>4, <1>5, <1>7, <1>8, <1>9, <1>10, <1>11, <1>12, <1>13, <1>14 DEF Step

\* A function on 1 .. n is a sequence of length n.
LEMMA SeqFunction ==
    ASSUME NEW S, NEW n \in Nat, NEW f \in [1 .. n -> S]
    PROVE  f \in Seq(S) /\ Len(f) = n
<1>1. f \in Seq(S)
  BY SeqDef
<1>2. Len(f) \in Nat /\ DOMAIN f = 1 .. Len(f) /\ DOMAIN f = 1 .. n
  BY <1>1, LenProperties
<1> QED BY <1>1, <1>2

\* A step of a call keeps the type invariant.
LEMMA StepType ==
    ASSUME TypeInv, NEW c \in Calls, Step(c)
    PROVE  TypeInv'
<1>1. StepFrame(c) /\ InRange(c)'
  BY StepKeepsType
<1>2. /\ Num' = Num /\ Kept' = Kept /\ box' = box /\ stage' = stage
      /\ BoxOK' /\ clean' \subseteq clean /\ Kept
  BY <1>1, SameUpload DEF StepFrame, TypeInv
<1>3. DirOK'
  BY <1>1, <1>2 DEF StepFrame, TypeInv, DirOK
<1>4. ASSUME NEW d \in Calls PROVE InRange(d)'
  <2>1. CASE d = c
    BY <2>1, <1>1
  <2>2. CASE d # c
    <3>1. call'[d] = call[d] /\ InRange(d)
      BY <2>2, <1>1 DEF StepFrame, TypeInv
    <3> QED BY <3>1, <1>2 DEF InRange
  <2> QED BY <2>1, <2>2
<1> QED BY <1>1, <1>2, <1>3, <1>4 DEF TypeInv, StepFrame

\* What every start of a call has in common.
StartFrame(c) ==
    /\ UNCHANGED <<uploadVars, frags, disk>>
    /\ DOMAIN out' = DOMAIN out
    /\ \E op, at, i, name : Starts(c, op, at, i, name)
    /\ InRange(c)'

\* Every start of a call has that frame.
LEMMA StartKeepsType ==
    ASSUME TypeInv, NEW c \in Calls, Start(c)
    PROVE  StartFrame(c)
<1>1. UNCHANGED <<uploadVars, frags, disk>> /\ DOMAIN out' = DOMAIN out
  BY StartEffect
<1>2. box' = box
  BY <1>1 DEF uploadVars
<1>3. CASE \E op \in {"file", "storage"} : Starts(c, op, "meta", 0, 0)
  <2>1. PICK op \in {"file", "storage"} : Starts(c, op, "meta", 0, 0)
    BY <1>3
  <2>2. InRange(c)'
    BY <2>1 DEF Starts, NewCall, InRange
  <2> QED BY <2>1, <2>2, <1>1 DEF StartFrame
<1>4. ASSUME NEW op \in {"box", "gateway"}, NEW name \in DOMAIN dir,
             \/ Starts(c, op, "err", PlateOf(box.plates, name), name)
             \/ /\ PlateOf(box.plates, name) \in 1 .. Len(box.plates)
                /\ Starts(c, op, IF op = "box" THEN "segment" ELSE "meta",
                          PlateOf(box.plates, name), name)
      PROVE  StartFrame(c)
  <2> DEFINE p == PlateOf(box.plates, name)
  <2>1. CASE Starts(c, op, "err", p, name)
    <3> HIDE DEF p
    <3>1. InRange(c)'
      BY <2>1 DEF Starts, NewCall, InRange
    <3> QED BY <2>1, <3>1, <1>1 DEF StartFrame
  <2>2. CASE /\ p \in 1 .. Len(box.plates)
             /\ Starts(c, op, IF op = "box" THEN "segment" ELSE "meta", p, name)
    <3> HIDE DEF p
    <3>1. CASE op = "box"
      <4>1. Starts(c, "box", "segment", p, name)
        BY <2>2, <3>1
      <4>2. InRange(c)'
        BY <2>2, <4>1, <1>2 DEF Starts, NewCall, InRange
      <4> QED BY <4>1, <4>2, <1>1 DEF StartFrame
    <3>2. CASE op = "gateway"
      <4>1. Starts(c, "gateway", "meta", p, name)
        BY <2>2, <3>2
      <4>2. InRange(c)'
        BY <2>2, <4>1, <1>2 DEF Starts, NewCall, InRange
      <4> QED BY <4>1, <4>2, <1>1 DEF StartFrame
    <3> QED BY <3>1, <3>2
  <2> QED BY <1>4, <2>1, <2>2
<1>5. CASE Starts(c, "upload", "err", 0, 0) \/ Starts(c, "upload", "split", 0, 0)
  <2>1. InRange(c)'
    BY <1>5 DEF Starts, NewCall, InRange
  <2> QED BY <2>1, <1>5, <1>1 DEF StartFrame
<1>6. \/ \E op \in {"file", "storage"} : Starts(c, op, "meta", 0, 0)
      \/ \E op \in {"box", "gateway"}, name \in DOMAIN dir :
             \/ Starts(c, op, "err", PlateOf(box.plates, name), name)
             \/ /\ PlateOf(box.plates, name) \in 1 .. Len(box.plates)
                /\ Starts(c, op, IF op = "box" THEN "segment" ELSE "meta",
                          PlateOf(box.plates, name), name)
      \/ Starts(c, "upload", "err", 0, 0) \/ Starts(c, "upload", "split", 0, 0)
  BY StartEffect
<1> QED BY <1>3, <1>4, <1>5, <1>6

\* A start keeps the type invariant.
LEMMA StartType ==
    ASSUME TypeInv, NEW c \in Calls, Start(c)
    PROVE  TypeInv'
<1>1. StartFrame(c)
  BY StartKeepsType
<1>2. PICK op, at, i, name : Starts(c, op, at, i, name)
  BY <1>1 DEF StartFrame
<1>3. /\ Num' = Num /\ Kept' = Kept /\ box' = box /\ stage' = stage
      /\ BoxOK' /\ Kept
  BY <1>1, <1>2, SameUpload DEF StartFrame, Starts, TypeInv
<1>4. DirOK'
  BY <1>1, <1>3 DEF StartFrame, TypeInv, DirOK
<1>5. ASSUME NEW d \in Calls PROVE InRange(d)'
  <2>1. CASE d = c
    BY <2>1, <1>1 DEF StartFrame
  <2>2. CASE d # c
    <3>1. call'[d] = call[d] /\ InRange(d)
      BY <2>2, <1>2 DEF Starts, TypeInv
    <3> QED BY <3>1, <1>3 DEF InRange
  <2> QED BY <2>1, <2>2
<1>6. call' \in [Calls -> CallState] /\ clean' \subseteq Calls
  BY <1>2 DEF Starts, TypeInv
<1> QED BY <1>3, <1>4, <1>5, <1>6 DEF TypeInv

\* A call that has not started is in range.
LEMMA IdleInRange ==
    ASSUME NEW c, call[c] = Idle
    PROVE  InRange(c)
BY DEF InRange, Idle

\* MakeBox keeps the type invariant: the new box is right for the directory, with
\* or without the box file of an earlier attempt in it.
LEMMA MakeBoxType ==
    ASSUME TypeInv, MakeBox
    PROVE  TypeInv'
<1> DEFINE e == [i \in DOMAIN dir |-> IF dir[i] = Box /\ ~left THEN 0 ELSE dir[i]]
<1>1. /\ box' = CreateAFileBox(e) /\ dir' = dir /\ cipher' = cipher /\ chunks' = chunks
      /\ call' = call /\ clean' = clean
      /\ stage' = IF Panics(box') THEN "panic" ELSE "boxed"
      /\ ~Kept /\ ~Kept'
  BY DEF MakeBox, filesVars, Kept
<1>2. dir \in Entries /\ cipher \in BOOLEAN /\ Len(dir) \in Nat /\ DOMAIN dir = 1 .. Len(dir)
  BY LenProperties DEF TypeInv, BoxOK, Entries
<1>3. /\ e \in Entries /\ Len(e) = Len(dir)
      /\ \A i \in 1 .. Len(dir) : dir[i] # Box => e[i] = dir[i]
  <2>1. \A i \in 1 .. Len(dir) : dir[i] \in Nat \cup {Box}
    BY <1>2, ElementOfSeq DEF Entries
  <2>2. e \in [1 .. Len(dir) -> Nat \cup {Box}]
    BY <1>2, <2>1
  <2>3. e \in Seq(Nat \cup {Box}) /\ Len(e) = Len(dir)
    <3> DEFINE S == Nat \cup {Box}
    <3> HIDE DEF S, e
    <3>1. e \in [1 .. Len(dir) -> S]
      BY <2>2 DEF S
    <3>2. e \in Seq(S) /\ Len(e) = Len(dir)
      BY <3>1, <1>2, SeqFunction
    <3> QED BY <3>2 DEF S
  <2> QED BY <2>3, <1>2 DEF Entries
<1> HIDE DEF e
<1> DEFINE bx == box'
<1>4. bx = CreateAFileBox(e)
  BY <1>1
<1> HIDE DEF bx
<1>5. /\ Len(bx.data) \in Nat /\ bx.plates \in Seq(Plate)
      /\ ~Panics(bx) => Len(bx.data) >= FragmentSize /\ BoxIsRight(bx, e)
  BY <1>3, <1>4, CreateAFileBoxIsRight
<1>6. BoxIsRight(bx, e) => BoxIsRight(bx, dir)
  BY <1>3 DEF BoxIsRight
<1>7. BoxOK'
  <2>1. Len(box'.data) \in Nat /\ box'.plates \in Seq(Plate)
    BY <1>5 DEF bx
  <2>2. stage' \notin {"queued", "gateway"}
    BY <1>1 DEF Kept
  <2>3. stage' = "boxed" => ~Panics(bx)
    BY <1>1 DEF bx
  <2>4. stage' = "boxed" => Len(bx.data) >= FragmentSize /\ BoxIsRight(bx, dir)
    BY <2>3, <1>5, <1>6
  <2>5. stage' = "boxed" => Len(box'.data) >= FragmentSize /\ BoxIsRight(box', dir')
    BY <2>4, <1>1 DEF bx
  <2> QED BY <2>1, <2>2, <2>5, <1>1, <1>2 DEF BoxOK
<1>8. DirOK'
  BY <1>1 DEF DirOK, TypeInv
<1>9. \A c \in Calls : InRange(c)'
  BY <1>1 DEF InRange, Idle, TypeInv, DirOK
<1> QED BY <1>1, <1>7, <1>8, <1>9 DEF TypeInv

\* So does an upload that succeeds,
LEMMA StoredType ==
    ASSUME TypeInv, UploadDirAsBoxFile \/ UploadDirToGateway
    PROVE  TypeInv' /\ ~Kept /\ UNCHANGED <<call, chunks, clean>>
<1>1. /\ stage = "boxed" /\ stage' \in {"queued", "gateway"}
      /\ box' = box /\ dir' = dir /\ cipher' = cipher
      /\ stage' = "queued" => Num = Len(box.plates)
      /\ stage' = "gateway" => boxChunks'
      /\ frags' = [i \in 1 .. Num |-> {}]
      /\ disk' = [i \in 1 .. Num |-> "none"]
      /\ out' = [i \in 1 .. Num |-> "hole"]
      /\ call' = call /\ clean' = clean /\ chunks' = chunks
  BY DEF UploadDirAsBoxFile, UploadDirToGateway, Stored
<1>2. ~Kept /\ Kept' /\ Num' = Num
  BY <1>1 DEF Kept, Num
<1>3. BoxOK'
  <2>1. /\ dir \in Entries /\ cipher \in BOOLEAN /\ Len(box.data) \in Nat
        /\ box.plates \in Seq(Plate)
        /\ Len(box.data) >= FragmentSize /\ BoxIsRight(box, dir)
    BY <1>1 DEF TypeInv, BoxOK
  <2> QED BY <2>1, <1>1, <1>2 DEF BoxOK
<1>4. DirOK'
  BY <1>1, <1>2 DEF DirOK
<1>5. \A c \in Calls : InRange(c)'
  BY <1>1, <1>2 DEF InRange, Idle, TypeInv, DirOK
<1> QED BY <1>1, <1>2, <1>3, <1>4, <1>5 DEF TypeInv

\* one that fails,
LEMMA UploadFailsType ==
    ASSUME TypeInv, UploadFails
    PROVE  TypeInv' /\ ~Kept /\ UNCHANGED <<call, chunks, clean, frags, disk, out>>
<1>1. /\ stage = "boxed" /\ stage' = "refused"
      /\ box' = box /\ dir' = dir /\ cipher' = cipher
      /\ UNCHANGED <<call, chunks, clean, frags, disk, out>>
  BY DEF UploadFails, filesVars
<1>2. ~Kept /\ ~Kept'
  BY <1>1 DEF Kept
<1>3. BoxOK'
  BY <1>1 DEF BoxOK, TypeInv
<1>4. DirOK'
  BY <1>1, <1>2 DEF DirOK, TypeInv
<1>5. \A c \in Calls : InRange(c)'
  BY <1>1, <1>2 DEF InRange, Idle, TypeInv, DirOK
<1> QED BY <1>1, <1>2, <1>3, <1>4, <1>5 DEF TypeInv

\* and a step that changes nothing that the invariant reads.
LEMMA SameType ==
    ASSUME TypeInv, UNCHANGED <<dir, box, cipher, stage, boxChunks, call, clean, frags, disk, out, chunks>>
    PROVE  TypeInv'
<1>1. Num' = Num /\ Kept' = Kept
  BY DEF Num, Kept
<1>2. BoxOK'
  BY <1>1 DEF BoxOK, TypeInv
<1>3. DirOK'
  BY <1>1 DEF DirOK, TypeInv
<1>4. \A c \in Calls : InRange(c)'
  BY <1>1 DEF InRange, TypeInv
<1> QED BY <1>2, <1>3, <1>4 DEF TypeInv

\* The type invariant holds initially.
LEMMA InitType == Init => TypeInv
<1> SUFFICES ASSUME Init PROVE TypeInv
  OBVIOUS
<1>1. PICK d \in Dirs : dir = d[1] /\ cipher = d[2]
  BY DEF Init
<1>2. dir \in Entries /\ cipher \in BOOLEAN
  BY <1>1, FilesAssumption DEF Entries
<1>3. /\ box = [data |-> <<>>, plates |-> <<>>] /\ stage = "new" /\ ~chunks
      /\ call = [c \in Calls |-> Idle] /\ clean = Calls
  BY DEF Init
<1>4. Len(box.data) \in Nat /\ box.plates \in Seq(Plate)
  BY <1>3
<1>5. BoxOK
  BY <1>2, <1>3, <1>4 DEF BoxOK
<1>6. Idle \in CallState
  <2> DEFINE G == SUBSET Fragments
             P == Seq(Nat)
  <2>1. CallState = [op : Ops, at : Places, i : Nat, name : Nat, got : G, paths : P, right : BOOLEAN]
    BY DEF CallState
  <2>2. {} \in G /\ <<>> \in P
    OBVIOUS
  <2> HIDE DEF G, P
  <2> QED BY <2>1, <2>2 DEF Idle, Ops, Places
<1>7. call \in [Calls -> CallState] /\ \A c \in Calls : call[c] = Idle
  BY <1>3, <1>6
<1>8. DirOK
  BY <1>3, <1>7 DEF DirOK, Kept
<1>9. \A c \in Calls : InRange(c)
  BY <1>7, IdleInRange
<1> QED BY <1>3, <1>5, <1>7, <1>8, <1>9 DEF TypeInv

\* Every step keeps the type invariant.
LEMMA NextType == TypeInv /\ [Next]_vars => TypeInv'
<1> SUFFICES ASSUME TypeInv, [Next]_vars PROVE TypeInv'
  OBVIOUS
<1>1. CASE \E c \in Calls : Start(c) \/ Step(c)
  BY <1>1, StartType, StepType
<1>2. CASE Upload
  <2>1. CASE MakeBox
    BY <2>1, MakeBoxType
  <2>2. CASE UploadFails
    BY <2>2, UploadFailsType
  <2>3. CASE Callback
    <3>1. UNCHANGED <<dir, box, cipher, stage, boxChunks, call, clean, frags, disk, out, chunks>>
      BY <2>3 DEF Callback, filesVars
    <3> QED BY <3>1, SameType
  <2>4. CASE UploadDirAsBoxFile \/ UploadDirToGateway
    BY <2>4, StoredType
  <2> QED BY <1>2, <2>1, <2>2, <2>3, <2>4 DEF Upload
<1>3. CASE UNCHANGED vars
  <2>1. UNCHANGED <<dir, box, cipher, stage, boxChunks, call, clean, frags, disk, out, chunks>>
    BY <1>3 DEF vars, uploadVars, filesVars
  <2> QED BY <2>1, SameType
<1> QED BY <1>1, <1>2, <1>3 DEF Next

-----------------------------------------------------------------------------
(* What is left in the directory *)

\* A path that is appended is added to the paths.
LEMMA RangeAppend ==
    ASSUME NEW p \in Seq(Nat), NEW x \in Nat
    PROVE  /\ x \in Range(Append(p, x))
           /\ \A y \in Range(p) : y \in Range(Append(p, x))
<1>1. /\ Append(p, x) \in Seq(Nat) /\ Len(Append(p, x)) = Len(p) + 1 /\ Len(p) \in Nat
      /\ Append(p, x)[Len(p) + 1] = x
      /\ \A i \in 1 .. Len(p) : Append(p, x)[i] = p[i]
  BY AppendProperties, LenProperties
<1>2. DOMAIN Append(p, x) = 1 .. Len(p) + 1 /\ DOMAIN p = 1 .. Len(p)
  BY <1>1, LenProperties
<1> QED BY <1>1, <1>2 DEF Range

\* A segment file that is there after a step of c is c's, or was there and not c's.
DiskStep(c) ==
    \A s \in DOMAIN disk' : disk'[s] # "none" =>
        DiskOwner(c, s)' \/ (disk[s] # "none" /\ ~DiskOwner(c, s))

\* The removals take away the files of the call that returns.
LEMMA LeavesDisk ==
    ASSUME TypeInv, NEW c \in Calls, NEW at, NEW right, Leaves(c, at, right),
           UNCHANGED uploadVars,
           call[c].at \in {"meta", "fail", "restore", "recover"},
           call[c].at = "fail" => at = "err",
           call[c].op \in {"file", "storage", "box", "gateway"}
    PROVE  DiskStep(c)
<1>1. call'[c].op = call[c].op /\ call'[c].at = at /\ call'[c].i = call[c].i
  BY DEF Leaves, Now, Made
<1>0. Seg(c)' = Seg(c)
  BY <1>1, SameUpload DEF Seg
<1>2. CASE call[c].op \in {"box", "gateway"}
  BY <1>1, <1>2 DEF DiskStep, DiskOwner
<1>3. CASE call[c].op \in {"file", "storage"}
  <2> SUFFICES ASSUME NEW s \in DOMAIN disk', disk'[s] # "none"
               PROVE  DiskOwner(c, s)' \/ (disk[s] # "none" /\ ~DiskOwner(c, s))
    BY DEF DiskStep
  <2>1. disk'[s] = (IF \/ call[c].op = "file" /\ s \in Range(call[c].paths)
                       \/ call[c].op = "storage" /\ call[c].at # "meta"
                    THEN "none" ELSE disk[s])
    BY DEF Leaves, Removed
  <2> QED BY <2>1, <1>0, <1>1, <1>3 DEF DiskOwner, Busy
<1> QED BY <1>2, <1>3

\* A step that leaves the segment files alone.
LEMMA SameDisk ==
    ASSUME TypeInv, NEW c \in Calls, StepFrame(c), disk' = disk, call[c].at \notin {"write", "fail"},
           \/ call'[c].at \in Busy /\ call'[c].paths = call[c].paths
           \/ call'[c].at = "blocked"
           \/ call[c].op \notin {"file", "storage"}
    PROVE  DiskStep(c)
<1>1. call'[c].op = call[c].op /\ call[c].at \notin {"blocked", "err"}
  BY DEF StepFrame, Active, Ended
<1> QED BY <1>1 DEF DiskStep, DiskOwner, Busy

\* Every step of a call keeps track of the segment files.
LEMMA StepDisk ==
    ASSUME TypeInv, NEW c \in Calls, Step(c)
    PROVE  DiskStep(c)
<1>1. /\ StepFrame(c) /\ BoxOK /\ SegmentList' = SegmentList /\ call'[c].op = call[c].op
      /\ UNCHANGED uploadVars
  BY StepKeepsType, SameUpload DEF StepFrame, TypeInv
<1>2. CASE call[c].op \in {"box", "gateway"}
  BY <1>1, <1>2 DEF DiskStep, DiskOwner
<1>3. CASE call[c].op \notin {"box", "gateway"}
  <2>1. CASE Meta(c)
    <3>1. call[c].at = "meta" /\ call[c].op \in {"file", "storage"}
      BY <1>3, <2>1, MetaEffect
    <3>2. CASE Leaves(c, "err", call[c].right)
      BY <1>1, <3>1, <3>2, LeavesDisk
    <3>3. CASE disk' = disk /\ Now(c, "segment", 1, call[c].got, call[c].paths, call[c].right)
      BY <1>1, <3>1, <3>3, SameDisk DEF Now, Made, Busy
    <3> QED BY <1>3, <2>1, <3>2, <3>3, MetaEffect
  <2>2. CASE QueryCachers(c)
    <3>1. call[c].at = "segment" /\ disk' = disk /\ (Goes(c, "fetch") \/ Goes(c, "blocked"))
      BY <1>3, <2>2, QueryEffect
    <3> QED BY <1>1, <3>1, SameDisk DEF Goes, Now, Made, Busy
  <2>3. CASE Fetch(c)
    <3>1. call[c].at = "fetch" /\ disk' = disk
      BY <2>3, FetchEffect
    <3>2. call'[c].at \in Busy /\ call'[c].paths = call[c].paths
      BY <2>3, FetchEffect DEF GoesOn, Now, Made, Busy
    <3> QED BY <1>1, <3>1, <3>2, SameDisk
  <2>4. CASE Fail(c) \/ RestoreFails(c)
    BY <1>1, <2>4, FailEffect, LeavesDisk
  <2>5. CASE WriteBegins(c)
    <3>1. /\ call[c].at = "restore" /\ call[c].op \in {"file", "storage"}
          /\ disk' = [disk EXCEPT ![Seg(c)] = "torn"]
          /\ Goes(c, "write")
      BY <1>3, <2>5, WriteBeginsEffect
    <3>2. call'[c].at = "write" /\ call'[c].paths = call[c].paths /\ call'[c].i = call[c].i
      BY <3>1 DEF Goes, Now, Made
    <3>3. Seg(c)' = Seg(c) /\ call[c].i > 0
      BY <1>1, <3>1, <3>2, NumFacts DEF Seg, TypeInv, InRange
    <3>4. ASSUME NEW s \in DOMAIN disk', disk'[s] # "none"
          PROVE  DiskOwner(c, s)' \/ (disk[s] # "none" /\ ~DiskOwner(c, s))
      <4>1. CASE s = Seg(c)
        BY <4>1, <3>1, <3>2, <3>3, <1>1 DEF DiskOwner, Busy
      <4>2. CASE s # Seg(c)
        <5>1. disk'[s] = disk[s]
          BY <4>2, <3>1, <3>4
        <5> QED BY <5>1, <3>1, <3>2, <3>4, <1>1 DEF DiskOwner, Busy
      <4> QED BY <4>1, <4>2
    <3> QED BY <3>4 DEF DiskStep
  <2>6. CASE WriteEnds(c)
    <3> DEFINE paths == Append(call[c].paths, Seg(c))
    <3>1. /\ call[c].at = "write" /\ call[c].op \in {"file", "storage"} /\ Seg(c) \in Nat
          /\ GoesOn(c, paths)
          /\ \E r : disk' = [disk EXCEPT ![Seg(c)] = r]
      BY <1>3, <2>6, WriteEndsEffect
    <3>2. call[c].paths \in Seq(Nat)
      BY CallTyped DEF TypeInv
    <3>3. Seg(c) \in Range(paths) /\ \A y \in Range(call[c].paths) : y \in Range(paths)
      BY <3>1, <3>2, RangeAppend
    <3> HIDE DEF paths
    <3>4. call'[c].at \in {"segment", "recover"} /\ call'[c].paths = paths
      BY <3>1 DEF GoesOn, Now, Made
    <3>5. ASSUME NEW s \in DOMAIN disk', disk'[s] # "none"
          PROVE  DiskOwner(c, s)' \/ (disk[s] # "none" /\ ~DiskOwner(c, s))
      <4>1. CASE s = Seg(c)
        BY <4>1, <3>1, <3>3, <3>4, <1>1 DEF DiskOwner, Busy
      <4>2. CASE s # Seg(c)
        <5>1. disk'[s] = disk[s]
          BY <4>2, <3>1, <3>5
        <5> QED BY <4>2, <5>1, <3>1, <3>3, <3>4, <3>5, <1>1 DEF DiskOwner, Busy
      <4> QED BY <4>1, <4>2
    <3> QED BY <3>5 DEF DiskStep
  <2>7. CASE Recover(c)
    <3>1. call[c].at = "recover" /\ call[c].op \in {"file", "storage"}
      BY <2>7, RecoverEffect
    <3>2. ASSUME NEW at, NEW right, Leaves(c, at, right) PROVE DiskStep(c)
      BY <1>1, <3>1, <3>2, LeavesDisk
    <3>3. CASE /\ disk' = disk
               /\ Now(c, "recover", call[c].i + 1, call[c].got, call[c].paths,
                      out'[call[c].i] = "right")
      BY <1>1, <3>1, <3>3, SameDisk DEF Now, Made, Busy
    <3> QED BY <2>7, <3>2, <3>3, RecoverEffect
  <2>8. CASE UploadStepFails(c) \/ Split(c) \/ UploadEnds(c)
    <3>1. call[c].op = "upload" /\ call[c].at \in {"split", "send"} /\ disk' = disk
      BY <2>8, UploadEffect
    <3> QED BY <1>1, <3>1, SameDisk
  <2>9. CASE WriteFails(c)
    <3>1. /\ call[c].at = "write" /\ call[c].op \in {"file", "storage"}
          /\ \E r : disk' = [disk EXCEPT ![Seg(c)] = r]
          /\ Goes(c, "fail")
      BY <1>3, <2>9, WriteFailsEffect
    <3>2. call'[c].at = "fail" /\ call'[c].paths = call[c].paths /\ call'[c].i = call[c].i
      BY <3>1 DEF Goes, Now, Made
    <3>3. Seg(c)' = Seg(c) /\ call[c].i > 0
      BY <1>1, <3>1, <3>2, NumFacts DEF Seg, TypeInv, InRange
    <3>4. ASSUME NEW s \in DOMAIN disk', disk'[s] # "none"
          PROVE  DiskOwner(c, s)' \/ (disk[s] # "none" /\ ~DiskOwner(c, s))
      <4>1. CASE s = Seg(c)
        BY <4>1, <3>1, <3>2, <3>3, <1>1 DEF DiskOwner, Busy
      <4>2. CASE s # Seg(c)
        <5>1. disk'[s] = disk[s]
          BY <4>2, <3>1, <3>4
        <5> QED BY <4>2, <5>1, <3>1, <3>2, <3>4, <1>1 DEF DiskOwner, Busy
      <4> QED BY <4>1, <4>2
    <3> QED BY <3>4 DEF DiskStep
  <2>10. CASE ReadBox(c)
    BY <1>3, <2>10, ReadBoxEffect
  <2> QED BY <2>1, <2>2, <2>3, <2>4, <2>5, <2>6, <2>7, <2>8, <2>9, <2>10 DEF Step
<1> QED BY <1>2, <1>3

\* A fragment that is there after a step of c is c's, or was there and not c's.
FragStep(c) ==
    \A s \in DOMAIN frags' : \A f \in frags'[s] :
        FragOwner(c, s, f)' \/ (f \in frags[s] /\ ~FragOwner(c, s, f))

\* The removals take away the fragments of DownloadFileFromStorage.
LEMMA LeavesFrags ==
    ASSUME TypeInv, NEW c \in Calls, NEW at, NEW right, Leaves(c, at, right),
           UNCHANGED uploadVars,
           call[c].at \in {"meta", "fail", "restore", "recover"},
           call[c].at \in {"fail", "restore"} => at = "err"
    PROVE  FragStep(c)
<1>1. call'[c].op = call[c].op /\ call'[c].at = at /\ call'[c].got = call[c].got
      /\ call'[c].i = call[c].i
  BY DEF Leaves, Now, Made
<1>2. Seg(c)' = Seg(c)
  BY <1>1, SameUpload DEF Seg
<1> SUFFICES ASSUME NEW s \in DOMAIN frags', NEW f \in frags'[s]
             PROVE  FragOwner(c, s, f)' \/ (f \in frags[s] /\ ~FragOwner(c, s, f))
  BY DEF FragStep
<1>3. frags'[s] = (IF call[c].op = "storage" /\ call[c].at # "meta" THEN {} ELSE frags[s])
  BY DEF Leaves, RemovedFrags
<1>4. f \in frags[s] /\ ~(call[c].op = "storage" /\ call[c].at # "meta")
  BY <1>3
<1> QED BY <1>1, <1>2, <1>4 DEF FragOwner, Busy

\* A step that leaves the fragments alone.
LEMMA SameFrags ==
    ASSUME TypeInv, NEW c \in Calls, StepFrame(c), frags' = frags,
           \/ call[c].op \notin {"file", "storage", "box"}
           \/ call[c].op = "storage" /\ call'[c].at \in Busy
           \/ /\ call[c].op \in {"file", "box"}
              /\ call[c].at \notin {"restore", "write", "fail", "err"}
           \/ /\ call[c].op \in {"file", "box"} /\ call'[c].at \in {"restore", "write", "fail", "err"}
              /\ call'[c].got = call[c].got /\ call'[c].i = call[c].i
           \/ call[c].at \notin Busy /\ call[c].at # "err"
    PROVE  FragStep(c)
<1>1. call'[c].op = call[c].op /\ SegmentList' = SegmentList
  BY SameUpload DEF StepFrame
<1> SUFFICES ASSUME NEW s \in DOMAIN frags, NEW f \in frags[s]
             PROVE  FragOwner(c, s, f)' \/ ~FragOwner(c, s, f)
  BY DEF FragStep
<1> QED BY <1>1 DEF FragOwner, Busy, Seg

\* Every step of a call keeps track of the fragments.
LEMMA StepFrags ==
    ASSUME TypeInv, NEW c \in Calls, Step(c)
    PROVE  FragStep(c)
<1>1. StepFrame(c) /\ SegmentList' = SegmentList /\ call'[c].op = call[c].op /\ UNCHANGED uploadVars
  BY StepKeepsType, SameUpload DEF StepFrame
<1>2. CASE Meta(c)
  <2>1. call[c].at = "meta"
    BY <1>2, MetaEffect
  <2>2. CASE Leaves(c, "err", call[c].right)
    BY <1>1, <2>1, <2>2, LeavesFrags
  <2>3. CASE frags' = frags
    BY <1>1, <2>1, <2>3, SameFrags DEF Busy
  <2> QED BY <1>2, <2>2, <2>3, MetaEffect
<1>3. CASE QueryCachers(c)
  <2>1. /\ call[c].at = "segment" /\ call[c].op \in {"file", "storage", "box"} /\ frags' = frags
        /\ call[c].op = "storage" => Goes(c, "fetch")
    BY <1>3, QueryEffect
  <2>2. call[c].op = "storage" => call'[c].at \in Busy
    BY <2>1 DEF Goes, Now, Made, Busy
  <2> QED BY <1>1, <2>1, <2>2, SameFrags
<1>4. CASE Fetch(c)
  <2>1. call[c].at = "fetch" /\ call[c].op \in {"file", "storage", "box"}
    BY <1>4, FetchEffect
  <2>2. PICK got \in SUBSET Fragments :
          /\ frags' = [frags EXCEPT ![Seg(c)] = @ \cup got]
          /\ \/ Now(c, "restore", call[c].i, got, call[c].paths, call[c].right)
             \/ Now(c, "fail", call[c].i, got, call[c].paths, call[c].right)
             \/ call[c].op = "storage" /\ GoesOn(c, call[c].paths)
    BY <1>4, FetchEffect
  <2>3. CASE call[c].op = "storage"
    <3>1. call'[c].at \in Busy
      BY <2>2, <2>3 DEF GoesOn, Now, Made, Busy
    <3> QED BY <3>1, <2>3, <1>1 DEF FragStep, FragOwner
  <2>4. CASE call[c].op \in {"file", "box"}
    <3>1. call'[c].at \in {"restore", "fail"} /\ call'[c].got = got /\ call'[c].i = call[c].i
      BY <2>2, <2>4 DEF Now, Made
    <3>2. Seg(c)' = Seg(c)
      BY <3>1, <1>1 DEF Seg
    <3>3. ASSUME NEW s \in DOMAIN frags', NEW f \in frags'[s]
          PROVE  FragOwner(c, s, f)' \/ (f \in frags[s] /\ ~FragOwner(c, s, f))
      <4>1. f \in frags[s] \/ (s = Seg(c) /\ f \in got)
        BY <2>2, <3>3
      <4> QED BY <4>1, <2>1, <2>4, <3>1, <3>2, <1>1 DEF FragOwner
    <3> QED BY <3>3 DEF FragStep
  <2> QED BY <2>1, <2>3, <2>4
<1>5. CASE Fail(c) \/ RestoreFails(c)
  BY <1>1, <1>5, FailEffect, LeavesFrags
<1>6. CASE WriteBegins(c)
  <2>1. /\ call[c].op \in {"file", "storage", "box", "gateway"} /\ frags' = frags
        /\ Goes(c, "write")
    BY <1>6, WriteBeginsEffect
  <2>2. call'[c].at = "write" /\ call'[c].got = call[c].got /\ call'[c].i = call[c].i
    BY <2>1 DEF Goes, Now, Made
  <2> QED BY <1>1, <2>1, <2>2, SameFrags DEF Busy
<1>7. CASE WriteFails(c)
  <2>1. /\ call[c].op \in {"file", "storage", "box", "gateway"} /\ frags' = frags
        /\ Goes(c, "fail")
    BY <1>7, WriteFailsEffect
  <2>2. call'[c].at = "fail" /\ call'[c].got = call[c].got /\ call'[c].i = call[c].i
    BY <2>1 DEF Goes, Now, Made
  <2> QED BY <1>1, <2>1, <2>2, SameFrags DEF Busy
<1>8. CASE WriteEnds(c)
  <2>1. /\ call[c].at = "write" /\ call[c].op \in {"file", "storage", "box", "gateway"}
        /\ frags' = Written(c)
    BY <1>8, WriteEndsEffect
  <2>2. CASE call[c].op = "storage"
    <3>1. call'[c].at \in Busy
      BY <1>8, <2>2, WriteEndsEffect DEF GoesOn, Now, Made, Busy
    <3> QED BY <3>1, <2>2, <1>1 DEF FragStep, FragOwner
  <2>3. CASE call[c].op # "storage"
    <3>1. ASSUME NEW s \in DOMAIN frags', NEW f \in frags'[s]
          PROVE  f \in frags[s] /\ ~FragOwner(c, s, f)
      BY <2>1, <2>3, <3>1 DEF Written, FragOwner
    <3> QED BY <3>1 DEF FragStep
  <2> QED BY <2>2, <2>3
<1>9. CASE Recover(c)
  <2>1. call[c].at = "recover" /\ call[c].op \in {"file", "storage"}
    BY <1>9, RecoverEffect
  <2>2. ASSUME NEW at, NEW right, Leaves(c, at, right) PROVE FragStep(c)
    BY <1>1, <2>1, <2>2, LeavesFrags
  <2>3. CASE /\ frags' = frags
             /\ Now(c, "recover", call[c].i + 1, call[c].got, call[c].paths,
                    out'[call[c].i] = "right")
    <3>1. call'[c].at \in Busy
      BY <2>3 DEF Now, Made, Busy
    <3> QED BY <1>1, <2>1, <2>3, <3>1, SameFrags
  <2> QED BY <1>9, <2>2, <2>3, RecoverEffect
<1>10. CASE ReadBox(c)
  <2>1. call[c].at = "read" /\ frags' = frags
    BY <1>10, ReadBoxEffect
  <2> QED BY <1>1, <2>1, SameFrags DEF Busy
<1>11. CASE UploadStepFails(c) \/ Split(c) \/ UploadEnds(c)
  <2>1. call[c].op = "upload" /\ frags' = frags
    BY <1>11, UploadEffect
  <2> QED BY <1>1, <2>1, SameFrags
<1> QED BY <1>2, <1>3, <1>4, <1>5, <1>6, <1>7, <1>8, <1>9, <1>10, <1>11 DEF Step

\* The same for the directory of chunks.
ChunkStep(c) == chunks' => ChunkOwner(c)' \/ (chunks /\ ~ChunkOwner(c))

\* Every step of a call keeps track of the directory of chunks.
LEMMA StepChunks ==
    ASSUME TypeInv, NEW c \in Calls, Step(c)
    PROVE  ChunkStep(c)
<1>1. CASE UploadStepFails(c) \/ Split(c) \/ UploadEnds(c)
  <2>1. CASE chunks' = FALSE
    BY <2>1 DEF ChunkStep
  <2>2. CASE Goes(c, "err") \/ Goes(c, "send")
    <3>1. call[c].op = "upload"
      BY <1>1, UploadEffect
    <3> QED BY <2>2, <3>1 DEF ChunkStep, ChunkOwner, Goes, Now, Made
  <2> QED BY <1>1, <2>1, <2>2, UploadEffect
<1>2. CASE \/ Meta(c) \/ QueryCachers(c) \/ Fetch(c) \/ Fail(c)
           \/ RestoreFails(c) \/ WriteBegins(c) \/ WriteEnds(c) \/ WriteFails(c)
           \/ Recover(c) \/ ReadBox(c)
  <2>1. call[c].op # "upload" /\ chunks' = chunks
    BY <1>2, MetaEffect, QueryEffect, FetchEffect, FailEffect, WriteBeginsEffect,
       WriteEndsEffect, WriteFailsEffect, RecoverEffect, ReadBoxEffect
  <2> QED BY <2>1 DEF ChunkStep, ChunkOwner
<1> QED BY <1>1, <1>2 DEF Step

\* A step of a call keeps every file explained.
LEMMA StepLeft ==
    ASSUME TypeInv, LeftInv, NEW c \in Calls, Step(c)
    PROVE  LeftInv'
<1>1. StepFrame(c) /\ SegmentList' = SegmentList
  BY StepKeepsType, SameUpload DEF StepFrame
<1>2. \A d \in Calls \ {c} : call'[d] = call[d]
  BY <1>1 DEF StepFrame
<1>3. DiskInv'
  <2> SUFFICES ASSUME NEW s \in DOMAIN disk', disk'[s] # "none"
               PROVE  \E d \in Calls : DiskOwner(d, s)'
    BY DEF DiskInv
  <2>1. CASE DiskOwner(c, s)'
    BY <2>1
  <2>2. CASE disk[s] # "none" /\ ~DiskOwner(c, s)
    <3>1. s \in DOMAIN disk
      BY <1>1 DEF StepFrame
    <3>2. PICK d \in Calls : DiskOwner(d, s)
      BY <3>1, <2>2 DEF LeftInv, DiskInv
    <3>3. d # c /\ call'[d] = call[d]
      BY <3>2, <2>2, <1>2
    <3>4. DiskOwner(d, s)'
      BY <3>2, <3>3, <1>1 DEF DiskOwner, Seg
    <3> QED BY <3>4
  <2> QED BY <2>1, <2>2, StepDisk DEF DiskStep
<1>4. FragInv'
  <2> SUFFICES ASSUME NEW s \in DOMAIN frags', NEW f \in frags'[s]
               PROVE  \E d \in Calls : FragOwner(d, s, f)'
    BY DEF FragInv
  <2>1. CASE FragOwner(c, s, f)'
    BY <2>1
  <2>2. CASE f \in frags[s] /\ ~FragOwner(c, s, f)
    <3>1. s \in DOMAIN frags
      BY <1>1 DEF StepFrame
    <3>2. PICK d \in Calls : FragOwner(d, s, f)
      BY <3>1, <2>2 DEF LeftInv, FragInv
    <3>3. d # c /\ call'[d] = call[d]
      BY <3>2, <2>2, <1>2
    <3>4. FragOwner(d, s, f)'
      BY <3>2, <3>3, <1>1 DEF FragOwner, Seg
    <3> QED BY <3>4
  <2> QED BY <2>1, <2>2, StepFrags DEF FragStep
<1>5. ChunkInv'
  <2> SUFFICES ASSUME chunks' PROVE \E d \in Calls : ChunkOwner(d)'
    BY DEF ChunkInv
  <2>1. CASE ChunkOwner(c)'
    BY <2>1
  <2>2. CASE chunks /\ ~ChunkOwner(c)
    <3>1. PICK d \in Calls : ChunkOwner(d)
      BY <2>2 DEF LeftInv, ChunkInv
    <3>2. d # c /\ call'[d] = call[d]
      BY <3>1, <2>2, <1>2
    <3>3. ChunkOwner(d)'
      BY <3>1, <3>2 DEF ChunkOwner
    <3> QED BY <3>3
  <2> QED BY <2>1, <2>2, StepChunks DEF ChunkStep
<1> QED BY <1>3, <1>4, <1>5 DEF LeftInv

\* So does a start.
LEMMA StartLeft ==
    ASSUME TypeInv, LeftInv, NEW c \in Calls, Start(c)
    PROVE  LeftInv'
<1>1. StartFrame(c) /\ SegmentList' = SegmentList /\ frags' = frags /\ disk' = disk
  BY StartKeepsType, SameUpload DEF StartFrame
<1>2. PICK op, at, i, name : Starts(c, op, at, i, name)
  BY <1>1 DEF StartFrame
<1>3. /\ call[c].at = "idle" /\ call[c].op = "none"
      /\ \A d \in Calls \ {c} : call'[d] = call[d]
  BY <1>2 DEF Starts, TypeInv, InRange
<1>4. DiskInv'
  <2> SUFFICES ASSUME NEW s \in DOMAIN disk, disk[s] # "none"
               PROVE  \E d \in Calls : DiskOwner(d, s)'
    BY <1>1 DEF DiskInv
  <2>1. PICK d \in Calls : DiskOwner(d, s)
    BY DEF LeftInv, DiskInv
  <2>2. d # c /\ call'[d] = call[d]
    BY <2>1, <1>3 DEF DiskOwner
  <2>3. DiskOwner(d, s)'
    BY <2>1, <2>2, <1>1 DEF DiskOwner, Seg
  <2> QED BY <2>3
<1>5. FragInv'
  <2> SUFFICES ASSUME NEW s \in DOMAIN frags, NEW f \in frags[s]
               PROVE  \E d \in Calls : FragOwner(d, s, f)'
    BY <1>1 DEF FragInv
  <2>1. PICK d \in Calls : FragOwner(d, s, f)
    BY DEF LeftInv, FragInv
  <2>2. d # c /\ call'[d] = call[d]
    BY <2>1, <1>3 DEF FragOwner
  <2>3. FragOwner(d, s, f)'
    BY <2>1, <2>2, <1>1 DEF FragOwner, Seg
  <2> QED BY <2>3
<1>6. ChunkInv'
  <2>1. CASE chunks' = chunks
    <3> SUFFICES ASSUME chunks PROVE \E d \in Calls : ChunkOwner(d)'
      BY <2>1 DEF ChunkInv
    <3>1. PICK d \in Calls : ChunkOwner(d)
      BY DEF LeftInv, ChunkInv
    <3>2. d # c /\ call'[d] = call[d]
      BY <3>1, <1>3 DEF ChunkOwner
    <3>3. ChunkOwner(d)'
      BY <3>1, <3>2 DEF ChunkOwner
    <3> QED BY <3>3
  <2>2. CASE Starts(c, "upload", "err", 0, 0) \/ Starts(c, "upload", "split", 0, 0)
    <3>1. ChunkOwner(c)'
      BY <2>2 DEF ChunkOwner, Starts, NewCall
    <3> QED BY <3>1 DEF ChunkInv
  <2> QED BY <2>1, <2>2, StartEffect
<1> QED BY <1>4, <1>5, <1>6 DEF LeftInv

-----------------------------------------------------------------------------
(* Calls that no other call overlapped *)

\* A step of a call keeps LoneInv, and no other call runs beside one that was not
\* overlapped.
LEMMA StepLone ==
    ASSUME TypeInv, LoneInv, NEW c \in Calls, Step(c)
    PROVE  /\ LoneInv'
           /\ \A d \in clean \ {c} : ~Active(d)
           /\ c \in clean => \A d \in Calls \ {c} : ~Active(d)
<1>1. StepFrame(c)
  BY StepKeepsType
<1>2. /\ Active(c) /\ clean' \subseteq clean /\ clean \subseteq Calls
      /\ \A d \in Calls \ {c} : call'[d] = call[d]
  BY <1>1 DEF StepFrame, TypeInv
<1>3. \A d \in clean \ {c} : ~Active(d)
  BY <1>2 DEF LoneInv
<1>4. c \in clean => \A d \in Calls \ {c} : ~Active(d)
  BY <1>2 DEF LoneInv
<1>5. \A d \in Calls \ {c} : Active(d)' <=> Active(d)
  BY <1>2 DEF Active
<1>6. LoneInv'
  BY <1>2, <1>3, <1>4, <1>5 DEF LoneInv
<1> QED BY <1>3, <1>4, <1>6

\* A start keeps LoneInv.
LEMMA StartLone ==
    ASSUME TypeInv, LoneInv, NEW c \in Calls, Start(c)
    PROVE  LoneInv'
<1>1. PICK op, at, i, name : Starts(c, op, at, i, name)
  BY StartKeepsType DEF StartFrame
<1>2. /\ clean' \subseteq Calls
      /\ \A d \in Calls \ {c} : call'[d] = call[d]
      /\ \A d \in clean' : d # c => ~Active(d)
      /\ c \in clean' => \A d \in Calls \ {c} : ~Active(d)
  BY <1>1 DEF Starts, TypeInv
<1>3. \A d \in Calls \ {c} : Active(d)' <=> Active(d)
  BY <1>2 DEF Active
<1> QED BY <1>2, <1>3 DEF LoneInv

\* What a clean call has written is whole.
LEMMA CleanWrite ==
    ASSUME TypeInv, LoneInv, MadeInv, NEW c \in Calls, Step(c), c \in clean, WriteEnds(c)
    PROVE  disk' = [disk EXCEPT ![Seg(c)] = "whole"]
<1>1. call[c].at = "write" /\ \E r \in Result(c) : disk' = [disk EXCEPT ![Seg(c)] = r]
  BY WriteEndsEffect
<1>2. ~Short(c) /\ disk[Seg(c)] = "torn"
  BY <1>1 DEF MadeInv
<1>3. ~Shared(c)
  BY StepLone DEF Shared, Active, Ended
<1>4. Result(c) = {"whole"}
  BY <1>2, <1>3 DEF Result
<1> QED BY <1>1, <1>4

\* A step of a call keeps MadeInv.
LEMMA StepMade ==
    ASSUME TypeInv, LoneInv, MadeInv, NEW c \in Calls, Step(c)
    PROVE  MadeInv'
<1>1. StepFrame(c) /\ SegmentList' = SegmentList /\ BoxOK
  BY StepKeepsType, SameUpload DEF StepFrame, TypeInv
<1>2. /\ clean' \subseteq clean /\ clean \subseteq Calls /\ Kept
      /\ call'[c].op = call[c].op
      /\ \A d \in Calls \ {c} : call'[d] = call[d]
  BY <1>1 DEF StepFrame, TypeInv
<1>3. \A d \in clean' \ {c} : call'[d].at \notin {"restore", "write"}
  BY <1>2, StepLone DEF Active, Ended
<1>4. ASSUME c \in clean', call'[c].at \in {"restore", "write"}
      PROVE  ~Short(c)' /\ (call'[c].at = "write" => disk'[Seg(c)'] = "torn")
  <2>1. CASE Fetch(c)
    <3>1. PICK got \in SUBSET Fragments :
            \/ /\ Now(c, "restore", call[c].i, got, call[c].paths, call[c].right)
               /\ c \in clean' => ~(Cardinality(got) < DataShards)
            \/ Now(c, "fail", call[c].i, got, call[c].paths, call[c].right)
            \/ call[c].op = "storage" /\ GoesOn(c, call[c].paths)
      BY <2>1, FetchEffect
    <3>2. /\ Now(c, "restore", call[c].i, got, call[c].paths, call[c].right)
          /\ ~(Cardinality(got) < DataShards)
      BY <3>1, <1>4 DEF GoesOn, Now, Made
    <3>3. call'[c].at = "restore" /\ call'[c].got = got
      BY <3>2 DEF Now, Made
    <3> QED BY <3>2, <3>3 DEF Short
  <2>2. CASE WriteBegins(c)
    <3>1. /\ \/ call[c].at = "restore" /\ call[c].op \in {"file", "storage", "box"}
             \/ call[c].at = "segment" /\ call[c].op = "gateway"
          /\ disk' = [disk EXCEPT ![Seg(c)] = "torn"]
          /\ Goes(c, "write")
      BY <2>2, WriteBeginsEffect
    <3>2. call'[c].got = call[c].got /\ call'[c].i = call[c].i
      BY <3>1 DEF Goes, Now, Made
    <3>3. ~Short(c)'
      BY <1>2, <1>4, <3>1, <3>2 DEF MadeInv, Short
    <3>4. Seg(c)' = Seg(c)
      BY <1>1, <3>2 DEF Seg
    <3>5. Seg(c) \in DOMAIN disk
      <4>1. call[c].i \in 1 .. Num
        BY <3>1 DEF TypeInv, InRange
      <4>2. Seg(c) \in 1 .. Num
        BY <4>1, <1>1, SegmentListFacts DEF Seg
      <4> QED BY <4>2, <1>2 DEF TypeInv, DirOK
    <3> QED BY <3>1, <3>3, <3>4, <3>5
  <2>3. CASE Meta(c)
    BY <1>4, <2>3, MetaEffect DEF Leaves, Goes, Now, Made
  <2>4. CASE QueryCachers(c)
    BY <1>4, <2>4, QueryEffect DEF Goes, Now, Made
  <2>5. CASE Fail(c) \/ RestoreFails(c)
    BY <1>4, <2>5, FailEffect DEF Leaves, Now, Made
  <2>6. CASE WriteEnds(c)
    BY <1>4, <2>6, WriteEndsEffect DEF GoesOn, Now, Made
  <2>7. CASE WriteFails(c)
    BY <1>4, <2>7, WriteFailsEffect DEF Goes, Now, Made
  <2>8. CASE Recover(c)
    BY <1>4, <2>8, RecoverEffect DEF Leaves, Now, Made
  <2>9. CASE ReadBox(c)
    BY <1>4, <2>9, ReadBoxEffect DEF Now, Made
  <2>10. CASE UploadStepFails(c) \/ Split(c) \/ UploadEnds(c)
    BY <1>4, <2>10, UploadEffect DEF Goes, Now, Made
  <2> QED BY <2>1, <2>2, <2>3, <2>4, <2>5, <2>6, <2>7, <2>8, <2>9, <2>10 DEF Step
<1> QED BY <1>2, <1>3, <1>4 DEF MadeInv

\* A start keeps MadeInv.
LEMMA StartMade ==
    ASSUME TypeInv, MadeInv, NEW c \in Calls, Start(c)
    PROVE  MadeInv'
<1>1. PICK op, at, i, name : Starts(c, op, at, i, name)
  BY StartKeepsType DEF StartFrame
<1>2. /\ clean' \subseteq Calls
      /\ \A d \in Calls \ {c} : call'[d] = call[d]
      /\ \A d \in clean' : d # c => ~Active(d)
  BY <1>1 DEF Starts, TypeInv
<1>3. \A d \in clean' : d # c => call'[d].at \notin {"restore", "write"}
  BY <1>2 DEF Active, Ended
<1>4. call'[c].at \notin {"restore", "write"}
  BY StartEffect DEF Starts, NewCall
<1> QED BY <1>3, <1>4 DEF MadeInv

\* A call that is not running has only its result to show.
LEMMA EndedWhole ==
    ASSUME NEW d, ~Active(d), call'[d] = call[d], WholeSoFar(d)
    PROVE  WholeSoFar(d)'
BY DEF Active, Ended, WholeSoFar

\* A call that returned with an error claims nothing.
LEMMA ReturnedWhole ==
    ASSUME NEW c, NEW at \in {"err", "panic", "blocked"}, call'[c].at = at
    PROVE  WholeSoFar(c)'
BY DEF WholeSoFar

\* A call that goes on has written the segments before the next one, or has
\* passed one over and lacks its path.
LEMMA GoesOnWhole ==
    ASSUME TypeInv, NEW c \in Calls, NEW paths, GoesOn(c, paths), UNCHANGED uploadVars,
           call[c].i \in 1 .. Num, call[c].right,
           Len(paths) \in Nat, Len(paths) <= call[c].i,
           Len(paths) = call[c].i => \A j \in 1 .. call[c].i : disk'[SegmentList[j]] = "whole"
    PROVE  WholeSoFar(c)'
<1>1. Num' = Num /\ SegmentList' = SegmentList /\ Num \in Nat /\ call[c].i \in Nat
  BY SameUpload, NumFacts, CallTyped DEF TypeInv
<1>2. CASE call[c].i < Num
  <2>1. Now(c, "segment", call[c].i + 1, {}, paths, call[c].right)
    BY <1>2 DEF GoesOn
  <2>2. call'[c].at = "segment" /\ call'[c].i = call[c].i + 1 /\ call'[c].paths = paths
        /\ call'[c].right = call[c].right
    BY <2>1 DEF Now, Made
  <2>3. call'[c].i - 1 = call[c].i
    BY <1>1, <2>2
  <2> QED BY <1>1, <2>2, <2>3 DEF WholeSoFar
<1>3. CASE ~(call[c].i < Num)
  <2>1. Now(c, "recover", 1, {}, paths, call[c].right)
    BY <1>3 DEF GoesOn
  <2>2. call'[c].at = "recover" /\ call'[c].i = 1 /\ call'[c].paths = paths
        /\ call'[c].right = call[c].right
    BY <2>1 DEF Now, Made
  <2>3. call[c].i = Num
    BY <1>1, <1>3
  <2>4. \A j \in 1 .. 1 - 1 : FALSE
    OBVIOUS
  <2> QED BY <1>1, <2>2, <2>3, <2>4 DEF WholeSoFar
<1> QED BY <1>2, <1>3

\* A step of a call keeps WholeInv: a segment that equals an earlier one is torn
\* while it is written and whole again before it is read.
LEMMA StepWhole ==
    ASSUME TypeInv, LoneInv, MadeInv, WholeInv, NEW c \in Calls, Step(c)
    PROVE  WholeInv'
<1>1. StepFrame(c) /\ Num' = Num /\ SegmentList' = SegmentList /\ BoxOK
  BY StepKeepsType, SameUpload DEF StepFrame, TypeInv
<1>2. /\ clean' \subseteq clean /\ clean \subseteq Calls /\ UNCHANGED uploadVars /\ Kept
      /\ call'[c].op = call[c].op
      /\ \A d \in Calls \ {c} : call'[d] = call[d]
  BY <1>1 DEF StepFrame, TypeInv
<1>3. ASSUME NEW d \in clean', d # c, call'[d].op \in {"file", "storage"}
      PROVE  WholeSoFar(d)'
  <2>1. call'[d] = call[d] /\ ~Active(d)
    BY <1>2, <1>3, StepLone
  <2>2. WholeSoFar(d)
    BY <1>2, <1>3, <2>1 DEF WholeInv
  <2> QED BY <2>1, <2>2, EndedWhole
<1>4. ASSUME c \in clean', call[c].op \in {"file", "storage"}
      PROVE  WholeSoFar(c)'
  <2>1. WholeSoFar(c) /\ InRange(c) /\ call[c].i \in Nat /\ Num \in Nat
        /\ call[c].paths \in Seq(Nat) /\ Len(call[c].paths) \in Nat
    BY <1>2, <1>4, CallTyped, NumFacts, LenProperties DEF WholeInv, TypeInv
  <2>2. CASE Meta(c)
    <3>1. call[c].at = "meta"
      BY <2>2, MetaEffect
    <3>2. CASE Leaves(c, "err", call[c].right)
      BY <3>2, ReturnedWhole DEF Leaves, Now, Made
    <3>3. CASE Now(c, "segment", 1, call[c].got, call[c].paths, call[c].right)
      <4>1. call'[c].at = "segment" /\ call'[c].i = 1 /\ call'[c].paths = call[c].paths
            /\ call'[c].right = call[c].right
        BY <3>3 DEF Now, Made
      <4>2. call[c].right /\ call[c].paths = <<>> /\ Len(call[c].paths) = 0
        BY <2>1, <3>1 DEF WholeSoFar
      <4>3. \A j \in 1 .. 1 - 1 : FALSE
        OBVIOUS
      <4> QED BY <4>1, <4>2, <4>3 DEF WholeSoFar
    <3> QED BY <1>4, <2>2, <3>2, <3>3, MetaEffect
  <2>3. CASE QueryCachers(c)
    <3>1. call[c].at = "segment" /\ disk' = disk
      BY <2>3, QueryEffect
    <3>2. CASE Goes(c, "fetch")
      <4>1. call'[c].at = "fetch" /\ call'[c].i = call[c].i /\ call'[c].paths = call[c].paths
            /\ call'[c].right = call[c].right
        BY <3>2 DEF Goes, Now, Made
      <4> QED BY <4>1, <3>1, <2>1, <1>1 DEF WholeSoFar
    <3>3. CASE Goes(c, "blocked")
      BY <3>3, ReturnedWhole DEF Goes, Now, Made
    <3> QED BY <1>4, <2>3, <3>2, <3>3, QueryEffect
  <2>4. CASE Fetch(c)
    <3>1. call[c].at = "fetch" /\ disk' = disk
      BY <2>4, FetchEffect
    <3>2. CASE \E got : \/ Now(c, "restore", call[c].i, got, call[c].paths, call[c].right)
                        \/ Now(c, "fail", call[c].i, got, call[c].paths, call[c].right)
      <4>1. call'[c].at \in {"restore", "fail"} /\ call'[c].i = call[c].i
            /\ call'[c].paths = call[c].paths /\ call'[c].right = call[c].right
        BY <3>2 DEF Now, Made
      <4> QED BY <4>1, <3>1, <2>1, <1>1 DEF WholeSoFar
    <3>3. CASE GoesOn(c, call[c].paths)
      <4>1. call[c].i \in 1 .. Num /\ call[c].right /\ Len(call[c].paths) <= call[c].i - 1
        BY <2>1, <3>1 DEF WholeSoFar, InRange
      <4>2. Len(call[c].paths) <= call[c].i /\ Len(call[c].paths) # call[c].i
        BY <4>1, <2>1
      <4> QED BY <4>1, <4>2, <3>3, <2>1, <1>2, GoesOnWhole
    <3> QED BY <2>4, <3>2, <3>3, FetchEffect
  <2>5. CASE Fail(c) \/ RestoreFails(c)
    BY <2>5, FailEffect, ReturnedWhole DEF Leaves, Now, Made
  <2>6. CASE WriteBegins(c)
    <3>1. /\ call[c].at = "restore"
          /\ disk' = [disk EXCEPT ![Seg(c)] = "torn"]
          /\ Goes(c, "write")
      BY <1>4, <2>6, WriteBeginsEffect
    <3>2. call'[c].at = "write" /\ call'[c].i = call[c].i /\ call'[c].paths = call[c].paths
          /\ call'[c].right = call[c].right
      BY <3>1 DEF Goes, Now, Made
    <3>3. Seg(c)' = Seg(c)
      BY <3>2, <1>1 DEF Seg
    <3>4. call[c].i \in 1 .. Num /\ call[c].right /\ Len(call[c].paths) <= call[c].i - 1
      BY <2>1, <3>1 DEF WholeSoFar, InRange
    <3>5. ASSUME Len(call[c].paths) = call[c].i - 1, NEW j \in 1 .. call[c].i - 1
          PROVE  disk'[SegmentList[j]] = "whole" \/ SegmentList[j] = Seg(c)
      <4>1. disk[SegmentList[j]] = "whole"
        BY <2>1, <3>1, <3>5 DEF WholeSoFar
      <4>2. SegmentList[j] \in DOMAIN disk
        <5>1. j \in 1 .. Num
          BY <3>4, <2>1
        <5>2. SegmentList[j] \in 1 .. Num
          BY <5>1, <1>1, SegmentListFacts
        <5> QED BY <5>2, <1>2 DEF TypeInv, DirOK
      <4> QED BY <4>1, <4>2, <3>1
    <3> QED BY <3>2, <3>3, <3>4, <3>5, <1>1 DEF WholeSoFar
  <2>7. CASE WriteEnds(c)
    <3> DEFINE paths == Append(call[c].paths, Seg(c))
    <3>1. call[c].at = "write" /\ Seg(c) \in Nat /\ GoesOn(c, paths)
      BY <1>4, <2>7, WriteEndsEffect
    <3>2. disk' = [disk EXCEPT ![Seg(c)] = "whole"]
      BY <1>2, <1>4, <2>7, CleanWrite
    <3>3. call[c].i \in 1 .. Num /\ call[c].right /\ Len(call[c].paths) <= call[c].i - 1
      BY <2>1, <3>1 DEF WholeSoFar, InRange
    <3>4. Len(paths) = Len(call[c].paths) + 1
      BY <2>1, <3>1, AppendProperties
    <3> HIDE DEF paths
    <3>5. Len(paths) \in Nat /\ Len(paths) <= call[c].i
      BY <2>1, <3>3, <3>4
    <3>6. ASSUME Len(paths) = call[c].i, NEW j \in 1 .. call[c].i
          PROVE  disk'[SegmentList[j]] = "whole"
      <4>1. j \in 1 .. Num
        BY <3>3, <2>1
      <4>2. SegmentList[j] \in 1 .. Num
        BY <4>1, <1>1, SegmentListFacts
      <4>3. SegmentList[j] \in DOMAIN disk
        BY <4>2, <1>2 DEF TypeInv, DirOK
      <4>4. CASE j = call[c].i
        <5>1. SegmentList[j] = Seg(c)
          BY <4>4 DEF Seg
        <5> QED BY <5>1, <4>3, <3>2
      <4>5. CASE j # call[c].i
        <5>0. Len(call[c].paths) = call[c].i - 1
          BY <3>4, <3>6, <2>1
        <5>1. j \in 1 .. call[c].i - 1 /\ Len(call[c].paths) = call[c].i - 1
          BY <5>0, <4>5, <2>1
        <5>2. disk[SegmentList[j]] = "whole" \/ SegmentList[j] = Seg(c)
          BY <5>1, <2>1, <3>1 DEF WholeSoFar
        <5> QED BY <5>2, <4>3, <3>2
      <4> QED BY <4>4, <4>5
    <3> QED BY <3>1, <3>3, <3>5, <3>6, <1>2, GoesOnWhole
  <2>8. CASE Recover(c)
    <3>1. call[c].at = "recover" /\ call[c].i \in 1 .. Num
      BY <2>1, <2>8, RecoverEffect DEF InRange
    <3>2. CASE Leaves(c, "err", call[c].right) \/ Leaves(c, "panic", call[c].right)
      BY <3>2, ReturnedWhole DEF Leaves, Now, Made
    <3>3. ASSUME Len(call[c].paths) = Num, out' = Recovered(c)
          PROVE  /\ \A j \in 1 .. call[c].i : out'[j] = "right"
                 /\ \A j \in 1 .. Num : disk[SegmentList[j]] = "whole"
      <4>1. /\ call[c].right
            /\ \A j \in 1 .. Num : disk[SegmentList[j]] = "whole"
            /\ \A j \in 1 .. call[c].i - 1 : out[j] = "right"
        BY <2>1, <3>1, <3>3 DEF WholeSoFar
      <4>2. Right(c)
        BY <4>1, <3>1 DEF Right
      <4>3. out' = [out EXCEPT ![call[c].i] = "right"] /\ DOMAIN out = 1 .. Num
        BY <4>2, <3>3, <1>2 DEF Recovered, TypeInv, DirOK
      <4>4. ASSUME NEW j \in 1 .. call[c].i PROVE out'[j] = "right"
        <5>1. j \in 1 .. Num
          BY <3>1, <2>1
        <5>2. CASE j = call[c].i
          BY <5>1, <5>2, <4>3
        <5>3. CASE j # call[c].i
          <6>1. j \in 1 .. call[c].i - 1
            BY <5>3, <2>1
          <6> QED BY <6>1, <5>1, <5>3, <4>1, <4>3
        <5> QED BY <5>2, <5>3
      <4> QED BY <4>1, <4>2, <4>4
    <3>4. CASE /\ Len(call[c].paths) = Num /\ (c \in clean' => out' = Recovered(c))
               /\ call[c].i < Num /\ UNCHANGED <<frags, disk>>
               /\ Now(c, "recover", call[c].i + 1, call[c].got, call[c].paths,
                      out'[call[c].i] = "right")
      <4>1. /\ call'[c].at = "recover" /\ call'[c].i = call[c].i + 1
            /\ call'[c].right = (out'[call[c].i] = "right")
        BY <3>4 DEF Now, Made
      <4>2. call'[c].i - 1 = call[c].i
        BY <4>1, <2>1
      <4>3. \A j \in 1 .. call[c].i : out'[j] = "right"
        BY <3>3, <3>4, <1>4
      <4>4. call[c].i \in 1 .. call[c].i
        BY <3>1, <2>1
      <4>5. call'[c].right
        BY <4>1, <4>3, <4>4
      <4> QED BY <4>1, <4>2, <4>3, <4>5, <3>3, <3>4, <1>1, <1>4 DEF WholeSoFar
    <3>5. CASE /\ Len(call[c].paths) = Num /\ (c \in clean' => out' = Recovered(c))
               /\ ~(call[c].i < Num)
               /\ Leaves(c, "ok", \A i \in 1 .. Num : out'[i] = "right")
      <4>1. call[c].i = Num
        BY <3>1, <3>5, <2>1
      <4>2. \A i \in 1 .. Num : out'[i] = "right"
        BY <4>1, <3>3, <3>5, <1>4
      <4>3. /\ call'[c].at = "ok"
            /\ call'[c].right = (\A i \in 1 .. Num : out'[i] = "right")
        BY <3>5 DEF Leaves, Now, Made
      <4> QED BY <4>2, <4>3 DEF WholeSoFar
    <3> QED BY <2>8, <3>2, <3>4, <3>5, RecoverEffect
  <2>9. CASE WriteFails(c)
    <3>1. call'[c].at = "fail"
      BY <2>9, WriteFailsEffect DEF Goes, Now, Made
    <3> QED BY <3>1 DEF WholeSoFar
  <2>10. CASE ReadBox(c) \/ UploadStepFails(c) \/ Split(c) \/ UploadEnds(c)
    BY <1>4, <2>10, ReadBoxEffect, UploadEffect
  <2> QED BY <2>2, <2>3, <2>4, <2>5, <2>6, <2>7, <2>8, <2>9, <2>10 DEF Step
<1> QED BY <1>2, <1>3, <1>4 DEF WholeInv

\* A start keeps WholeInv.
LEMMA StartWhole ==
    ASSUME TypeInv, WholeInv, NEW c \in Calls, Start(c)
    PROVE  WholeInv'
<1>1. PICK op, at, i, name : Starts(c, op, at, i, name)
  BY StartKeepsType DEF StartFrame
<1>2. /\ clean' \subseteq clean /\ clean \subseteq Calls
      /\ \A d \in Calls \ {c} : call'[d] = call[d]
      /\ \A d \in clean' : d # c => ~Active(d)
  BY <1>1 DEF Starts, TypeInv
<1>3. ASSUME NEW d \in clean', d # c, call'[d].op \in {"file", "storage"}
      PROVE  WholeSoFar(d)'
  <2>1. d \in clean /\ call'[d] = call[d] /\ ~Active(d)
    BY <1>2, <1>3
  <2>2. WholeSoFar(d)
    BY <1>3, <2>1 DEF WholeInv
  <2> QED BY <2>1, <2>2, EndedWhole
<1>4. ASSUME call'[c].op \in {"file", "storage"} PROVE WholeSoFar(c)'
  <2>1. \E o : Starts(c, o, "meta", 0, 0)
    BY <1>4, StartEffect DEF Starts, NewCall
  <2>2. call'[c].at = "meta" /\ call'[c].paths = <<>> /\ call'[c].right = TRUE
    BY <2>1 DEF Starts, NewCall
  <2> QED BY <2>2 DEF WholeSoFar
<1> QED BY <1>3, <1>4 DEF WholeInv

-----------------------------------------------------------------------------
(* Files of the box *)

\* A step of a call keeps NamesInv.
LEMMA StepNames ==
    ASSUME TypeInv, NamesInv, NEW c \in Calls, Step(c)
    PROVE  NamesInv'
<1>1. StepFrame(c) /\ box' = box /\ dir' = dir
  BY StepKeepsType, SameUpload DEF StepFrame
<1>2. /\ call'[c].op = call[c].op /\ call'[c].name = call[c].name
      /\ \A d \in Calls \ {c} : call'[d] = call[d]
  BY <1>1 DEF StepFrame
<1>3. ASSUME call[c].op \in {"box", "gateway"} PROVE call'[c].i = call[c].i
  <2>1. CASE Meta(c)
    BY <1>3, <2>1, MetaEffect DEF Leaves, Goes, Now, Made
  <2>2. CASE QueryCachers(c)
    BY <2>2, QueryEffect DEF Goes, Now, Made
  <2>3. CASE Fetch(c)
    BY <1>3, <2>3, FetchEffect DEF Now, Made
  <2>4. CASE Fail(c) \/ RestoreFails(c)
    BY <2>4, FailEffect DEF Leaves, Now, Made
  <2>5. CASE WriteBegins(c)
    BY <2>5, WriteBeginsEffect DEF Goes, Now, Made
  <2>6. CASE WriteEnds(c)
    BY <1>3, <2>6, WriteEndsEffect DEF Now, Made
  <2>7. CASE WriteFails(c)
    BY <2>7, WriteFailsEffect DEF Goes, Now, Made
  <2>8. CASE ReadBox(c)
    BY <2>8, ReadBoxEffect DEF Now, Made
  <2>9. CASE Recover(c) \/ UploadStepFails(c) \/ Split(c) \/ UploadEnds(c)
    BY <1>3, <2>9, RecoverEffect, UploadEffect
  <2> QED BY <2>1, <2>2, <2>3, <2>4, <2>5, <2>6, <2>7, <2>8, <2>9 DEF Step
<1> QED BY <1>1, <1>2, <1>3 DEF NamesInv

\* A start keeps NamesInv.
LEMMA StartNames ==
    ASSUME TypeInv, NamesInv, NEW c \in Calls, Start(c)
    PROVE  NamesInv'
<1>1. StartFrame(c) /\ box' = box /\ dir' = dir
  BY StartKeepsType, SameUpload DEF StartFrame
<1>2. \A d \in Calls \ {c} : call'[d] = call[d]
  BY <1>1 DEF StartFrame, Starts
<1>3. ASSUME call'[c].op \in {"box", "gateway"}
      PROVE  /\ call'[c].name \in DOMAIN dir
             /\ call'[c].i = PlateOf(box.plates, call'[c].name)
  <2>1. \E op, at : \E name \in DOMAIN dir : Starts(c, op, at, PlateOf(box.plates, name), name)
    BY <1>3, StartEffect DEF Starts, NewCall
  <2> QED BY <2>1 DEF Starts, NewCall
<1> QED BY <1>1, <1>2, <1>3 DEF NamesInv

\* A step of a call keeps ReadInv.
LEMMA StepRead ==
    ASSUME TypeInv, LoneInv, MadeInv, ReadInv, NEW c \in Calls, Step(c)
    PROVE  ReadInv'
<1>1. StepFrame(c) /\ SegmentList' = SegmentList /\ BoxOK
  BY StepKeepsType, SameUpload DEF StepFrame, TypeInv
<1>2. /\ clean' \subseteq clean /\ clean \subseteq Calls /\ Kept
      /\ \A d \in Calls \ {c} : call'[d] = call[d]
  BY <1>1 DEF StepFrame, TypeInv
<1>3. \A d \in clean \ {c} : call[d].at # "read"
  BY StepLone DEF Active, Ended
<1>4. ASSUME c \in clean, call'[c].at = "read" PROVE disk'[Seg(c)'] = "whole"
  <2>1. WriteEnds(c)
    <3>1. CASE Meta(c)
      BY <1>4, <3>1, MetaEffect DEF Leaves, Goes, Now, Made
    <3>2. CASE QueryCachers(c)
      BY <1>4, <3>2, QueryEffect DEF Goes, Now, Made
    <3>3. CASE Fetch(c)
      BY <1>4, <3>3, FetchEffect DEF GoesOn, Now, Made
    <3>4. CASE Fail(c) \/ RestoreFails(c)
      BY <1>4, <3>4, FailEffect DEF Leaves, Now, Made
    <3>5. CASE WriteBegins(c)
      BY <1>4, <3>5, WriteBeginsEffect DEF Goes, Now, Made
    <3>6. CASE WriteFails(c)
      BY <1>4, <3>6, WriteFailsEffect DEF Goes, Now, Made
    <3>7. CASE ReadBox(c)
      BY <1>4, <3>7, ReadBoxEffect DEF Now, Made
    <3>8. CASE Recover(c)
      BY <1>4, <3>8, RecoverEffect DEF Leaves, Now, Made
    <3>9. CASE UploadStepFails(c) \/ Split(c) \/ UploadEnds(c)
      BY <1>4, <3>9, UploadEffect DEF Goes, Now, Made
    <3> QED BY <3>1, <3>2, <3>3, <3>4, <3>5, <3>6, <3>7, <3>8, <3>9 DEF Step
  <2>2. disk' = [disk EXCEPT ![Seg(c)] = "whole"] /\ call[c].at = "write"
    BY <1>4, <2>1, CleanWrite, WriteEndsEffect
  <2>3. call'[c].i = call[c].i
    BY <2>1, <1>4, WriteEndsEffect DEF GoesOn, Now, Made
  <2>4. Seg(c)' = Seg(c)
    BY <2>3, <1>1 DEF Seg
  <2>5. Seg(c) \in DOMAIN disk
    <3>1. call[c].i \in 1 .. Num
      BY <2>2 DEF TypeInv, InRange
    <3>2. Seg(c) \in 1 .. Num
      BY <3>1, <1>1, SegmentListFacts DEF Seg
    <3> QED BY <3>2, <1>2 DEF TypeInv, DirOK
  <2> QED BY <2>2, <2>4, <2>5
<1> QED BY <1>2, <1>3, <1>4 DEF ReadInv

\* A start keeps ReadInv.
LEMMA StartRead ==
    ASSUME TypeInv, ReadInv, NEW c \in Calls, Start(c)
    PROVE  ReadInv'
<1>1. PICK op, at, i, name : Starts(c, op, at, i, name)
  BY StartKeepsType DEF StartFrame
<1>2. /\ clean' \subseteq Calls
      /\ \A d \in Calls \ {c} : call'[d] = call[d]
      /\ \A d \in clean' : d # c => ~Active(d)
  BY <1>1 DEF Starts, TypeInv
<1>3. \A d \in clean' : d # c => call'[d].at # "read"
  BY <1>2 DEF Active, Ended
<1>4. call'[c].at # "read"
  BY StartEffect DEF Starts, NewCall
<1> QED BY <1>3, <1>4 DEF ReadInv

\* The part of BoxedFileIsRight that is about one call.
GivesBoxed(c) ==
    /\ call[c].op \in {"box", "gateway"}
    /\ call[c].at \in {"ok", "panic"}
    /\ ~cipher
    /\ dir[call[c].name] # Box
    /\ Retrievable(box, call[c].name)
    => call[c].at = "ok" /\ call[c].right

\* A step of a call keeps BoxedFileIsRight: the segment that is read is whole,
\* its number is the plate's, and the cut of a retrievable file is right.
LEMMA StepBoxed ==
    ASSUME TypeInv, NamesInv, ReadInv, BoxedFileIsRight, NEW c \in Calls, Step(c)
    PROVE  BoxedFileIsRight'
<1>1. StepFrame(c) /\ box' = box /\ dir' = dir /\ cipher' = cipher
  BY StepKeepsType, SameUpload DEF StepFrame
<1>2. /\ clean' \subseteq clean /\ clean \subseteq Calls /\ Kept
      /\ call'[c].op = call[c].op /\ call'[c].name = call[c].name
      /\ \A d \in Calls \ {c} : call'[d] = call[d]
  BY <1>1 DEF StepFrame, TypeInv
<1>3. ASSUME NEW d \in clean, d # c PROVE GivesBoxed(d)'
  <2>1. call'[d] = call[d] /\ GivesBoxed(d)
    BY <1>2, <1>3 DEF BoxedFileIsRight, GivesBoxed
  <2> QED BY <2>1, <1>1 DEF GivesBoxed
<1>4. ASSUME c \in clean, call[c].op \in {"box", "gateway"}, call'[c].at \in {"ok", "panic"},
             ~cipher, dir[call[c].name] # Box, Retrievable(box, call[c].name)
      PROVE  call'[c].at = "ok" /\ call'[c].right
  <2>1. ReadBox(c)
    <3>1. CASE Meta(c)
      BY <1>4, <3>1, MetaEffect DEF Leaves, Goes, Now, Made
    <3>2. CASE QueryCachers(c)
      BY <1>4, <3>2, QueryEffect DEF Goes, Now, Made
    <3>3. CASE Fetch(c)
      BY <1>4, <3>3, FetchEffect DEF GoesOn, Now, Made
    <3>4. CASE Fail(c) \/ RestoreFails(c)
      BY <1>4, <3>4, FailEffect DEF Leaves, Now, Made
    <3>5. CASE WriteBegins(c)
      BY <1>4, <3>5, WriteBeginsEffect DEF Goes, Now, Made
    <3>6. CASE WriteFails(c)
      BY <1>4, <3>6, WriteFailsEffect DEF Goes, Now, Made
    <3>7. CASE WriteEnds(c)
      BY <1>4, <3>7, WriteEndsEffect DEF GoesOn, Now, Made
    <3>8. CASE Recover(c) \/ UploadStepFails(c) \/ Split(c) \/ UploadEnds(c)
      BY <1>4, <3>8, RecoverEffect, UploadEffect
    <3> QED BY <3>1, <3>2, <3>3, <3>4, <3>5, <3>6, <3>7, <3>8 DEF Step
  <2> DEFINE name == call[c].name
  <2>2. call[c].at = "read" /\ disk[Seg(c)] = "whole"
    BY <2>1, <1>4, ReadBoxEffect DEF ReadInv
  <2>3. name \in 1 .. Len(dir) /\ call[c].i = PlateOf(box.plates, name)
    <3>1. dir \in Entries
      BY DEF TypeInv, BoxOK
    <3>2. DOMAIN dir = 1 .. Len(dir)
      BY <3>1, LenProperties DEF Entries
    <3> QED BY <3>2, <1>4 DEF NamesInv
  <2>4. call[c].i = 1
    BY <2>3, <1>4 DEF Retrievable
  <2>5. cipher = FALSE /\ BoxIsRight(box, dir)
    BY <1>2, <1>4 DEF TypeInv, BoxOK, Kept
  <2>6. /\ Cut(box.plates[1], name, Segment(box.data, FALSE, 1)) = Bytes(name, dir[name])
        /\ Bytes(name, dir[name]) # OutOfRange
    BY <2>3, <2>5, <1>4 DEF BoxIsRight
  <2>7. Boxed(name) = Bytes(name, dir[name])
    BY <1>4 DEF Boxed
  <2>8. /\ Cut(box.plates[call[c].i], name, Segment(box.data, cipher, call[c].i)) = Boxed(name)
        /\ Boxed(name) # OutOfRange
    BY <2>4, <2>5, <2>6, <2>7
  <2>9. PICK at \in {"ok", "err", "panic"}, right \in BOOLEAN :
            /\ Now(c, at, call[c].i, call[c].got, call[c].paths, right)
            /\ /\ disk[Seg(c)] = "whole" /\ ~cipher
               /\ Cut(box.plates[call[c].i], call[c].name,
                      Segment(box.data, cipher, call[c].i)) = Boxed(call[c].name)
               /\ Boxed(call[c].name) # OutOfRange
               => at = "ok" /\ right
    BY <2>1, ReadBoxEffect
  <2>10. at = "ok" /\ right
    BY <2>2, <2>8, <2>9, <1>4
  <2> QED BY <2>9, <2>10 DEF Now, Made
<1>5. c \in clean => GivesBoxed(c)'
  BY <1>1, <1>2, <1>4 DEF GivesBoxed
<1> QED BY <1>2, <1>3, <1>5 DEF BoxedFileIsRight, GivesBoxed

\* A start keeps BoxedFileIsRight.
LEMMA StartBoxed ==
    ASSUME TypeInv, BoxedFileIsRight, NEW c \in Calls, Start(c)
    PROVE  BoxedFileIsRight'
<1>1. StartFrame(c) /\ box' = box /\ dir' = dir /\ cipher' = cipher
  BY StartKeepsType, SameUpload DEF StartFrame
<1>2. PICK op, at, i, name : Starts(c, op, at, i, name)
  BY <1>1 DEF StartFrame
<1>3. /\ clean' \subseteq clean /\ clean \subseteq Calls
      /\ \A d \in Calls \ {c} : call'[d] = call[d]
  BY <1>2 DEF Starts, TypeInv
<1>4. ASSUME NEW d \in clean', d # c PROVE GivesBoxed(d)'
  <2>1. call'[d] = call[d] /\ GivesBoxed(d)
    BY <1>3, <1>4 DEF BoxedFileIsRight, GivesBoxed
  <2> QED BY <2>1, <1>1 DEF GivesBoxed
<1>5. call'[c].at \notin {"ok", "panic"}
  BY StartEffect DEF Starts, NewCall
<1>6. GivesBoxed(c)'
  BY <1>5 DEF GivesBoxed
<1> QED BY <1>4, <1>6 DEF BoxedFileIsRight, GivesBoxed

-----------------------------------------------------------------------------
(* The theorems *)

\* A set that a finite set is mapped onto is no larger.
LEMMA Covered ==
    ASSUME NEW S, IsFiniteSet(S), NEW T, NEW F \in [S -> T],
           \A t \in T : \E x \in S : F[x] = t
    PROVE  Cardinality(T) <= Cardinality(S)
<1>1. F \in Surjection(S, T)
  BY Fun_IsSurj
<1> QED BY <1>1, FS_Surjection

\* Without calls there is no file in the directory.
LEMMA NoFileLeft ==
    ASSUME LeftInv, \A c \in Calls : call[c] = Idle
    PROVE  /\ ~chunks
           /\ \A s \in DOMAIN disk : disk[s] = "none"
           /\ \A s \in DOMAIN frags : \A f \in frags[s] : FALSE
<1>1. \A c \in Calls : call[c].op = "none" /\ call[c].at = "idle"
  BY DEF Idle
<1>2. ~chunks
  BY <1>1 DEF LeftInv, ChunkInv, ChunkOwner
<1>3. \A s \in DOMAIN disk : disk[s] = "none"
  BY <1>1 DEF LeftInv, DiskInv, DiskOwner
<1>4. \A s \in DOMAIN frags : \A f \in frags[s] : FALSE
  BY <1>1 DEF LeftInv, FragInv, FragOwner
<1> QED BY <1>2, <1>3, <1>4

\* A step of the upload before anything is stored keeps it.
LEMMA UploadOthers ==
    ASSUME TypeInv, Others, ~Kept, UNCHANGED <<call, clean, chunks>>,
           \A s \in DOMAIN disk' : disk'[s] = "none" \/ (disk' = disk /\ s \in DOMAIN disk),
           \A s \in DOMAIN frags' : frags'[s] = {} \/ (frags' = frags /\ s \in DOMAIN frags)
    PROVE  Others'
<1>1. /\ ~chunks' /\ clean' \subseteq Calls
      /\ \A c \in Calls : call[c] = Idle /\ call'[c] = Idle
  BY DEF TypeInv, DirOK
<1>2. /\ \A s \in DOMAIN disk : disk[s] = "none"
      /\ \A s \in DOMAIN frags : \A f \in frags[s] : FALSE
  BY <1>1, NoFileLeft DEF Others
<1>3. /\ \A s \in DOMAIN disk' : disk'[s] = "none"
      /\ \A s \in DOMAIN frags' : \A f \in frags'[s] : FALSE
  BY <1>2
<1>4. LeftInv'
  BY <1>1, <1>3 DEF LeftInv, DiskInv, FragInv, ChunkInv
<1>5. \A c \in Calls : call'[c].op = "none" /\ call'[c].at = "idle"
  BY <1>1 DEF Idle
<1>6. LoneInv' /\ MadeInv' /\ WholeInv' /\ NamesInv' /\ ReadInv' /\ BoxedFileIsRight'
  BY <1>1, <1>5 DEF LoneInv, MadeInv, WholeInv, NamesInv, ReadInv, BoxedFileIsRight, Active, Ended
<1> QED BY <1>4, <1>6 DEF Others

\* A step that changes nothing that it reads keeps it.
LEMMA SameOthers ==
    ASSUME Others, UNCHANGED <<dir, box, cipher, stage, boxChunks, call, clean, frags, disk, out, chunks>>
    PROVE  Others'
<1>1. Num' = Num
  BY DEF Num
<1>2. SegmentList' = SegmentList
  BY <1>1 DEF SegmentList
<1>3. LeftInv'
  BY <1>2 DEF Others, LeftInv, DiskInv, FragInv, ChunkInv, DiskOwner, FragOwner, ChunkOwner, Seg
<1>4. LoneInv'
  BY DEF Others, LoneInv, Active
<1>5. WholeInv'
  BY <1>1, <1>2 DEF Others, WholeInv, WholeSoFar, Seg
<1>6. NamesInv' /\ BoxedFileIsRight'
  BY DEF Others, NamesInv, BoxedFileIsRight
<1>7. ReadInv' /\ MadeInv'
  BY <1>2 DEF Others, ReadInv, MadeInv, Seg, Short
<1> QED BY <1>3, <1>4, <1>5, <1>6, <1>7 DEF Others

\* The inductive invariant holds initially.
LEMMA InitInv == Init => IInv
<1> SUFFICES ASSUME Init PROVE IInv
  OBVIOUS
<1>1. TypeInv
  BY InitType
<1>2. /\ call = [c \in Calls |-> Idle] /\ clean = Calls /\ ~chunks
      /\ disk = <<>> /\ frags = <<>>
  BY DEF Init
<1>3. DOMAIN disk = {} /\ DOMAIN frags = {}
  BY <1>2
<1>4. LeftInv
  BY <1>2, <1>3 DEF LeftInv, DiskInv, FragInv, ChunkInv
<1>5. \A c \in Calls : call[c].op = "none" /\ call[c].at = "idle"
  BY <1>2 DEF Idle
<1>6. LoneInv /\ MadeInv /\ WholeInv /\ NamesInv /\ ReadInv /\ BoxedFileIsRight
  BY <1>2, <1>5 DEF LoneInv, MadeInv, WholeInv, NamesInv, ReadInv, BoxedFileIsRight, Active, Ended
<1> QED BY <1>1, <1>4, <1>6 DEF IInv, Others

\* Every step keeps the inductive invariant.
LEMMA NextInv == IInv /\ [Next]_vars => IInv'
<1> SUFFICES ASSUME IInv, [Next]_vars PROVE IInv'
  OBVIOUS
<1>1. TypeInv /\ Others /\ TypeInv'
  BY NextType DEF IInv, Others
<1> SUFFICES Others'
  BY <1>1 DEF IInv, Others
<1>2. ASSUME NEW c \in Calls, Step(c) PROVE Others'
  BY <1>1, <1>2, StepLeft, StepLone, StepMade, StepWhole, StepNames, StepRead, StepBoxed DEF Others
<1>3. ASSUME NEW c \in Calls, Start(c) PROVE Others'
  BY <1>1, <1>3, StartLeft, StartLone, StartMade, StartWhole, StartNames, StartRead, StartBoxed DEF Others
<1>4. CASE MakeBox
  <2>1. ~Kept /\ UNCHANGED <<call, clean, chunks, disk, frags>>
    BY <1>4 DEF MakeBox, filesVars, Kept
  <2> QED BY <2>1, <1>1, UploadOthers
<1>5. CASE UploadFails
  <2>1. ~Kept /\ UNCHANGED <<call, clean, chunks, disk, frags>>
    BY <1>1, <1>5, UploadFailsType
  <2> QED BY <2>1, <1>1, UploadOthers
<1>6. CASE UploadDirAsBoxFile \/ UploadDirToGateway
  <2>1. ~Kept /\ UNCHANGED <<call, clean, chunks>>
    BY <1>1, <1>6, StoredType
  <2>2. disk' = [i \in 1 .. Num |-> "none"] /\ frags' = [i \in 1 .. Num |-> {}]
    BY <1>6 DEF UploadDirAsBoxFile, UploadDirToGateway, Stored
  <2>3. /\ \A s \in DOMAIN disk' : disk'[s] = "none"
        /\ \A s \in DOMAIN frags' : frags'[s] = {}
    BY <2>2
  <2> QED BY <2>1, <2>3, <1>1, UploadOthers
<1>7. CASE Callback
  <2>1. UNCHANGED <<dir, box, cipher, stage, boxChunks, call, clean, frags, disk, out, chunks>>
    BY <1>7 DEF Callback, filesVars
  <2> QED BY <2>1, <1>1, SameOthers
<1>8. CASE UNCHANGED vars
  <2>1. UNCHANGED <<dir, box, cipher, stage, boxChunks, call, clean, frags, disk, out, chunks>>
    BY <1>8 DEF vars, uploadVars, filesVars
  <2> QED BY <2>1, <1>1, SameOthers
<1> QED BY <1>2, <1>3, <1>4, <1>5, <1>6, <1>7, <1>8 DEF Next, Upload

\* The inductive invariant holds.
LEMMA InvHolds == Spec => []IInv
<1> QED BY InitInv, NextInv, PTL DEF Spec

\* Every reachable state is typed: a call never asks for a segment or a plate that
\* the file does not have.
THEOREM ClientFilesTypeCorrect == Spec => []TypeInv
<1>1. IInv => TypeInv
  BY DEF IInv
<1> QED BY <1>1, InvHolds, PTL

\* DownloadFile and DownloadFileFromStorage give the whole file, unless another
\* call worked in the directory meanwhile, the error of a write to the result was
\* dropped, or a fragment was counted twice.
THEOREM FileIsWholeHolds == Spec => []FileIsWhole
<1>1. IInv => FileIsWhole
  BY DEF IInv, Others, WholeInv, WholeSoFar, FileIsWhole
<1> QED BY <1>1, InvHolds, PTL

\* DownloadFileInBox gives exactly the file that was boxed and does not panic, for
\* every directory, if the upload is plain, the file is retrievable and the call
\* is clean.
THEOREM BoxedFileIsRightHolds == Spec => []BoxedFileIsRight
<1>1. IInv => BoxedFileIsRight
  BY DEF IInv, Others
<1> QED BY <1>1, InvHolds, PTL

\* When no call runs, each failed call accounts for at most one segment's fragments.
LEMMA FragsLeft ==
    ASSUME LeftInv, \A c \in Calls : ~Active(c)
    PROVE  Cardinality({s \in DOMAIN frags : frags[s] # {}})
               <= Cardinality({c \in Calls : call[c].op \in {"file", "box"} /\ call[c].at = "err"})
<1> DEFINE F == {s \in DOMAIN frags : frags[s] # {}}
           E == {c \in Calls : call[c].op \in {"file", "box"} /\ call[c].at = "err"}
           S == {c \in E : Seg(c) \in F}
           G == [c \in S |-> Seg(c)]
<1>1. IsFiniteSet(E)
  <2>1. E \in SUBSET Calls
    OBVIOUS
  <2> HIDE DEF E
  <2> QED BY <2>1, FilesAssumption, FS_Subset
<1>2. IsFiniteSet(S) /\ Cardinality(S) <= Cardinality(E)
  <2>1. S \in SUBSET E
    OBVIOUS
  <2> HIDE DEF E, S
  <2> QED BY <2>1, <1>1, FS_Subset
<1>3. ASSUME NEW s \in F PROVE \E c \in E : Seg(c) = s
  <2>1. PICK f \in frags[s] : TRUE
    BY <1>3
  <2>2. PICK c \in Calls : FragOwner(c, s, f)
    BY <1>3, <2>1 DEF LeftInv, FragInv
  <2>3. call[c].at \in Ended
    BY DEF Active
  <2>4. call[c].op \in {"file", "box"} /\ call[c].at = "err" /\ Seg(c) = s
    BY <2>2, <2>3 DEF FragOwner, Busy, Ended
  <2> QED BY <2>4
<1> HIDE DEF F, E
<1>4. G \in [S -> F]
  OBVIOUS
<1>5. \A t \in F : \E x \in S : G[x] = t
  BY <1>3
<1>6. Cardinality(F) <= Cardinality(S)
  <2> HIDE DEF S, G
  <2> QED BY <1>2, <1>4, <1>5, Covered
<1>7. IsFiniteSet(F)
  <2>1. G \in Surjection(S, F)
    BY <1>4, <1>5, Fun_IsSurj
  <2> HIDE DEF S, G
  <2> QED BY <2>1, <1>2, FS_Surjection
<1>8. Cardinality(F) \in Nat /\ Cardinality(S) \in Nat /\ Cardinality(E) \in Nat
  BY <1>1, <1>2, <1>7, FS_CardinalityType
<1>9. Cardinality(F) <= Cardinality(E)
  BY <1>2, <1>6, <1>8
<1> QED BY <1>9 DEF F, E

\* What the calls leave in the directory when none is running.
THEOREM LeftoversExplainedHolds == Spec => []LeftoversExplained
<1>1. IInv => LeftoversExplained
  <2> SUFFICES ASSUME IInv, \A c \in Calls : ~Active(c)
               PROVE  LeftoversExplained
    BY DEF LeftoversExplained
  <2>1. \A c \in Calls : call[c].at \in Ended
    BY DEF Active
  <2>2. \A s \in DOMAIN disk : disk[s] # "none" => \E c \in Calls :
            \/ call[c].op \in {"box", "gateway"}
            \/ call[c].at = "blocked"
            \/ call[c].op = "file" /\ call[c].at = "err" /\ call[c].i > 0 /\ Seg(c) = s
    BY <2>1 DEF IInv, Others, LeftInv, DiskInv, DiskOwner, Busy, Ended
  <2>3. chunks => \E c \in Calls : call[c].op = "upload" /\ call[c].at = "err"
    BY <2>1 DEF IInv, Others, LeftInv, ChunkInv, ChunkOwner, Ended
  <2>4. LeftInv
    BY DEF IInv, Others
  <2>5. stage = "gateway" => boxChunks
    BY DEF IInv, TypeInv, BoxOK
  <2> QED BY <2>2, <2>3, <2>4, <2>5, FragsLeft DEF LeftoversExplained
<1> QED BY <1>1, InvHolds, PTL

==============================================================================
