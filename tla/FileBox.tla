------------------------------- MODULE FileBox -------------------------------
(***************************************************************************)
(* File boxes of the client: CreateAFileBox packs the files of a directory *)
(* into one file made of plates of FragmentSize bytes, and records for each *)
(* plate its files and the offset at which each one starts.                *)
(* DownloadFileInBox finds a file in that record and cuts it out of the    *)
(* segment that has the plate's number.                                    *)
(*                                                                         *)
(* A directory is the sequence of its entries in the order of ReadDir: the *)
(* size of a file (0 for an empty file or a subdirectory, which are        *)
(* skipped), or Box for a box file that an earlier call left there.  Entry *)
(* i is the file named i.  Byte k of file i is <<i, k % SegmentSize>>, so  *)
(* that long files have equal segments.                                    *)
(***************************************************************************)
EXTENDS Integers, Sequences

CONSTANTS
    FragmentSize,  \* config.FragmentSize
    DataShards,    \* config.DataShards
    Overhead,      \* bytes of a segment that encryption takes
    Box            \* the box file of an earlier call

ASSUME BoxAssumption ==
    /\ FragmentSize \in Nat \ {0}
    /\ DataShards \in Nat \ {0}
    /\ Overhead \in 0 .. FragmentSize - 1
    /\ Box \notin Nat

SegmentSize == FragmentSize * DataShards

Padding == <<0, 0>>        \* a byte of padding
NoName == 0                \* the empty name
OutOfRange == <<<<-1, 0>>>>  \* a slice whose bounds are out of range: a panic

Bytes(i, n) == [k \in 1 .. n |-> <<i, (k - 1) % SegmentSize>>]
Zeros(n) == [k \in 1 .. n |-> Padding]

EmptyPlate == [files |-> <<>>, indexs |-> <<>>]

\* What the loop of CreateAFileBox holds before the first entry.
EmptyBox == [plates |-> <<>>, plate |-> EmptyPlate, size |-> 0, data |-> <<>>]

\* Mutant: the start of the padding is not recorded.
ClosePlateNoIndex(b) ==
    [b EXCEPT !.plates = Append(@, b.plate), !.plate = EmptyPlate, !.size = 0,
              !.data = @ \o Zeros(FragmentSize - b.size)]

\* The plate is filled up to FragmentSize, and its padding is recorded as one
\* more offset; a plate that is full or longer gets none.
ClosePlate(b) ==
    LET padding == FragmentSize - b.size
        plate == IF padding > 0 THEN [b.plate EXCEPT !.indexs = Append(@, b.size)]
                                ELSE b.plate
    IN [b EXCEPT !.plates = Append(@, plate), !.plate = EmptyPlate, !.size = 0,
                 !.data = @ \o Zeros(padding)]

AddFile(b, i, n, bytes) ==
    [b EXCEPT !.plate = [files |-> Append(@.files, i),
                         indexs |-> Append(@.indexs, b.size)],
              !.size = @ + n,
              !.data = @ \o bytes]

\* One turn of the loop.  A box file that was in the directory has been
\* truncated and holds what this call has written so far: its size is taken
\* before the padding is written, and its bytes after.
AddEntry(b, i, entry) ==
    LET n == IF entry = Box THEN Len(b.data) ELSE entry
        full == b.size = FragmentSize \/ n + b.size > FragmentSize
        next == IF full THEN ClosePlate(b) ELSE b
    IN IF n = 0 THEN b
       ELSE AddFile(next, i, n, IF entry = Box THEN next.data ELSE Bytes(i, n))

\* What the loop holds after each entry.
BoxLoop(dir) ==
    LET b[i \in 0 .. Len(dir)] == IF i = 0 THEN EmptyBox ELSE AddEntry(b[i - 1], i, dir[i])
    IN b

\* The plate in hand is not closed: the last closed one gets a nameless file
\* that starts at its size.  Without a closed plate the index is -1 and the
\* program panics: see Panics.
CreateAFileBox(dir) ==
    LET b == BoxLoop(dir)[Len(dir)]
        last == Len(b.plates)
    IN [data |-> b.data,
        plates |-> IF last = 0 THEN <<>> ELSE
            [b.plates EXCEPT ![last] = [files |-> Append(@.files, NoName),
                                        indexs |-> Append(@.indexs, b.size)]]]

Panics(box) == box.plates = <<>>

-----------------------------------------------------------------------------
(* The segments of a file (process.FullProcessing, and the storage nodes). *)

\* Plain bytes per segment.
PieceSize(cipher) == IF cipher THEN SegmentSize - Overhead ELSE SegmentSize

SegmentNum(data, cipher) ==
    (Len(data) + PieceSize(cipher) - 1) \div PieceSize(cipher)

\* Segment i of the file; the last one is filled up.
Segment(data, cipher, i) ==
    LET p == PieceSize(cipher)
    IN SubSeq(data \o Zeros(p), p * (i - 1) + 1, p * i)

\* Segments with the same content have the same hash: here the number of the
\* first one.
Hash(data, cipher, i) ==
    CHOOSE j \in 1 .. i :
        /\ Segment(data, cipher, j) = Segment(data, cipher, i)
        /\ \A k \in 1 .. j - 1 : Segment(data, cipher, k) # Segment(data, cipher, i)

-----------------------------------------------------------------------------
(* DownloadFileInBox *)

Holds(plate, name) == \E j \in DOMAIN plate.files : plate.files[j] = name

\* The plate of a name: the last one that has it, since the break leaves only
\* the inner loop; 0 if none has it.
PlateOf(plates, name) ==
    LET has == {i \in DOMAIN plates : Holds(plates[i], name)}
    IN IF has = {} THEN 0 ELSE CHOOSE i \in has : \A j \in has : j <= i

\* The bytes cut out for the first file with the name.
Cut(plate, name, data) ==
    LET d == CHOOSE j \in DOMAIN plate.files :
                 /\ plate.files[j] = name
                 /\ \A k \in 1 .. j - 1 : plate.files[k] # name
        from == plate.indexs[d]
        to == IF Len(plate.indexs) > d THEN plate.indexs[d + 1] ELSE Len(data)
    IN IF from <= to /\ to <= Len(data) THEN SubSeq(data, from + 1, to) ELSE OutOfRange

\* What DownloadFileInBox can give back: a file of the first plate that
\* another one, or padding, follows there.
Retrievable(box, name) ==
    /\ PlateOf(box.plates, name) = 1
    /\ \/ LET files == box.plates[1].files
          IN \E j \in 1 .. Len(files) - 1 : files[j] = name /\ files[j + 1] # NoName
       \/ box.data[FragmentSize] = Padding

=============================================================================
