----------------------------- MODULE ClientFiles -----------------------------
(***************************************************************************)
(* The client's file operations around one directory: a directory of files *)
(* is boxed and uploaded (UploadDirAsBoxFile, UploadDirToGateway), and     *)
(* calls get the box file back whole (DownloadFile, and cd2n-lib's         *)
(* DownloadFileFromStorage), get one file of the box (DownloadFileInBox,   *)
(* from storage nodes or from a gateway), or upload a file through the     *)
(* gateway (UploadFileToGateway).                                          *)
(*                                                                         *)
(* The calls run concurrently in one directory, where a fragment and a     *)
(* segment are files named by their hash and the result is a file named by *)
(* the file's hash.  Nothing locks the directory.                          *)
(*                                                                         *)
(* Remote calls (the chain, storage nodes, the gateway) may fail.  Reading *)
(* the fragments of a segment is one step.  A cacher that has the segment  *)
(* blocks the call for ever (see SegmentDownload).                         *)
(***************************************************************************)
EXTENDS FileBox, FiniteSets, Functions

CONSTANTS
    Dirs,         \* the directories to box, each with or without encryption
    Calls,        \* the calls that are made after the upload
    Fragments,    \* fragments of a segment (data and parity)
    MaxTries      \* attempts at boxing and uploading

ASSUME FilesAssumption ==
    /\ Dirs \subseteq Seq(Nat \cup {Box}) \X BOOLEAN
    /\ IsFiniteSet(Calls)
    /\ Cardinality(Fragments) >= DataShards
    /\ MaxTries \in Nat

VARIABLES
    dir,      \* the directory that is boxed, with the place of the box file
    left,     \* whether the box file is in it
    box,      \* the result of CreateAFileBox
    cipher,   \* whether the upload is encrypted
    stage,    \* of the upload: "new", "boxed", "refused", "panic", and
              \* "queued" or "gateway" once it is stored
    queued,   \* whether UploadServer has still to call back
    tries,    \* attempts at boxing
    boxChunks, \* whether UploadDirToGateway's directory of chunks exists
    call,     \* where each call is
    frags,    \* the fragments of each segment in the directory
    disk,     \* the segments in the directory: "none", "torn", "whole", or "mixed"
              \* when a write that failed met one that goes on
    out,      \* the result file: what is at the place of each segment
    chunks,   \* whether UploadFileToGateway's directory exists
    clean     \* calls that no other call overlapped and no failure hit that
              \* goes unnoticed (not in the code)

uploadVars == <<dir, left, box, cipher, stage, queued, tries, boxChunks>>
filesVars == <<frags, disk, out, chunks>>
vars == <<uploadVars, call, filesVars, clean>>

\* fmeta.SegmentList
Num == SegmentNum(box.data, cipher)
SegmentList == [i \in 1 .. Num |-> Hash(box.data, cipher, i)]

Idle == [op |-> "none", at |-> "idle", i |-> 0, name |-> 0, got |-> {},
         paths |-> <<>>, right |-> TRUE]

Ended == {"idle", "ok", "err", "blocked"}
Active(c) == call[c].at \notin Ended

\* A panic in any goroutine ends the program.
Alive == stage # "panic" /\ \A c \in Calls : call[c].at # "panic"

Init ==
    /\ \E d \in Dirs : dir = d[1] /\ cipher = d[2]
    /\ left = FALSE
    /\ box = [data |-> <<>>, plates |-> <<>>]
    /\ stage = "new"
    /\ queued = FALSE
    /\ tries = 0
    /\ boxChunks = FALSE
    /\ call = [c \in Calls |-> Idle]
    /\ frags = <<>> /\ disk = <<>> /\ out = <<>>
    /\ chunks = FALSE
    /\ clean = Calls

-----------------------------------------------------------------------------
(* Boxing and uploading *)

\* CreateAFileBox leaves the box file in the directory, where a later attempt
\* finds it.
MakeBox ==
    /\ Alive
    /\ stage \in {"new", "refused"}
    /\ tries < MaxTries
    /\ tries' = tries + 1
    /\ box' = CreateAFileBox([i \in DOMAIN dir |->
                  IF dir[i] = Box /\ ~left THEN 0 ELSE dir[i]])
    /\ left' = TRUE
    /\ stage' = IF Panics(box') THEN "panic" ELSE "boxed"
    /\ UNCHANGED <<dir, cipher, queued, boxChunks, call, filesVars, clean>>

Stored(via) ==
    /\ Alive
    /\ stage = "boxed"
    /\ left
    /\ stage' = via
    /\ frags' = [i \in 1 .. Num |-> {}]
    /\ disk' = [i \in 1 .. Num |-> "none"]
    /\ out' = [i \in 1 .. Num |-> "hole"]
    /\ UNCHANGED <<dir, left, box, cipher, tries, call, chunks, clean>>

\* An upload fails, or it is in the upload queue and its box is refused, or the
\* gateway does not take the chunks, which stay.
UploadFails ==
    /\ Alive
    /\ stage = "boxed"
    /\ stage' = "refused"
    /\ \/ UNCHANGED <<queued, boxChunks>>
       \/ queued' = (queued \/ Num # Len(box.plates)) /\ UNCHANGED boxChunks
       \/ boxChunks' = TRUE /\ UNCHANGED queued
    /\ UNCHANGED <<dir, left, box, cipher, tries, call, filesVars, clean>>

\* The file is put in the upload queue, and its box accepted if it has as many
\* plates as the file has segments.
UploadDirAsBoxFile ==
    /\ Num = Len(box.plates)
    /\ Stored("queued")
    /\ queued' = TRUE
    /\ UNCHANGED boxChunks

\* UploadServer calls back: the box file is removed from the directory, even
\* if a later attempt has made it.
Callback ==
    /\ Alive
    /\ queued
    /\ queued' = FALSE
    /\ left' = FALSE
    /\ UNCHANGED <<dir, box, cipher, stage, tries, boxChunks, call, filesVars, clean>>

\* The gateway takes the chunks, and nothing is compared.  Unlike
\* UploadFileToGateway, it leaves the directory of chunks, and can find it.
UploadDirToGateway ==
    /\ Stored("gateway")
    /\ boxChunks' = TRUE
    /\ UNCHANGED queued

-----------------------------------------------------------------------------
(* Steps that the calls share *)

Set(c, k) == call' = [call EXCEPT ![c] = k]

At(c, op, at) ==
    /\ Alive
    /\ call[c].op \in op
    /\ call[c].at = at

\* The segments after the deferred removals of a call that returns:
\* DownloadFile removes those it appended, DownloadFileFromStorage all of the
\* file.  DownloadFileInBox removes nothing.
Removed(c) ==
    [s \in DOMAIN disk |->
        IF \/ call[c].op = "file" /\ s \in Range(call[c].paths)
           \/ call[c].op = "storage" /\ call[c].at # "meta"
        THEN "none" ELSE disk[s]]

RemovedFrags(c) ==
    [s \in DOMAIN frags |->
        IF call[c].op = "storage" /\ call[c].at # "meta" THEN {} ELSE frags[s]]

Return(c, at) ==
    /\ Set(c, [call[c] EXCEPT !.at = at])
    /\ disk' = Removed(c)
    /\ frags' = RemovedFrags(c)

Unshared == <<uploadVars, out, chunks, clean>>

-----------------------------------------------------------------------------
(* The start of a call *)

Begin(c, k) ==
    /\ Alive
    /\ stage \in {"queued", "gateway"}
    /\ call[c].at = "idle"
    /\ Set(c, k)
    /\ LET others == {d \in Calls \ {c} : Active(d)}
       IN clean' = IF others = {} THEN clean ELSE clean \ (others \cup {c})

\* DownloadFile and DownloadFileFromStorage create, or truncate, the result.
StartFile(c, op) ==
    /\ Begin(c, [Idle EXCEPT !.op = op, !.at = "meta"])
    /\ out' = [i \in DOMAIN out |-> "hole"]
    /\ UNCHANGED <<uploadVars, frags, disk, chunks>>

\* The lookup in the box; the segment has the plate's number.
StartBox(c, op, name) ==
    /\ LET p == PlateOf(box.plates, name)
           at == IF p = 0 THEN "err" ELSE IF op = "box" THEN "segment" ELSE "meta"
       IN Begin(c, [Idle EXCEPT !.op = op, !.at = at, !.i = p, !.name = name])
    /\ UNCHANGED <<uploadVars, filesVars>>

\* os.Mkdir fails if the directory exists.
StartUpload(c) ==
    /\ Begin(c, [Idle EXCEPT !.op = "upload", !.at = IF chunks THEN "err" ELSE "split"])
    /\ chunks' = TRUE
    /\ UNCHANGED <<uploadVars, frags, disk, out>>

-----------------------------------------------------------------------------
(* The segments *)

\* QueryFile.  The gateway's box call compares the numbers only now.
Meta(c) ==
    /\ At(c, {"file", "storage", "gateway"}, "meta")
    /\ \/ Return(c, "err")
       \/ /\ call[c].op = "gateway" => Num = Len(box.plates)
          /\ LET file == call[c].op # "gateway"
             IN Set(c, [call[c] EXCEPT !.at = "segment", !.i = IF file THEN 1 ELSE @])
          /\ UNCHANGED <<frags, disk>>
    /\ UNCHANGED Unshared

\* QuerySegmentFromCachers: a hit blocks it for ever; otherwise the segment is
\* read from the storage nodes.  DownloadFileFromStorage asks no cacher.  The
\* plates of a box that was uploaded to a gateway have no segment hash.
QueryCachers(c) ==
    /\ At(c, {"file", "box", "storage"}, "segment")
    /\ \E at \in CASE call[c].op = "storage" -> {"fetch"}
                   [] call[c].op = "box" /\ stage = "gateway" -> {"fail"}
                   [] OTHER -> {"fetch", "blocked"} :
           Set(c, [call[c] EXCEPT !.at = at])
    /\ UNCHANGED <<filesVars, uploadVars, clean>>

Seg(c) == SegmentList[call[c].i]

Advance(k) ==
    IF k.i < Num THEN [k EXCEPT !.i = @ + 1, !.at = "segment"]
    ELSE [k EXCEPT !.i = 1, !.at = "recover"]

\* DownloadSegmentFromStorage goes through every entry of the list that has the
\* segment's hash, DownloadFileFromStorage through one.
Passes(c) ==
    IF call[c].op = "storage" THEN 1
    ELSE Cardinality({i \in 1 .. Num : SegmentList[i] = Seg(c)})

\* The miners are asked in turn until DataShards reads have succeeded.  Each
\* pass reads the same fragments, and counts them again.
Fetch(c) ==
    /\ At(c, {"file", "box", "storage"}, "fetch")
    /\ \E got \in SUBSET Fragments, count \in 0 .. DataShards :
        /\ Cardinality(got) <= count
        /\ count <= Passes(c) * Cardinality(got)
        /\ LET k == [call[c] EXCEPT !.got = got]
               enough == count = DataShards
           IN \/ enough /\ Set(c, [k EXCEPT !.at = "restore"])
              \* DownloadSegmentFromStorage fails
              \/ ~enough /\ k.op # "storage" /\ Set(c, [k EXCEPT !.at = "fail"])
              \* a miner is not found, or the next segment's turn
              \/ ~enough /\ k.op = "storage" /\ Set(c, [k EXCEPT !.at = "fail"])
              \/ ~enough /\ k.op = "storage" /\ Set(c, [Advance(k) EXCEPT !.got = {}])
        /\ frags' = [frags EXCEPT ![Seg(c)] = @ \cup got]
        /\ clean' = IF Cardinality(got) < count THEN clean \ {c} ELSE clean
    /\ UNCHANGED <<uploadVars, disk, out, chunks>>

Fail(c) ==
    /\ At(c, {"file", "box", "storage", "gateway"}, "fail")
    /\ Return(c, "err")
    /\ UNCHANGED Unshared

\* RSRestore fails before it writes: a fragment is no longer there, or is
\* damaged.
RestoreFails(c) ==
    /\ At(c, {"file", "box", "storage"}, "restore")
    /\ Return(c, "err")
    /\ UNCHANGED Unshared

\* The segment's file is created and written: by RSRestore from the fragments,
\* by the gateway's RetrieveFile from the answer.
WriteBegins(c) ==
    /\ \/ At(c, {"file", "box", "storage"}, "restore") /\ call[c].got \subseteq frags[Seg(c)]
       \/ At(c, {"gateway"}, "segment")
    /\ disk' = [disk EXCEPT ![Seg(c)] = "torn"]
    /\ Set(c, [call[c] EXCEPT !.at = "write"])
    /\ UNCHANGED <<frags, Unshared>>

\* Mutant: the fragments are not removed.
WrittenKeeps(c) == frags

\* DownloadSegmentFromStorage removes the fragments it has read.
Written(c) ==
    [frags EXCEPT ![Seg(c)] = IF call[c].op \in {"file", "box"} THEN @ \ call[c].got ELSE @]

\* Another call is writing the segment's file.
Shared(c) == \E d \in Calls \ {c} : call[d].at = "write" /\ Seg(d) = Seg(c)

\* What RSRestore makes of fewer fragments than DataShards, one of them taken
\* twice, is not the segment.
Short(c) == call[c].op # "gateway" /\ Cardinality(call[c].got) < DataShards

\* The segment's file after the write: a call that returned may have removed
\* it, and other calls may have written to it.
Result(c) ==
    CASE disk[Seg(c)] = "none" -> {"none"}
      [] Shared(c) -> {IF Short(c) \/ disk[Seg(c)] = "mixed" THEN "mixed" ELSE "torn"}
      [] Short(c) -> {"torn"}
      [] disk[Seg(c)] = "mixed" -> {"torn", "whole"}
      [] OTHER -> {"whole"}

WriteEnds(c) ==
    /\ At(c, {"file", "box", "storage", "gateway"}, "write")
    /\ \E r \in Result(c) : disk' = [disk EXCEPT ![Seg(c)] = r]
    /\ LET k == [call[c] EXCEPT !.got = {}, !.paths = Append(@, Seg(c))]
       IN Set(c, IF k.op \in {"file", "storage"} THEN Advance(k)
                 ELSE [k EXCEPT !.at = "read"])
    /\ frags' = Written(c)
    /\ UNCHANGED Unshared

\* RSRestore or RetrieveFile fails after it has created the file, which stays.
WriteFails(c) ==
    /\ At(c, {"file", "box", "storage", "gateway"}, "write")
    /\ disk' = [disk EXCEPT ![Seg(c)] = IF @ # "none" /\ Shared(c) THEN "mixed" ELSE @]
    /\ Set(c, [call[c] EXCEPT !.at = "fail"])
    /\ UNCHANGED <<frags, Unshared>>

-----------------------------------------------------------------------------
(* RecoveryFileViaSegments, one segment at a time *)

\* The result file with the segment whose turn it is; after a torn segment
\* the offset is wrong as well.
Right(c) == call[c].right /\ disk[SegmentList[call[c].i]] = "whole"

\* Mutant: a segment equal to an earlier one is not written again.
RecoveredOnce(c) ==
    [out EXCEPT ![call[c].i] = IF Right(c) /\ SegmentList[call[c].i] = call[c].i
                               THEN "right" ELSE @]

Recovered(c) == [out EXCEPT ![call[c].i] = IF Right(c) THEN "right" ELSE "wrong"]

Recover(c) ==
    /\ At(c, {"file", "storage"}, "recover")
    /\ LET k == call[c]
           s == SegmentList[k.i]
           missing == Len(k.paths) # Num \/ disk[s] = "none"
           torn == disk[s] \in {"torn", "mixed"}
       IN \/ /\ missing \/ (cipher /\ torn)   \* AesCbcDecrypt fails
             /\ Return(c, "err") /\ UNCHANGED <<out, clean>>
          \* the slice of the last segment is longer than what was read
          \/ ~missing /\ torn /\ k.i = Num /\ Return(c, "panic") /\ UNCHANGED <<out, clean>>
          \/ /\ ~missing
             \* the error of writer.Write is not looked at
             /\ \/ out' = Recovered(c) /\ UNCHANGED clean
                \/ out' = [out EXCEPT ![k.i] = "wrong"] /\ clean' = clean \ {c}
             /\ IF k.i < Num
                THEN /\ Set(c, [k EXCEPT !.i = @ + 1, !.right = out'[k.i] = "right"])
                     /\ UNCHANGED <<frags, disk>>
                ELSE /\ Set(c, [k EXCEPT !.at = "ok",
                               !.right = \A i \in 1 .. Num : out'[i] = "right"])
                     /\ disk' = Removed(c)
                     /\ frags' = RemovedFrags(c)
    /\ UNCHANGED <<uploadVars, chunks>>

\* The file of the box is cut out of the segment's file, which stays.  A
\* segment is stored encrypted, and is not decrypted.
ReadBox(c) ==
    /\ At(c, {"box", "gateway"}, "read")
    /\ LET k == call[c]
           data == Cut(box.plates[k.i], k.name, Segment(box.data, cipher, k.i))
           file == IF dir[k.name] = Box THEN <<>> ELSE Bytes(k.name, dir[k.name])
       IN \E at \in CASE disk[Seg(c)] = "none" -> {"err"}
                      [] disk[Seg(c)] \in {"torn", "mixed"} -> {"ok", "panic"}
                      [] OTHER -> {IF data = OutOfRange THEN "panic" ELSE "ok"} :
              Set(c, [k EXCEPT !.at = at,
                      !.right = disk[Seg(c)] = "whole" /\ ~cipher /\ data = file])
    /\ UNCHANGED <<uploadVars, filesVars, clean>>

-----------------------------------------------------------------------------
(* UploadFileToGateway *)

\* The split or the upload fails: the directory stays.
UploadStepFails(c) ==
    /\ At(c, {"upload"}, "split") \/ At(c, {"upload"}, "send")
    /\ Set(c, [call[c] EXCEPT !.at = "err"])
    /\ UNCHANGED <<uploadVars, filesVars, clean>>

Split(c) ==
    /\ At(c, {"upload"}, "split")
    /\ Set(c, [call[c] EXCEPT !.at = "send"])
    /\ UNCHANGED <<uploadVars, filesVars, clean>>

UploadEnds(c) ==
    /\ At(c, {"upload"}, "send")
    /\ Set(c, [call[c] EXCEPT !.at = "ok"])
    /\ chunks' = FALSE
    /\ UNCHANGED <<uploadVars, frags, disk, out, clean>>

-----------------------------------------------------------------------------
Upload == MakeBox \/ UploadFails \/ Callback \/ UploadDirAsBoxFile \/ UploadDirToGateway

Start(c) ==
    \/ \E op \in {"file", "storage"} : StartFile(c, op)
    \/ \E op \in {"box", "gateway"}, name \in DOMAIN dir : StartBox(c, op, name)
    \/ StartUpload(c)

Step(c) ==
    \/ Meta(c) \/ QueryCachers(c) \/ Fetch(c) \/ Fail(c)
    \/ RestoreFails(c) \/ WriteBegins(c) \/ WriteEnds(c) \/ WriteFails(c)
    \/ Recover(c) \/ ReadBox(c)
    \/ UploadStepFails(c) \/ Split(c) \/ UploadEnds(c)

Next == Upload \/ \E c \in Calls : Start(c) \/ Step(c)

Spec == Init /\ [][Next]_vars

-----------------------------------------------------------------------------
(* Properties *)

\* A call that returns the whole file has written every segment to its place,
\* equal segments included.  It can be wrong in three ways only: another call
\* worked in the directory meanwhile, the error of a write to the result was
\* dropped, or a fragment was counted twice for a segment that the file has
\* more than once.
FileIsWhole ==
    \A c \in clean :
        call[c].op \in {"file", "storage"} /\ call[c].at = "ok" => call[c].right

\* DownloadFileInBox gives the file that was boxed, and does not panic, if the
\* upload is not encrypted, the file is retrievable, no other call worked in
\* the directory meanwhile and no fragment was counted twice.
BoxedFileIsRight ==
    \A c \in clean :
        /\ call[c].op \in {"box", "gateway"}
        /\ call[c].at \in {"ok", "panic"}
        /\ ~cipher
        /\ dir[call[c].name] # Box
        /\ Retrievable(box, call[c].name)
        => call[c].at = "ok" /\ call[c].right

\* When no call is running, a segment is left by a box call, a blocked call or
\* a DownloadFile that failed at this very segment, fragments of at most one
\* segment by each call that failed, and the directory of chunks by a failed
\* UploadFileToGateway.  UploadDirToGateway leaves its chunks when it succeeds.
LeftoversExplained ==
    (Alive /\ stage \in {"queued", "gateway"} /\ \A c \in Calls : ~Active(c)) =>
        /\ \A s \in DOMAIN disk : disk[s] # "none" => \E c \in Calls :
               \/ call[c].op \in {"box", "gateway"}
               \/ call[c].at = "blocked"
               \/ call[c].op = "file" /\ call[c].at = "err" /\ call[c].i > 0 /\ Seg(c) = s
        /\ Cardinality({s \in DOMAIN frags : frags[s] # {}})
               <= Cardinality({c \in Calls : call[c].op \in {"file", "box"} /\ call[c].at = "err"})
        /\ chunks => \E c \in Calls : call[c].op = "upload" /\ call[c].at = "err"
        /\ stage = "gateway" => boxChunks

=============================================================================
