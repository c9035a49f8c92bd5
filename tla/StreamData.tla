----------------------------- MODULE StreamData -----------------------------
(***************************************************************************)
(* One "download" exchange: DownloadFileFromCache and SendRequestToCacher  *)
(* on the client, ReadData and the download branch of CacheService on the  *)
(* cache node, WriteData on the client again.  Neither side frames what it *)
(* sends: ReadData and WriteData take a read of fewer than Chunk bytes for *)
(* the end.  Contents are abstracted to lengths and to what they are.      *)
(***************************************************************************)
EXTENDS Integers

CONSTANTS
    Chunk,      \* 1024, the buffer of ReadData and WriteData
    BufSize,    \* 4096, the buffer of bufio.Reader
    ReqLens,    \* lengths of the JSON request
    FileLens,   \* lengths of the file asked for
    ErrLen      \* length of a JSON error

ASSUME StreamDataAssumption ==
    /\ Chunk \in Nat \ {0}
    /\ BufSize \in Nat \ {0}
    /\ BufSize % Chunk = 0
    /\ ReqLens \subseteq Nat \ {0}
    /\ FileLens \subseteq Nat
    /\ ErrLen \in Nat \ {0}

VARIABLES
    client,    \* "idle", "copy" (in io.Copy), "write" (in WriteData), "ok", "err"
    server,    \* "accept", "read" (in ReadData), "handle", "pay", "closed", "reset"
    reqLen,    \* length of the request the client sends
    wire,      \* bytes of it that the server's stream has still to deliver
    buffered,  \* bytes in the server's bufio.Reader
    got,       \* bytes ReadData has collected
    fileLen,   \* length of the file asked for
    reply,     \* what the server has written: "none", "file", "error" or
               \* "mixed", a file with a JSON error behind it
    replyLen,  \* its length
    left,      \* client: bytes of the reply WriteData has not read
    saved,     \* client: bytes of it in the file at fpath
    charges    \* AddCreditPoint calls made for the exchange

streamVars == <<client, server, reqLen, wire, buffered, got, fileLen, reply, replyLen,
                left, saved, charges>>

-----------------------------------------------------------------------------
Least(x, y) == IF x < y THEN x ELSE y

StreamInit ==
    /\ client = "idle"
    /\ server = "accept"
    /\ reqLen \in ReqLens
    /\ fileLen \in FileLens
    /\ wire = 0
    /\ buffered = 0
    /\ got = 0
    /\ reply = "none"
    /\ replyLen = 0
    /\ left = 0
    /\ saved = 0
    /\ charges = 0

\* NewStream and s.Write of the request; the stream stays open for writing.
SendRequest ==
    /\ client = "idle"
    /\ client' = "copy"
    /\ wire' = reqLen
    /\ server' = "read"
    /\ UNCHANGED <<reqLen, buffered, got, fileLen, reply, replyLen, left, saved,
                   charges>>

\* NewStream or s.Write fails.
SendFails ==
    /\ client = "idle"
    /\ client' = "err"
    /\ UNCHANGED <<server, reqLen, wire, buffered, got, fileLen, reply, replyLen,
                   left, saved, charges>>

\* bufio: with nothing buffered, one read of the stream, which delivers any
\* positive part of what is on the wire and blocks when there is nothing.
Fill(n) ==
    /\ server = "read"
    /\ buffered = 0
    /\ n <= wire
    /\ buffered' = n
    /\ wire' = wire - n
    /\ UNCHANGED <<client, server, reqLen, got, fileLen, reply, replyLen, left,
                   saved, charges>>

\* Mutant: ReadData goes on after a short read.
ReadDataNoStop ==
    LET n == Least(Chunk, buffered) IN
    /\ server = "read"
    /\ buffered > 0
    /\ got' = got + n
    /\ buffered' = buffered - n
    /\ UNCHANGED <<client, server, reqLen, wire, fileLen, reply, replyLen, left,
                   saved, charges>>

\* One turn of ReadData's loop: stop after a short read.
ReadData ==
    LET n == Least(Chunk, buffered) IN
    /\ server = "read"
    /\ buffered > 0
    /\ got' = got + n
    /\ buffered' = buffered - n
    /\ server' = IF n < Chunk THEN "handle" ELSE "read"
    /\ UNCHANGED <<client, reqLen, wire, fileLen, reply, replyLen, left, saved,
                   charges>>

\* The stream is reset while the server reads.
ReadFails ==
    /\ server = "read"
    /\ server' = "reset"
    /\ UNCHANGED <<client, reqLen, wire, buffered, got, fileLen, reply, replyLen,
                   left, saved, charges>>

\* WriteJsonResponse of STATUS_ERROR: a part of the request does not decode,
\* or a whole request is refused, names no cached file, or reading it fails.
ReplyError ==
    /\ server = "handle"
    /\ server' = "closed"
    /\ reply' = "error"
    /\ replyLen' = ErrLen
    /\ UNCHANGED <<client, reqLen, wire, buffered, got, fileLen, left, saved,
                   charges>>

\* s.Write of the whole file succeeds.
ReplyFile ==
    /\ server = "handle"
    /\ got = reqLen
    /\ server' = "pay"
    /\ reply' = "file"
    /\ replyLen' = fileLen
    /\ UNCHANGED <<client, reqLen, wire, buffered, got, fileLen, left, saved,
                   charges>>

\* s.Write of the file fails: the stream is reset and the handler goes on to
\* charge the account, unless that is no public key.
ReplyFileFails ==
    /\ server = "handle"
    /\ got = reqLen
    /\ server' = "reset"
    /\ charges' \in {charges, charges + 1}
    /\ UNCHANGED <<client, reqLen, wire, buffered, got, fileLen, reply, replyLen,
                   left, saved>>

\* AddCreditPoint(userAcc, -size), then the deferred Close.
Pay ==
    /\ server = "pay"
    /\ server' = "closed"
    /\ charges' = charges + 1
    /\ UNCHANGED <<client, reqLen, wire, buffered, got, fileLen, reply, replyLen,
                   left, saved>>

\* A request for a URL is served without a credit check; if its account is no
\* public key, the error is written behind the file.
PayBadKey ==
    /\ server = "pay"
    /\ server' = "closed"
    /\ reply' = "mixed"
    /\ replyLen' = replyLen + ErrLen
    /\ UNCHANGED <<client, reqLen, wire, buffered, got, fileLen, left, saved,
                   charges>>

\* io.Copy returns when the server closes the stream; DownloadFileFromCache
\* refuses an empty reply and creates the file.
CopyReply ==
    /\ client = "copy"
    /\ server = "closed"
    /\ left' = replyLen
    /\ client' = IF replyLen = 0 THEN "err" ELSE "write"
    /\ UNCHANGED <<server, reqLen, wire, buffered, got, fileLen, reply, replyLen,
                   saved, charges>>

\* io.Copy fails: the stream is reset by the server or by the network; or
\* os.Create fails.
CopyFails ==
    /\ client = "copy"
    /\ server \in {"closed", "reset"}
    /\ client' = "err"
    /\ UNCHANGED <<server, reqLen, wire, buffered, got, fileLen, reply, replyLen,
                   left, saved, charges>>

\* Mutant: the short chunk ends the loop before it is written.
WriteDataDropsLast ==
    LET n == Least(Chunk, left) IN
    /\ client = "write"
    /\ left > 0
    /\ left' = left - n
    /\ saved' = IF n < Chunk THEN saved ELSE saved + n
    /\ client' = IF n < Chunk THEN "ok" ELSE "write"
    /\ UNCHANGED <<server, reqLen, wire, buffered, got, fileLen, reply, replyLen,
                   charges>>

\* One turn of WriteData's loop.  The reply is in memory and BufSize is a
\* multiple of Chunk, so only the last read is short.
WriteData ==
    LET n == Least(Chunk, left) IN
    /\ client = "write"
    /\ left > 0
    /\ left' = left - n
    /\ saved' = saved + n
    /\ client' = IF n < Chunk THEN "ok" ELSE "write"
    /\ UNCHANGED <<server, reqLen, wire, buffered, got, fileLen, reply, replyLen,
                   charges>>

\* The read after the last full chunk returns io.EOF, and so does WriteData.
WriteDataEOF ==
    /\ client = "write"
    /\ left = 0
    /\ client' = "err"
    /\ UNCHANGED <<server, reqLen, wire, buffered, got, fileLen, reply, replyLen,
                   left, saved, charges>>

\* Writing the file fails.
WriteFails ==
    /\ client = "write"
    /\ left > 0
    /\ client' = "err"
    /\ UNCHANGED <<server, reqLen, wire, buffered, got, fileLen, reply, replyLen,
                   left, saved, charges>>

ServerStep ==
    \/ \E n \in 1 .. BufSize : Fill(n)
    \/ ReadData
    \/ ReplyError
    \/ ReplyFile
    \/ ReplyFileFails
    \/ Pay
    \/ PayBadKey

ClientStep ==
    \/ SendRequest
    \/ SendFails
    \/ CopyReply
    \/ CopyFails
    \/ WriteData
    \/ WriteDataEOF
    \/ WriteFails

StreamNext == ServerStep \/ ClientStep \/ ReadFails

\* Both programs run, and bytes that are on the wire arrive; no stream has a
\* deadline, so nothing makes a reset happen.
StreamSpec ==
    /\ StreamInit /\ [][StreamNext]_streamVars
    /\ WF_streamVars(ServerStep) /\ WF_streamVars(ClientStep)

-----------------------------------------------------------------------------
(* Properties *)

\* A download that reports success has every byte of the reply on disk, for
\* every length of the reply, and one that has them all and reports an error
\* had a reply that is a multiple of Chunk: the read behind it is an io.EOF.
OkIsComplete ==
    /\ client = "ok" => saved = replyLen
    /\ client = "err" /\ replyLen > 0 /\ saved = replyLen => replyLen % Chunk = 0

\* A request whose length is no multiple of Chunk is always answered, however
\* the network splits it: the client is never left waiting in io.Copy.
ShortRequestAnswered ==
    (client = "copy" /\ reqLen % Chunk # 0) ~> (client \in {"ok", "err"})

=============================================================================
