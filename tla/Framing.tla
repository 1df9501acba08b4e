------------------------------ MODULE Framing ------------------------------
(***************************************************************************)
(* The receiving half of a session: mwSession_recv is handed the bytes of  *)
(* one connection in chunks of any size, and session_recv,                 *)
(* session_recv_cont and session_recv_empty (session.c) cut them back into *)
(* the messages the server sent.  A message on the wire is four length     *)
(* bytes, most significant first, and that many bytes of payload.  Between *)
(* messages a byte with its high bit set is a keep-alive and is ignored.   *)
(*                                                                         *)
(* One step is one turn of a loop of the code: of the loop that skips      *)
(* keep-alive bytes, or of the loop in mwSession_recv.  The session is     *)
(* single threaded, so a chunk is consumed before anything else happens:   *)
(* the actions that are not part of the loop wait for cur = got.           *)
(***************************************************************************)
EXTENDS Integers, Sequences

CONSTANTS
    Streams,            \* the byte streams a server may send on a connection
    TrailingAfterStop   \* may a chunk go on behind the message that stops us?

Byte == 0..255

ASSUME StreamsAssumption == Streams \subseteq Seq(Byte)
ASSUME TrailingAssumption == TrailingAfterStop \in BOOLEAN

VARIABLES
    up,        \* the session is not STOPPED
    stream,    \* all the bytes the server sends on the current connection
    got,       \* how many of them mwSession_recv was handed so far
    cur,       \* how many of those it has consumed: b of the C code
    buf,       \* the used part of s->buf; s->buf_used is its length
    buf_len,   \* s->buf_len, how many bytes s->buf is meant to hold
    out        \* the payloads session_process acted on, in order

vars == <<up, stream, got, cur, buf, buf_len, out>>

-----------------------------------------------------------------------------
\* guint32_peek: four bytes, most significant first
BigEndian(a, b, c, d) == ((a * 256 + b) * 256 + c) * 256 + d
guint32_peek(h) == BigEndian(h[1], h[2], h[3], h[4])

\* *b & 0x80
IsKeepAlive(byte) == byte >= 128

\* the n bytes of the chunk that are left, and their count
Left == got - cur
Chunk == SubSeq(stream, cur + 1, got)

Init ==
    /\ up = FALSE
    /\ stream \in Streams
    /\ got = 0
    /\ cur = 0
    /\ buf = <<>>
    /\ buf_len = 0
    /\ out = <<>>

\* mutant: the buffer is not freed
KeepBuffer == UNCHANGED <<buf, buf_len>>

session_buf_free ==
    /\ buf' = <<>>
    /\ buf_len' = 0

\* mutant: messages without content are processed like the others
ProcessEmpty(payload, left) ==
    /\ out' = Append(out, payload)
    /\ up' = up

\* Parse a message and run its handler; a zero-length message is ignored.
\* The handler may stop the session: the server destroyed the master channel,
\* or a call-back of the client called mwSession_stop.  The buffer, which
\* mwSession_stop frees, is free when the caller returns in any case.
session_process(payload, left) ==
    /\ out' = IF payload = <<>> THEN out ELSE Append(out, payload)
    /\ \/ up' = up
       \/ /\ up
          /\ payload # <<>>
          /\ TrailingAfterStop \/ left = 0
          /\ up' = FALSE

-----------------------------------------------------------------------------
\* mutant: keep-alive bytes are dropped in the middle of a message too
SkipInsideMessage ==
    /\ Left > 0
    /\ IsKeepAlive(stream[cur + 1])
    /\ cur' = cur + 1
    /\ UNCHANGED <<up, stream, got, buf, buf_len, out>>

\* One turn of the loop in session_recv that drops keep-alive bytes.
SkipKeepAlive ==
    /\ Left > 0
    /\ buf_len = 0
    /\ IsKeepAlive(stream[cur + 1])
    /\ cur' = cur + 1
    /\ UNCHANGED <<up, stream, got, buf, buf_len, out>>

\* Nothing is buffered and not even the length bytes are all there.
EmptyShortHeader ==
    /\ Left < 4
    /\ buf' = Chunk
    /\ buf_len' = 4
    /\ cur' = got
    /\ UNCHANGED <<up, out>>

\* mutant: an empty message is not counted as consumed
ZeroLengthStays ==
    /\ Left >= 4
    /\ guint32_peek(Chunk) = 0
    /\ UNCHANGED <<up, out, buf, buf_len, cur>>

\* A zero-length message is skipped.
EmptyZeroLength ==
    /\ Left >= 4
    /\ guint32_peek(Chunk) = 0
    /\ cur' = cur + 4
    /\ UNCHANGED <<up, out, buf, buf_len>>

\* mutant: the buffer is made without room for the length bytes
ShortPayloadNoHeader ==
    /\ Left >= 4
    /\ guint32_peek(Chunk) # 0
    /\ Left < guint32_peek(Chunk) + 4
    /\ buf' = Chunk
    /\ buf_len' = guint32_peek(Chunk)
    /\ cur' = got
    /\ UNCHANGED <<up, out>>

\* The length is known, part of the payload is missing.
EmptyShortPayload ==
    /\ Left >= 4
    /\ guint32_peek(Chunk) # 0
    /\ Left < guint32_peek(Chunk) + 4
    /\ buf' = Chunk
    /\ buf_len' = guint32_peek(Chunk) + 4
    /\ cur' = got
    /\ UNCHANGED <<up, out>>

\* A whole message lies in the chunk.
EmptyWholeMessage ==
    LET x == guint32_peek(Chunk) IN
    /\ Left >= 4
    /\ x # 0
    /\ Left >= x + 4
    /\ session_process(SubSeq(Chunk, 5, x + 4), Left - (x + 4))
    /\ cur' = cur + 4 + x
    /\ UNCHANGED <<buf, buf_len>>

session_recv_empty ==
    /\ Left > 0
    /\ buf_len = 0
    /\ ~IsKeepAlive(stream[cur + 1])
    /\ \/ EmptyShortHeader
       \/ EmptyZeroLength
       \/ EmptyShortPayload
       \/ EmptyWholeMessage
    /\ UNCHANGED <<stream, got>>

-----------------------------------------------------------------------------
\* x of session_recv_cont: the bytes that complete the buffer
Missing == buf_len - Len(buf)
Completed == buf \o SubSeq(Chunk, 1, Missing)

\* Not enough to complete the buffer.
ContStillShort ==
    /\ Left < Missing
    /\ buf' = buf \o Chunk
    /\ cur' = got
    /\ UNCHANGED <<up, out, buf_len>>

\* Only the length bytes were buffered; the message is not complete.
ContHeaderOnly ==
    LET x == guint32_peek(Completed) IN
    /\ Left >= Missing
    /\ buf_len = 4
    /\ Left - Missing < x
    /\ buf' = buf \o Chunk
    /\ buf_len' = x + 4
    /\ cur' = got
    /\ UNCHANGED <<up, out>>

\* Only the length bytes were buffered; the whole payload is in the chunk.
ContHeaderAndPayload ==
    LET x == guint32_peek(Completed) IN
    /\ Left >= Missing
    /\ buf_len = 4
    /\ Left - Missing >= x
    /\ session_buf_free
    /\ session_process(SubSeq(Chunk, Missing + 1, Missing + x),
                       Left - (Missing + x))
    /\ cur' = cur + Missing + x

\* The buffered message is complete: its payload follows four length bytes.
ContWholeMessage ==
    /\ Left >= Missing
    /\ buf_len # 4
    /\ session_process(SubSeq(Completed, 5, buf_len), Left - Missing)
    /\ session_buf_free
    /\ cur' = cur + Missing

session_recv_cont ==
    /\ Left > 0
    /\ buf_len > 0
    /\ \/ ContStillShort
       \/ ContHeaderOnly
       \/ ContHeaderAndPayload
       \/ ContWholeMessage
    /\ UNCHANGED <<stream, got>>

session_recv ==
    \/ SkipKeepAlive
    \/ session_recv_empty
    \/ session_recv_cont

-----------------------------------------------------------------------------
\* The client read k more bytes from its socket and calls mwSession_recv.
mwSession_recv(k) ==
    /\ up
    /\ cur = got
    /\ got + k <= Len(stream)
    /\ got' = got + k
    /\ UNCHANGED <<up, stream, cur, buf, buf_len, out>>

\* mwSession_stop called by the client between two reads.
mwSession_stop ==
    /\ up
    /\ cur = got
    /\ up' = FALSE
    /\ session_buf_free
    /\ UNCHANGED <<stream, got, cur, out>>

\* mwSession_start over a new connection.  The buffer is left as it is.
mwSession_start ==
    /\ ~up
    /\ cur = got
    /\ up' = TRUE
    /\ stream' \in Streams
    /\ got' = 0
    /\ cur' = 0
    /\ out' = <<>>
    /\ UNCHANGED <<buf, buf_len>>

\* mwSession_start when the handshake cannot be written: it ends in
\* mwSession_stop.
StartFails ==
    /\ ~up
    /\ cur = got
    /\ session_buf_free
    /\ UNCHANGED <<up, stream, got, cur, out>>

Next ==
    \/ session_recv
    \/ \E k \in 1..Len(stream) : mwSession_recv(k)
    \/ mwSession_stop
    \/ mwSession_start
    \/ StartFails

Spec == Init /\ [][Next]_vars

\* The loop of mwSession_recv runs to its end before the call returns.
FairSpec == Spec /\ WF_vars(session_recv)

-----------------------------------------------------------------------------
TypeOK ==
    /\ up \in BOOLEAN
    /\ stream \in Seq(Byte)
    /\ got \in 0..Len(stream)
    /\ cur \in 0..got
    /\ buf \in Seq(Byte)
    /\ buf_len \in Nat
    /\ out \in Seq(Seq(Byte))

\* The comment in session_recv: the buffer holds at most one message, it
\* holds the length bytes, they say how long the buffer is to get, and a
\* buffer length of four means that the length itself is incomplete.
BufferShape ==
    /\ buf_len = 0 <=> buf = <<>>
    /\ buf_len # 0 =>
          /\ Len(buf) < buf_len
          /\ ~IsKeepAlive(buf[1])
          /\ IF Len(buf) < 4 THEN buf_len = 4
                             ELSE buf_len = guint32_peek(buf) + 4

\* What is buffered are the last bytes consumed from this connection: none
\* was dropped, doubled, or left from an earlier connection.
BufferInSync ==
    up => /\ Len(buf) <= cur
          /\ \A i \in 1..Len(buf) : buf[i] = stream[cur - Len(buf) + i]

\* Framing implements the abstract stream of messages: whatever the chunks
\* mwSession_recv is handed, the session acts on the messages of the connection
\* one by one, in order and complete.
FS == INSTANCE FrameStream
        WITH pos <- IF up THEN cur - Len(buf) ELSE 0

ImplementsFrameStream == FS!Spec

\* Every call of mwSession_recv consumes its chunk.
RecvTerminates == []<>(cur = got)

=============================================================================
