--------------------------- MODULE FramingProofs ---------------------------
(***************************************************************************)
(* Proofs about module Framing, for every set of byte streams.             *)
(*                                                                         *)
(* TypeOK and BufferShape are inductive together.  BufferInSync needs more:*)
(* it relates the buffer to the connection only while the session is up,   *)
(* so the invariant IInv adds what a stopped session looks like.  It holds *)
(* if no chunk goes on behind the message that stops the session.          *)
(***************************************************************************)
EXTENDS Framing, SequenceTheorems, TLAPS

\* What a stopped session looks like: nothing is buffered, nothing is pending.
StoppedIsClean == ~up => buf = <<>> /\ buf_len = 0 /\ cur = got

\* The inductive invariant behind BufferInSync and the refinement.
IInv == TypeOK /\ BufferShape /\ BufferInSync /\ StoppedIsClean

-----------------------------------------------------------------------------
\* Four bytes make a natural number.
LEMMA BytesNat ==
    \A a, b, c, d \in Byte : BigEndian(a, b, c, d) \in Nat
  <1> SUFFICES ASSUME NEW a \in Byte, NEW b \in Byte, NEW c \in Byte,
                      NEW d \in Byte
               PROVE  BigEndian(a, b, c, d) \in Nat
    OBVIOUS
  <1>1. a * 256 + b \in Nat
    BY DEF Byte
  <1>2. (a * 256 + b) * 256 + c \in Nat
    BY <1>1 DEF Byte
  <1> QED
    BY <1>2 DEF Byte, BigEndian

LEMMA PeekNat ==
    ASSUME NEW h \in Seq(Byte), Len(h) >= 4
    PROVE  guint32_peek(h) \in Nat
  <1>1. h[1] \in Byte /\ h[2] \in Byte /\ h[3] \in Byte /\ h[4] \in Byte
    BY ElementOfSeq, LenProperties
  <1> QED
    BY <1>1, BytesNat, Zenon DEF guint32_peek

\* The rest of the chunk holds the next Left bytes of the stream.
LEMMA ChunkFacts ==
    ASSUME TypeOK
    PROVE  /\ Left \in Nat
           /\ Chunk \in Seq(Byte)
           /\ Len(Chunk) = Left
           /\ \A i \in 1..Left : Chunk[i] = stream[cur + i]
  <1>1. /\ cur \in Nat /\ got \in Nat /\ cur <= got /\ got <= Len(stream)
        /\ stream \in Seq(Byte)
    BY LenProperties DEF TypeOK
  <1>2. \A i \in (cur + 1)..got : stream[i] \in Byte
    BY <1>1, ElementOfSeq
  <1> QED
    BY <1>1, <1>2, SubSeqProperties DEF Left, Chunk

\* A part of the chunk is a part of the stream.
LEMMA ChunkPart ==
    ASSUME TypeOK, NEW m \in Nat \ {0}, NEW n \in Nat, m - 1 <= n, n <= Left
    PROVE  /\ SubSeq(Chunk, m, n) \in Seq(Byte)
           /\ Len(SubSeq(Chunk, m, n)) = n - m + 1
           /\ \A i \in 1..(n - m + 1) :
                SubSeq(Chunk, m, n)[i] = stream[cur + m + i - 1]
  <1>1. /\ Left \in Nat /\ Chunk \in Seq(Byte) /\ Len(Chunk) = Left
        /\ \A i \in 1..Left : Chunk[i] = stream[cur + i]
    BY ChunkFacts
  <1>2. \A i \in m..n : Chunk[i] \in Byte
    BY <1>1, ElementOfSeq
  <1>3. /\ SubSeq(Chunk, m, n) \in Seq(Byte)
        /\ Len(SubSeq(Chunk, m, n)) = IF m <= n THEN n - m + 1 ELSE 0
        /\ \A i \in 1..(n - m + 1) : SubSeq(Chunk, m, n)[i] = Chunk[m + i - 1]
    BY <1>2, SubSeqProperties
  <1>4. cur \in Nat
    BY DEF TypeOK
  <1> QED
    BY <1>1, <1>3, <1>4

\* The buffer with the bytes it misses, once they are there.
LEMMA CompletedFacts ==
    ASSUME TypeOK, BufferShape, buf_len > 0, Left >= Missing
    PROVE  /\ Missing \in Nat \ {0}
           /\ Completed \in Seq(Byte)
           /\ Len(Completed) = buf_len
           /\ buf_len >= 4
           /\ Len(buf) \in Nat \ {0}
           /\ \A i \in 1..buf_len :
                Completed[i] = IF i <= Len(buf)
                                  THEN buf[i]
                                  ELSE stream[cur + i - Len(buf)]
  <1>1. buf \in Seq(Byte) /\ buf_len \in Nat /\ Len(buf) \in Nat /\ cur \in Nat
    BY LenProperties DEF TypeOK
  <1>2. Missing \in Nat \ {0} /\ Len(buf) # 0
    BY <1>1, EmptySeq DEF BufferShape, Missing
  <1>3. buf_len >= 4
    <2>1. CASE Len(buf) < 4
      BY <2>1, <1>1 DEF BufferShape
    <2>2. CASE Len(buf) >= 4
      BY <2>2, <1>1, PeekNat DEF BufferShape
    <2> QED
      BY <2>1, <2>2, <1>1
  <1>4. /\ SubSeq(Chunk, 1, Missing) \in Seq(Byte)
        /\ Len(SubSeq(Chunk, 1, Missing)) = Missing
        /\ \A i \in 1..Missing : SubSeq(Chunk, 1, Missing)[i] = stream[cur + i]
    <2>1. /\ SubSeq(Chunk, 1, Missing) \in Seq(Byte)
          /\ Len(SubSeq(Chunk, 1, Missing)) = Missing - 1 + 1
          /\ \A i \in 1..(Missing - 1 + 1) :
               SubSeq(Chunk, 1, Missing)[i] = stream[cur + 1 + i - 1]
      BY <1>2, ChunkPart, ChunkFacts
    <2> QED
      BY <2>1, <1>2, <1>1
  <1>5. /\ Completed \in Seq(Byte)
        /\ Len(Completed) = Len(buf) + Missing
        /\ \A i \in 1..(Len(buf) + Missing) :
             Completed[i] = IF i <= Len(buf)
                               THEN buf[i]
                               ELSE SubSeq(Chunk, 1, Missing)[i - Len(buf)]
    BY <1>1, <1>4, ConcatProperties DEF Completed
  <1>6. Len(buf) + Missing = buf_len
    BY <1>1 DEF Missing
  <1> QED
    BY <1>1, <1>2, <1>3, <1>4, <1>5, <1>6

\* The buffer with the whole rest of the chunk.
LEMMA ExtendedFacts ==
    ASSUME TypeOK
    PROVE  /\ buf \o Chunk \in Seq(Byte)
           /\ Len(buf) \in Nat
           /\ Len(buf \o Chunk) = Len(buf) + Left
           /\ \A i \in 1..(Len(buf) + Left) :
                (buf \o Chunk)[i] = IF i <= Len(buf)
                                       THEN buf[i]
                                       ELSE stream[cur + i - Len(buf)]
  <1>1. buf \in Seq(Byte) /\ Len(buf) \in Nat /\ cur \in Nat
    BY LenProperties DEF TypeOK
  <1>2. /\ buf \o Chunk \in Seq(Byte)
        /\ Len(buf \o Chunk) = Len(buf) + Len(Chunk)
        /\ \A i \in 1..(Len(buf) + Len(Chunk)) :
             (buf \o Chunk)[i] = IF i <= Len(buf) THEN buf[i]
                                                ELSE Chunk[i - Len(buf)]
    BY <1>1, ChunkFacts, ConcatProperties
  <1>3. /\ Left \in Nat
        /\ Len(Chunk) = Left
        /\ \A i \in 1..Left : Chunk[i] = stream[cur + i]
    BY ChunkFacts
  <1>4. ASSUME NEW i \in 1..(Len(buf) + Left), ~(i <= Len(buf))
        PROVE  Chunk[i - Len(buf)] = stream[cur + i - Len(buf)]
    <2>1. i - Len(buf) \in 1..Left
      BY <1>1, <1>3, <1>4
    <2> QED
      BY <2>1, <1>1, <1>3, <1>4
  <1> QED
    BY <1>1, <1>2, <1>3, <1>4

-----------------------------------------------------------------------------
\* Running a handler keeps the types of what it changes.
LEMMA ProcessFacts ==
    ASSUME TypeOK, NEW payload \in Seq(Byte), NEW left,
           session_process(payload, left)
    PROVE  out' \in Seq(Seq(Byte)) /\ up' \in BOOLEAN
  <1>1. out \in Seq(Seq(Byte)) /\ up \in BOOLEAN
    BY DEF TypeOK
  <1>2. Append(out, payload) \in Seq(Seq(Byte))
    BY <1>1, AppendProperties
  <1> QED
    BY <1>1, <1>2 DEF session_process

\* A byte that starts a message is no keep-alive byte, so neither is the first
\* byte of the rest of the chunk.
LEMMA EmptyKeepsShape ==
    ASSUME TypeOK, BufferShape, session_recv_empty
    PROVE  TypeOK' /\ BufferShape'
  <1> USE DEF session_recv_empty
  <1>1. /\ up \in BOOLEAN /\ stream \in Seq(Byte) /\ got \in 0..Len(stream)
        /\ cur \in 0..got /\ buf_len = 0 /\ buf = <<>> /\ Len(stream) \in Nat
        /\ stream' = stream /\ got' = got /\ out \in Seq(Seq(Byte))
    BY LenProperties DEF TypeOK, BufferShape
  <1>2. /\ Left \in Nat \ {0} /\ Left = got - cur
        /\ Chunk \in Seq(Byte) /\ Len(Chunk) = Left
        /\ ~IsKeepAlive(Chunk[1])
        /\ Chunk # <<>>
    BY ChunkFacts, EmptySeq, <1>1 DEF Left
  <1>3. Left >= 4 => guint32_peek(Chunk) \in Nat
    BY <1>2, PeekNat
  <1>4. CASE EmptyShortHeader
    BY <1>1, <1>2, <1>4 DEF EmptyShortHeader, TypeOK, BufferShape
  <1>5. CASE EmptyZeroLength
    BY <1>1, <1>2, <1>5 DEF EmptyZeroLength, TypeOK, BufferShape
  <1>6. CASE EmptyShortPayload
    BY <1>1, <1>2, <1>3, <1>6 DEF EmptyShortPayload, TypeOK, BufferShape
  <1>7. CASE EmptyWholeMessage
    <2> DEFINE x == guint32_peek(Chunk)
    <2>1. x \in Nat \ {0} /\ Left >= x + 4
      BY <1>2, <1>3, <1>7 DEF EmptyWholeMessage
    <2>2. SubSeq(Chunk, 5, x + 4) \in Seq(Byte)
      BY <2>1, ChunkPart
    <2>3. out' \in Seq(Seq(Byte)) /\ up' \in BOOLEAN
      BY <2>2, <1>7, ProcessFacts DEF EmptyWholeMessage
    <2>4. cur' \in 0..got /\ buf' = buf /\ buf_len' = buf_len
      BY <1>1, <1>2, <2>1, <1>7 DEF EmptyWholeMessage
    <2> QED
      BY <1>1, <2>3, <2>4 DEF TypeOK, BufferShape
  <1> QED
    BY <1>4, <1>5, <1>6, <1>7

LEMMA ContKeepsShape ==
    ASSUME TypeOK, BufferShape, session_recv_cont
    PROVE  TypeOK' /\ BufferShape'
  <1> USE DEF session_recv_cont
  <1>1. /\ up \in BOOLEAN /\ stream \in Seq(Byte) /\ got \in 0..Len(stream)
        /\ cur \in 0..got /\ buf_len \in Nat \ {0} /\ buf \in Seq(Byte)
        /\ Len(stream) \in Nat /\ Len(buf) \in Nat /\ buf # <<>>
        /\ stream' = stream /\ got' = got /\ out \in Seq(Seq(Byte))
        /\ ~IsKeepAlive(buf[1]) /\ Len(buf) < buf_len
    BY LenProperties DEF TypeOK, BufferShape
  <1>2. Len(buf) \in Nat \ {0}
    BY <1>1, EmptySeq
  <1>3. /\ Left \in Nat \ {0} /\ Left = got - cur
        /\ buf \o Chunk \in Seq(Byte)
        /\ Len(buf \o Chunk) = Len(buf) + Left
        /\ \A i \in 1..Len(buf) : (buf \o Chunk)[i] = buf[i]
    BY <1>1, <1>2, ChunkFacts, ExtendedFacts DEF Left
  <1>4. buf \o Chunk # <<>> /\ ~IsKeepAlive((buf \o Chunk)[1])
    BY <1>1, <1>2, <1>3, EmptySeq
  <1>5. CASE ContStillShort
    <2>1. Len(buf \o Chunk) < buf_len
      BY <1>1, <1>3, <1>5 DEF ContStillShort, Missing
    <2>2. IF Len(buf \o Chunk) < 4
             THEN buf_len = 4
             ELSE buf_len = guint32_peek(buf \o Chunk) + 4
      <3>1. CASE Len(buf) < 4
        BY <3>1, <2>1, <1>1, <1>3 DEF BufferShape
      <3>2. CASE Len(buf) >= 4
        <4>1. guint32_peek(buf \o Chunk) = guint32_peek(buf)
          BY <3>2, <1>1, <1>3 DEF guint32_peek
        <4> QED
          BY <4>1, <3>2, <1>1, <1>3 DEF BufferShape
      <3> QED
        BY <3>1, <3>2, <1>1
    <2> QED
      BY <1>1, <1>3, <1>4, <1>5, <2>1, <2>2
         DEF ContStillShort, TypeOK, BufferShape
  <1>6. CASE ContHeaderOnly
    <2> DEFINE x == guint32_peek(Completed)
    <2>1. /\ Missing = 4 - Len(buf) /\ Len(buf) < 4 /\ Left >= Missing
          /\ Left - Missing < x
      BY <1>1, <1>6 DEF ContHeaderOnly, Missing
    <2>2. x \in Nat /\ guint32_peek(buf \o Chunk) = x
      <3>1. /\ Completed \in Seq(Byte) /\ Len(Completed) >= 4
            /\ \A i \in 1..4 :
                 Completed[i] = IF i <= Len(buf)
                                   THEN buf[i]
                                   ELSE stream[cur + i - Len(buf)]
        BY <2>1, <1>1, <1>6, CompletedFacts DEF ContHeaderOnly
      <3>2. \A i \in 1..4 : (buf \o Chunk)[i] = Completed[i]
        <4>1. \A i \in 1..(Len(buf) + Left) :
                (buf \o Chunk)[i] = IF i <= Len(buf)
                                       THEN buf[i]
                                       ELSE stream[cur + i - Len(buf)]
          BY ExtendedFacts
        <4>2. Len(buf) + Left >= 4
          BY <2>1, <1>2, <1>3
        <4>3. \A i \in 1..4 : i \in 1..(Len(buf) + Left)
          BY <4>2, <1>2, <1>3
        <4> QED
          BY <3>1, <4>1, <4>3, Zenon
      <3>3. x \in Nat
        BY <3>1, PeekNat, Zenon
      <3>4. /\ (buf \o Chunk)[1] = Completed[1]
            /\ (buf \o Chunk)[2] = Completed[2]
            /\ (buf \o Chunk)[3] = Completed[3]
            /\ (buf \o Chunk)[4] = Completed[4]
        <4>1. 1 \in 1..4 /\ 2 \in 1..4 /\ 3 \in 1..4 /\ 4 \in 1..4
          OBVIOUS
        <4> QED
          BY <3>2, <4>1, Zenon
      <3> QED
        BY <3>3, <3>4, Zenon DEF guint32_peek
    <2>3. /\ Len(buf \o Chunk) < x + 4
          /\ ~(Len(buf \o Chunk) < 4)
      BY <2>1, <2>2, <1>1, <1>3
    <2> QED
      BY <1>1, <1>3, <1>4, <1>6, <2>2, <2>3
         DEF ContHeaderOnly, TypeOK, BufferShape
  <1>7. CASE ContHeaderAndPayload
    <2> DEFINE x == guint32_peek(Completed)
    <2>1. /\ Left >= Missing /\ Missing \in Nat \ {0}
          /\ Completed \in Seq(Byte) /\ Len(Completed) >= 4
      BY <1>1, <1>7, CompletedFacts DEF ContHeaderAndPayload
    <2>2. x \in Nat /\ Missing + x <= Left
      BY <2>1, <1>3, <1>7, PeekNat DEF ContHeaderAndPayload
    <2>3. SubSeq(Chunk, Missing + 1, Missing + x) \in Seq(Byte)
      BY <2>1, <2>2, ChunkPart
    <2>4. out' \in Seq(Seq(Byte)) /\ up' \in BOOLEAN
      BY <2>3, <1>7, ProcessFacts DEF ContHeaderAndPayload
    <2>5. cur' = cur + Missing + x /\ buf' = <<>> /\ buf_len' = 0
      BY <1>7, Zenon DEF ContHeaderAndPayload, session_buf_free
    <2>6. cur' \in 0..got
      BY <2>1, <2>2, <2>5, <1>1, <1>3
    <2> QED
      BY <1>1, <2>4, <2>5, <2>6 DEF TypeOK, BufferShape
  <1>8. CASE ContWholeMessage
    <2>1. /\ Left >= Missing /\ Missing \in Nat \ {0} /\ buf_len >= 4
          /\ Completed \in Seq(Byte) /\ Len(Completed) = buf_len
      BY <1>1, <1>8, CompletedFacts DEF ContWholeMessage
    <2>2. SubSeq(Completed, 5, buf_len) \in Seq(Byte)
      <3>1. \A i \in 5..buf_len : Completed[i] \in Byte
        BY <2>1, <1>1, ElementOfSeq
      <3> QED
        BY <3>1, <1>1, SubSeqProperties
    <2>3. out' \in Seq(Seq(Byte)) /\ up' \in BOOLEAN
      BY <2>2, <1>8, ProcessFacts DEF ContWholeMessage
    <2>4. cur' \in 0..got /\ buf' = <<>> /\ buf_len' = 0
      BY <1>1, <1>3, <2>1, <1>8 DEF ContWholeMessage, session_buf_free
    <2> QED
      BY <1>1, <2>3, <2>4 DEF TypeOK, BufferShape
  <1> QED
    BY <1>5, <1>6, <1>7, <1>8

LEMMA NextKeepsShape ==
    ASSUME TypeOK, BufferShape, [Next]_vars
    PROVE  TypeOK' /\ BufferShape'
  <1>1. CASE SkipKeepAlive
    <2>1. cur' = cur + 1 /\ cur < got
      BY <1>1 DEF SkipKeepAlive, Left, TypeOK
    <2> QED
      BY <1>1, <2>1 DEF SkipKeepAlive, TypeOK, BufferShape
  <1>2. CASE session_recv_empty
    BY <1>2, EmptyKeepsShape
  <1>3. CASE session_recv_cont
    BY <1>3, ContKeepsShape
  <1>4. ASSUME NEW k \in 1..Len(stream), mwSession_recv(k)
        PROVE  TypeOK' /\ BufferShape'
    <2>1. Len(stream) \in Nat
      BY LenProperties DEF TypeOK
    <2> QED
      BY <1>4, <2>1 DEF mwSession_recv, TypeOK, BufferShape
  <1>5. CASE mwSession_stop
    BY <1>5, EmptySeq DEF mwSession_stop, session_buf_free, TypeOK, BufferShape
  <1>6. CASE mwSession_start
    <2>1. stream' \in Seq(Byte) /\ out' \in Seq(Seq(Byte))
      BY <1>6, StreamsAssumption, EmptySeq DEF mwSession_start
    <2>2. Len(stream') \in Nat
      BY <2>1, LenProperties
    <2> QED
      BY <1>6, <2>1, <2>2 DEF mwSession_start, TypeOK, BufferShape
  <1>7. CASE StartFails
    BY <1>7, EmptySeq DEF StartFails, session_buf_free, TypeOK, BufferShape
  <1>8. CASE UNCHANGED vars
    BY <1>8 DEF vars, TypeOK, BufferShape
  <1> QED
    BY <1>1, <1>2, <1>3, <1>4, <1>5, <1>6, <1>7, <1>8 DEF Next, session_recv

LEMMA InitShape ==
    ASSUME Init
    PROVE  TypeOK /\ BufferShape
  <1>1. stream \in Seq(Byte) /\ Len(stream) \in Nat
    BY StreamsAssumption, LenProperties DEF Init
  <1>2. <<>> \in Seq(Byte) /\ <<>> \in Seq(Seq(Byte))
    BY EmptySeq
  <1>3. TypeOK
    <2>1. /\ up \in BOOLEAN /\ got = 0 /\ cur = 0 /\ buf_len = 0
          /\ buf \in Seq(Byte) /\ out \in Seq(Seq(Byte))
      BY <1>2, Zenon DEF Init
    <2> QED
      BY <1>1, <2>1 DEF TypeOK
  <1>4. BufferShape
    BY DEF Init, BufferShape
  <1> QED
    BY <1>3, <1>4

\* Whatever bytes the server sends and however they are cut into chunks, the
\* state of the receiving half stays well typed: no chunk is read past its end
\* (cur <= got) and only bytes are buffered and delivered.
THEOREM TypeCorrect == Spec => []TypeOK
  <1>1. Init => TypeOK /\ BufferShape
    BY InitShape
  <1>2. TypeOK /\ BufferShape /\ [Next]_vars => (TypeOK /\ BufferShape)'
    BY NextKeepsShape
  <1> QED
    BY <1>1, <1>2, PTL DEF Spec

\* The constraints listed in the comment of session_recv hold in every state:
\* the buffer holds part of one message, with its length bytes, and its length
\* is the one those bytes announce, or four while they are incomplete.
THEOREM ShapeCorrect == Spec => []BufferShape
  <1>1. Init => TypeOK /\ BufferShape
    BY InitShape
  <1>2. TypeOK /\ BufferShape /\ [Next]_vars => (TypeOK /\ BufferShape)'
    BY NextKeepsShape
  <1> QED
    BY <1>1, <1>2, PTL DEF Spec

-----------------------------------------------------------------------------
\* Where in the stream the message begins that is being received.
Start == cur - Len(buf)

\* The facts about a session in the middle of mwSession_recv that the cases
\* below share.
LEMMA Receiving ==
    ASSUME IInv, Left > 0
    PROVE  /\ up = TRUE
           /\ Start \in Nat /\ Len(buf) \in Nat /\ cur = Start + Len(buf)
           /\ stream \in Seq(Byte) /\ Len(stream) \in Nat
           /\ cur \in Nat /\ got \in Nat /\ got <= Len(stream)
           /\ Left \in Nat /\ cur + Left = got
           /\ \A i \in 1..Len(buf) : buf[i] = stream[Start + i]
  <1>1. /\ up \in BOOLEAN /\ stream \in Seq(Byte) /\ got \in 0..Len(stream)
        /\ cur \in 0..got /\ buf \in Seq(Byte) /\ Len(stream) \in Nat
        /\ Len(buf) \in Nat
    BY LenProperties DEF IInv, TypeOK
  <1>2. cur # got
    BY <1>1 DEF Left
  <1>3. up = TRUE
    BY <1>1, <1>2 DEF IInv, StoppedIsClean
  <1>4. /\ Len(buf) <= cur
        /\ \A i \in 1..Len(buf) : buf[i] = stream[cur - Len(buf) + i]
    BY <1>3 DEF IInv, BufferInSync
  <1> QED
    BY <1>1, <1>2, <1>3, <1>4 DEF Start, Left

\* Four bytes of the stream, however they were collected, give its length.
LEMMA LengthOfMessage ==
    ASSUME NEW p \in Nat, NEW h,
           h[1] = stream[p + 1], h[2] = stream[p + 2],
           h[3] = stream[p + 3], h[4] = stream[p + 4]
    PROVE  FS!LengthAt(p) = guint32_peek(h)
  BY Zenon DEF FS!LengthAt, FS!BigEndian, guint32_peek, BigEndian

\* A sequence that agrees with n bytes of the stream from p + 1 on is that part
\* of the stream.
LEMMA SameAsSubSeq ==
    ASSUME stream \in Seq(Byte), NEW p \in Nat, NEW n \in Nat,
           p + n <= Len(stream),
           NEW t \in Seq(Byte), Len(t) = n,
           \A i \in 1..n : t[i] = stream[p + i]
    PROVE  t = SubSeq(stream, p + 1, p + n)
  <1> DEFINE u == SubSeq(stream, p + 1, p + n)
  <1>1. Len(stream) \in Nat
    BY LenProperties
  <1>2. \A i \in (p + 1)..(p + n) : stream[i] \in Byte
    BY <1>1, ElementOfSeq
  <1>3. /\ u \in Seq(Byte)
        /\ Len(u) = IF p + 1 <= p + n THEN p + n - (p + 1) + 1 ELSE 0
        /\ \A i \in 1..(p + n - (p + 1) + 1) : u[i] = stream[p + 1 + i - 1]
    BY <1>2, SubSeqProperties
  <1>4. Len(u) = n
    BY <1>3
  <1>5. \A i \in 1..n : u[i] = stream[p + i]
    BY <1>3
  <1>6. \A i \in 1..Len(t) : t[i] = u[i]
    BY <1>5, Zenon
  <1> QED
    BY <1>3, <1>4, <1>6, SeqEqual

\* The message that begins at Start is handed to its handler: that is a step
\* of the abstract stream of messages.
LEMMA MessageStep ==
    ASSUME IInv, Left > 0, NEW x \in Nat, NEW left,
           FS!LengthAt(Start) = x,
           ~IsKeepAlive(stream[Start + 1]),
           Start + 4 + x <= Len(stream),
           session_process(SubSeq(stream, Start + 5, Start + 4 + x), left),
           up' = TRUE => cur' - Len(buf') = Start + 4 + x,
           stream' = stream
    PROVE  FS!Message
  <1> DEFINE payload == SubSeq(stream, Start + 5, Start + 4 + x)
  <1>1. /\ up = TRUE /\ Start \in Nat /\ stream \in Seq(Byte)
        /\ Len(stream) \in Nat
    BY Receiving
  <1>2. stream[Start + 1] < 128
    <2>1. stream[Start + 1] \in Byte
      BY <1>1, ElementOfSeq
    <2>2. \A b \in Byte : ~IsKeepAlive(b) => b < 128
      BY DEF IsKeepAlive, Byte
    <2> QED
      BY <2>1, <2>2, Zenon
  <1>3. payload = <<>> <=> x = 0
    <2>1. \A i \in (Start + 5)..(Start + 4 + x) : stream[i] \in Byte
      BY <1>1, ElementOfSeq
    <2>2. /\ payload \in Seq(Byte)
          /\ Len(payload) = IF Start + 5 <= Start + 4 + x
                               THEN Start + 4 + x - (Start + 5) + 1 ELSE 0
      BY <2>1, <1>1, SubSeqProperties
    <2>3. Len(payload) = x
      BY <2>2, <1>1
    <2> QED
      BY <2>2, <2>3, EmptySeq
  <1>4. out' = IF x = 0 THEN out ELSE Append(out, payload)
    BY <1>3 DEF session_process
  <1>5. up' \in BOOLEAN
    BY <1>1 DEF session_process
  <1>6. (IF up THEN cur - Len(buf) ELSE 0) = Start
    BY <1>1 DEF Start
  <1>7. (IF up' THEN cur' - Len(buf') ELSE 0)
          = IF up' = TRUE THEN Start + 4 + x ELSE 0
    BY <1>5
  <1>8. Start + 4 <= Len(stream)
    BY <1>1
  <1> QED
    BY <1>1, <1>2, <1>4, <1>5, <1>6, <1>7, <1>8 DEF FS!Message

\* A step of the abstract specification, or none.
Step == [FS!Next]_(FS!vars)

\* When a handler stops the session nothing of the chunk is left.
LEMMA StopsAtEnd ==
    ASSUME TrailingAfterStop = FALSE, up = TRUE, NEW payload, NEW left,
           session_process(payload, left), up' # TRUE
    PROVE  left = 0
  BY DEF session_process

LEMMA EmptyKeepsSync ==
    ASSUME TrailingAfterStop = FALSE, IInv, session_recv_empty
    PROVE  BufferInSync' /\ StoppedIsClean' /\ Step
  <1>1. /\ TypeOK /\ Left > 0 /\ buf_len = 0 /\ stream' = stream /\ got' = got
        /\ ~IsKeepAlive(stream[cur + 1])
    BY DEF session_recv_empty, IInv
  <1>2. buf = <<>> /\ Len(buf) = 0
    BY <1>1, EmptySeq DEF IInv, BufferShape
  <1>3. /\ up = TRUE /\ Start = cur /\ stream \in Seq(Byte)
        /\ Len(stream) \in Nat
        /\ cur \in Nat /\ got \in Nat /\ got <= Len(stream)
        /\ Left \in Nat \ {0} /\ cur + Left = got
    BY <1>1, <1>2, Receiving
  <1>4. /\ Chunk \in Seq(Byte) /\ Len(Chunk) = Left
        /\ \A i \in 1..Left : Chunk[i] = stream[cur + i]
    BY <1>1, ChunkFacts
  <1>5. Left >= 4 => /\ FS!LengthAt(Start) = guint32_peek(Chunk)
                     /\ guint32_peek(Chunk) \in Nat
    <2> SUFFICES ASSUME Left >= 4
                 PROVE  /\ FS!LengthAt(Start) = guint32_peek(Chunk)
                        /\ guint32_peek(Chunk) \in Nat
      OBVIOUS
    <2>1. 1 \in 1..Left /\ 2 \in 1..Left /\ 3 \in 1..Left /\ 4 \in 1..Left
      BY <1>3
    <2>2. /\ Chunk[1] = stream[cur + 1] /\ Chunk[2] = stream[cur + 2]
          /\ Chunk[3] = stream[cur + 3] /\ Chunk[4] = stream[cur + 4]
      BY <1>4, <2>1, Zenon
    <2>3. FS!LengthAt(cur) = guint32_peek(Chunk)
      BY <1>3, <2>2, LengthOfMessage, Zenon
    <2>4. guint32_peek(Chunk) \in Nat
      BY <1>4, PeekNat
    <2> QED
      BY <1>3, <2>3, <2>4
  <1>6. ASSUME buf' = Chunk, cur' = got, UNCHANGED <<up, out>>
        PROVE  BufferInSync' /\ StoppedIsClean' /\ Step
    <2>0. Len(buf') = Left /\ cur' = got
      BY <1>4, <1>6, Zenon
    <2>1. cur' - Len(buf') = cur
      BY <1>3, <2>0
    <2>2. BufferInSync'
      <3>1. Len(buf') = Left /\ Left <= cur' /\ stream' = stream
        BY <1>1, <1>3, <1>4, <1>6
      <3>2. \A i \in 1..Left : buf'[i] = stream'[cur' - Left + i]
        BY <1>1, <1>3, <1>4, <1>6
      <3> QED
        BY <3>1, <3>2 DEF BufferInSync
    <2>3. StoppedIsClean'
      BY <1>3, <1>6 DEF StoppedIsClean
    <2>4. (IF up' THEN cur' - Len(buf') ELSE 0)
            = (IF up THEN cur - Len(buf) ELSE 0)
      BY <1>2, <1>3, <1>6, <2>1
    <2> QED
      BY <1>1, <1>6, <2>2, <2>3, <2>4 DEF Step, FS!vars
  <1>7. CASE EmptyShortHeader
    BY <1>6, <1>7 DEF EmptyShortHeader
  <1>8. CASE EmptyShortPayload
    BY <1>6, <1>8 DEF EmptyShortPayload
  <1>9. ASSUME NEW x \in Nat, NEW payload, NEW left, Left >= x + 4,
               FS!LengthAt(Start) = x,
               payload = SubSeq(stream, Start + 5, Start + 4 + x),
               session_process(payload, left),
               left = Left - (x + 4),
               cur' = cur + 4 + x, UNCHANGED <<buf, buf_len>>
        PROVE  BufferInSync' /\ StoppedIsClean' /\ Step
    <2>1. Len(buf') = 0 /\ cur' - Len(buf') = Start + 4 + x /\ cur' \in Nat
      BY <1>2, <1>3, <1>9
    <2>2. BufferInSync'
      BY <2>1 DEF BufferInSync
    <2>3. StoppedIsClean'
      <3> SUFFICES ASSUME up' # TRUE
                   PROVE  buf' = <<>> /\ buf_len' = 0 /\ cur' = got'
        BY DEF StoppedIsClean
      <3>1. left = 0
        BY <1>3, <1>9, StopsAtEnd
      <3> QED
        BY <3>1, <1>1, <1>2, <1>3, <1>9
    <2>4. Start + 4 + x <= Len(stream)
      BY <1>3, <1>9
    <2>5. FS!Message
      BY <1>1, <1>3, <1>9, <2>1, <2>4, MessageStep
    <2> QED
      BY <2>2, <2>3, <2>5 DEF Step, FS!Next
  <1>10. CASE EmptyZeroLength
    <2>1. Left >= 4 /\ FS!LengthAt(Start) = 0
      BY <1>5, <1>10 DEF EmptyZeroLength
    <2>2. SubSeq(stream, Start + 5, Start + 4 + 0) = <<>>
      BY <1>3, SubSeqEmpty
    <2>3. session_process(<<>>, Left - (0 + 4))
      BY <1>10 DEF EmptyZeroLength, session_process
    <2>4. 0 \in Nat /\ Left >= 0 + 4 /\ cur' = cur + 4 + 0
      BY <1>3, <1>10, <2>1 DEF EmptyZeroLength
    <2>5. UNCHANGED <<buf, buf_len>>
      BY <1>10 DEF EmptyZeroLength
    <2> QED
      BY <1>9, <2>1, <2>2, <2>3, <2>4, <2>5, Zenon
  <1>11. CASE EmptyWholeMessage
    <2> DEFINE x == guint32_peek(Chunk)
               payload == SubSeq(Chunk, 5, x + 4)
    <2>1. /\ Left >= x + 4 /\ x \in Nat /\ x # 0
          /\ FS!LengthAt(Start) = x
      BY <1>5, <1>11 DEF EmptyWholeMessage
    <2>2. payload = SubSeq(stream, Start + 5, Start + 4 + x)
      <3>1. /\ payload \in Seq(Byte)
            /\ Len(payload) = x + 4 - 5 + 1
            /\ \A i \in 1..(x + 4 - 5 + 1) :
                 payload[i] = stream[cur + 5 + i - 1]
        BY <1>1, <2>1, ChunkPart
      <3>2. /\ cur + 4 \in Nat /\ (cur + 4) + x <= Len(stream)
            /\ Len(payload) = x
            /\ \A i \in 1..x : payload[i] = stream[(cur + 4) + i]
        BY <1>3, <2>1, <3>1
      <3>3. payload = SubSeq(stream, (cur + 4) + 1, (cur + 4) + x)
        BY <1>3, <2>1, <3>1, <3>2, SameAsSubSeq
      <3>4. (cur + 4) + 1 = Start + 5 /\ (cur + 4) + x = Start + 4 + x
        BY <1>3, <2>1
      <3> QED
        BY <3>3, <3>4, Zenon
    <2>3. session_process(payload, Left - (x + 4))
      BY <1>11 DEF EmptyWholeMessage
    <2>4. cur' = cur + 4 + x /\ UNCHANGED <<buf, buf_len>>
      BY <1>11 DEF EmptyWholeMessage
    <2> QED
      BY <1>9, <2>1, <2>2, <2>3, <2>4
  <1> QED
    BY <1>7, <1>8, <1>10, <1>11 DEF session_recv_empty

LEMMA ContKeepsSync ==
    ASSUME TrailingAfterStop = FALSE, IInv, session_recv_cont
    PROVE  BufferInSync' /\ StoppedIsClean' /\ Step
  <1>1. /\ TypeOK /\ BufferShape /\ Left > 0 /\ buf_len > 0
        /\ stream' = stream /\ got' = got
    BY DEF session_recv_cont, IInv
  <1>2. /\ up = TRUE /\ Start \in Nat /\ Len(buf) \in Nat
        /\ cur = Start + Len(buf)
        /\ stream \in Seq(Byte) /\ Len(stream) \in Nat
        /\ cur \in Nat /\ got \in Nat /\ got <= Len(stream)
        /\ Left \in Nat /\ cur + Left = got
        /\ \A i \in 1..Len(buf) : buf[i] = stream[Start + i]
    BY <1>1, Receiving
  <1>3. buf_len \in Nat /\ buf # <<>> /\ Len(buf) < buf_len
    BY <1>1 DEF TypeOK, BufferShape
  <1>4. Len(buf) # 0 /\ ~IsKeepAlive(stream[Start + 1])
    <2>1. Len(buf) # 0
      BY <1>1, <1>3, EmptySeq DEF TypeOK
    <2>2. 1 \in 1..Len(buf)
      BY <2>1, <1>2
    <2>3. buf[1] = stream[Start + 1]
      BY <2>2, <1>2, Zenon
    <2>4. ~IsKeepAlive(buf[1])
      BY <1>1, <1>3 DEF BufferShape
    <2> QED
      BY <2>1, <2>3, <2>4, Zenon
  <1>5. Missing = buf_len - Len(buf)
    BY DEF Missing

  \* the cases that add the rest of the chunk to the buffer
  <1>6. ASSUME buf' = buf \o Chunk, cur' = got, UNCHANGED <<up, out>>
        PROVE  BufferInSync' /\ StoppedIsClean' /\ Step
    <2>1. /\ Len(buf \o Chunk) = Len(buf) + Left
          /\ \A i \in 1..(Len(buf) + Left) :
               (buf \o Chunk)[i] = IF i <= Len(buf)
                                      THEN buf[i]
                                      ELSE stream[cur + i - Len(buf)]
      BY <1>1, ExtendedFacts
    <2>2. Len(buf') = Len(buf) + Left /\ cur' = got
      BY <1>6, <2>1, Zenon
    <2>3. cur' - Len(buf') = Start /\ Len(buf') <= cur'
      BY <1>2, <2>2
    <2>4. ASSUME NEW i \in 1..Len(buf')
          PROVE  buf'[i] = stream'[cur' - Len(buf') + i]
      <3>1. i \in 1..(Len(buf) + Left)
        BY <2>2, <2>4
      <3>2. (buf \o Chunk)[i] = stream[Start + i]
        <4>1. CASE i <= Len(buf)
          <5>1. i \in 1..Len(buf)
            BY <3>1, <4>1, <1>2
          <5>2. buf[i] = stream[Start + i]
            BY <5>1, <1>2, Zenon
          <5> QED
            BY <2>1, <3>1, <4>1, <5>2, Zenon
        <4>2. CASE ~(i <= Len(buf))
          <5>1. cur + i - Len(buf) = Start + i
            BY <1>2, <3>1
          <5> QED
            BY <2>1, <3>1, <4>2, <5>1, Zenon
        <4> QED
          BY <4>1, <4>2
      <3> QED
        BY <1>1, <1>6, <2>3, <3>2, Zenon
    <2>5. BufferInSync'
      BY <2>3, <2>4 DEF BufferInSync
    <2>6. StoppedIsClean'
      BY <1>2, <1>6 DEF StoppedIsClean
    <2>7. (IF up' THEN cur' - Len(buf') ELSE 0)
            = (IF up THEN cur - Len(buf) ELSE 0)
      BY <1>2, <1>6, <2>3 DEF Start
    <2> QED
      BY <1>1, <1>6, <2>5, <2>6, <2>7 DEF Step, FS!vars
  <1>7. CASE ContStillShort
    BY <1>6, <1>7 DEF ContStillShort
  <1>8. CASE ContHeaderOnly
    BY <1>6, <1>8 DEF ContHeaderOnly

  \* the cases that complete a message of x bytes
  <1>9. ASSUME NEW x \in Nat, NEW payload, NEW left,
               Start + 4 + x <= got,
               FS!LengthAt(Start) = x,
               payload = SubSeq(stream, Start + 5, Start + 4 + x),
               session_process(payload, left),
               left = got - (Start + 4 + x),
               cur' = Start + 4 + x, session_buf_free
        PROVE  BufferInSync' /\ StoppedIsClean' /\ Step
    <2>1. buf' = <<>> /\ buf_len' = 0 /\ Len(buf') = 0
      BY <1>9, EmptySeq DEF session_buf_free
    <2>2. cur' - Len(buf') = Start + 4 + x /\ cur' \in Nat
      BY <1>2, <1>9, <2>1
    <2>3. BufferInSync'
      BY <2>1, <2>2 DEF BufferInSync
    <2>4. StoppedIsClean'
      <3> SUFFICES ASSUME up' # TRUE
                   PROVE  buf' = <<>> /\ buf_len' = 0 /\ cur' = got'
        BY DEF StoppedIsClean
      <3>1. left = 0
        BY <1>2, <1>9, StopsAtEnd
      <3> QED
        BY <3>1, <1>1, <1>2, <1>9, <2>1
    <2>5. Start + 4 + x <= Len(stream)
      BY <1>2, <1>9
    <2>6. FS!Message
      BY <1>1, <1>4, <1>9, <2>2, <2>5, MessageStep
    <2> QED
      BY <2>3, <2>4, <2>6 DEF Step, FS!Next
  <1>10. ASSUME Left >= Missing
         PROVE  /\ Missing \in Nat /\ buf_len >= 4
                /\ Completed \in Seq(Byte) /\ Len(Completed) = buf_len
                /\ \A i \in 1..buf_len : Completed[i] = stream[Start + i]
    <2>1. /\ Missing \in Nat /\ buf_len >= 4
          /\ Completed \in Seq(Byte) /\ Len(Completed) = buf_len
          /\ \A i \in 1..buf_len :
               Completed[i] = IF i <= Len(buf)
                                 THEN buf[i]
                                 ELSE stream[cur + i - Len(buf)]
      BY <1>1, <1>10, CompletedFacts
    <2>2. ASSUME NEW i \in 1..buf_len
          PROVE  Completed[i] = stream[Start + i]
      <3>1. CASE i <= Len(buf)
        <4>1. i \in 1..Len(buf)
          BY <3>1, <1>2, <1>3
        <4>2. buf[i] = stream[Start + i]
          BY <4>1, <1>2, Zenon
        <4> QED
          BY <2>1, <3>1, <4>2, Zenon
      <3>2. CASE ~(i <= Len(buf))
        <4>1. cur + i - Len(buf) = Start + i
          BY <1>2, <1>3
        <4> QED
          BY <2>1, <3>2, <4>1, Zenon
      <3> QED
        BY <3>1, <3>2
    <2> QED
      BY <2>1, <2>2
  <1>11. ASSUME Left >= Missing
         PROVE  /\ FS!LengthAt(Start) = guint32_peek(Completed)
                /\ guint32_peek(Completed) \in Nat
    <2>1. /\ 1 \in 1..buf_len /\ 2 \in 1..buf_len
          /\ 3 \in 1..buf_len /\ 4 \in 1..buf_len
      BY <1>3, <1>10, <1>11
    <2>2. /\ Completed[1] = stream[Start + 1] /\ Completed[2] = stream[Start + 2]
          /\ Completed[3] = stream[Start + 3] /\ Completed[4] = stream[Start + 4]
      BY <1>10, <1>11, <2>1, Zenon
    <2>3. FS!LengthAt(Start) = guint32_peek(Completed)
      BY <1>2, <2>2, LengthOfMessage, Zenon
    <2>4. Completed \in Seq(Byte) /\ Len(Completed) >= 4
      BY <1>10, <1>11
    <2> QED
      BY <2>3, <2>4, PeekNat, Zenon
  <1>12. CASE ContHeaderAndPayload
    <2> DEFINE x == guint32_peek(Completed)
               payload == SubSeq(Chunk, Missing + 1, Missing + x)
    <2>1. /\ Left >= Missing /\ buf_len = 4 /\ Left - Missing >= x
          /\ session_buf_free /\ cur' = cur + Missing + x
          /\ session_process(payload, Left - (Missing + x))
      BY <1>12, Zenon DEF ContHeaderAndPayload
    <2>2. FS!LengthAt(Start) = x /\ x \in Nat /\ Missing \in Nat
      BY <1>10, <1>11, <2>1
    <2> HIDE DEF x
    <2>a. /\ Left >= Missing /\ buf_len = 4 /\ Left - Missing >= x
          /\ Start \in Nat /\ Len(buf) \in Nat /\ cur = Start + Len(buf)
          /\ Left \in Nat /\ cur + Left = got /\ Missing = 4 - Len(buf)
          /\ x \in Nat /\ Missing \in Nat
      BY <1>2, <1>5, <2>1, <2>2, Zenon
    <2> HIDE DEF payload
    <2>3. /\ Start + 4 = cur + Missing
          /\ Left - (Missing + x) = got - (Start + 4 + x)
          /\ cur + Missing + x = Start + 4 + x
          /\ Start + 4 + x <= got
          /\ Missing + x <= Left
          /\ Missing + 1 \in Nat \ {0}
      <3>1. Start + 4 = cur + Missing
        BY <2>a
      <3>4. Missing + 1 \in Nat \ {0}
        <4>1. \A m \in Nat : m + 1 \in Nat \ {0}
          OBVIOUS
        <4> QED
          BY <2>a, <4>1, Zenon
      <3>5. Missing + x <= Left
        BY <2>a
      <3>2. Left - (Missing + x) = got - (Start + 4 + x)
        BY <2>a
      <3>3. cur + Missing + x = Start + 4 + x /\ Start + 4 + x <= got
        BY <2>a
      <3> QED
        BY <3>1, <3>2, <3>3, <3>4, <3>5, Zenon
    <2>4. payload = SubSeq(stream, Start + 5, Start + 4 + x)
      <3>1. /\ payload \in Seq(Byte)
            /\ Len(payload) = Missing + x - (Missing + 1) + 1
            /\ \A i \in 1..(Missing + x - (Missing + 1) + 1) :
                 payload[i] = stream[cur + (Missing + 1) + i - 1]
        BY <1>1, <2>2, <2>3, ChunkPart DEF payload
      <3>a. Missing + x - (Missing + 1) + 1 = x
        BY <2>2
      <3>b. /\ Start + 4 \in Nat /\ (Start + 4) + x <= Len(stream)
        BY <1>2, <2>2, <2>3
      <3>c. \A i \in 1..x : cur + (Missing + 1) + i - 1 = (Start + 4) + i
        BY <2>2, <2>3, <2>a
      <3>2. /\ Len(payload) = x
            /\ \A i \in 1..x : payload[i] = stream[(Start + 4) + i]
        BY <3>1, <3>a, <3>c, Zenon
      <3>3. payload = SubSeq(stream, (Start + 4) + 1, (Start + 4) + x)
        BY <1>2, <2>2, <3>1, <3>2, <3>b, SameAsSubSeq
      <3>4. (Start + 4) + 1 = Start + 5
        BY <1>2
      <3> QED
        BY <3>3, <3>4, Zenon
    <2> QED
      BY <1>9, <2>1, <2>2, <2>3, <2>4, Zenon
  <1>13. CASE ContWholeMessage
    <2> DEFINE x == buf_len - 4
               payload == SubSeq(Completed, 5, buf_len)
    <2>1. /\ Left >= Missing /\ buf_len # 4 /\ session_buf_free
          /\ cur' = cur + Missing /\ session_process(payload, Left - Missing)
      BY <1>13, Zenon DEF ContWholeMessage
    <2>2. /\ Missing \in Nat /\ buf_len >= 4
          /\ Completed \in Seq(Byte) /\ Len(Completed) = buf_len
          /\ \A i \in 1..buf_len : Completed[i] = stream[Start + i]
      BY <1>10, <2>1
    <2>a. /\ Left >= Missing /\ Missing = buf_len - Len(buf) /\ buf_len >= 4
          /\ buf_len \in Nat /\ Start \in Nat /\ Len(buf) \in Nat
          /\ cur = Start + Len(buf) /\ Left \in Nat /\ cur + Left = got
      BY <1>2, <1>3, <1>5, <2>1, <2>2, Zenon
    <2>3. /\ x \in Nat
          /\ Left - Missing = got - (Start + 4 + x)
          /\ cur + Missing = Start + 4 + x
          /\ Start + 4 + x <= got
      BY <2>a
    <2>4. FS!LengthAt(Start) = x
      <3>1. ~(Len(buf) < 4) /\ buf_len = guint32_peek(buf) + 4
        BY <1>1, <1>2, <1>3, <2>1 DEF BufferShape
      <3>2. /\ 1 \in 1..Len(buf) /\ 2 \in 1..Len(buf)
            /\ 3 \in 1..Len(buf) /\ 4 \in 1..Len(buf)
        BY <3>1, <1>2
      <3>3. /\ buf[1] = stream[Start + 1] /\ buf[2] = stream[Start + 2]
            /\ buf[3] = stream[Start + 3] /\ buf[4] = stream[Start + 4]
        BY <1>2, <3>2, Zenon
      <3>4. FS!LengthAt(Start) = guint32_peek(buf)
        BY <1>2, <3>3, LengthOfMessage, Zenon
      <3>5. guint32_peek(buf) \in Nat
        <4>1. buf \in Seq(Byte) /\ Len(buf) >= 4
          BY <1>1, <1>2, <3>1 DEF TypeOK
        <4> QED
          BY <4>1, PeekNat
      <3> QED
        BY <3>1, <3>4, <3>5
    <2>5. payload = SubSeq(stream, Start + 5, Start + 4 + x)
      <3>0. \A i \in 5..buf_len : Completed[i] \in Byte
        BY <2>2, <1>3, ElementOfSeq
      <3>1. /\ payload \in Seq(Byte)
            /\ Len(payload) = IF 5 <= buf_len THEN buf_len - 5 + 1 ELSE 0
            /\ \A i \in 1..(buf_len - 5 + 1) :
                 payload[i] = Completed[5 + i - 1]
        BY <1>3, <3>0, SubSeqProperties
      <3>2. /\ Start + 4 \in Nat /\ (Start + 4) + x <= Len(stream)
            /\ Len(payload) = x
            /\ \A i \in 1..x : payload[i] = Completed[4 + i]
        BY <1>2, <1>3, <2>2, <2>3, <3>1
      <3>3. ASSUME NEW i \in 1..x
            PROVE  payload[i] = stream[(Start + 4) + i]
        <4>1. 4 + i \in 1..buf_len /\ Start + (4 + i) = (Start + 4) + i
          BY <1>2, <1>3, <2>3, <3>3
        <4>2. Completed[4 + i] = stream[Start + (4 + i)]
          BY <2>2, <4>1, Zenon
        <4> QED
          BY <3>2, <4>1, <4>2, Zenon
      <3>4. payload = SubSeq(stream, (Start + 4) + 1, (Start + 4) + x)
        <4> HIDE DEF payload, x
        <4> QED
          BY <1>2, <2>3, <3>1, <3>2, <3>3, SameAsSubSeq
      <3>5. (Start + 4) + 1 = Start + 5
        BY <1>2
      <3> QED
        BY <3>4, <3>5, Zenon
    <2> HIDE DEF payload, x
    <2> QED
      BY <1>9, <2>1, <2>3, <2>4, <2>5, Zenon
  <1> QED
    BY <1>7, <1>8, <1>12, <1>13 DEF session_recv_cont

\* One step of Framing keeps the invariant and is one step, or none, of the
\* abstract stream of messages.
LEMMA NextKeepsIInv ==
    ASSUME TrailingAfterStop = FALSE, IInv, [Next]_vars
    PROVE  IInv' /\ Step
  <1>1. TypeOK' /\ BufferShape'
    BY NextKeepsShape DEF IInv
  <1>2. /\ up \in BOOLEAN /\ cur \in Nat /\ got \in Nat /\ Len(buf) \in Nat
        /\ stream \in Seq(Byte) /\ Len(stream) \in Nat /\ got <= Len(stream)
        /\ buf \in Seq(Byte) /\ cur <= got
    BY LenProperties DEF IInv, TypeOK
  <1>3. Len(<<>>) = 0
    OBVIOUS
  <1>4. CASE SkipKeepAlive
    <2>1. /\ Left > 0 /\ buf_len = 0 /\ IsKeepAlive(stream[cur + 1])
          /\ cur' = cur + 1 /\ UNCHANGED <<up, stream, got, buf, buf_len, out>>
      BY <1>4 DEF SkipKeepAlive
    <2>2. buf = <<>> /\ Len(buf) = 0 /\ Len(buf') = 0
      BY <2>1, <1>3 DEF IInv, BufferShape
    <2>3. up = TRUE /\ cur < got
      BY <2>1, <1>2, Receiving DEF Left
    <2>4. BufferInSync' /\ StoppedIsClean'
      BY <1>2, <2>1, <2>2, <2>3 DEF BufferInSync, StoppedIsClean
    <2>5. stream[cur + 1] >= 128
      BY <2>1, Zenon DEF IsKeepAlive
    <2>6. /\ (IF up THEN cur - Len(buf) ELSE 0) = cur
          /\ (IF up' THEN cur' - Len(buf') ELSE 0) = cur + 1
      BY <1>2, <2>1, <2>2, <2>3
    <2>7. FS!KeepAlive
      BY <1>2, <2>1, <2>3, <2>5, <2>6 DEF FS!KeepAlive
    <2> QED
      BY <1>1, <2>4, <2>7 DEF IInv, Step, FS!Next
  <1>5. CASE session_recv_empty
    BY <1>1, <1>5, EmptyKeepsSync DEF IInv
  <1>6. CASE session_recv_cont
    BY <1>1, <1>6, ContKeepsSync DEF IInv
  <1>7. ASSUME NEW k \in 1..Len(stream), mwSession_recv(k)
        PROVE  IInv' /\ Step
    <2>1. up = TRUE /\ UNCHANGED <<up, stream, cur, buf, buf_len, out>>
      BY <1>2, <1>7 DEF mwSession_recv
    <2>2. BufferInSync' /\ StoppedIsClean'
      BY <2>1 DEF IInv, BufferInSync, StoppedIsClean
    <2> QED
      BY <1>1, <2>1, <2>2 DEF IInv, Step, FS!vars
  <1>8. CASE mwSession_stop
    <2>1. /\ up = TRUE /\ cur = got /\ up' = FALSE /\ buf' = <<>> /\ buf_len' = 0
          /\ UNCHANGED <<stream, got, cur, out>>
      BY <1>2, <1>8 DEF mwSession_stop, session_buf_free
    <2>2. BufferInSync' /\ StoppedIsClean'
      BY <2>1 DEF BufferInSync, StoppedIsClean
    <2>3. FS!Close
      BY <2>1 DEF FS!Close
    <2> QED
      BY <1>1, <2>2, <2>3 DEF IInv, Step, FS!Next
  <1>9. CASE mwSession_start
    <2>1. /\ up = FALSE /\ buf = <<>> /\ buf_len = 0
          /\ up' = TRUE /\ stream' \in Streams /\ got' = 0 /\ cur' = 0
          /\ out' = <<>> /\ buf' = <<>> /\ buf_len' = 0
      BY <1>2, <1>9 DEF mwSession_start, IInv, StoppedIsClean
    <2>2. Len(buf') = 0
      BY <2>1, <1>3
    <2>3. BufferInSync' /\ StoppedIsClean'
      BY <2>1, <2>2 DEF BufferInSync, StoppedIsClean
    <2>4. (IF up' THEN cur' - Len(buf') ELSE 0) = 0
      <3>1. 0 - 0 = 0
        OBVIOUS
      <3> QED
        BY <2>1, <2>2, <3>1, Zenon
    <2>5. FS!Connect
      BY <2>1, <2>4 DEF FS!Connect
    <2> QED
      BY <1>1, <2>3, <2>5 DEF IInv, Step, FS!Next
  <1>10. CASE StartFails
    <2>1. /\ up = FALSE /\ up' = FALSE /\ cur = got /\ buf' = <<>> /\ buf_len' = 0
          /\ UNCHANGED <<stream, got, cur, out>>
      BY <1>2, <1>10 DEF StartFails, session_buf_free
    <2>2. BufferInSync' /\ StoppedIsClean'
      BY <2>1 DEF BufferInSync, StoppedIsClean
    <2> QED
      BY <1>1, <2>1, <2>2 DEF IInv, Step, FS!vars
  <1>11. CASE UNCHANGED vars
    <2>1. BufferInSync' /\ StoppedIsClean'
      BY <1>11 DEF vars, IInv, BufferInSync, StoppedIsClean
    <2> QED
      BY <1>1, <1>11, <2>1 DEF vars, IInv, Step, FS!vars
  <1> QED
    BY <1>4, <1>5, <1>6, <1>7, <1>8, <1>9, <1>10, <1>11 DEF Next, session_recv

LEMMA InitIInv ==
    ASSUME Init
    PROVE  IInv /\ FS!Init
  <1>1. TypeOK /\ BufferShape
    BY InitShape
  <1>2. BufferInSync /\ StoppedIsClean
    BY DEF Init, BufferInSync, StoppedIsClean
  <1>3. FS!Init
    BY DEF Init, FS!Init
  <1> QED
    BY <1>1, <1>2, <1>3 DEF IInv

\* If no chunk goes on behind the message that stops the session, the buffer
\* always holds the last bytes received on the current connection: no byte is
\* dropped, doubled or carried over from an earlier connection.
THEOREM SyncCorrect ==
    ASSUME TrailingAfterStop = FALSE
    PROVE  Spec => []BufferInSync
  <1>1. Init => IInv
    BY InitIInv
  <1>2. IInv /\ [Next]_vars => IInv'
    BY NextKeepsIInv
  <1>3. IInv => BufferInSync
    BY DEF IInv
  <1> QED
    BY <1>1, <1>2, <1>3, PTL DEF Spec

\* Under the same condition mwSession_recv delivers the messages of the
\* connection one by one, in order and complete, for every way of cutting
\* every stream of bytes into chunks.
THEOREM RefinementCorrect ==
    ASSUME TrailingAfterStop = FALSE
    PROVE  Spec => ImplementsFrameStream
  <1>1. Init => IInv /\ FS!Init
    BY InitIInv
  <1>2. IInv /\ [Next]_vars => IInv' /\ [FS!Next]_(FS!vars)
    BY NextKeepsIInv DEF Step
  <1> QED
    BY <1>1, <1>2, PTL DEF Spec, ImplementsFrameStream, FS!Spec

=============================================================================
