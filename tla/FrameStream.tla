---------------------------- MODULE FrameStream ----------------------------
(***************************************************************************)
(* What the framing layer of a session promises, with no word about chunks *)
(* and buffers: the messages of a connection are read off its byte stream  *)
(* one after the other, each complete, keep-alive bytes between them       *)
(* ignored.  Framing implements this with pos <- the bytes consumed minus  *)
(* the bytes buffered.                                                     *)
(***************************************************************************)
EXTENDS Integers, Sequences

CONSTANT Streams

VARIABLES
    up,      \* the connection is in use
    stream,  \* the bytes of the connection
    pos,     \* where in the stream the next message starts
    out      \* the payloads delivered, in order

vars == <<up, stream, pos, out>>

\* four length bytes at position p, most significant first
BigEndian(a, b, c, d) == ((a * 256 + b) * 256 + c) * 256 + d
LengthAt(p) ==
    BigEndian(stream[p + 1], stream[p + 2], stream[p + 3], stream[p + 4])

Init ==
    /\ up = FALSE
    /\ stream \in Streams
    /\ pos = 0
    /\ out = <<>>

KeepAlive ==
    /\ up
    /\ pos < Len(stream)
    /\ stream[pos + 1] >= 128
    /\ pos' = pos + 1
    /\ UNCHANGED <<up, stream, out>>

\* The next message, all of it, is delivered unless it is empty; delivering
\* it may end the connection.
Message ==
    LET end == pos + 4 + LengthAt(pos) IN
    /\ up
    /\ pos + 4 <= Len(stream)
    /\ stream[pos + 1] < 128
    /\ end <= Len(stream)
    /\ out' = IF LengthAt(pos) = 0
                 THEN out
                 ELSE Append(out, SubSeq(stream, pos + 5, end))
    /\ \/ up' = TRUE /\ pos' = end
       \/ up' = FALSE /\ pos' = 0
    /\ UNCHANGED stream

Close ==
    /\ up
    /\ up' = FALSE
    /\ pos' = 0
    /\ UNCHANGED <<stream, out>>

Connect ==
    /\ ~up
    /\ up' = TRUE
    /\ stream' \in Streams
    /\ pos' = 0
    /\ out' = <<>>

Next == KeepAlive \/ Message \/ Close \/ Connect

Spec == Init /\ [][Next]_vars

=============================================================================
