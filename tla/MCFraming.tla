----------------------------- MODULE MCFraming -----------------------------
(***************************************************************************)
(* Framing on the streams made of up to MaxItems items, cut off anywhere   *)
(* by the end of the connection, and a reference parser to compare with.   *)
(***************************************************************************)
EXTENDS Framing, SequencesExt

CONSTANT MaxItems   \* bound: items on a connection

\* what may appear on the wire: a keep-alive byte, an empty message, short
\* messages whose payload looks like a keep-alive or like a length, and the
\* length of a message that is never sent to its end
Items ==
    { <<128>>,
      <<0, 0, 0, 0>>,
      <<0, 0, 0, 1, 200>>,
      <<0, 0, 0, 2, 0, 9>>,
      <<0, 0, 1, 130, 7>> }

MCStreams == { FlattenSeq(items) : items \in BoundedSeq(Items, MaxItems) }

\* The messages in the first n bytes of s, read from position p on.
RECURSIVE Frames(_, _, _)
Frames(s, p, n) ==
    IF p >= n THEN <<>>
    ELSE IF s[p + 1] >= 128 THEN Frames(s, p + 1, n)
    ELSE IF p + 4 > n THEN <<>>
    ELSE LET len == s[p + 1] * 16777216 + s[p + 2] * 65536
                      + s[p + 3] * 256 + s[p + 4]
         IN  IF p + 4 + len > n THEN <<>>
             ELSE (IF len = 0 THEN <<>> ELSE <<SubSeq(s, p + 5, p + 4 + len)>>)
                     \o Frames(s, p + 4 + len, n)

\* mw_session.h: "The session will buffer and merge data passed to this
\* function to build complete protocol messages, and will act upon each
\* complete message accordingly": whatever the chunks, when mwSession_recv
\* returns the session has acted on exactly the messages that the bytes
\* received on this connection hold.
ActsOnCompleteMessages ==
    up /\ cur = got => out = Frames(stream, 0, got)

=============================================================================
