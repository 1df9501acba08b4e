------------------------- MODULE ConversationProofs -------------------------
(***************************************************************************)
(* Proofs about a conversation of the instant messaging service, for any   *)
(* number of channels, messages, broken connections and client types set.  *)
(*                                                                         *)
(* Only ClosedOncePerTry is nearly inductive.  What the ends agree on and  *)
(* what they hear of each other depends on what is still on its way: an    *)
(* offer may be behind the end of an older channel, and the connection of  *)
(* either end may break at any point.  The inductive invariant Inv says    *)
(* what the queues hold, in four parts.                                    *)
(*   Shaped   what holds of one end: ids are those of channels offered, an *)
(*            open conversation has its channel or has fallen back on      *)
(*            plain text, a stopped end nothing.                           *)
(*   Ordered  end "b" is told of the end of each channel before it is      *)
(*            offered the next (Lined), and of the end of every channel    *)
(*            but the one end "a" still holds (Ending): it takes an offer  *)
(*            only when its last conversation has no channel.              *)
(*   Spoken   an offer on its way is not accepted (Answered), the features *)
(*            are those offered (Agreed), nothing is said on a channel     *)
(*            before it is accepted (Quiet), nothing is left gathered on   *)
(*            no channel (Clean).                                          *)
(*   Flowing  what was handed over is what was sent, and what is on its    *)
(*            way takes the reader through the rest of it, piece by piece  *)
(*            (Stream): a path through the messages sent, from what the    *)
(*            conversation has gathered (At), which ends behind the last   *)
(*            of them as long as both connections are up.                  *)
(* The steps of the ends are first proved on the values of the two ends    *)
(* (Fine), then for the actions of the module.                             *)
(***************************************************************************)
EXTENDS Conversation, SequenceTheorems, FunctionTheorems, TLAPS

-----------------------------------------------------------------------------
(* The inductive invariant, in terms of what the two ends have: c, u, l, q, *)
(* n stand for a conversation, whether its end is up and live, what is on   *)
(* its way to it, and how many channels there were.                         *)

IsOffer(m) == m.type = "CREATE"
IsEnd(m, id) == m.type = "DESTROY" /\ m.id = id
IsPiece(m, id) == m.type \in {"TEXT", "HTML", "START", "STOP"} /\ m.id = id
Accepts(m, id) == m.type = "ACCEPT" /\ m.id = id

\* What holds of a conversation and its end alone.
Shape(c, u, l, q, n) ==
    /\ c.id <= n
    /\ c.chan => c.id # 0 /\ c.state # "CLOSED"
    /\ c.state = "OPEN" => c.chan \/ c.feats = "PLAIN"
    /\ ~l => ~u /\ q = <<>> /\ ~c.chan
    /\ \A m \in Range(q) : m.id <= n
Shaped ==
    /\ \A e \in Ends : Shape(conv[e], up[e], live[e], net[e], nchan)
    /\ conv["b"].state # "PENDING"
    /\ conv["a"].state = "PENDING" /\ conv["a"].chan /\ conv["a"].feats # "PLAIN" =>
          nchan < MaxChans

\* Offers come to end "b" one after the other, each behind the end of what was
\* offered before it.
Lined(q, c) ==
    /\ \A k \in DOMAIN q : IsOffer(q[k]) =>
          /\ c.id < q[k].id
          /\ c.chan => \E j \in DOMAIN q : j < k /\ IsEnd(q[j], c.id)
    /\ \A i, k \in DOMAIN q : i < k /\ IsOffer(q[i]) /\ IsOffer(q[k]) =>
          /\ q[i].id < q[k].id
          /\ \E j \in DOMAIN q : i < j /\ j < k /\ IsEnd(q[j], q[i].id)

\* The channel that end "a" still holds, if any: no end of it is on its way.
Held(c, u, q) ==
    IF u /\ c.chan /\ \A m \in Range(q) : ~IsEnd(m, c.id) THEN {c.id} ELSE {}
\* End "b" will be told of the end of every channel that is not in h.
Ending(q, c, h) ==
    /\ \A k \in DOMAIN q : IsOffer(q[k]) /\ q[k].id \notin h =>
          \E j \in DOMAIN q : k < j /\ IsEnd(q[j], q[k].id)
    /\ c.chan /\ c.id \notin h => \E j \in DOMAIN q : IsEnd(q[j], c.id)
Ordered ==
    /\ Lined(net["b"], conv["b"])
    /\ up["b"] => Ending(net["b"], conv["b"], Held(conv["a"], up["a"], net["a"]))

\* An offer that is on its way is not accepted.
Open(A, c, id) == \/ \E m \in A : Accepts(m, id)
                  \/ c.id = id /\ c.state = "OPEN"
Answered(A, B, c) == \A m \in B : IsOffer(m) => ~Open(A, c, m.id)

\* The features at "b" are those "a" offered.
Agreed(B, c, d) ==
    c.chan => /\ \A m \in B : IsOffer(m) /\ m.id = c.id => m.feats = c.feats
              /\ d.chan /\ d.id = c.id => d.feats = c.feats

\* Nothing is said on a channel that is not accepted.
Quiet(A, B, c, S, R, k) ==
    \A m \in B : IsOffer(m) =>
        /\ \A x \in A \cup B : ~IsPiece(x, m.id)
        /\ c.id = m.id => /\ S = <<>> /\ R = <<>>
                          /\ ~k /\ c.chan => ~c.multi
Clean(c, k) ==
    /\ ~c.multi => c.buf = <<>>
    /\ ~k /\ ~c.chan => ~c.multi
Spoken ==
    LET A == Range(net["a"])
        B == Range(net["b"])
    IN  /\ Answered(A, B, conv["a"])
        /\ Agreed(B, conv["a"], conv["b"])
        /\ Quiet(A, B, conv["a"], sent["a"], rcvd["a"], cut)
        /\ \A e \in Ends : Clean(conv[e], cut)

\* A reader is at <<n, j>> if the next it reads is the j-th piece of the n-th
\* message.  From p, message m takes a reader of what was sent as S on channel
\* id to r.
Goes(S, id, m, p, r) ==
    LET n == p[1]
        Next1 == r = <<n + 1, 1>>
        Says(s, j) == n \in DOMAIN S /\ S[n] = s /\ p[2] = j
    IN  \/ ~IsPiece(m, id) /\ r = p
        \/ Says(Text(n), 1) /\ m = Piece("TEXT", id, <<n, 1>>) /\ Next1
        \/ Says(Html(n, 1), 1) /\ m = Piece("HTML", id, <<n, 1>>) /\ Next1
        \/ Says(Html(n, 2), 1) /\ m = Msg("START", id) /\ r = <<n, 2>>
        \/ Says(Html(n, 2), 2) /\ m = Piece("HTML", id, <<n, 1>>) /\ r = <<n, 3>>
        \/ Says(Html(n, 2), 3) /\ m = Piece("HTML", id, <<n, 2>>) /\ r = <<n, 4>>
        \/ Says(Html(n, 2), 4) /\ m = Msg("STOP", id) /\ Next1

\* Where conversation c is that was handed R.
At(R, c, p) ==
    LET n == Len(R) + 1 IN
    /\ p[1] = n
    /\ \/ p[2] = 1 /\ ~c.multi /\ c.buf = <<>>
       \/ p[2] = 2 /\ c.multi /\ c.buf = <<>>
       \/ p[2] = 3 /\ c.multi /\ c.buf = <<<<n, 1>>>> /\ c.mtype = "HTML"
       \/ p[2] = 4 /\ c.multi /\ c.buf = <<<<n, 1>>, <<n, 2>>>> /\ c.mtype = "HTML"

\* Conversation c reads q from f[1] on, and is at f[i] when it gets to the i-th.
Reads(f, q, S, id) ==
    /\ f \in [1..(Len(q) + 1) -> Nat \X (1..4)]
    /\ \A i \in DOMAIN q : Goes(S, id, q[i], f[i], f[i + 1])
Stream(q, S, R, c, whole) ==
    \E f : /\ Reads(f, q, S, c.id)
           /\ At(R, c, f[1])
           /\ whole => f[Len(q) + 1] = <<Len(S) + 1, 1>>
Flow(q, S, R, c, d, k, both) ==
    ~k /\ c.id = d.id /\ c.id # 0 =>
        /\ IsPrefix(R, S)
        /\ c.chan => Stream(q, S, R, c, both /\ d.chan)
Flowing ==
    \A e \in Ends :
        Flow(net[e], sent[Other(e)], rcvd[e], conv[e], conv[Other(e)], cut,
             up["a"] /\ up["b"])

Inv == TypeOK /\ ClosedOncePerTry /\ Shaped /\ Ordered /\ Spoken /\ Flowing

-----------------------------------------------------------------------------
(* What a step does to a queue: messages are put behind it, its first      *)
(* message is taken off, or its end is lost.                               *)

Behind(t, s, m) ==
    /\ Len(s) \in Nat /\ Len(t) = Len(s) + Len(m)
    /\ \A i \in DOMAIN s : i \in 1..Len(s) /\ i \in DOMAIN t /\ t[i] = s[i]
    /\ \A j \in DOMAIN m : j \in 1..Len(m) /\ Len(s) + j \in DOMAIN t /\ t[Len(s) + j] = m[j]
    /\ \A i \in DOMAIN t : i \in DOMAIN s \/ \E j \in DOMAIN m : i = Len(s) + j

Shifted(t, s) ==
    /\ 1 \in DOMAIN s
    /\ \A i \in DOMAIN t : i \in Nat \ {0} /\ i + 1 \in DOMAIN s /\ t[i] = s[i + 1]
    /\ \A j \in DOMAIN s :
         j \in Nat \ {0} /\ (j = 1 \/ (j - 1 \in DOMAIN t /\ t[j - 1] = s[j]))

LEMMA ConcatBehind ==
    ASSUME NEW A, NEW s \in Seq(A), NEW m \in Seq(A)
    PROVE  s \o m \in Seq(A) /\ Behind(s \o m, s, m)
  <1>1. /\ s \o m \in Seq(A) /\ Len(s \o m) = Len(s) + Len(m)
        /\ \A i \in 1..(Len(s) + Len(m)) :
             (s \o m)[i] = IF i <= Len(s) THEN s[i] ELSE m[i - Len(s)]
    BY ConcatProperties
  <1>2. /\ Len(s) \in Nat /\ DOMAIN s = 1..Len(s)
        /\ Len(m) \in Nat /\ DOMAIN m = 1..Len(m)
        /\ DOMAIN (s \o m) = 1..(Len(s) + Len(m))
    BY <1>1, LenProperties
  <1>3. PICK t : t = s \o m
    OBVIOUS
  <1>4. ASSUME NEW i \in DOMAIN t
        PROVE  i \in DOMAIN s \/ \E j \in DOMAIN m : i = Len(s) + j
    <2>1. CASE i > Len(s)
      <3>1. i - Len(s) \in DOMAIN m /\ i = Len(s) + (i - Len(s))
        BY <1>2, <1>3, <1>4, <2>1
      <3> QED
        BY <3>1
    <2> QED
      BY <1>2, <1>3, <1>4, <2>1
  <1>5. Behind(t, s, m)
    BY <1>1, <1>2, <1>3, <1>4 DEF Behind
  <1> QED
    BY <1>1, <1>3, <1>5

LEMMA TailShifted ==
    ASSUME NEW A, NEW s \in Seq(A), s # <<>>
    PROVE  /\ Tail(s) \in Seq(A) /\ Shifted(Tail(s), s)
           /\ Len(Tail(s)) = Len(s) - 1 /\ Len(s) \in Nat \ {0}
           /\ Head(s) = s[1] /\ s[1] \in A /\ 1 \in DOMAIN s
  <1>1. /\ Len(s) \in Nat \ {0} /\ DOMAIN s = 1..Len(s)
        /\ Tail(s) \in Seq(A) /\ DOMAIN Tail(s) = 1..(Len(s) - 1)
        /\ Len(Tail(s)) = Len(s) - 1
        /\ Head(s) = s[1]
        /\ \A i \in DOMAIN Tail(s) : i + 1 \in DOMAIN s /\ Tail(s)[i] = s[i + 1]
    BY HeadTailProperties, LenProperties, EmptySeq
  <1>2. \A j \in DOMAIN s :
          j = 1 \/ (j - 1 \in DOMAIN Tail(s) /\ Tail(s)[j - 1] = s[j])
    BY <1>1
  <1>3. s[1] \in A
    BY <1>1, ElementOfSeq
  <1> QED
    BY <1>1, <1>2, <1>3 DEF Shifted

\* The messages of a queue.
LEMMA Messages0 ==
    ASSUME NEW q, NEW m
    PROVE  m \in Range(q) <=> \E i \in DOMAIN q : m = q[i]
  BY DEF Range

LEMMA BehindRange ==
    ASSUME NEW t, NEW s, NEW m, Behind(t, s, m)
    PROVE  Range(t) = Range(s) \cup Range(m)
  <1>1. ASSUME NEW x \in Range(t) PROVE x \in Range(s) \cup Range(m)
    <2>1. PICK i \in DOMAIN t : x = t[i]
      BY Messages0
    <2>2. i \in DOMAIN s \/ \E j \in DOMAIN m : i = Len(s) + j
      BY DEF Behind
    <2>3. (i \in DOMAIN s /\ x = s[i]) \/ \E j \in DOMAIN m : x = m[j]
      BY <2>1, <2>2 DEF Behind
    <2> QED
      BY <2>3, Messages0
  <1>2. ASSUME NEW x \in Range(s) PROVE x \in Range(t)
    <2>1. PICK i \in DOMAIN s : x = s[i]
      BY Messages0
    <2>2. i \in DOMAIN t /\ x = t[i]
      BY <2>1 DEF Behind
    <2> QED
      BY <2>2, Messages0
  <1>3. ASSUME NEW x \in Range(m) PROVE x \in Range(t)
    <2>1. PICK j \in DOMAIN m : x = m[j]
      BY Messages0
    <2>2. Len(s) + j \in DOMAIN t /\ x = t[Len(s) + j]
      BY <2>1 DEF Behind
    <2> QED
      BY <2>2, Messages0
  <1> QED
    BY <1>1, <1>2, <1>3

LEMMA ShiftedRange ==
    ASSUME NEW t, NEW s, Shifted(t, s)
    PROVE  Range(s) = {s[1]} \cup Range(t)
  <1>1. ASSUME NEW x \in Range(t) PROVE x \in Range(s)
    <2>1. PICK i \in DOMAIN t : x = t[i]
      BY Messages0
    <2>2. i + 1 \in DOMAIN s /\ x = s[i + 1]
      BY <2>1 DEF Shifted
    <2> QED
      BY <2>2, Messages0
  <1>2. ASSUME NEW x \in Range(s) PROVE x = s[1] \/ x \in Range(t)
    <2>1. PICK i \in DOMAIN s : x = s[i]
      BY Messages0
    <2>2. i = 1 \/ (i - 1 \in DOMAIN t /\ x = t[i - 1])
      BY <2>1 DEF Shifted
    <2> QED
      BY <2>1, <2>2, Messages0
  <1>3. s[1] \in Range(s)
    BY Messages0 DEF Shifted
  <1> QED
    BY <1>1, <1>2, <1>3

LEMMA NoMessage ==
    ASSUME NEW A
    PROVE  <<>> \in Seq(A) /\ Range(<<>>) = {} /\ Len(<<>>) = 0 /\ ~ \E j : j \in DOMAIN <<>>
  BY DEF Range

LEMMA OneMessage ==
    ASSUME NEW A, NEW m \in A
    PROVE  /\ <<m>> \in Seq(A) /\ DOMAIN <<m>> = {1} /\ <<m>>[1] = m
           /\ Range(<<m>>) = {m} /\ Len(<<m>>) = 1
  <1>1. /\ <<m>> \in Seq(A) /\ DOMAIN <<m>> = {1} /\ <<m>>[1] = m
        /\ Len(<<m>>) = 1
    OBVIOUS
  <1>2. \A x : x \in Range(<<m>>) <=> x = m
    BY <1>1, Messages0
  <1> QED
    BY <1>1, <1>2

LEMMA SegmentMessages ==
    ASSUME NEW A, NEW id, NEW n,
           Msg("START", id) \in A, Piece("HTML", id, <<n, 1>>) \in A,
           Piece("HTML", id, <<n, 2>>) \in A, Msg("STOP", id) \in A
    PROVE  /\ Segmented(id, n) \in Seq(A)
           /\ DOMAIN Segmented(id, n) = 1..4 /\ Len(Segmented(id, n)) = 4
           /\ Segmented(id, n)[1] = Msg("START", id)
           /\ Segmented(id, n)[2] = Piece("HTML", id, <<n, 1>>)
           /\ Segmented(id, n)[3] = Piece("HTML", id, <<n, 2>>)
           /\ Segmented(id, n)[4] = Msg("STOP", id)
           /\ \A x \in Range(Segmented(id, n)) : IsPiece(x, id)
  <1>1. PICK w, x, y, z : /\ w = Msg("START", id) /\ x = Piece("HTML", id, <<n, 1>>)
                          /\ y = Piece("HTML", id, <<n, 2>>) /\ z = Msg("STOP", id)
    OBVIOUS
  <1>2. Segmented(id, n) = <<w, x, y, z>>
    BY <1>1 DEF Segmented
  <1>3. PICK s : s = Segmented(id, n)
    OBVIOUS
  <1>4. /\ s \in Seq(A) /\ DOMAIN s = 1..4 /\ Len(s) = 4
        /\ s[1] = w /\ s[2] = x /\ s[3] = y /\ s[4] = z
    BY <1>1, <1>2, <1>3
  <1>5. IsPiece(w, id) /\ IsPiece(x, id) /\ IsPiece(y, id) /\ IsPiece(z, id)
    BY <1>1 DEF IsPiece, Msg, Piece
  <1>6. ASSUME NEW v \in Range(s) PROVE IsPiece(v, id)
    <2>1. PICK i \in DOMAIN s : v = s[i]
      BY Messages0
    <2>2. i = 1 \/ i = 2 \/ i = 3 \/ i = 4
      BY <1>4
    <2> QED
      BY <1>4, <1>5, <2>1, <2>2
  <1> QED
    BY <1>1, <1>3, <1>4, <1>6

-----------------------------------------------------------------------------
(* The order of offers and ends.                                           *)

Numbered(q) == \A i \in DOMAIN q : q[i].id \in Nat

\* What end "b" may become when it reads m.
Turns(c, d, m) ==
    /\ d.id <= c.id \/ (IsOffer(m) /\ d.id = m.id)
    /\ d.chan =>
          \/ c.chan /\ d.id = c.id /\ ~IsEnd(m, c.id)
          \/ IsOffer(m) /\ d.id = m.id

LEMMA LinedRead ==
    ASSUME NEW t, NEW q, NEW c, NEW d, Shifted(t, q), Lined(q, c), Numbered(q),
           c.id \in Nat, d.id \in Nat, Turns(c, d, q[1])
    PROVE  Lined(t, d)
  <1>1. ASSUME NEW k \in DOMAIN t, IsOffer(t[k])
        PROVE  /\ d.id < t[k].id
               /\ d.chan => \E j \in DOMAIN t : j < k /\ IsEnd(t[j], d.id)
    <2>1. k \in Nat \ {0} /\ k + 1 \in DOMAIN q /\ t[k] = q[k + 1] /\ 1 \in DOMAIN q
      BY DEF Shifted
    <2>2. c.id < q[k + 1].id
      BY <1>1, <2>1 DEF Lined
    <2>3. CASE IsOffer(q[1]) /\ d.id = q[1].id
      <3>1. /\ q[1].id < q[k + 1].id
            /\ \E j \in DOMAIN q : 1 < j /\ j < k + 1 /\ IsEnd(q[j], q[1].id)
        BY <1>1, <2>1, <2>3 DEF Lined
      <3>2. PICK j \in DOMAIN q : 1 < j /\ j < k + 1 /\ IsEnd(q[j], q[1].id)
        BY <3>1
      <3>3. j \in Nat /\ j - 1 \in DOMAIN t /\ t[j - 1] = q[j] /\ j - 1 < k
        BY <2>1, <3>2 DEF Shifted
      <3> QED
        BY <2>1, <2>3, <3>1, <3>2, <3>3
    <2>4. CASE ~(IsOffer(q[1]) /\ d.id = q[1].id)
      <3>1. d.id < t[k].id
        BY <2>1, <2>2, <2>4 DEF Turns, Numbered
      <3>2. ASSUME d.chan
            PROVE  \E j \in DOMAIN t : j < k /\ IsEnd(t[j], d.id)
        <4>1. c.chan /\ d.id = c.id /\ ~IsEnd(q[1], c.id)
          BY <2>4, <3>2 DEF Turns
        <4>2. PICK j \in DOMAIN q : j < k + 1 /\ IsEnd(q[j], c.id)
          BY <1>1, <2>1, <4>1 DEF Lined
        <4>3. j \in Nat /\ j # 1 /\ j - 1 \in DOMAIN t /\ t[j - 1] = q[j] /\ j - 1 < k
          BY <2>1, <4>1, <4>2 DEF Shifted
        <4> QED
          BY <4>1, <4>2, <4>3
      <3> QED
        BY <3>1, <3>2
    <2> QED
      BY <2>3, <2>4
  <1>2. ASSUME NEW i \in DOMAIN t, NEW k \in DOMAIN t, i < k, IsOffer(t[i]), IsOffer(t[k])
        PROVE  /\ t[i].id < t[k].id
               /\ \E j \in DOMAIN t : i < j /\ j < k /\ IsEnd(t[j], t[i].id)
    <2>1. /\ k \in Nat \ {0} /\ k + 1 \in DOMAIN q /\ t[k] = q[k + 1]
          /\ i \in Nat \ {0} /\ i + 1 \in DOMAIN q /\ t[i] = q[i + 1] /\ i + 1 < k + 1
      BY <1>2 DEF Shifted
    <2>2. PICK a, b : a = i + 1 /\ b = k + 1
      OBVIOUS
    <2>3. /\ q[a].id < q[b].id
          /\ \E j \in DOMAIN q : a < j /\ j < b /\ IsEnd(q[j], q[a].id)
      BY <1>2, <2>1, <2>2 DEF Lined
    <2>4. PICK j \in DOMAIN q : a < j /\ j < b /\ IsEnd(q[j], q[a].id)
      BY <2>3
    <2>5. j \in Nat /\ j - 1 \in DOMAIN t /\ t[j - 1] = q[j] /\ i < j - 1 /\ j - 1 < k
      BY <2>1, <2>2, <2>4 DEF Shifted
    <2> QED
      BY <2>1, <2>2, <2>3, <2>4, <2>5
  <1> QED
    BY <1>1, <1>2 DEF Lined

\* What is read of an offer: it is the first, and the next conversation.
LEMMA OfferRead ==
    ASSUME NEW t, NEW q, NEW c, Shifted(t, q), Lined(q, c), IsOffer(q[1])
    PROVE  /\ ~c.chan /\ c.id < q[1].id
           /\ \A m \in Range(t) : IsOffer(m) => q[1].id < m.id
  <1>1. 1 \in DOMAIN q /\ ~ \E j \in DOMAIN q : j < 1
    BY DEF Shifted
  <1>2. ~c.chan /\ c.id < q[1].id
    BY <1>1 DEF Lined
  <1>3. ASSUME NEW m \in Range(t), IsOffer(m) PROVE q[1].id < m.id
    <2>1. PICK k \in DOMAIN t : m = t[k]
      BY Messages0
    <2>2. k \in Nat \ {0} /\ k + 1 \in DOMAIN q /\ t[k] = q[k + 1] /\ 1 < k + 1
      BY DEF Shifted
    <2> QED
      BY <1>1, <1>3, <2>1, <2>2 DEF Lined
  <1> QED
    BY <1>2, <1>3

\* Reading m, the end of a channel x that was held may be on its way now: one
\* that no offer is left of.
LEMMA EndingRead ==
    ASSUME NEW t, NEW q, NEW c, NEW d, NEW h, NEW g, Shifted(t, q), Ending(q, c, h),
           Turns(c, d, q[1]),
           \A k \in DOMAIN t : IsOffer(t[k]) /\ t[k].id \notin g => t[k].id \notin h,
           d.chan /\ d.id \notin g => d.id \notin h
    PROVE  Ending(t, d, g)
  <1>1. ASSUME NEW k \in DOMAIN t, IsOffer(t[k]), t[k].id \notin g
        PROVE  \E j \in DOMAIN t : k < j /\ IsEnd(t[j], t[k].id)
    <2>1. k \in Nat \ {0} /\ k + 1 \in DOMAIN q /\ t[k] = q[k + 1]
      BY DEF Shifted
    <2>2. PICK a : a = k + 1
      OBVIOUS
    <2>3. PICK j \in DOMAIN q : a < j /\ IsEnd(q[j], q[a].id)
      BY <1>1, <2>1, <2>2 DEF Ending
    <2>4. j - 1 \in DOMAIN t /\ t[j - 1] = q[j] /\ k < j - 1
      BY <2>1, <2>2, <2>3 DEF Shifted
    <2> QED
      BY <2>1, <2>2, <2>3, <2>4
  <1>2. ASSUME d.chan, d.id \notin g
        PROVE  \E j \in DOMAIN t : IsEnd(t[j], d.id)
    <2>1. d.id \notin h
      BY <1>2
    <2>2. PICK j \in DOMAIN q : j # 1 /\ IsEnd(q[j], d.id)
      <3>1. CASE c.chan /\ d.id = c.id /\ ~IsEnd(q[1], c.id)
        BY <2>1, <3>1 DEF Ending
      <3>2. CASE IsOffer(q[1]) /\ d.id = q[1].id
        <4>1. 1 \in DOMAIN q
          BY DEF Shifted
        <4>2. PICK j \in DOMAIN q : 1 < j /\ IsEnd(q[j], q[1].id)
          BY <2>1, <3>2, <4>1 DEF Ending
        <4> QED
          BY <3>2, <4>2
      <3> QED
        BY <1>2, <3>1, <3>2 DEF Turns
    <2>3. j - 1 \in DOMAIN t /\ t[j - 1] = q[j]
      BY <2>2 DEF Shifted
    <2> QED
      BY <2>2, <2>3
  <1> QED
    BY <1>1, <1>2 DEF Ending

\* Messages that offer nothing are written.
LEMMA LinedWritten ==
    ASSUME NEW t, NEW q, NEW m, NEW c, Behind(t, q, m), Lined(q, c),
           \A j \in DOMAIN m : ~IsOffer(m[j])
    PROVE  Lined(t, c)
  <1>1. ASSUME NEW k \in DOMAIN t, IsOffer(t[k])
        PROVE  k \in DOMAIN q /\ t[k] = q[k]
    <2>1. ASSUME NEW j \in DOMAIN m, k = Len(q) + j PROVE FALSE
      BY <1>1, <2>1 DEF Behind
    <2> QED
      BY <2>1 DEF Behind
  <1>2. \A j \in DOMAIN q : j \in DOMAIN t /\ t[j] = q[j]
    BY DEF Behind
  <1>3. ASSUME NEW k \in DOMAIN t, IsOffer(t[k])
        PROVE  /\ c.id < t[k].id
               /\ c.chan => \E j \in DOMAIN t : j < k /\ IsEnd(t[j], c.id)
    <2>1. k \in DOMAIN q /\ t[k] = q[k]
      BY <1>1, <1>3
    <2> QED
      BY <1>2, <1>3, <2>1 DEF Lined
  <1>4. ASSUME NEW i \in DOMAIN t, NEW k \in DOMAIN t, i < k, IsOffer(t[i]), IsOffer(t[k])
        PROVE  /\ t[i].id < t[k].id
               /\ \E j \in DOMAIN t : i < j /\ j < k /\ IsEnd(t[j], t[i].id)
    <2>1. k \in DOMAIN q /\ t[k] = q[k] /\ i \in DOMAIN q /\ t[i] = q[i]
      BY <1>1, <1>4
    <2>2. /\ q[i].id < q[k].id
          /\ \E j \in DOMAIN q : i < j /\ j < k /\ IsEnd(q[j], q[i].id)
      BY <1>4, <2>1 DEF Lined
    <2> QED
      BY <1>2, <2>1, <2>2
  <1> QED
    BY <1>3, <1>4 DEF Lined

\* Channels of which the end is written need no longer be held.
LEMMA EndingWritten ==
    ASSUME NEW t, NEW q, NEW m, NEW c, NEW h, NEW g, Behind(t, q, m), Ending(q, c, h),
           \A j \in DOMAIN m : ~IsOffer(m[j]),
           \A x \in h \ g : \E j \in DOMAIN m : IsEnd(m[j], x)
    PROVE  Ending(t, c, g)
  <1>2. \A j \in DOMAIN q : j \in DOMAIN t /\ t[j] = q[j]
    BY DEF Behind
  <1>3. ASSUME NEW x \in h \ g, NEW k \in DOMAIN q
        PROVE  \E j \in DOMAIN t : k < j /\ IsEnd(t[j], x)
    <2>1. PICK j \in DOMAIN m : IsEnd(m[j], x)
      BY <1>3
    <2>2. Len(q) + j \in DOMAIN t /\ t[Len(q) + j] = m[j] /\ k < Len(q) + j
      <3>1. j \in 1..Len(m) /\ Len(q) \in Nat /\ k \in 1..Len(q)
        BY DEF Behind
      <3>2. k < Len(q) + j
        BY <3>1
      <3> QED
        BY <3>2 DEF Behind
    <2> QED
      BY <2>1, <2>2
  <1>4. ASSUME NEW x \in h \ g PROVE \E j \in DOMAIN t : IsEnd(t[j], x)
    <2>1. PICK j \in DOMAIN m : IsEnd(m[j], x)
      BY <1>4
    <2>2. Len(q) + j \in DOMAIN t /\ t[Len(q) + j] = m[j]
      BY DEF Behind
    <2> QED
      BY <2>1, <2>2
  <1>5. ASSUME NEW k \in DOMAIN t, IsOffer(t[k]), t[k].id \notin g
        PROVE  \E j \in DOMAIN t : k < j /\ IsEnd(t[j], t[k].id)
    <2>1. k \in DOMAIN q /\ t[k] = q[k]
      <3>1. ASSUME NEW j \in DOMAIN m, k = Len(q) + j PROVE FALSE
        BY <1>5, <3>1 DEF Behind
      <3> QED
        BY <3>1 DEF Behind
    <2>2. CASE q[k].id \in h
      BY <1>3, <1>5, <2>1, <2>2
    <2>3. CASE q[k].id \notin h
      <3>1. PICK j \in DOMAIN q : k < j /\ IsEnd(q[j], q[k].id)
        BY <1>5, <2>1, <2>3 DEF Ending
      <3> QED
        BY <1>2, <2>1, <3>1
    <2> QED
      BY <2>2, <2>3
  <1>6. ASSUME c.chan, c.id \notin g PROVE \E j \in DOMAIN t : IsEnd(t[j], c.id)
    <2>1. CASE c.id \in h
      BY <1>4, <1>6, <2>1
    <2>2. CASE c.id \notin h
      BY <1>2, <1>6, <2>2 DEF Ending
    <2> QED
      BY <2>1, <2>2
  <1> QED
    BY <1>5, <1>6 DEF Ending

\* A channel is offered when none is held.
LEMMA OfferWritten ==
    ASSUME NEW t, NEW q, NEW m, NEW c, Behind(t, q, <<m>>), Lined(q, c), Ending(q, c, {}),
           Numbered(q), m.id \in Nat, \A i \in DOMAIN q : q[i].id < m.id, c.id < m.id
    PROVE  Lined(t, c) /\ Ending(t, c, {m.id})
  <1>1. \A j \in DOMAIN q : j \in DOMAIN t /\ t[j] = q[j] /\ j \in 1..Len(q)
    BY DEF Behind
  <1>2. \A k \in DOMAIN t : (k \in DOMAIN q /\ t[k] = q[k]) \/ (k = Len(q) + 1 /\ t[k] = m)
    BY DEF Behind
  <1>3. Len(q) \in Nat
    BY DEF Behind
  <1>4. ASSUME NEW k \in DOMAIN t, IsOffer(t[k])
        PROVE  /\ c.id < t[k].id
               /\ c.chan => \E j \in DOMAIN t : j < k /\ IsEnd(t[j], c.id)
    <2>1. CASE k \in DOMAIN q /\ t[k] = q[k]
      BY <1>1, <1>4, <2>1 DEF Lined
    <2>2. CASE k = Len(q) + 1 /\ t[k] = m
      <3>1. ASSUME c.chan PROVE \E j \in DOMAIN t : j < k /\ IsEnd(t[j], c.id)
        <4>1. PICK j \in DOMAIN q : IsEnd(q[j], c.id)
          BY <3>1 DEF Ending
        <4>2. j < k
          BY <1>1, <1>3, <2>2
        <4> QED
          BY <1>1, <4>1, <4>2
      <3> QED
        BY <2>2, <3>1
    <2> QED
      BY <1>2, <2>1, <2>2
  <1>5. ASSUME NEW i \in DOMAIN t, NEW k \in DOMAIN t, i < k, IsOffer(t[i]), IsOffer(t[k])
        PROVE  /\ t[i].id < t[k].id
               /\ \E j \in DOMAIN t : i < j /\ j < k /\ IsEnd(t[j], t[i].id)
    <2>1. i \in DOMAIN q /\ t[i] = q[i]
      BY <1>1, <1>2, <1>3, <1>5
    <2>2. CASE k \in DOMAIN q /\ t[k] = q[k]
      <3>1. /\ q[i].id < q[k].id
            /\ \E j \in DOMAIN q : i < j /\ j < k /\ IsEnd(q[j], q[i].id)
        BY <1>5, <2>1, <2>2 DEF Lined
      <3> QED
        BY <1>1, <2>1, <2>2, <3>1
    <2>3. CASE k = Len(q) + 1 /\ t[k] = m
      <3>1. PICK j \in DOMAIN q : i < j /\ IsEnd(q[j], q[i].id)
        BY <1>5, <2>1 DEF Ending
      <3>2. j < k
        BY <1>1, <1>3, <2>3
      <3> QED
        BY <1>1, <2>1, <2>3, <3>1, <3>2
    <2> QED
      BY <1>2, <2>2, <2>3
  <1>6. ASSUME NEW k \in DOMAIN t, IsOffer(t[k]), t[k].id \notin {m.id}
        PROVE  \E j \in DOMAIN t : k < j /\ IsEnd(t[j], t[k].id)
    <2>1. k \in DOMAIN q /\ t[k] = q[k]
      BY <1>2, <1>6
    <2>2. PICK j \in DOMAIN q : k < j /\ IsEnd(q[j], q[k].id)
      BY <1>6, <2>1 DEF Ending
    <2> QED
      BY <1>1, <2>1, <2>2
  <1>7. ASSUME c.chan PROVE \E j \in DOMAIN t : IsEnd(t[j], c.id)
    BY <1>1, <1>7 DEF Ending
  <1> QED
    BY <1>4, <1>5, <1>6, <1>7 DEF Lined, Ending

\* End "b" closes its conversation.
LEMMA LinedClosed ==
    ASSUME NEW q, NEW c, NEW d, NEW h, NEW g, Lined(q, c), Numbered(q), c.id \in Nat,
           d.id \in Nat, d.id <= c.id, ~d.chan
    PROVE  Lined(q, d) /\ (Ending(q, c, h) /\ h \subseteq g \cup {c.id} => Ending(q, d, g))
  <1>1. Lined(q, d)
    BY DEF Lined, Numbered
  <1>2. ASSUME Ending(q, c, h), h \subseteq g \cup {c.id} PROVE Ending(q, d, g)
    <2>1. ASSUME NEW k \in DOMAIN q, IsOffer(q[k]), q[k].id \notin g
          PROVE  \E j \in DOMAIN q : k < j /\ IsEnd(q[j], q[k].id)
      <3>1. q[k].id # c.id
        BY <2>1 DEF Lined, Numbered
      <3> QED
        BY <1>2, <2>1, <3>1 DEF Ending
    <2> QED
      BY <2>1 DEF Ending
  <1> QED
    BY <1>1, <1>2

\* The end of q is lost, and the ends of all channels are behind it.
FrontOf(s, q) ==
    /\ \A i \in DOMAIN s : i \in Nat /\ i \in DOMAIN q /\ s[i] = q[i]
    /\ \A i \in DOMAIN s : \A j \in DOMAIN q : j < i => j \in DOMAIN s

LEMMA FrontLined ==
    ASSUME NEW s, NEW q, NEW c, FrontOf(s, q), Lined(q, c)
    PROVE  Lined(s, c)
  <1>1. ASSUME NEW k \in DOMAIN s, IsOffer(s[k])
        PROVE  /\ c.id < s[k].id
               /\ c.chan => \E j \in DOMAIN s : j < k /\ IsEnd(s[j], c.id)
    BY <1>1 DEF Lined, FrontOf
  <1>2. ASSUME NEW i \in DOMAIN s, NEW k \in DOMAIN s, i < k, IsOffer(s[i]), IsOffer(s[k])
        PROVE  /\ s[i].id < s[k].id
               /\ \E j \in DOMAIN s : i < j /\ j < k /\ IsEnd(s[j], s[i].id)
    <2>1. i \in DOMAIN q /\ k \in DOMAIN q /\ s[i] = q[i] /\ s[k] = q[k]
      BY DEF FrontOf
    <2>2. /\ q[i].id < q[k].id
          /\ \E j \in DOMAIN q : i < j /\ j < k /\ IsEnd(q[j], q[i].id)
      BY <1>2, <2>1 DEF Lined
    <2>3. PICK j \in DOMAIN q : i < j /\ j < k /\ IsEnd(q[j], q[i].id)
      BY <2>2
    <2>4. j \in DOMAIN s /\ s[j] = q[j]
      BY <2>3 DEF FrontOf
    <2> QED
      BY <2>1, <2>2, <2>3, <2>4
  <1> QED
    BY <1>1, <1>2 DEF Lined

LEMMA AllEnded ==
    ASSUME NEW t, NEW s, NEW m, NEW c, NEW n \in Nat, Behind(t, s, m), Lined(s, c),
           \A j \in DOMAIN m : ~IsOffer(m[j]),
           \A x \in 1..n : \E j \in DOMAIN m : IsEnd(m[j], x),
           \A i \in DOMAIN s : s[i].id \in 1..n,
           c.chan => c.id \in 1..n
    PROVE  Lined(t, c) /\ Ending(t, c, {})
  <1>1. Lined(t, c)
    BY LinedWritten
  <1>2. Ending(s, c, (1..n) \cup {c.id})
    BY DEF Ending
  <1>3. CASE c.chan
    <2>1. \A x \in ((1..n) \cup {c.id}) \ {} : \E j \in DOMAIN m : IsEnd(m[j], x)
      BY <1>3
    <2> QED
      BY <1>1, <1>2, <2>1, EndingWritten
  <1>4. CASE ~c.chan
    <2>1. Ending(s, c, 1..n)
      BY <1>4 DEF Ending
    <2>2. Ending(t, c, {})
      BY <2>1, EndingWritten
    <2> QED
      BY <1>1, <2>2
  <1> QED
    BY <1>3, <1>4

-----------------------------------------------------------------------------
(* Offers and answers.  A and B are the messages on their way to "a" and to *)
(* "b" before, C and D those after a step.                                  *)

\* Neither accepted nor offered anything new.
LEMMA AnsweredStill ==
    ASSUME NEW A, NEW B, NEW c, NEW C, NEW D, NEW d, Answered(A, B, c),
           \A m \in C : m \in A \/ m.type # "ACCEPT",
           \A m \in D : m \in B \/ ~IsOffer(m),
           d.state = "OPEN" => c.state = "OPEN" /\ c.id = d.id
    PROVE  Answered(C, D, d)
  <1>1. ASSUME NEW id, ~Open(A, c, id) PROVE ~Open(C, d, id)
    BY <1>1 DEF Open, Accepts
  <1>2. ASSUME NEW m \in D, IsOffer(m) PROVE ~Open(C, d, m.id)
    BY <1>1, <1>2 DEF Answered
  <1> QED
    BY <1>2 DEF Answered

LEMMA AnsweredOffer ==
    ASSUME NEW A, NEW B, NEW c, NEW C, NEW D, NEW d, NEW o, IsOffer(o),
           Answered(A, B, c), \A m \in C : m \in A \/ m.type # "ACCEPT",
           \A m \in D : m \in B \/ m = o, \A m \in A : m.id # o.id, d.state # "OPEN"
    PROVE  Answered(C, D, d)
  <1>1. ASSUME NEW id, ~Open(A, c, id) PROVE ~Open(C, d, id)
    BY <1>1 DEF Open, Accepts
  <1>2. ~Open(C, d, o.id)
    BY DEF Open, Accepts
  <1>3. ASSUME NEW m \in D, IsOffer(m) PROVE ~Open(C, d, m.id)
    BY <1>1, <1>2, <1>3 DEF Answered
  <1> QED
    BY <1>3 DEF Answered

\* End "a" reads that its offer is accepted.
LEMMA AnsweredAccepted ==
    ASSUME NEW A, NEW B, NEW c, NEW C, NEW d, NEW o \in A, Answered(A, B, c),
           C \subseteq A, Accepts(o, d.id)
    PROVE  Answered(C, B, d)
  <1>1. ASSUME NEW id, ~Open(A, c, id) PROVE ~Open(C, d, id)
    BY <1>1 DEF Open, Accepts
  <1> QED
    BY <1>1 DEF Answered

LEMMA AgreedStill ==
    ASSUME NEW B, NEW c, NEW d, NEW D, NEW x, NEW y, Agreed(B, c, d),
           \A m \in D : m \in B \/ ~IsOffer(m),
           x.chan => c.chan /\ x.id = c.id /\ x.feats = c.feats,
           y.chan => d.chan /\ y.id = d.id /\ y.feats = d.feats
    PROVE  Agreed(D, x, y)
  BY DEF Agreed

LEMMA AgreedOffer ==
    ASSUME NEW B, NEW d, NEW D, NEW x, NEW o,
           \A m \in D : m \in B \/ m = o,
           \A m \in B : m.id # x.id, d.id # x.id, o.feats = x.feats
    PROVE  Agreed(D, x, d)
  BY DEF Agreed

LEMMA AgreedNow ==
    ASSUME NEW B, NEW c, NEW d, NEW D, NEW y, NEW o \in B, Agreed(B, c, d), IsOffer(o),
           D \subseteq B, y.id = o.id, y.feats = o.feats
    PROVE  Agreed(D, c, y)
  BY DEF Agreed

LEMMA QuietOffer ==
    ASSUME NEW A, NEW B, NEW c, NEW S, NEW R, NEW k, Quiet(A, B, c, S, R, k),
           NEW C, NEW D, NEW d, NEW l, NEW o,
           \A m \in C : m \in A \/ m.type = "DESTROY",
           \A m \in D : m \in B \/ m = o, IsOffer(o),
           \A m \in A \cup B : m.id # o.id, d.id = o.id, ~l => ~d.multi
    PROVE  Quiet(C, D, d, <<>>, <<>>, l)
  <1> SUFFICES ASSUME NEW m \in D, IsOffer(m)
               PROVE  /\ \A x \in C \cup D : ~IsPiece(x, m.id)
                      /\ ~l /\ d.chan => ~d.multi
    BY DEF Quiet
  <1>1. \A x : IsPiece(x, m.id) => x.type # "DESTROY" /\ ~IsOffer(x) /\ x.id = m.id
    BY DEF IsPiece, IsOffer
  <1>2. CASE m \in B
    <2>1. \A x \in A \cup B : ~IsPiece(x, m.id)
      BY <1>2 DEF Quiet
    <2> QED
      BY <1>1, <2>1
  <1>3. CASE m = o
    BY <1>1, <1>3
  <1> QED
    BY <1>2, <1>3

\* The channel "a" holds.
LEMMA HeldStill ==
    ASSUME NEW c, NEW u, NEW q, NEW d, NEW v, NEW t,
           u /\ c.chan => v /\ d.chan /\ d.id = c.id,
           \A m \in Range(t) : IsEnd(m, d.id) => m \in Range(q)
    PROVE  Held(c, u, q) \subseteq Held(d, v, t)
  BY DEF Held

LEMMA HeldNone ==
    ASSUME NEW c, NEW u, NEW q, ~u \/ ~c.chan \/ \E m \in Range(q) : IsEnd(m, c.id)
    PROVE  Held(c, u, q) = {}
  BY DEF Held

LEMMA HeldSome ==
    ASSUME NEW c, NEW u, NEW q
    PROVE  Held(c, u, q) \subseteq {c.id}
  BY DEF Held

LEMMA EndingMore ==
    ASSUME NEW q, NEW c, NEW h, NEW g, Ending(q, c, h), h \subseteq g
    PROVE  Ending(q, c, g)
  BY DEF Ending

-----------------------------------------------------------------------------
(* What is read of what was sent.                                          *)

LEMMA PrefixIs ==
    ASSUME NEW A, NEW R \in Seq(A), NEW S \in Seq(A)
    PROVE  IsPrefix(R, S) <=> Len(R) <= Len(S) /\ \A i \in 1..Len(R) : R[i] = S[i]
  <1>1. Len(R) \in Nat /\ Len(S) \in Nat
    BY LenProperties
  <1>2. SubSeq(R, 1, Len(R)) = R
    BY SubSeqFull
  <1>3. CASE Len(R) <= Len(S)
    <2>1. 1 \in 1..(Len(S) + 1) /\ Len(R) \in 0..Len(S)
      BY <1>1, <1>3
    <2>2. PICK T : T = SubSeq(S, 1, Len(R))
      OBVIOUS
    <2>3. T \in Seq(A) /\ Len(T) = Len(R) /\ \A i \in 1..Len(R) : T[i] = S[i]
      BY <1>1, <2>1, <2>2, SubSeqProperties
    <2>4. T = R <=> \A i \in 1..Len(R) : R[i] = S[i]
      BY <2>3, SeqEqual
    <2> QED
      BY <1>2, <1>3, <2>2, <2>4 DEF IsPrefix
  <1> QED
    BY <1>1, <1>3 DEF IsPrefix

LEMMA PrefixMore ==
    ASSUME NEW A, NEW R \in Seq(A), NEW S \in Seq(A), NEW x \in A, IsPrefix(R, S)
    PROVE  IsPrefix(R, Append(S, x))
  <1>1. Len(R) <= Len(S) /\ \A i \in 1..Len(R) : R[i] = S[i]
    BY PrefixIs
  <1>2. /\ Append(S, x) \in Seq(A) /\ Len(Append(S, x)) = Len(S) + 1
        /\ \A i \in 1..Len(S) : Append(S, x)[i] = S[i]
    BY AppendProperties
  <1>3. Len(R) \in Nat /\ Len(S) \in Nat
    BY LenProperties
  <1>4. /\ Len(R) <= Len(Append(S, x))
        /\ \A i \in 1..Len(R) : R[i] = Append(S, x)[i]
    BY <1>1, <1>2, <1>3
  <1> QED
    BY <1>2, <1>4, PrefixIs

\* The next message is handed to the client.
LEMMA PrefixNext ==
    ASSUME NEW A, NEW R \in Seq(A), NEW S \in Seq(A), IsPrefix(R, S),
           Len(R) + 1 \in DOMAIN S, NEW x, x = S[Len(R) + 1]
    PROVE  IsPrefix(Append(R, x), S) /\ Append(R, x) \in Seq(A) /\ Len(Append(R, x)) = Len(R) + 1
  <1>1. Len(R) <= Len(S) /\ \A i \in 1..Len(R) : R[i] = S[i]
    BY PrefixIs
  <1>2. Len(R) \in Nat /\ Len(S) \in Nat /\ DOMAIN S = 1..Len(S)
    BY LenProperties
  <1>3. x \in A
    BY ElementOfSeq, <1>2
  <1>4. PICK T : T = Append(R, x)
    OBVIOUS
  <1>5. /\ T \in Seq(A) /\ Len(T) = Len(R) + 1 /\ T[Len(R) + 1] = x
        /\ \A i \in 1..Len(R) : T[i] = R[i]
    BY <1>3, <1>4, AppendProperties
  <1>6. Len(T) <= Len(S) /\ \A i \in 1..Len(T) : T[i] = S[i]
    BY <1>1, <1>2, <1>5
  <1> QED
    BY <1>4, <1>5, <1>6, PrefixIs

LEMMA TextParts ==
    ASSUME NEW n
    PROVE  /\ Text(n) = [type |-> "PLAIN", parts |-> <<<<n, 1>>>>]
           /\ Html(n, 1) = [type |-> "HTML", parts |-> <<<<n, 1>>>>]
           /\ Html(n, 2) = [type |-> "HTML", parts |-> <<<<n, 1>>, <<n, 2>>>>]
  <1>1. 1..1 = {1} /\ 1..2 = {1, 2}
    OBVIOUS
  <1>2. [i \in 1..1 |-> <<n, i>>] = <<<<n, 1>>>>
    BY <1>1
  <1>3. [i \in 1..2 |-> <<n, i>>] = <<<<n, 1>>, <<n, 2>>>>
    BY <1>1
  <1> QED
    BY <1>2, <1>3 DEF Text, Html

LEMMA AppendTwo ==
    ASSUME NEW x, NEW y
    PROVE  Append(<<x>>, y) = <<x, y>>
  <1>1. PICK s, t : s = <<x>> /\ t = <<x, y>>
    OBVIOUS
  <1>2. PICK A : A = {x, y}
    OBVIOUS
  <1>3. x \in A /\ y \in A
    BY <1>2
  <1>4. s \in Seq(A) /\ Len(s) = 1 /\ s[1] = x
    BY <1>1, <1>3
  <1>5. t \in Seq(A) /\ Len(t) = 2 /\ t[1] = x /\ t[2] = y
    BY <1>1, <1>3
  <1>6. PICK u : u = Append(s, y)
    OBVIOUS
  <1>7. /\ u \in Seq(A) /\ Len(u) = Len(s) + 1
        /\ \A i \in 1..Len(s) : u[i] = s[i]
        /\ u[Len(s) + 1] = y
    BY <1>3, <1>4, <1>6, AppendProperties
  <1>8. \A i \in 1..2 : u[i] = t[i]
    BY <1>4, <1>5, <1>7
  <1>9. Len(u) = Len(t) /\ \A i \in 1..Len(u) : u[i] = t[i]
    BY <1>4, <1>5, <1>7, <1>8
  <1>10. u = t
    BY <1>5, <1>7, <1>9, SeqEqual
  <1> QED
    BY <1>1, <1>6, <1>10

\* recv_text and recv_data: what message m makes of conversation c and what was
\* handed to the client.
Takes(m, c, R, d, T) ==
    \/ m.type = "START" /\ ~c.multi /\ d = [c EXCEPT !.multi = TRUE] /\ T = R
    \/ m.type = "START" /\ c.multi /\ d = c /\ T = R
    \/ /\ m.type = "STOP" /\ c.multi /\ d = [c EXCEPT !.multi = FALSE, !.buf = <<>>]
       /\ T = Append(R, [type |-> c.mtype, parts |-> c.buf])
    \/ m.type = "STOP" /\ ~c.multi /\ d = c /\ T = R
    \/ m.type = "TEXT" /\ c.multi /\ d = [c EXCEPT !.buf = Append(@, m.part)] /\ T = R
    \/ /\ m.type = "HTML" /\ c.multi /\ T = R
       /\ d = [c EXCEPT !.buf = Append(@, m.part), !.mtype = "HTML"]
    \/ m.type = "TEXT" /\ ~c.multi /\ d = c
       /\ T = Append(R, [type |-> "PLAIN", parts |-> <<m.part>>])
    \/ m.type = "HTML" /\ ~c.multi /\ d = c
       /\ T = Append(R, [type |-> "HTML", parts |-> <<m.part>>])

LEMMA GoesSkip ==
    ASSUME NEW S, NEW id, NEW m, NEW p, NEW r, Goes(S, id, m, p, r), ~IsPiece(m, id)
    PROVE  r = p
  BY DEF Goes, IsPiece, Piece, Msg

LEMMA GoesPiece ==
    ASSUME NEW S \in Seq(ClientMsg), NEW R \in Seq(ClientMsg), NEW c \in Conv, NEW m,
           NEW p, NEW r, NEW d, NEW T, IsPiece(m, c.id),
           Goes(S, c.id, m, p, r), At(R, c, p), IsPrefix(R, S), Takes(m, c, R, d, T)
    PROVE  At(T, d, r) /\ IsPrefix(T, S)
  <1>1. PICK n : n = Len(R) + 1 /\ n \in Nat /\ p[1] = n
    BY LenProperties DEF At
  <1>2. c.multi \in BOOLEAN /\ c = [state |-> c.state, feats |-> c.feats, chan |-> c.chan,
           id |-> c.id, multi |-> c.multi, buf |-> c.buf, mtype |-> c.mtype]
    BY DEF Conv
  <1>3. CASE n \in DOMAIN S /\ S[n] = Text(n) /\ p[2] = 1 /\ m = Piece("TEXT", c.id, <<n, 1>>)
             /\ r = <<n + 1, 1>>
    <2>1. ~c.multi /\ c.buf = <<>>
      BY <1>3 DEF At
    <2>2. d = c /\ T = Append(R, [type |-> "PLAIN", parts |-> <<m.part>>])
      BY <1>3, <2>1 DEF Takes, Piece
    <2>3. T = Append(R, S[n])
      BY <1>3, <2>2, TextParts DEF Piece
    <2>4. IsPrefix(T, S) /\ Len(T) = n
      BY <1>1, <1>3, <2>3, PrefixNext
    <2> QED
      BY <1>3, <2>1, <2>2, <2>4 DEF At
  <1>4. CASE n \in DOMAIN S /\ S[n] = Html(n, 1) /\ p[2] = 1 /\ m = Piece("HTML", c.id, <<n, 1>>)
             /\ r = <<n + 1, 1>>
    <2>1. ~c.multi /\ c.buf = <<>>
      BY <1>4 DEF At
    <2>2. d = c /\ T = Append(R, [type |-> "HTML", parts |-> <<m.part>>])
      BY <1>4, <2>1 DEF Takes, Piece
    <2>3. T = Append(R, S[n])
      BY <1>4, <2>2, TextParts DEF Piece
    <2>4. IsPrefix(T, S) /\ Len(T) = n
      BY <1>1, <1>4, <2>3, PrefixNext
    <2> QED
      BY <1>4, <2>1, <2>2, <2>4 DEF At
  <1>5. CASE p[2] = 1 /\ m = Msg("START", c.id) /\ r = <<n, 2>>
    <2>1. ~c.multi /\ c.buf = <<>>
      BY <1>5 DEF At
    <2>2. d = [c EXCEPT !.multi = TRUE] /\ T = R
      BY <1>5, <2>1 DEF Takes, Msg
    <2>3. d.multi /\ d.buf = <<>>
      BY <1>2, <2>1, <2>2
    <2> QED
      BY <1>1, <1>5, <2>2, <2>3 DEF At
  <1>6. CASE p[2] = 2 /\ m = Piece("HTML", c.id, <<n, 1>>) /\ r = <<n, 3>>
    <2>1. c.multi /\ c.buf = <<>>
      BY <1>6 DEF At
    <2>2. d = [c EXCEPT !.buf = Append(@, m.part), !.mtype = "HTML"] /\ T = R
      BY <1>6, <2>1 DEF Takes, Piece
    <2>3. d.multi /\ d.buf = <<<<n, 1>>>> /\ d.mtype = "HTML"
      BY <1>2, <1>6, <2>1, <2>2 DEF Piece
    <2> QED
      BY <1>1, <1>6, <2>2, <2>3 DEF At
  <1>7. CASE p[2] = 3 /\ m = Piece("HTML", c.id, <<n, 2>>) /\ r = <<n, 4>>
    <2>1. c.multi /\ c.buf = <<<<n, 1>>>>
      BY <1>1, <1>7 DEF At
    <2>2. d = [c EXCEPT !.buf = Append(@, m.part), !.mtype = "HTML"] /\ T = R
      BY <1>7, <2>1 DEF Takes, Piece
    <2>3. d.multi /\ d.buf = Append(c.buf, m.part) /\ d.mtype = "HTML"
      BY <1>2, <2>1, <2>2
    <2>4. m.part = <<n, 2>>
      BY <1>7 DEF Piece
    <2>5. d.buf = <<<<n, 1>>, <<n, 2>>>>
      BY <2>1, <2>3, <2>4, AppendTwo
    <2> QED
      BY <1>1, <1>7, <2>2, <2>3, <2>5 DEF At
  <1>8. CASE n \in DOMAIN S /\ S[n] = Html(n, 2) /\ p[2] = 4 /\ m = Msg("STOP", c.id)
             /\ r = <<n + 1, 1>>
    <2>1. c.multi /\ c.buf = <<<<n, 1>>, <<n, 2>>>> /\ c.mtype = "HTML"
      BY <1>1, <1>8 DEF At
    <2>2. /\ d = [c EXCEPT !.multi = FALSE, !.buf = <<>>]
          /\ T = Append(R, [type |-> c.mtype, parts |-> c.buf])
      BY <1>8, <2>1 DEF Takes, Msg
    <2>3. T = Append(R, S[n])
      BY <1>8, <2>1, <2>2, TextParts
    <2>4. IsPrefix(T, S) /\ Len(T) = n
      BY <1>1, <1>8, <2>3, PrefixNext
    <2>5. ~d.multi /\ d.buf = <<>>
      BY <1>2, <2>2
    <2> QED
      BY <1>8, <2>4, <2>5 DEF At
  <1> QED
    BY <1>1, <1>3, <1>4, <1>5, <1>6, <1>7, <1>8 DEF Goes

-----------------------------------------------------------------------------
(* What the reader of a queue gets to.                                     *)

LEMMA StreamAlike ==
    ASSUME NEW q, NEW S, NEW R, NEW c, NEW d, NEW w, NEW v, Stream(q, S, R, c, w),
           d.id = c.id, d.multi = c.multi, d.buf = c.buf, d.mtype = c.mtype, v => w
    PROVE  Stream(q, S, R, d, v)
  <1>1. \A p : At(R, c, p) => At(R, d, p)
    BY DEF At
  <1> QED
    BY <1>1 DEF Stream

\* A message is read: none of this channel's, or one that is taken.
LEMMA ReadsNext ==
    ASSUME NEW q \in Seq(Messages), q # <<>>, NEW S, NEW id, NEW f, Reads(f, q, S, id)
    PROVE  \E g : /\ Reads(g, Tail(q), S, id)
                  /\ g[1] = f[2] /\ Goes(S, id, q[1], f[1], f[2])
                  /\ g[Len(Tail(q)) + 1] = f[Len(q) + 1]
  <1>1. PICK t : t = Tail(q)
    OBVIOUS
  <1>2. /\ t \in Seq(Messages) /\ Shifted(t, q) /\ Len(t) = Len(q) - 1
        /\ Len(q) \in Nat \ {0} /\ 1 \in DOMAIN q
    BY <1>1, TailShifted
  <1>3. DOMAIN t = 1..Len(t)
    BY <1>2, LenProperties
  <1>4. PICK g : g = [i \in 1..(Len(t) + 1) |-> f[i + 1]]
    OBVIOUS
  <1>5. f \in [1..(Len(q) + 1) -> Nat \X (1..4)]
    BY DEF Reads
  <1>6. g \in [1..(Len(t) + 1) -> Nat \X (1..4)]
    BY <1>2, <1>4, <1>5
  <1>7. ASSUME NEW i \in DOMAIN t PROVE Goes(S, id, t[i], g[i], g[i + 1])
    <2>1. i + 1 \in DOMAIN q /\ t[i] = q[i + 1] /\ i \in Nat
      BY <1>2 DEF Shifted
    <2>2. g[i] = f[i + 1] /\ g[i + 1] = f[i + 1 + 1]
      BY <1>2, <1>3, <1>4, <2>1
    <2> QED
      BY <2>1, <2>2 DEF Reads
  <1>8. Reads(g, t, S, id)
    BY <1>6, <1>7 DEF Reads
  <1>9. g[1] = f[2] /\ g[Len(t) + 1] = f[Len(q) + 1]
    BY <1>2, <1>4
  <1>10. Goes(S, id, q[1], f[1], f[2])
    BY <1>2 DEF Reads
  <1> QED
    BY <1>1, <1>8, <1>9, <1>10

LEMMA StreamSkip ==
    ASSUME NEW q \in Seq(Messages), q # <<>>, NEW S, NEW R, NEW c, NEW w,
           Stream(q, S, R, c, w), ~IsPiece(q[1], c.id)
    PROVE  Stream(Tail(q), S, R, c, w)
  <1>1. PICK f : /\ Reads(f, q, S, c.id) /\ At(R, c, f[1])
                 /\ w => f[Len(q) + 1] = <<Len(S) + 1, 1>>
    BY DEF Stream
  <1>2. PICK g : /\ Reads(g, Tail(q), S, c.id)
                 /\ g[1] = f[2] /\ Goes(S, c.id, q[1], f[1], f[2])
                 /\ g[Len(Tail(q)) + 1] = f[Len(q) + 1]
    BY <1>1, ReadsNext
  <1>3. f[2] = f[1]
    BY <1>2, GoesSkip
  <1> QED
    BY <1>1, <1>2, <1>3 DEF Stream

LEMMA StreamTaken ==
    ASSUME NEW q \in Seq(Messages), q # <<>>, NEW S \in Seq(ClientMsg),
           NEW R \in Seq(ClientMsg), NEW c \in Conv, NEW w, NEW d, NEW T,
           Stream(q, S, R, c, w), IsPiece(q[1], c.id), IsPrefix(R, S),
           Takes(q[1], c, R, d, T), d.id = c.id
    PROVE  Stream(Tail(q), S, T, d, w) /\ IsPrefix(T, S)
  <1>1. PICK f : /\ Reads(f, q, S, c.id) /\ At(R, c, f[1])
                 /\ w => f[Len(q) + 1] = <<Len(S) + 1, 1>>
    BY DEF Stream
  <1>2. PICK g : /\ Reads(g, Tail(q), S, c.id)
                 /\ g[1] = f[2] /\ Goes(S, c.id, q[1], f[1], f[2])
                 /\ g[Len(Tail(q)) + 1] = f[Len(q) + 1]
    BY <1>1, ReadsNext
  <1>3. At(T, d, f[2]) /\ IsPrefix(T, S)
    BY <1>1, <1>2, GoesPiece
  <1> QED
    BY <1>1, <1>2, <1>3 DEF Stream

\* Messages are written: g goes on where f ends.
LEMMA ReadsMore ==
    ASSUME NEW q \in Seq(Messages), NEW ms \in Seq(Messages), NEW S, NEW S2, NEW id, NEW f,
           Reads(f, q, S, id), \A m, p, r : Goes(S, id, m, p, r) => Goes(S2, id, m, p, r),
           NEW h, Reads(h, ms, S2, id), h[1] = f[Len(q) + 1]
    PROVE  \E g : /\ Reads(g, q \o ms, S2, id) /\ g[1] = f[1]
                  /\ g[Len(q \o ms) + 1] = h[Len(ms) + 1]
  <1>1. PICK t : t = q \o ms
    OBVIOUS
  <1>2. t \in Seq(Messages) /\ Behind(t, q, ms)
    BY <1>1, ConcatBehind
  <1>3. /\ DOMAIN q = 1..Len(q) /\ DOMAIN ms = 1..Len(ms) /\ DOMAIN t = 1..Len(t)
        /\ Len(q) \in Nat /\ Len(ms) \in Nat /\ Len(t) = Len(q) + Len(ms)
    BY <1>2, LenProperties DEF Behind
  <1>4. PICK g : g = [i \in 1..(Len(t) + 1) |-> IF i <= Len(q) THEN f[i] ELSE h[i - Len(q)]]
    OBVIOUS
  <1>5. /\ f \in [1..(Len(q) + 1) -> Nat \X (1..4)]
        /\ h \in [1..(Len(ms) + 1) -> Nat \X (1..4)]
    BY DEF Reads
  <1>6. g \in [1..(Len(t) + 1) -> Nat \X (1..4)]
    <2>1. ASSUME NEW i \in 1..(Len(t) + 1) PROVE g[i] \in Nat \X (1..4)
      <3>1. CASE i <= Len(q)
        BY <1>3, <1>4, <1>5, <3>1
      <3>2. CASE i > Len(q)
        <4>1. i - Len(q) \in 1..(Len(ms) + 1) /\ g[i] = h[i - Len(q)]
          BY <1>3, <1>4, <3>2
        <4> QED
          BY <1>5, <4>1
      <3> QED
        BY <1>3, <3>1, <3>2
    <2> QED
      BY <1>4, <2>1
  <1>7. ASSUME NEW i \in 1..(Len(q) + 1) PROVE g[i] = f[i]
    <2>1. CASE i <= Len(q)
      BY <1>3, <1>4, <2>1
    <2>2. CASE i = Len(q) + 1
      <3>1. i - Len(q) = 1 /\ i \in 1..(Len(t) + 1) /\ ~(i <= Len(q))
        BY <1>3, <2>2
      <3>2. g[i] = h[i - Len(q)]
        BY <1>4, <3>1
      <3> QED
        BY <2>2, <3>1, <3>2
    <2> QED
      BY <1>3, <2>1, <2>2
  <1>8. ASSUME NEW j \in 1..(Len(ms) + 1) PROVE g[Len(q) + j] = h[j]
    <2>1. Len(q) + j \in 1..(Len(t) + 1) /\ ~(Len(q) + j <= Len(q)) /\ Len(q) + j - Len(q) = j
      BY <1>3
    <2> QED
      BY <1>4, <2>1
  <1>9. ASSUME NEW i \in DOMAIN t PROVE Goes(S2, id, t[i], g[i], g[i + 1])
    <2>1. CASE i \in DOMAIN q
      <3>1. i \in 1..(Len(q) + 1) /\ i + 1 \in 1..(Len(q) + 1)
        BY <1>3, <2>1
      <3>2. g[i] = f[i] /\ g[i + 1] = f[i + 1] /\ t[i] = q[i]
        BY <1>2, <1>7, <2>1, <3>1 DEF Behind
      <3>3. Goes(S, id, q[i], f[i], f[i + 1])
        BY <2>1 DEF Reads
      <3> QED
        BY <3>2, <3>3
    <2>2. ASSUME NEW j \in DOMAIN ms, i = Len(q) + j PROVE Goes(S2, id, t[i], g[i], g[i + 1])
      <3>1. j \in 1..(Len(ms) + 1) /\ j + 1 \in 1..(Len(ms) + 1) /\ i + 1 = Len(q) + (j + 1)
        BY <1>3, <2>2
      <3>2. g[i] = h[j] /\ g[i + 1] = h[j + 1] /\ t[i] = ms[j]
        BY <1>2, <1>8, <2>2, <3>1 DEF Behind
      <3>3. Goes(S2, id, ms[j], h[j], h[j + 1])
        BY <2>2 DEF Reads
      <3> QED
        BY <3>2, <3>3
    <2> QED
      BY <1>2, <2>1, <2>2 DEF Behind
  <1>10. Reads(g, t, S2, id)
    BY <1>6, <1>9 DEF Reads
  <1>11. g[1] = f[1] /\ g[Len(t) + 1] = h[Len(ms) + 1]
    <2>1. 1 \in 1..(Len(q) + 1) /\ Len(ms) + 1 \in 1..(Len(ms) + 1)
          /\ Len(t) + 1 = Len(q) + (Len(ms) + 1)
      BY <1>3
    <2> QED
      BY <1>7, <1>8, <2>1
  <1> QED
    BY <1>1, <1>10, <1>11

\* Nothing of channel id is in ms.
LEMMA ReadsNothing ==
    ASSUME NEW ms \in Seq(Messages), NEW S, NEW id, NEW p \in Nat \X (1..4),
           \A i \in DOMAIN ms : ~IsPiece(ms[i], id)
    PROVE  \E h : Reads(h, ms, S, id) /\ h[1] = p /\ h[Len(ms) + 1] = p
  <1>1. PICK h : h = [i \in 1..(Len(ms) + 1) |-> p]
    OBVIOUS
  <1>2. Len(ms) \in Nat /\ DOMAIN ms = 1..Len(ms)
    BY LenProperties
  <1>3. ASSUME NEW i \in DOMAIN ms PROVE Goes(S, id, ms[i], h[i], h[i + 1])
    <2>1. h[i] = p /\ h[i + 1] = p
      BY <1>1, <1>2
    <2> QED
      BY <2>1 DEF Goes
  <1>4. h[1] = p /\ h[Len(ms) + 1] = p
    BY <1>1, <1>2
  <1>5. h \in [1..(Len(ms) + 1) -> Nat \X (1..4)]
    BY <1>1
  <1>6. Reads(h, ms, S, id)
    BY <1>3, <1>5 DEF Reads
  <1> QED
    BY <1>4, <1>6

LEMMA StreamWritten ==
    ASSUME NEW q \in Seq(Messages), NEW ms \in Seq(Messages), NEW S, NEW R, NEW c, NEW w,
           Stream(q, S, R, c, w), \A i \in DOMAIN ms : ~IsPiece(ms[i], c.id)
    PROVE  Stream(q \o ms, S, R, c, w)
  <1>1. PICK f : /\ Reads(f, q, S, c.id) /\ At(R, c, f[1])
                 /\ w => f[Len(q) + 1] = <<Len(S) + 1, 1>>
    BY DEF Stream
  <1>2. f[Len(q) + 1] \in Nat \X (1..4)
    <2>1. Len(q) + 1 \in 1..(Len(q) + 1)
      BY LenProperties
    <2> QED
      BY <1>1, <2>1 DEF Reads
  <1>3. PICK p : p = f[Len(q) + 1]
    OBVIOUS
  <1>5. PICK h : Reads(h, ms, S, c.id) /\ h[1] = p /\ h[Len(ms) + 1] = p
    BY <1>2, <1>3, ReadsNothing
  <1>4. PICK g : /\ Reads(g, q \o ms, S, c.id) /\ g[1] = f[1]
                 /\ g[Len(q \o ms) + 1] = h[Len(ms) + 1]
    BY <1>1, <1>3, <1>5, ReadsMore
  <1> QED
    BY <1>1, <1>3, <1>4, <1>5 DEF Stream

\* More is sent than is read.
LEMMA GoesMore ==
    ASSUME NEW S \in Seq(ClientMsg), NEW x \in ClientMsg, NEW id, NEW m, NEW p, NEW r,
           Goes(S, id, m, p, r)
    PROVE  Goes(Append(S, x), id, m, p, r)
  <1>1. PICK T : T = Append(S, x)
    OBVIOUS
  <1>2. \A n \in DOMAIN S : n \in DOMAIN T /\ T[n] = S[n]
    <2>1. /\ T \in Seq(ClientMsg) /\ Len(T) = Len(S) + 1
          /\ \A i \in 1..Len(S) : T[i] = S[i]
      BY <1>1, AppendProperties
    <2>2. DOMAIN S = 1..Len(S) /\ DOMAIN T = 1..Len(T) /\ Len(S) \in Nat
      BY <2>1, LenProperties
    <2> QED
      BY <2>1, <2>2
  <1>3. Goes(T, id, m, p, r)
    BY <1>2 DEF Goes
  <1> QED
    BY <1>1, <1>3

LEMMA StreamMore ==
    ASSUME NEW q \in Seq(Messages), NEW S \in Seq(ClientMsg), NEW x \in ClientMsg, NEW R,
           NEW c, NEW w, Stream(q, S, R, c, w)
    PROVE  Stream(q, Append(S, x), R, c, FALSE)
  <1>1. PICK f : Reads(f, q, S, c.id) /\ At(R, c, f[1])
    BY DEF Stream
  <1>2. Reads(f, q, Append(S, x), c.id)
    BY <1>1, GoesMore DEF Reads
  <1> QED
    BY <1>1, <1>2 DEF Stream

\* The pieces of a message.
Single(s, m) == s = <<m>>
LEMMA ReadsOne ==
    ASSUME NEW T, NEW id, NEW m, NEW s, Single(s, m), NEW p \in Nat \X (1..4),
           NEW r \in Nat \X (1..4), Goes(T, id, m, p, r)
    PROVE  \E h : Reads(h, s, T, id) /\ h[1] = p /\ h[Len(s) + 1] = r
  <1>2. PICK h : h = [i \in 1..2 |-> IF i = 1 THEN p ELSE r]
    OBVIOUS
  <1>3. h[1] = p /\ h[2] = r
    BY <1>2
  <1>5. Len(s) = 1 /\ DOMAIN s = {1} /\ s[1] = m
    BY DEF Single
  <1>7. h \in [1..(Len(s) + 1) -> Nat \X (1..4)]
    BY <1>2, <1>5
  <1>9. \A i \in DOMAIN s : Goes(T, id, s[i], h[i], h[i + 1])
    BY <1>3, <1>5
  <1> QED
    BY <1>3, <1>5, <1>7, <1>9 DEF Reads

LEMMA ReadsSegments ==
    ASSUME NEW T, NEW id, NEW n \in Nat, n \in DOMAIN T, T[n] = Html(n, 2),
           Segmented(id, n) \in Seq(Messages)
    PROVE  \E h : /\ Reads(h, Segmented(id, n), T, id) /\ h[1] = <<n, 1>>
                  /\ h[Len(Segmented(id, n)) + 1] = <<n + 1, 1>>
  <1>1. PICK p1, p2, p3, p4, p5 :
          p1 = <<n, 1>> /\ p2 = <<n, 2>> /\ p3 = <<n, 3>> /\ p4 = <<n, 4>> /\ p5 = <<n + 1, 1>>
    OBVIOUS
  <1>2. PICK h : h = [i \in 1..5 |-> IF i = 1 THEN p1 ELSE IF i = 2 THEN p2 ELSE
                                     IF i = 3 THEN p3 ELSE IF i = 4 THEN p4 ELSE p5]
    OBVIOUS
  <1>3. h[1] = p1 /\ h[2] = p2 /\ h[3] = p3 /\ h[4] = p4 /\ h[5] = p5
    BY <1>2
  <1>4. PICK w, x, y, z : /\ w = Msg("START", id) /\ x = Piece("HTML", id, <<n, 1>>)
                          /\ y = Piece("HTML", id, <<n, 2>>) /\ z = Msg("STOP", id)
    OBVIOUS
  <1>5. PICK s : s = Segmented(id, n)
    OBVIOUS
  <1>6. s = <<w, x, y, z>>
    BY <1>4, <1>5 DEF Segmented
  <1>7. Len(s) = 4 /\ DOMAIN s = 1..4 /\ s[1] = w /\ s[2] = x /\ s[3] = y /\ s[4] = z
    BY <1>6
  <1>8. /\ p1 \in Nat \X (1..4) /\ p2 \in Nat \X (1..4) /\ p3 \in Nat \X (1..4)
        /\ p4 \in Nat \X (1..4) /\ p5 \in Nat \X (1..4)
    BY <1>1
  <1>9. h \in [1..(Len(s) + 1) -> Nat \X (1..4)]
    <2>1. Len(s) + 1 = 5
      BY <1>7
    <2> QED
      BY <1>2, <1>8, <2>1
  <1>10. /\ Goes(T, id, w, p1, p2)
    <2>1. p1[1] = n /\ p1[2] = 1
      BY <1>1
    <2> QED
      BY <1>1, <1>4, <2>1 DEF Goes
  <1>11. Goes(T, id, x, p2, p3)
    <2>1. p2[1] = n /\ p2[2] = 2
      BY <1>1
    <2> QED
      BY <1>1, <1>4, <2>1 DEF Goes
  <1>12. Goes(T, id, y, p3, p4)
    <2>1. p3[1] = n /\ p3[2] = 3
      BY <1>1
    <2> QED
      BY <1>1, <1>4, <2>1 DEF Goes
  <1>13. Goes(T, id, z, p4, p5)
    <2>1. p4[1] = n /\ p4[2] = 4
      BY <1>1
    <2> QED
      BY <1>1, <1>4, <2>1 DEF Goes
  <1>14. ASSUME NEW i \in DOMAIN s PROVE Goes(T, id, s[i], h[i], h[i + 1])
    <2>1. i = 1 \/ i = 2 \/ i = 3 \/ i = 4
      BY <1>7
    <2> QED
      BY <1>3, <1>7, <1>10, <1>11, <1>12, <1>13, <2>1
  <1>15. Reads(h, s, T, id)
    BY <1>9, <1>14 DEF Reads
  <1>16. h[1] = p1 /\ h[Len(s) + 1] = p5
    BY <1>3, <1>7
  <1> QED
    BY <1>1, <1>5, <1>15, <1>16

\* A message is sent on, in the pieces it is made of.
Sending(x, n, id, ms) ==
    \/ x = Text(n) /\ ms = <<Piece("TEXT", id, <<n, 1>>)>>
    \/ x = Html(n, 1) /\ ms = <<Piece("HTML", id, <<n, 1>>)>>
    \/ x = Html(n, 2) /\ ms = Segmented(id, n)

LEMMA StreamSent ==
    ASSUME NEW q \in Seq(Messages), NEW ms \in Seq(Messages), NEW S \in Seq(ClientMsg),
           NEW x \in ClientMsg, NEW R, NEW c, Stream(q, S, R, c, TRUE),
           Sending(x, Len(S) + 1, c.id, ms)
    PROVE  Stream(q \o ms, Append(S, x), R, c, TRUE)
  <1>1. PICK f : /\ Reads(f, q, S, c.id) /\ At(R, c, f[1])
                 /\ f[Len(q) + 1] = <<Len(S) + 1, 1>>
    BY DEF Stream
  <1>2. PICK T, n : T = Append(S, x) /\ n = Len(S) + 1
    OBVIOUS
  <1>3. T \in Seq(ClientMsg) /\ Len(T) = n /\ n \in Nat /\ n \in DOMAIN T /\ T[n] = x
    <2>1. T \in Seq(ClientMsg) /\ Len(T) = Len(S) + 1 /\ T[Len(S) + 1] = x
      BY <1>2, AppendProperties
    <2>2. Len(S) \in Nat /\ DOMAIN T = 1..Len(T)
      BY <2>1, LenProperties
    <2> QED
      BY <1>2, <2>1, <2>2
  <1>8. PICK id : id = c.id
    OBVIOUS
  <1>4. \E h : /\ Reads(h, ms, T, id) /\ h[1] = <<n, 1>>
               /\ h[Len(ms) + 1] = <<n + 1, 1>>
    <2>1. CASE x = Html(n, 2) /\ ms = Segmented(id, n)
      <3>1. T[n] = Html(n, 2) /\ Segmented(id, n) \in Seq(Messages)
        BY <1>3, <2>1
      <3>2. \E h : /\ Reads(h, Segmented(id, n), T, id) /\ h[1] = <<n, 1>>
                   /\ h[Len(Segmented(id, n)) + 1] = <<n + 1, 1>>
        BY <1>3, <3>1, ReadsSegments
      <3> QED
        BY <2>1, <3>2
    <2>2. ASSUME NEW m, \/ x = Text(n) /\ m = Piece("TEXT", id, <<n, 1>>)
                        \/ x = Html(n, 1) /\ m = Piece("HTML", id, <<n, 1>>),
                 ms = <<m>>
          PROVE  \E h : /\ Reads(h, ms, T, id) /\ h[1] = <<n, 1>>
                        /\ h[Len(ms) + 1] = <<n + 1, 1>>
      <3>1. PICK p, r : p = <<n, 1>> /\ r = <<n + 1, 1>>
        OBVIOUS
      <3>2. p[1] = n /\ p[2] = 1
        BY <3>1
      <3>3. Goes(T, id, m, p, r)
        BY <1>3, <2>2, <3>1, <3>2 DEF Goes
      <3>4. p \in Nat \X (1..4) /\ r \in Nat \X (1..4)
        BY <1>3, <3>1
      <3>5. Single(ms, m)
        BY <2>2 DEF Single
      <3>6. \E h : Reads(h, ms, T, id) /\ h[1] = p /\ h[Len(ms) + 1] = r
        BY <3>3, <3>4, <3>5, ReadsOne
      <3> QED
        BY <3>1, <3>6
    <2>3. \/ x = Html(n, 2) /\ ms = Segmented(id, n)
          \/ x = Text(n) /\ ms = <<Piece("TEXT", id, <<n, 1>>)>>
          \/ x = Html(n, 1) /\ ms = <<Piece("HTML", id, <<n, 1>>)>>
      BY <1>2, <1>8 DEF Sending
    <2> QED
      BY <2>1, <2>2, <2>3
  <1>9. PICK h : /\ Reads(h, ms, T, id) /\ h[1] = <<n, 1>>
                 /\ h[Len(ms) + 1] = <<n + 1, 1>>
    BY <1>4
  <1>5. \A m, p, r : Goes(S, id, m, p, r) => Goes(T, id, m, p, r)
    BY <1>2, GoesMore
  <1>10. Reads(f, q, S, id) /\ h[1] = f[Len(q) + 1]
    BY <1>1, <1>2, <1>8, <1>9
  <1>6. PICK g : /\ Reads(g, q \o ms, T, id) /\ g[1] = f[1]
                 /\ g[Len(q \o ms) + 1] = h[Len(ms) + 1]
    BY <1>5, <1>9, <1>10, ReadsMore
  <1>7. Stream(q \o ms, T, R, c, TRUE)
    BY <1>1, <1>3, <1>6, <1>8, <1>9 DEF Stream
  <1> QED
    BY <1>2, <1>7

\* The end of q is lost.
LEMMA StreamLost ==
    ASSUME NEW q \in Seq(Messages), NEW n \in 0..Len(q), NEW S, NEW R, NEW c, NEW w,
           Stream(q, S, R, c, w)
    PROVE  Stream(SubSeq(q, 1, n), S, R, c, FALSE)
  <1>1. PICK f : Reads(f, q, S, c.id) /\ At(R, c, f[1])
    BY DEF Stream
  <1>2. Len(q) \in Nat /\ DOMAIN q = 1..Len(q) /\ n \in Nat
    BY LenProperties
  <1>3. PICK s : s = SubSeq(q, 1, n)
    OBVIOUS
  <1>4. s \in Seq(Messages) /\ Len(s) = n /\ \A i \in 1..n : s[i] = q[i]
    <2>1. 1 \in 1..(Len(q) + 1)
      BY <1>2
    <2> QED
      BY <1>2, <1>3, <2>1, SubSeqProperties
  <1>5. DOMAIN s = 1..n
    BY <1>4, LenProperties
  <1>6. PICK g : g = [i \in 1..(n + 1) |-> f[i]]
    OBVIOUS
  <1>7. g \in [1..(Len(s) + 1) -> Nat \X (1..4)]
    BY <1>1, <1>2, <1>4, <1>6 DEF Reads
  <1>8. ASSUME NEW i \in DOMAIN s PROVE Goes(S, c.id, s[i], g[i], g[i + 1])
    <2>1. i \in DOMAIN q /\ s[i] = q[i] /\ g[i] = f[i] /\ g[i + 1] = f[i + 1]
      BY <1>2, <1>4, <1>5, <1>6
    <2> QED
      BY <1>1, <2>1 DEF Reads
  <1>9. g[1] = f[1]
    BY <1>2, <1>6
  <1>10. Reads(g, s, S, c.id)
    BY <1>7, <1>8 DEF Reads
  <1> QED
    BY <1>1, <1>3, <1>9, <1>10 DEF Stream

\* Nothing was sent yet.
LEMMA StreamStart ==
    ASSUME NEW q \in Seq(Messages), NEW c, NEW w, \A i \in DOMAIN q : ~IsPiece(q[i], c.id),
           ~c.multi, c.buf = <<>>
    PROVE  Stream(q, <<>>, <<>>, c, w)
  <1>1. PICK p : p = <<1, 1>>
    OBVIOUS
  <1>2. p \in Nat \X (1..4) /\ p[1] = 1 /\ p[2] = 1
    BY <1>1
  <1>3. PICK S : S = <<>>
    OBVIOUS
  <1>6. PICK id : id = c.id
    OBVIOUS
  <1>7. \A i \in DOMAIN q : ~IsPiece(q[i], id)
    BY <1>6
  <1>4. PICK h : Reads(h, q, S, id) /\ h[1] = p /\ h[Len(q) + 1] = p
    <2>1. p \in Nat \X (1..4)
      BY <1>2
    <2> QED
      BY <1>7, <2>1, ReadsNothing
  <1>5. Len(S) = 0 /\ At(S, c, p)
    BY <1>2, <1>3 DEF At
  <1> QED
    BY <1>1, <1>3, <1>4, <1>5, <1>6 DEF Stream

-----------------------------------------------------------------------------
(* What a step does to what is said on a channel, from c, d to x, y.       *)

Continues(c, d, k, b, x, y, l, v) ==
    ~l /\ x.id = y.id /\ x.id # 0 =>
        /\ ~k /\ c.id = x.id /\ d.id = y.id
        /\ x.chan => c.chan /\ x.multi = c.multi /\ x.buf = c.buf /\ x.mtype = c.mtype
        /\ v /\ y.chan => b /\ d.chan

LEMMA FlowStill ==
    ASSUME NEW q, NEW S, NEW R, NEW c, NEW d, NEW k, NEW b, NEW x, NEW y, NEW l, NEW v,
           Flow(q, S, R, c, d, k, b), Continues(c, d, k, b, x, y, l, v)
    PROVE  Flow(q, S, R, x, y, l, v)
  <1> SUFFICES ASSUME ~l, x.id = y.id, x.id # 0
               PROVE  IsPrefix(R, S) /\ (x.chan => Stream(q, S, R, x, v /\ y.chan))
    BY DEF Flow
  <1>1. /\ ~k /\ c.id = x.id /\ d.id = y.id
        /\ x.chan => c.chan /\ x.multi = c.multi /\ x.buf = c.buf /\ x.mtype = c.mtype
        /\ v /\ y.chan => b /\ d.chan
    BY DEF Continues
  <1>2. IsPrefix(R, S) /\ (c.chan => Stream(q, S, R, c, b /\ d.chan))
    BY <1>1 DEF Flow
  <1>3. ASSUME x.chan PROVE Stream(q, S, R, x, v /\ y.chan)
    <2>1. Stream(q, S, R, c, b /\ d.chan)
      BY <1>1, <1>2, <1>3
    <2>2. /\ x.id = c.id /\ x.multi = c.multi /\ x.buf = c.buf /\ x.mtype = c.mtype
          /\ v /\ y.chan => b /\ d.chan
      BY <1>1, <1>3
    <2> QED
      BY <2>1, <2>2, StreamAlike
  <1> QED
    BY <1>2, <1>3

LEMMA FlowVoid ==
    ASSUME NEW q, NEW S, NEW R, NEW x, NEW y, NEW l, NEW v, l \/ x.id # y.id \/ x.id = 0
    PROVE  Flow(q, S, R, x, y, l, v)
  BY DEF Flow

LEMMA FlowSkip ==
    ASSUME NEW q \in Seq(Messages), q # <<>>, NEW S, NEW R, NEW c, NEW d, NEW k, NEW b,
           Flow(q, S, R, c, d, k, b), c.chan => ~IsPiece(q[1], c.id)
    PROVE  Flow(Tail(q), S, R, c, d, k, b)
  <1> SUFFICES ASSUME ~k, c.id = d.id, c.id # 0
               PROVE  IsPrefix(R, S) /\ (c.chan => Stream(Tail(q), S, R, c, b /\ d.chan))
    BY DEF Flow
  <1>1. IsPrefix(R, S) /\ (c.chan => Stream(q, S, R, c, b /\ d.chan))
    BY DEF Flow
  <1> QED
    BY <1>1, StreamSkip

LEMMA FlowTaken ==
    ASSUME NEW q \in Seq(Messages), q # <<>>, NEW S \in Seq(ClientMsg),
           NEW R \in Seq(ClientMsg), NEW c \in Conv, NEW d, NEW k, NEW b, NEW x, NEW T,
           Flow(q, S, R, c, d, k, b), c.chan, IsPiece(q[1], c.id), Takes(q[1], c, R, x, T),
           x.id = c.id
    PROVE  Flow(Tail(q), S, T, x, d, k, b)
  <1> SUFFICES ASSUME ~k, x.id = d.id, x.id # 0
               PROVE  IsPrefix(T, S) /\ Stream(Tail(q), S, T, x, b /\ d.chan)
    BY DEF Flow
  <1>1. IsPrefix(R, S) /\ Stream(q, S, R, c, b /\ d.chan)
    BY DEF Flow
  <1> QED
    BY <1>1, StreamTaken

LEMMA FlowWritten ==
    ASSUME NEW q \in Seq(Messages), NEW ms \in Seq(Messages), NEW S, NEW R, NEW c, NEW d,
           NEW k, NEW b, Flow(q, S, R, c, d, k, b),
           \A i \in DOMAIN ms : ~IsPiece(ms[i], c.id)
    PROVE  Flow(q \o ms, S, R, c, d, k, b)
  <1> SUFFICES ASSUME ~k, c.id = d.id, c.id # 0
               PROVE  IsPrefix(R, S) /\ (c.chan => Stream(q \o ms, S, R, c, b /\ d.chan))
    BY DEF Flow
  <1>1. IsPrefix(R, S) /\ (c.chan => Stream(q, S, R, c, b /\ d.chan))
    BY DEF Flow
  <1> QED
    BY <1>1, StreamWritten

LEMMA FlowSent ==
    ASSUME NEW q \in Seq(Messages), NEW ms \in Seq(Messages), NEW S \in Seq(ClientMsg),
           NEW z \in ClientMsg, NEW R \in Seq(ClientMsg), NEW c, NEW d, NEW k,
           Flow(q, S, R, c, d, k, TRUE), d.chan, Sending(z, Len(S) + 1, d.id, ms)
    PROVE  Flow(q \o ms, Append(S, z), R, c, d, k, TRUE)
  <1> SUFFICES ASSUME ~k, c.id = d.id, c.id # 0
               PROVE  /\ IsPrefix(R, Append(S, z))
                      /\ c.chan => Stream(q \o ms, Append(S, z), R, c, TRUE /\ d.chan)
    BY DEF Flow
  <1>1. IsPrefix(R, S) /\ (c.chan => Stream(q, S, R, c, TRUE /\ d.chan))
    BY DEF Flow
  <1>2. IsPrefix(R, Append(S, z))
    BY <1>1, PrefixMore
  <1>3. ASSUME c.chan PROVE Stream(q \o ms, Append(S, z), R, c, TRUE)
    <2>1. Stream(q, S, R, c, TRUE)
      <3>1. (TRUE /\ d.chan) = TRUE \/ ~d.chan
        OBVIOUS
      <3>2. TRUE => (TRUE /\ d.chan)
        OBVIOUS
      <3> QED
        BY <1>1, <1>3, <3>2, StreamAlike
    <2>2. Sending(z, Len(S) + 1, c.id, ms)
      OBVIOUS
    <2> QED
      BY <2>1, <2>2, StreamSent
  <1>4. c.chan => Stream(q \o ms, Append(S, z), R, c, TRUE /\ d.chan)
    BY <1>3, StreamAlike
  <1> QED
    BY <1>2, <1>4

LEMMA FlowUnheard ==
    ASSUME NEW q \in Seq(Messages), NEW S \in Seq(ClientMsg),
           NEW z \in ClientMsg, NEW R \in Seq(ClientMsg), NEW c, NEW d, NEW k, NEW b,
           Flow(q, S, R, c, d, k, b), ~b
    PROVE  Flow(q, Append(S, z), R, c, d, k, b)
  <1> SUFFICES ASSUME ~k, c.id = d.id, c.id # 0
               PROVE  /\ IsPrefix(R, Append(S, z))
                      /\ c.chan => Stream(q, Append(S, z), R, c, b /\ d.chan)
    BY DEF Flow
  <1>1. IsPrefix(R, S) /\ (c.chan => Stream(q, S, R, c, b /\ d.chan))
    BY DEF Flow
  <1>2. IsPrefix(R, Append(S, z))
    BY <1>1, PrefixMore
  <1>3. c.chan => Stream(q, Append(S, z), R, c, FALSE)
    BY <1>1, StreamMore
  <1>4. c.chan => Stream(q, Append(S, z), R, c, b /\ d.chan)
    BY <1>3, StreamAlike
  <1> QED
    BY <1>2, <1>4

LEMMA FlowLost ==
    ASSUME NEW q \in Seq(Messages), NEW n \in 0..Len(q), NEW S, NEW R, NEW c, NEW d, NEW k,
           NEW b, NEW v, Flow(q, S, R, c, d, k, b), ~v
    PROVE  Flow(SubSeq(q, 1, n), S, R, c, d, k, v)
  <1> SUFFICES ASSUME ~k, c.id = d.id, c.id # 0
               PROVE  /\ IsPrefix(R, S)
                      /\ c.chan => Stream(SubSeq(q, 1, n), S, R, c, v /\ d.chan)
    BY DEF Flow
  <1>1. IsPrefix(R, S) /\ (c.chan => Stream(q, S, R, c, b /\ d.chan))
    BY DEF Flow
  <1>2. c.chan => Stream(SubSeq(q, 1, n), S, R, c, FALSE)
    BY <1>1, StreamLost
  <1>3. c.chan => Stream(SubSeq(q, 1, n), S, R, c, v /\ d.chan)
    BY <1>2, StreamAlike
  <1> QED
    BY <1>1, <1>3

LEMMA FlowStart ==
    ASSUME NEW q \in Seq(Messages), NEW c, NEW d, NEW k, NEW b,
           ~k /\ c.id = d.id /\ c.id # 0 =>
              /\ \A m \in Range(q) : ~IsPiece(m, c.id)
              /\ c.chan => ~c.multi /\ c.buf = <<>>
    PROVE  Flow(q, <<>>, <<>>, c, d, k, b)
  <1> SUFFICES ASSUME ~k, c.id = d.id, c.id # 0
               PROVE  /\ IsPrefix(<<>>, <<>>)
                      /\ c.chan => Stream(q, <<>>, <<>>, c, b /\ d.chan)
    BY DEF Flow
  <1>1. <<>> \in Seq(ClientMsg) /\ Len(<<>>) = 0
    BY NoMessage
  <1>2. IsPrefix(<<>>, <<>>)
    BY <1>1 DEF IsPrefix
  <1>3. \A i \in DOMAIN q : ~IsPiece(q[i], c.id)
    BY Messages0
  <1> QED
    BY <1>2, <1>3, StreamStart

-----------------------------------------------------------------------------
(* The invariant, end by end.                                              *)

LEMMA TwoEnds ==
    /\ Ends = {"a", "b"} /\ "a" \in Ends /\ "b" \in Ends
    /\ Other("a") = "b" /\ Other("b") = "a"
    /\ \A e \in Ends : Other(e) \in Ends /\ (e = "a" \/ e = "b")
  BY DEF Ends, Other

LEMMA Typing ==
    ASSUME TypeOK
    PROVE  /\ conv["a"] \in Conv /\ conv["b"] \in Conv
           /\ net["a"] \in Seq(Messages) /\ net["b"] \in Seq(Messages)
           /\ sent["a"] \in Seq(ClientMsg) /\ sent["b"] \in Seq(ClientMsg)
           /\ rcvd["a"] \in Seq(ClientMsg) /\ rcvd["b"] \in Seq(ClientMsg)
           /\ feat["a"] \in Features /\ feat["b"] \in Features
           /\ nchan \in Nat /\ nchan <= MaxChans /\ MaxChans \in Nat
           /\ owed["a"] \in Int /\ owed["b"] \in Int /\ adrift \in Nat
  <1>1. MaxChans \in Nat
    BY BoundsAssumption
  <1> QED
    BY <1>1 DEF TypeOK, Ends

LEMMA ConvFields ==
    ASSUME NEW c \in Conv
    PROVE  /\ c.id \in Nat /\ c.id <= MaxChans
           /\ c = [state |-> c.state, feats |-> c.feats, chan |-> c.chan, id |-> c.id,
                   multi |-> c.multi, buf |-> c.buf, mtype |-> c.mtype]
           /\ c.state \in {"CLOSED", "PENDING", "OPEN"} /\ c.feats \in Features \cup {"none"}
           /\ c.id \in 0..MaxChans /\ c.buf \in Seq(Part) /\ c.mtype \in {"PLAIN", "HTML"}
  <1>1. MaxChans \in Nat
    BY BoundsAssumption
  <1> QED
    BY <1>1 DEF Conv

LEMMA ConvBooleans ==
    ASSUME NEW c \in Conv
    PROVE  c.chan \in BOOLEAN /\ c.multi \in BOOLEAN
  BY DEF Conv

LEMMA MessageIds ==
    ASSUME NEW q \in Seq(Messages)
    PROVE  /\ \A m \in Range(q) : m \in Messages /\ m.id \in 1..MaxChans /\ m.id \in Nat
           /\ Numbered(q)
  <1>1. MaxChans \in Nat
    BY BoundsAssumption
  <1>2. \A m \in Messages : m.id \in 1..MaxChans
    BY DEF Messages
  <1>3. ASSUME NEW i \in DOMAIN q PROVE q[i] \in Messages
    BY LenProperties, ElementOfSeq
  <1>4. ASSUME NEW m \in Range(q) PROVE m \in Messages
    <2>1. PICK i \in DOMAIN q : m = q[i]
      BY Messages0
    <2> QED
      BY <1>3, <2>1
  <1>5. \A m \in Messages : m.id \in Nat
    BY <1>1, <1>2
  <1> QED
    BY <1>2, <1>3, <1>4, <1>5 DEF Numbered

\* The invariant in terms of what the ends have, but for the types and the
\* calls owed.
Good(ua, ub, la, lb, ca, cb, n, qa, qb) ==
    /\ Shape(ca, ua, la, qa, n) /\ Shape(cb, ub, lb, qb, n)
    /\ cb.state # "PENDING"
    /\ ca.state = "PENDING" /\ ca.chan /\ ca.feats # "PLAIN" => n < MaxChans
    /\ Lined(qb, cb)
    /\ ub => Ending(qb, cb, Held(ca, ua, qa))
Said(ca, cb, qa, qb, sa, sb, ra, rb, k, both) ==
    /\ Answered(Range(qa), Range(qb), ca)
    /\ Agreed(Range(qb), ca, cb)
    /\ Quiet(Range(qa), Range(qb), ca, sa, ra, k)
    /\ Clean(ca, k) /\ Clean(cb, k)
    /\ Flow(qa, sb, ra, ca, cb, k, both)
    /\ Flow(qb, sa, rb, cb, ca, k, both)

Fine(ua, ub, la, lb, ca, cb, n, qa, qb, sa, sb, ra, rb, k) ==
    /\ Good(ua, ub, la, lb, ca, cb, n, qa, qb)
    /\ Said(ca, cb, qa, qb, sa, sb, ra, rb, k, ua /\ ub)

\* What is assumed of a step, where it is about truth values.
Yes(b) == b
No(b) == ~b
Follows(j, n) == j = n + 1
Keeps(l, k, x) == ~l => ~k /\ ~x.multi
Ceases(x, c) == x.state = "OPEN" => c.state = "OPEN" /\ x.id = c.id /\ x.feats = "PLAIN"
Rests(x) == x.state # "PENDING" /\ (x.state = "OPEN" => x.feats = "PLAIN")
Leaves(v, u, t) == ~v => ~u /\ t = <<>>
Gets(u, t, q, ms) == (u => t = q \o ms) /\ (~u => t = q)
MayGet(u, t, q, e) == t = q \/ (t = q \o <<e>> /\ u)
MayLose(u, s, q) == s = q \/ (s = <<>> /\ ~u)
Told(s, q, u, h, id) ==
    \/ s = q /\ (~u \/ h = {})
    \/ u /\ \E e \in Messages : s = q \o <<e>> /\ IsEnd(e, id)
NewOffer(x, j, o, e) ==
    /\ x.chan /\ x.id = j /\ x.state = "PENDING"
    /\ x.feats # "PLAIN" => j < MaxChans
    /\ ~x.multi => x.buf = <<>>
    /\ IsOffer(o) /\ o.id = j /\ o.feats = x.feats
    /\ IsEnd(e, j)
Offered(u, t, rest, s, q, o, e) ==
    (u => t = rest /\ s = q \o <<o>>) /\ (~u => t = rest \o <<e>> /\ s = q)

LEMMA Known ==
    ASSUME Inv
    PROVE  /\ TypeOK /\ ClosedOncePerTry
           /\ Good(up["a"], up["b"], live["a"], live["b"], conv["a"], conv["b"], nchan,
                   net["a"], net["b"])
           /\ Said(conv["a"], conv["b"], net["a"], net["b"], sent["a"], sent["b"],
                   rcvd["a"], rcvd["b"], cut, up["a"] /\ up["b"])
  <1>1. TypeOK /\ ClosedOncePerTry /\ Shaped /\ Ordered /\ Spoken /\ Flowing
    BY DEF Inv
  <1>2. /\ Shape(conv["a"], up["a"], live["a"], net["a"], nchan)
        /\ Shape(conv["b"], up["b"], live["b"], net["b"], nchan)
        /\ conv["b"].state # "PENDING"
        /\ conv["a"].state = "PENDING" /\ conv["a"].chan /\ conv["a"].feats # "PLAIN" =>
              nchan < MaxChans
    BY <1>1, TwoEnds DEF Shaped
  <1>3. Clean(conv["a"], cut) /\ Clean(conv["b"], cut)
    BY <1>1, TwoEnds DEF Spoken
  <1>4. /\ Flow(net["a"], sent["b"], rcvd["a"], conv["a"], conv["b"], cut, up["a"] /\ up["b"])
        /\ Flow(net["b"], sent["a"], rcvd["b"], conv["b"], conv["a"], cut, up["a"] /\ up["b"])
    BY <1>1, TwoEnds DEF Flowing
  <1>5. /\ Answered(Range(net["a"]), Range(net["b"]), conv["a"])
        /\ Agreed(Range(net["b"]), conv["a"], conv["b"])
        /\ Quiet(Range(net["a"]), Range(net["b"]), conv["a"], sent["a"], rcvd["a"], cut)
    BY <1>1 DEF Spoken
  <1>6. Said(conv["a"], conv["b"], net["a"], net["b"], sent["a"], sent["b"],
             rcvd["a"], rcvd["b"], cut, up["a"] /\ up["b"])
    BY <1>3, <1>4, <1>5 DEF Said
  <1>7. Good(up["a"], up["b"], live["a"], live["b"], conv["a"], conv["b"], nchan,
             net["a"], net["b"])
    BY <1>1, <1>2 DEF Ordered, Good
  <1> QED
    BY <1>1, <1>6, <1>7

LEMMA InvNext ==
    ASSUME TypeOK', ClosedOncePerTry',
           Good(up'["a"], up'["b"], live'["a"], live'["b"], conv'["a"], conv'["b"], nchan',
                net'["a"], net'["b"]),
           Said(conv'["a"], conv'["b"], net'["a"], net'["b"], sent'["a"], sent'["b"],
                rcvd'["a"], rcvd'["b"], cut', up'["a"] /\ up'["b"])
    PROVE  Inv'
  <1>1. Shaped'
    BY TwoEnds DEF Good, Shaped
  <1>2. Ordered'
    BY DEF Good, Ordered
  <1>3. Spoken'
    BY TwoEnds DEF Said, Spoken
  <1>4. Flowing'
    BY TwoEnds DEF Said, Flowing
  <1> QED
    BY <1>1, <1>2, <1>3, <1>4 DEF Inv

-----------------------------------------------------------------------------
(* The steps, by what they do to the two ends.                             *)

\* An end reads a message that is not of its channel.
LEMMA DropA ==
    ASSUME NEW ua, NEW ub, NEW la, NEW lb, NEW ca \in Conv, NEW cb \in Conv, NEW n \in Nat,
           NEW qa \in Seq(Messages), NEW qb \in Seq(Messages), NEW sa, NEW sb, NEW ra, NEW rb,
           NEW k, Fine(ua, ub, la, lb, ca, cb, n, qa, qb, sa, sb, ra, rb, k),
           qa # <<>>, ~(ca.chan /\ ca.id = qa[1].id)
    PROVE  Fine(ua, ub, la, lb, ca, cb, n, Tail(qa), qb, sa, sb, ra, rb, k)
  <1> USE DEF Fine
  <1>1. PICK t : t = Tail(qa)
    OBVIOUS
  <1>2. t \in Seq(Messages) /\ Range(qa) = {qa[1]} \cup Range(t)
    BY <1>1, TailShifted, ShiftedRange
  <1>3. Shape(ca, ua, la, t, n)
    BY <1>2 DEF Good, Shape
  <1>4. Held(ca, ua, qa) \subseteq Held(ca, ua, t)
    BY <1>2, HeldStill
  <1>5. ub => Ending(qb, cb, Held(ca, ua, t))
    BY <1>4, EndingMore DEF Good
  <1>6. Good(ua, ub, la, lb, ca, cb, n, t, qb)
    BY <1>3, <1>5 DEF Good
  <1>7. Answered(Range(t), Range(qb), ca)
    BY <1>2, AnsweredStill DEF Said
  <1>8. Quiet(Range(t), Range(qb), ca, sa, ra, k)
    BY <1>2 DEF Said, Quiet
  <1>9. Flow(t, sb, ra, ca, cb, k, ua /\ ub)
    <2>1. ca.chan => ~IsPiece(qa[1], ca.id)
      BY DEF IsPiece
    <2>2. Flow(qa, sb, ra, ca, cb, k, ua /\ ub)
      BY DEF Said
    <2> QED
      BY <1>1, <2>1, <2>2, FlowSkip
  <1>10. Said(ca, cb, t, qb, sa, sb, ra, rb, k, ua /\ ub)
    BY <1>7, <1>8, <1>9 DEF Said
  <1> QED
    BY <1>1, <1>6, <1>10

LEMMA DropB ==
    ASSUME NEW ua, NEW ub, NEW la, NEW lb, NEW ca \in Conv, NEW cb \in Conv, NEW n \in Nat,
           NEW qa \in Seq(Messages), NEW qb \in Seq(Messages), NEW sa, NEW sb, NEW ra, NEW rb,
           NEW k, Fine(ua, ub, la, lb, ca, cb, n, qa, qb, sa, sb, ra, rb, k),
           qb # <<>>, ~(cb.chan /\ cb.id = qb[1].id)
    PROVE  Fine(ua, ub, la, lb, ca, cb, n, qa, Tail(qb), sa, sb, ra, rb, k)
  <1> USE DEF Fine
  <1>1. PICK t : t = Tail(qb)
    OBVIOUS
  <1>2. t \in Seq(Messages) /\ Shifted(t, qb) /\ Range(qb) = {qb[1]} \cup Range(t)
    BY <1>1, TailShifted, ShiftedRange
  <1>3. Shape(cb, ub, lb, t, n)
    BY <1>2 DEF Good, Shape
  <1>4. cb.id \in Nat /\ Numbered(qb)
    BY ConvFields, MessageIds
  <1>5. Turns(cb, cb, qb[1])
    BY <1>3, <1>4 DEF Turns, IsEnd
  <1>6. Lined(t, cb)
    BY <1>2, <1>4, <1>5, LinedRead DEF Good
  <1>7. ub => Ending(t, cb, Held(ca, ua, qa))
    BY <1>2, <1>5, EndingRead DEF Good
  <1>8. Good(ua, ub, la, lb, ca, cb, n, qa, t)
    BY <1>2, <1>3, <1>6, <1>7 DEF Good
  <1>9. Answered(Range(qa), Range(t), ca)
    BY <1>2, AnsweredStill DEF Said
  <1>10. Agreed(Range(t), ca, cb)
    BY <1>2, AgreedStill DEF Said
  <1>11. Quiet(Range(qa), Range(t), ca, sa, ra, k)
    BY <1>2 DEF Said, Quiet
  <1>12. Flow(t, sa, rb, cb, ca, k, ua /\ ub)
    <2>1. cb.chan => ~IsPiece(qb[1], cb.id)
      BY DEF IsPiece
    <2>2. Flow(qb, sa, rb, cb, ca, k, ua /\ ub)
      BY DEF Said
    <2> QED
      BY <1>1, <2>1, <2>2, FlowSkip
  <1>13. Said(ca, cb, qa, t, sa, sb, ra, rb, k, ua /\ ub)
    BY <1>9, <1>10, <1>11, <1>12 DEF Said
  <1> QED
    BY <1>1, <1>8, <1>13

\* What recv leaves alone.
LEMMA TakesLeaves ==
    ASSUME NEW m, NEW c \in Conv, NEW R, NEW x, NEW T, Takes(m, c, R, x, T)
    PROVE  /\ x.id = c.id /\ x.state = c.state /\ x.chan = c.chan /\ x.feats = c.feats
           /\ (~c.multi => c.buf = <<>>) => (~x.multi => x.buf = <<>>)
  <1>1. c = [state |-> c.state, feats |-> c.feats, chan |-> c.chan, id |-> c.id,
             multi |-> c.multi, buf |-> c.buf, mtype |-> c.mtype]
    BY ConvFields
  <1> QED
    BY <1>1 DEF Takes

\* An end reads a piece of a message.
LEMMA TakeA ==
    ASSUME NEW ua, NEW ub, NEW la, NEW lb, NEW ca \in Conv, NEW cb \in Conv, NEW n \in Nat,
           NEW qa \in Seq(Messages), NEW qb \in Seq(Messages), NEW sa, NEW rb,
           NEW sb \in Seq(ClientMsg), NEW ra \in Seq(ClientMsg),
           NEW k, Fine(ua, ub, la, lb, ca, cb, n, qa, qb, sa, sb, ra, rb, k),
           qa # <<>>, ca.chan, IsPiece(qa[1], ca.id), NEW x, NEW T, Takes(qa[1], ca, ra, x, T)
    PROVE  Fine(ua, ub, la, lb, x, cb, n, Tail(qa), qb, sa, sb, T, rb, k)
  <1> USE DEF Fine
  <1>1. PICK t : t = Tail(qa)
    OBVIOUS
  <1>2. t \in Seq(Messages) /\ Range(qa) = {qa[1]} \cup Range(t)
    BY <1>1, TailShifted, ShiftedRange
  <1>3. /\ x.id = ca.id /\ x.state = ca.state /\ x.chan = ca.chan /\ x.feats = ca.feats
        /\ (~ca.multi => ca.buf = <<>>) => (~x.multi => x.buf = <<>>)
    BY TakesLeaves
  <1>4. Shape(x, ua, la, t, n)
    BY <1>2, <1>3 DEF Good, Shape
  <1>5. Held(ca, ua, qa) \subseteq Held(x, ua, t)
    BY <1>2, <1>3, HeldStill
  <1>6. ub => Ending(qb, cb, Held(x, ua, t))
    BY <1>5, EndingMore DEF Good
  <1>7. Good(ua, ub, la, lb, x, cb, n, t, qb)
    BY <1>3, <1>4, <1>6 DEF Good
  <1>8. Answered(Range(t), Range(qb), x)
    BY <1>2, <1>3, AnsweredStill DEF Said
  <1>9. Agreed(Range(qb), x, cb)
    BY <1>3 DEF Said, Agreed
  <1>10. Quiet(Range(t), Range(qb), x, sa, T, k)
    <2>1. Quiet(Range(qa), Range(qb), ca, sa, ra, k) /\ qa[1] \in Range(qa)
      BY <1>2 DEF Said
    <2>2. \A m \in Range(qb) : IsOffer(m) => m.id # x.id
      BY <1>3, <2>1 DEF Quiet
    <2> QED
      BY <1>2, <2>1, <2>2 DEF Quiet
  <1>11. Clean(x, k)
    BY <1>3 DEF Said, Clean
  <1>12. Flow(t, sb, T, x, cb, k, ua /\ ub)
    <2>1. Flow(qa, sb, ra, ca, cb, k, ua /\ ub)
      BY DEF Said
    <2> QED
      BY <1>1, <1>3, <2>1, FlowTaken
  <1>13. Flow(qb, sa, rb, cb, x, k, ua /\ ub)
    <2>1. Flow(qb, sa, rb, cb, ca, k, ua /\ ub)
      BY DEF Said
    <2>2. Continues(cb, ca, k, ua /\ ub, cb, x, k, ua /\ ub)
      BY <1>3 DEF Continues
    <2> QED
      BY <2>1, <2>2, FlowStill
  <1>14. Said(x, cb, t, qb, sa, sb, T, rb, k, ua /\ ub)
    BY <1>8, <1>9, <1>10, <1>11, <1>12, <1>13 DEF Said
  <1> QED
    BY <1>1, <1>7, <1>14

LEMMA TakeB ==
    ASSUME NEW ua, NEW ub, NEW la, NEW lb, NEW ca \in Conv, NEW cb \in Conv, NEW n \in Nat,
           NEW qa \in Seq(Messages), NEW qb \in Seq(Messages), NEW sb, NEW ra,
           NEW sa \in Seq(ClientMsg), NEW rb \in Seq(ClientMsg),
           NEW k, Fine(ua, ub, la, lb, ca, cb, n, qa, qb, sa, sb, ra, rb, k),
           qb # <<>>, cb.chan, IsPiece(qb[1], cb.id), NEW x, NEW T, Takes(qb[1], cb, rb, x, T)
    PROVE  Fine(ua, ub, la, lb, ca, x, n, qa, Tail(qb), sa, sb, ra, T, k)
  <1> USE DEF Fine
  <1>1. PICK t : t = Tail(qb)
    OBVIOUS
  <1>2. t \in Seq(Messages) /\ Shifted(t, qb) /\ Range(qb) = {qb[1]} \cup Range(t)
    BY <1>1, TailShifted, ShiftedRange
  <1>3. /\ x.id = cb.id /\ x.state = cb.state /\ x.chan = cb.chan /\ x.feats = cb.feats
        /\ (~cb.multi => cb.buf = <<>>) => (~x.multi => x.buf = <<>>)
    BY TakesLeaves
  <1>4. Shape(x, ub, lb, t, n)
    BY <1>2, <1>3 DEF Good, Shape
  <1>5. cb.id \in Nat /\ Numbered(qb)
    BY ConvFields, MessageIds
  <1>6. Turns(cb, x, qb[1])
    BY <1>3, <1>5 DEF Turns, IsEnd, IsPiece
  <1>7. Lined(t, x)
    BY <1>2, <1>3, <1>5, <1>6, LinedRead DEF Good
  <1>8. ub => Ending(t, x, Held(ca, ua, qa))
    BY <1>2, <1>6, EndingRead DEF Good
  <1>9. Good(ua, ub, la, lb, ca, x, n, qa, t)
    BY <1>2, <1>3, <1>4, <1>7, <1>8 DEF Good
  <1>10. Answered(Range(qa), Range(t), ca)
    BY <1>2, AnsweredStill DEF Said
  <1>11. Agreed(Range(t), ca, x)
    BY <1>2, <1>3 DEF Said, Agreed
  <1>12. Quiet(Range(qa), Range(t), ca, sa, ra, k)
    BY <1>2 DEF Said, Quiet
  <1>13. Clean(x, k)
    BY <1>3 DEF Said, Clean
  <1>14. Flow(t, sa, T, x, ca, k, ua /\ ub)
    <2>1. Flow(qb, sa, rb, cb, ca, k, ua /\ ub)
      BY DEF Said
    <2> QED
      BY <1>1, <1>3, <2>1, FlowTaken
  <1>15. Flow(qa, sb, ra, ca, x, k, ua /\ ub)
    <2>1. Flow(qa, sb, ra, ca, cb, k, ua /\ ub)
      BY DEF Said
    <2>2. Continues(ca, cb, k, ua /\ ub, ca, x, k, ua /\ ub)
      BY <1>3 DEF Continues
    <2> QED
      BY <2>1, <2>2, FlowStill
  <1>16. Said(ca, x, qa, t, sa, sb, ra, T, k, ua /\ ub)
    BY <1>10, <1>11, <1>12, <1>13, <1>14, <1>15 DEF Said
  <1> QED
    BY <1>1, <1>9, <1>16

\* Conversation x is c but for its state.
SameTalk(c, x) ==
    /\ x.id = c.id /\ x.chan = c.chan /\ x.feats = c.feats
    /\ x.multi = c.multi /\ x.buf = c.buf /\ x.mtype = c.mtype

\* recv_channelAccept.
LEMMA AcceptedA ==
    ASSUME NEW ua, NEW ub, NEW la, NEW lb, NEW ca \in Conv, NEW cb \in Conv, NEW n \in Nat,
           NEW qa \in Seq(Messages), NEW qb \in Seq(Messages), NEW sa, NEW sb, NEW ra, NEW rb,
           NEW k, Fine(ua, ub, la, lb, ca, cb, n, qa, qb, sa, sb, ra, rb, k),
           qa # <<>>, ca.chan, Accepts(qa[1], ca.id),
           NEW x, SameTalk(ca, x), x.state = "OPEN"
    PROVE  Fine(ua, ub, la, lb, x, cb, n, Tail(qa), qb, sa, sb, ra, rb, k)
  <1> USE DEF Fine
  <1>1. PICK t : t = Tail(qa)
    OBVIOUS
  <1>2. t \in Seq(Messages) /\ Range(qa) = {qa[1]} \cup Range(t)
    BY <1>1, TailShifted, ShiftedRange
  <1>3. /\ x.id = ca.id /\ x.state = "OPEN" /\ x.chan = ca.chan /\ x.feats = ca.feats
        /\ x.multi = ca.multi /\ x.buf = ca.buf /\ x.mtype = ca.mtype
    BY DEF SameTalk
  <1>4. Shape(x, ua, la, t, n)
    BY <1>2, <1>3 DEF Good, Shape
  <1>5. Held(ca, ua, qa) \subseteq Held(x, ua, t)
    BY <1>2, <1>3, HeldStill
  <1>6. ub => Ending(qb, cb, Held(x, ua, t))
    BY <1>5, EndingMore DEF Good
  <1>7. Good(ua, ub, la, lb, x, cb, n, t, qb)
    BY <1>3, <1>4, <1>6 DEF Good
  <1>8. Answered(Range(t), Range(qb), x)
    <2>1. Accepts(qa[1], x.id) /\ qa[1] \in Range(qa) /\ Range(t) \subseteq Range(qa)
      BY <1>2, <1>3
    <2> QED
      BY <2>1, AnsweredAccepted DEF Said
  <1>9. Agreed(Range(qb), x, cb)
    BY <1>3 DEF Said, Agreed
  <1>10. Quiet(Range(t), Range(qb), x, sa, ra, k)
    BY <1>2, <1>3 DEF Said, Quiet
  <1>11. Clean(x, k)
    BY <1>3 DEF Said, Clean
  <1>12. Flow(t, sb, ra, x, cb, k, ua /\ ub)
    <2>1. Flow(qa, sb, ra, ca, cb, k, ua /\ ub) /\ ~IsPiece(qa[1], ca.id)
      BY DEF Said, IsPiece, Accepts
    <2>2. Flow(t, sb, ra, ca, cb, k, ua /\ ub)
      BY <1>1, <2>1, FlowSkip
    <2>3. Continues(ca, cb, k, ua /\ ub, x, cb, k, ua /\ ub)
      BY <1>3 DEF Continues
    <2> QED
      BY <2>2, <2>3, FlowStill
  <1>13. Flow(qb, sa, rb, cb, x, k, ua /\ ub)
    <2>1. Flow(qb, sa, rb, cb, ca, k, ua /\ ub)
      BY DEF Said
    <2>2. Continues(cb, ca, k, ua /\ ub, cb, x, k, ua /\ ub)
      BY <1>3 DEF Continues
    <2> QED
      BY <2>1, <2>2, FlowStill
  <1>14. Said(x, cb, t, qb, sa, sb, ra, rb, k, ua /\ ub)
    BY <1>8, <1>9, <1>10, <1>11, <1>12, <1>13 DEF Said
  <1> QED
    BY <1>1, <1>7, <1>14

\* Messages put behind a queue: what can be said of all of them.
LEMMA Put ==
    ASSUME NEW q \in Seq(Messages), NEW ms \in Seq(Messages), NEW t, t = q \o ms
    PROVE  /\ t \in Seq(Messages) /\ Behind(t, q, ms)
           /\ Range(t) = Range(q) \cup Range(ms)
           /\ \A j \in DOMAIN ms : ms[j] \in Range(ms)
  <1>1. t \in Seq(Messages) /\ Behind(t, q, ms)
    BY ConcatBehind
  <1> QED
    BY <1>1, BehindRange, Messages0

LEMMA NotPieces ==
    ASSUME NEW m, NEW id
    PROVE  /\ IsPiece(m, id) => /\ ~IsOffer(m) /\ m.type # "ACCEPT" /\ m.id = id
                                /\ \A x : ~IsEnd(m, x)
           /\ IsOffer(m) \/ m.type = "DESTROY" \/ m.type = "ACCEPT" => \A x : ~IsPiece(m, x)
  BY DEF IsPiece, IsOffer, IsEnd

\* mwConversation_send.
LEMMA SendA ==
    ASSUME NEW ua, NEW ub, NEW la, NEW lb, NEW ca \in Conv, NEW cb \in Conv, NEW n \in Nat,
           NEW qa \in Seq(Messages), NEW qb \in Seq(Messages),
           NEW sa \in Seq(ClientMsg), NEW sb \in Seq(ClientMsg),
           NEW ra \in Seq(ClientMsg), NEW rb \in Seq(ClientMsg),
           NEW k, Fine(ua, ub, la, lb, ca, cb, n, qa, qb, sa, sb, ra, rb, k),
           ca.chan, ca.state = "OPEN", Yes(ua), NEW z \in ClientMsg, NEW ms \in Seq(Messages),
           Sending(z, Len(sa) + 1, ca.id, ms), \A m \in Range(ms) : IsPiece(m, ca.id),
           NEW t, Gets(ub, t, qb, ms)
    PROVE  Fine(ua, ub, la, lb, ca, cb, n, qa, t, Append(sa, z), sb, ra, rb, k)
  <1> USE DEF Fine, Yes, Gets
  <1>1. Flow(qb, sa, rb, cb, ca, k, ua /\ ub)
    BY DEF Said
  <1>2. \A m \in Range(qb) : IsOffer(m) => m.id # ca.id
    BY DEF Said, Answered, Open
  <1>3. CASE ~ub
    <2>1. t = qb
      BY <1>3
    <2>2. Quiet(Range(qa), Range(qb), ca, Append(sa, z), ra, k)
      BY <1>2 DEF Said, Quiet
    <2>3. Flow(qb, Append(sa, z), rb, cb, ca, k, ua /\ ub)
      BY <1>1, <1>3, FlowUnheard
    <2> QED
      BY <2>1, <2>2, <2>3 DEF Said
  <1>4. CASE ub
    <2>1. /\ t \in Seq(Messages) /\ Behind(t, qb, ms) /\ Range(t) = Range(qb) \cup Range(ms)
          /\ \A j \in DOMAIN ms : ms[j] \in Range(ms)
      BY <1>4, Put
    <2>2. \A m \in Range(ms) : ~IsOffer(m) /\ m.type # "ACCEPT" /\ m.id = ca.id
      BY NotPieces
    <2>3. Shape(cb, ub, lb, t, n)
      BY <1>4, <2>1, <2>2 DEF Good, Shape
    <2>4. \A j \in DOMAIN ms : ~IsOffer(ms[j])
      BY <2>1, <2>2
    <2>5. Lined(t, cb)
      BY <2>1, <2>4, LinedWritten DEF Good
    <2>6. Ending(t, cb, Held(ca, ua, qa))
      BY <1>4, <2>1, <2>4, EndingWritten DEF Good
    <2>7. Good(ua, ub, la, lb, ca, cb, n, qa, t)
      BY <2>1, <2>2, <2>3, <2>5, <2>6 DEF Good
    <2>8. Answered(Range(qa), Range(t), ca)
      BY <2>1, <2>2, AnsweredStill DEF Said
    <2>9. Agreed(Range(t), ca, cb)
      BY <2>1, <2>2, AgreedStill DEF Said
    <2>10. Quiet(Range(qa), Range(t), ca, Append(sa, z), ra, k)
      <3>1. \A m \in Range(qb) : IsOffer(m) => \A x \in Range(ms) : ~IsPiece(x, m.id)
        BY <1>2, <2>2 DEF IsPiece
      <3> QED
        BY <1>2, <2>1, <2>2, <3>1 DEF Said, Quiet
    <2>11. Flow(t, Append(sa, z), rb, cb, ca, k, ua /\ ub)
      <3>1. Continues(cb, ca, k, ua /\ ub, cb, ca, k, TRUE)
        BY <1>4 DEF Continues
      <3>2. Flow(qb, sa, rb, cb, ca, k, TRUE)
        BY <1>1, <3>1, FlowStill
      <3>3. Flow(qb \o ms, Append(sa, z), rb, cb, ca, k, TRUE)
        BY <3>2, FlowSent
      <3>4. Continues(cb, ca, k, TRUE, cb, ca, k, ua /\ ub)
        BY DEF Continues
      <3>5. Flow(qb \o ms, Append(sa, z), rb, cb, ca, k, ua /\ ub)
        BY <3>3, <3>4, FlowStill
      <3> QED
        BY <1>4, <3>5
    <2>12. Said(ca, cb, qa, t, Append(sa, z), sb, ra, rb, k, ua /\ ub)
      BY <2>8, <2>9, <2>10, <2>11 DEF Said
    <2> QED
      BY <2>7, <2>12
  <1> QED
    BY <1>3, <1>4

LEMMA OffersAhead ==
    ASSUME NEW q, NEW c, Lined(q, c)
    PROVE  \A m \in Range(q) : IsOffer(m) => c.id < m.id
  BY Messages0 DEF Lined

LEMMA SendB ==
    ASSUME NEW ua, NEW ub, NEW la, NEW lb, NEW ca \in Conv, NEW cb \in Conv, NEW n \in Nat,
           NEW qa \in Seq(Messages), NEW qb \in Seq(Messages),
           NEW sa \in Seq(ClientMsg), NEW sb \in Seq(ClientMsg),
           NEW ra \in Seq(ClientMsg), NEW rb \in Seq(ClientMsg),
           NEW k, Fine(ua, ub, la, lb, ca, cb, n, qa, qb, sa, sb, ra, rb, k),
           cb.chan, cb.state = "OPEN", Yes(ub), NEW z \in ClientMsg, NEW ms \in Seq(Messages),
           Sending(z, Len(sb) + 1, cb.id, ms), \A m \in Range(ms) : IsPiece(m, cb.id),
           NEW t, Gets(ua, t, qa, ms)
    PROVE  Fine(ua, ub, la, lb, ca, cb, n, t, qb, sa, Append(sb, z), ra, rb, k)
  <1> USE DEF Fine, Yes, Gets
  <1>1. Flow(qa, sb, ra, ca, cb, k, ua /\ ub)
    BY DEF Said
  <1>2. \A m \in Range(qb) : IsOffer(m) => m.id # cb.id
    <2>1. cb.id \in Nat /\ \A m \in Range(qb) : IsOffer(m) => cb.id < m.id
      BY ConvFields, OffersAhead DEF Good
    <2>2. \A m \in Range(qb) : m.id \in Nat
      BY MessageIds
    <2> QED
      BY <2>1, <2>2
  <1>3. CASE ~ua
    <2>1. t = qa
      BY <1>3
    <2>3. Flow(qa, Append(sb, z), ra, ca, cb, k, ua /\ ub)
      BY <1>1, <1>3, FlowUnheard
    <2> QED
      BY <2>1, <2>3 DEF Said
  <1>4. CASE ua
    <2>1. /\ t \in Seq(Messages) /\ Behind(t, qa, ms) /\ Range(t) = Range(qa) \cup Range(ms)
          /\ \A j \in DOMAIN ms : ms[j] \in Range(ms)
      BY <1>4, Put
    <2>2. \A m \in Range(ms) : /\ ~IsOffer(m) /\ m.type # "ACCEPT" /\ m.id = cb.id
                               /\ ~IsEnd(m, ca.id)
      BY NotPieces
    <2>3. Shape(ca, ua, la, t, n)
      BY <1>4, <2>1, <2>2 DEF Good, Shape
    <2>4. Held(ca, ua, qa) \subseteq Held(ca, ua, t)
      BY <2>1, <2>2, HeldStill
    <2>5. Ending(qb, cb, Held(ca, ua, t))
      BY <2>4, EndingMore DEF Good
    <2>6. Good(ua, ub, la, lb, ca, cb, n, t, qb)
      BY <2>3, <2>5 DEF Good
    <2>7. Answered(Range(t), Range(qb), ca)
      BY <2>1, <2>2, AnsweredStill DEF Said
    <2>8. Quiet(Range(t), Range(qb), ca, sa, ra, k)
      <3>1. \A m \in Range(qb) : IsOffer(m) => \A x \in Range(ms) : ~IsPiece(x, m.id)
        BY <1>2, <2>2 DEF IsPiece
      <3> QED
        BY <2>1, <3>1 DEF Said, Quiet
    <2>9. Flow(t, Append(sb, z), ra, ca, cb, k, ua /\ ub)
      <3>1. Continues(ca, cb, k, ua /\ ub, ca, cb, k, TRUE)
        BY <1>4 DEF Continues
      <3>2. Flow(qa, sb, ra, ca, cb, k, TRUE)
        BY <1>1, <3>1, FlowStill
      <3>3. Flow(qa \o ms, Append(sb, z), ra, ca, cb, k, TRUE)
        BY <3>2, FlowSent
      <3>4. Continues(ca, cb, k, TRUE, ca, cb, k, ua /\ ub)
        BY DEF Continues
      <3>5. Flow(qa \o ms, Append(sb, z), ra, ca, cb, k, ua /\ ub)
        BY <3>3, <3>4, FlowStill
      <3> QED
        BY <1>4, <3>5
    <2>10. Said(ca, cb, t, qb, sa, Append(sb, z), ra, rb, k, ua /\ ub)
      BY <2>7, <2>8, <2>9 DEF Said
    <2> QED
      BY <2>6, <2>10
  <1> QED
    BY <1>3, <1>4

\* convo_create_chan: a channel is offered.
LEMMA OfferA ==
    ASSUME NEW ua, NEW ub, NEW la, NEW lb, NEW ca \in Conv, NEW cb \in Conv, NEW n \in Nat,
           NEW qa \in Seq(Messages), NEW qb \in Seq(Messages),
           NEW sa \in Seq(ClientMsg), NEW sb \in Seq(ClientMsg),
           NEW ra \in Seq(ClientMsg), NEW rb \in Seq(ClientMsg),
           NEW k, Fine(ua, ub, la, lb, ca, cb, n, qa, qb, sa, sb, ra, rb, k),
           Yes(ua), Yes(la), NEW rest \in Seq(Messages), Range(rest) \subseteq Range(qa),
           Held(ca, ua, qa) = {}, NEW j, Follows(j, n), NEW l, NEW x, Keeps(l, k, x),
           NEW o \in Messages, NEW e \in Messages, NewOffer(x, j, o, e), NEW t, NEW s,
           Offered(ub, t, rest, s, qb, o, e)
    PROVE  Fine(ua, ub, la, lb, x, cb, j, t, s, <<>>, sb, <<>>, rb, l)
  <1> USE DEF Fine, Yes, Keeps, Offered, Follows, NewOffer
  <1>1. /\ \A m \in Range(qa) : m.id \in Nat /\ m.id <= n
        /\ \A m \in Range(qb) : m.id \in Nat /\ m.id <= n
        /\ cb.id \in Nat /\ cb.id <= n
    BY MessageIds, ConvFields DEF Good, Shape
  <1>2. n + 1 \in Nat /\ n + 1 # 0 /\ \A i \in Nat : i <= n => i # n + 1 /\ i <= n + 1 /\ i < n + 1
    OBVIOUS
  <1>3. /\ t \in Seq(Messages) /\ s \in Seq(Messages)
        /\ \A m \in Range(t) : m \in Range(qa) \/ (~ub /\ m = e)
        /\ \A m \in Range(s) : m \in Range(qb) \/ (ub /\ m = o)
    <2>1. /\ <<o>> \in Seq(Messages) /\ Range(<<o>>) = {o}
          /\ <<e>> \in Seq(Messages) /\ Range(<<e>>) = {e}
      BY OneMessage
    <2>2. CASE ub
      <3>1. s \in Seq(Messages) /\ Range(s) = Range(qb) \cup Range(<<o>>)
        BY <2>1, <2>2, Put
      <3> QED
        BY <2>1, <2>2, <3>1
    <2>3. CASE ~ub
      <3>1. t \in Seq(Messages) /\ Range(t) = Range(rest) \cup Range(<<e>>)
        BY <2>1, <2>3, Put
      <3> QED
        BY <2>1, <2>3, <3>1
    <2> QED
      BY <2>2, <2>3
  <1>4. Shape(x, ua, la, t, n + 1)
    <2>1. \A m \in Range(t) : m.id <= n + 1
      BY <1>1, <1>2, <1>3 DEF IsEnd
    <2> QED
      BY <1>2, <2>1 DEF Shape
  <1>5. Shape(cb, ub, lb, s, n + 1)
    <2>1. \A m \in Range(s) : m.id <= n + 1
      <3>1. o.id <= n + 1
        BY <1>2
      <3>2. \A m \in Range(qb) : m.id <= n + 1
        BY <1>1, <1>2
      <3> QED
        BY <1>3, <3>1, <3>2
    <2> QED
      BY <1>1, <1>2, <2>1 DEF Good, Shape
  <1>7. Lined(s, cb) /\ (ub => Ending(s, cb, Held(x, ua, t)))
    <2>1. CASE ub
      <3>1. Behind(s, qb, <<o>>)
        <4>1. <<o>> \in Seq(Messages)
          BY OneMessage
        <4> QED
          BY <2>1, <4>1, Put
      <3>2. Ending(qb, cb, {})
        BY <2>1 DEF Good
      <3>3. \A i \in DOMAIN qb : qb[i].id < o.id
        BY <1>1, <1>2, Messages0
      <3>4. Numbered(qb) /\ o.id \in Nat /\ cb.id < o.id
        BY <1>1, <1>2, MessageIds
      <3>5. Lined(s, cb) /\ Ending(s, cb, {o.id})
        BY <3>1, <3>2, <3>3, <3>4, OfferWritten DEF Good
      <3>6. \A m \in Range(t) : ~IsEnd(m, x.id)
        BY <1>1, <1>2, <1>3, <2>1 DEF IsEnd
      <3>7. {o.id} \subseteq Held(x, ua, t)
        BY <3>6 DEF Held
      <3> QED
        BY <3>5, <3>7, EndingMore
    <2>2. CASE ~ub
      BY <2>2 DEF Good
    <2> QED
      BY <2>1, <2>2
  <1>8. Good(ua, ub, la, lb, x, cb, n + 1, t, s)
    BY <1>4, <1>5, <1>7 DEF Good
  <1>9. Answered(Range(t), Range(s), x)
    <2>1. \A m \in Range(t) : m \in Range(qa) \/ m.type # "ACCEPT"
      BY <1>3 DEF IsEnd
    <2>2. /\ \A m \in Range(s) : m \in Range(qb) \/ m = o
          /\ \A m \in Range(qa) : m.id # o.id
      BY <1>1, <1>2, <1>3
    <2>3. Answered(Range(qa), Range(qb), ca) /\ x.state # "OPEN"
      BY DEF Said
    <2> QED
      BY <2>1, <2>2, <2>3, AnsweredOffer
  <1>10. Agreed(Range(s), x, cb)
    <2>1. /\ \A m \in Range(s) : m \in Range(qb) \/ m = o
          /\ \A m \in Range(qb) : m.id # x.id
          /\ cb.id # x.id
      BY <1>1, <1>2, <1>3
    <2> QED
      BY <2>1, AgreedOffer
  <1>11. Quiet(Range(t), Range(s), x, <<>>, <<>>, l)
    <2>1. Quiet(Range(qa), Range(qb), ca, sa, ra, k)
      BY DEF Said
    <2>2. /\ \A m \in Range(t) : m \in Range(qa) \/ m.type = "DESTROY"
          /\ \A m \in Range(s) : m \in Range(qb) \/ m = o
          /\ \A m \in Range(qa) \cup Range(qb) : m.id # o.id
          /\ x.id = o.id /\ (~l => ~x.multi)
      BY <1>1, <1>2, <1>3 DEF IsEnd
    <2> QED
      BY <2>1, <2>2, QuietOffer
  <1>12. Clean(x, l) /\ Clean(cb, l)
    BY DEF Said, Clean
  <1>13. /\ Flow(t, sb, <<>>, x, cb, l, ua /\ ub)
         /\ Flow(s, <<>>, rb, cb, x, l, ua /\ ub)
    <2>1. x.id # cb.id
      BY <1>1, <1>2
    <2> QED
      BY <2>1, FlowVoid
  <1>14. Said(x, cb, t, s, <<>>, sb, <<>>, rb, l, ua /\ ub)
    BY <1>9, <1>10, <1>11, <1>12, <1>13 DEF Said
  <1> QED
    BY <1>8, <1>14 DEF Fine

\* Only what was handed over counts at an end without a channel.
LEMMA FlowClosed ==
    ASSUME NEW q, NEW t, NEW S, NEW R, NEW c, NEW d, NEW k, NEW b, NEW x, NEW l, NEW v,
           Flow(q, S, R, c, d, k, b), ~x.chan, x.id = c.id \/ x.id = 0, ~l => ~k
    PROVE  Flow(t, S, R, x, d, l, v)
  BY DEF Flow

LEMMA LinedNothing ==
    ASSUME NEW c
    PROVE  Lined(<<>>, c) /\ (\A g : ~c.chan => Ending(<<>>, c, g))
  BY NoMessage DEF Lined, Ending

\* End "a" has no channel any more: mwConversation_close, recv_channelDestroy,
\* stop, and mwConversation_open without a connection.
LEMMA QuitA ==
    ASSUME NEW ua, NEW ub, NEW la, NEW lb, NEW ca \in Conv, NEW cb \in Conv, NEW n \in Nat,
           NEW qa \in Seq(Messages), NEW qb \in Seq(Messages),
           NEW sa \in Seq(ClientMsg), NEW sb \in Seq(ClientMsg),
           NEW ra \in Seq(ClientMsg), NEW rb \in Seq(ClientMsg),
           NEW k, Fine(ua, ub, la, lb, ca, cb, n, qa, qb, sa, sb, ra, rb, k),
           NEW x, ~x.chan, Ceases(x, ca), x.id = ca.id \/ x.id = 0,
           NEW l, Keeps(l, k, x), ~x.multi => x.buf = <<>>,
           NEW t \in Seq(Messages), Range(t) \subseteq Range(qa),
           NEW v, Leaves(v, ua, t), NEW s,
           Told(s, qb, ub, Held(ca, ua, qa), ca.id)
    PROVE  Fine(ua, ub, v, lb, x, cb, n, t, s, sa, sb, ra, rb, l)
  <1> USE DEF Fine, Keeps, Leaves, Ceases
  <1>1. /\ n \in Nat /\ ca.id \in Nat /\ ca.id <= n /\ 0 <= n
        /\ \A m \in Range(qb) : m.id # 0
    BY MessageIds, ConvFields DEF Good, Shape
  <1>2. Shape(x, ua, v, t, n)
    <2>1. x.id <= n
      BY <1>1
    <2>2. \A m \in Range(t) : m.id <= n
      BY DEF Good, Shape
    <2> QED
      BY <2>1, <2>2 DEF Shape
  <1>3. Held(x, ua, t) = {}
    BY HeldNone
  <1>4. Flow(t, sb, ra, x, cb, l, ua /\ ub)
    BY FlowClosed DEF Said
  <1>5. Flow(qb, sa, rb, cb, x, l, ua /\ ub)
    <2>1. Flow(qb, sa, rb, cb, ca, k, ua /\ ub)
      BY DEF Said
    <2>2. Continues(cb, ca, k, ua /\ ub, cb, x, l, ua /\ ub)
      BY DEF Continues
    <2> QED
      BY <2>1, <2>2, FlowStill
  <1>6. Clean(x, l) /\ Clean(cb, l)
    BY DEF Said, Clean
  <1>7. ASSUME NEW w, \A m \in Range(w) : m \in Range(qb) \/ m.type = "DESTROY"
        PROVE  /\ Answered(Range(t), Range(w), x) /\ Agreed(Range(w), x, cb)
               /\ Quiet(Range(t), Range(w), x, sa, ra, l)
    <2>1. \A m \in Range(w) : m \in Range(qb) \/ (~IsOffer(m) /\ \A i : ~IsPiece(m, i))
      BY <1>7, NotPieces DEF IsOffer
    <2>2. Answered(Range(qa), Range(qb), ca)
      BY DEF Said
    <2>3. Answered(Range(t), Range(w), x)
      BY <2>1, <2>2, AnsweredStill
    <2>4. Quiet(Range(qa), Range(qb), ca, sa, ra, k)
      BY DEF Said
    <2>5. Quiet(Range(t), Range(w), x, sa, ra, l)
      BY <1>1, <2>1, <2>4 DEF Quiet
    <2> QED
      BY <2>3, <2>5 DEF Agreed
  <1>8. CASE s = qb /\ (~ub \/ Held(ca, ua, qa) = {})
    <2>1. Good(ua, ub, v, lb, x, cb, n, t, qb)
      BY <1>2, <1>3, <1>8 DEF Good
    <2>2. Said(x, cb, t, qb, sa, sb, ra, rb, l, ua /\ ub)
      <3>1. \A m \in Range(qb) : m \in Range(qb) \/ m.type = "DESTROY"
        OBVIOUS
      <3>2. /\ Answered(Range(t), Range(qb), x) /\ Agreed(Range(qb), x, cb)
            /\ Quiet(Range(t), Range(qb), x, sa, ra, l)
        BY <1>7, <3>1
      <3> QED
        BY <1>4, <1>5, <1>6, <3>2 DEF Said
    <2> QED
      BY <1>8, <2>1, <2>2 DEF Fine
  <1>9. ASSUME NEW e \in Messages, Gets(TRUE, s, qb, <<e>>), ub, IsEnd(e, ca.id)
        PROVE  /\ Good(ua, ub, v, lb, x, cb, n, t, s)
               /\ Said(x, cb, t, s, sa, sb, ra, rb, l, ua /\ ub)
    <2>1. PICK ms : Single(ms, e)
      BY DEF Single
    <2>2. ms \in Seq(Messages) /\ DOMAIN ms = {1} /\ ms[1] = e /\ Range(ms) = {e}
      BY <2>1, OneMessage DEF Single
    <2>3. s = qb \o ms
      BY <1>9, <2>1 DEF Single, Gets
    <2>4. s \in Seq(Messages) /\ Behind(s, qb, ms) /\ Range(s) = Range(qb) \cup Range(ms)
      BY <2>2, <2>3, Put
    <2>5. \A j \in DOMAIN ms : ~IsOffer(ms[j]) /\ IsEnd(ms[j], ca.id) /\ ~IsPiece(ms[j], cb.id)
      BY <1>9, <2>2 DEF IsOffer, IsEnd, IsPiece
    <2>6. Lined(s, cb)
      BY <2>4, <2>5, LinedWritten DEF Good
    <2>7. Ending(s, cb, {})
      <3>1. \A i \in Held(ca, ua, qa) \ {} : \E j \in DOMAIN ms : IsEnd(ms[j], i)
        BY <2>2, <2>5, HeldSome
      <3>2. Ending(qb, cb, Held(ca, ua, qa))
        BY <1>9 DEF Good
      <3> QED
        BY <2>4, <2>5, <3>1, <3>2, EndingWritten
    <2>8. Shape(cb, ub, lb, s, n)
      <3>1. e.id <= n
        BY <1>1, <1>9 DEF IsEnd
      <3> QED
        BY <1>9, <2>2, <2>4, <3>1 DEF Good, Shape
    <2>9. Good(ua, ub, v, lb, x, cb, n, t, s)
      BY <1>2, <1>3, <1>9, <2>2, <2>4, <2>6, <2>7, <2>8 DEF Good
    <2>10. Flow(s, sa, rb, cb, x, l, ua /\ ub)
      BY <1>5, <2>2, <2>3, <2>5, FlowWritten
    <2>11. \A m \in Range(s) : m \in Range(qb) \/ m.type = "DESTROY"
      BY <1>9, <2>2, <2>4 DEF IsEnd
    <2>12. /\ Answered(Range(t), Range(s), x) /\ Agreed(Range(s), x, cb)
           /\ Quiet(Range(t), Range(s), x, sa, ra, l)
      BY <1>7, <2>11
    <2>13. Said(x, cb, t, s, sa, sb, ra, rb, l, ua /\ ub)
      BY <1>4, <1>6, <2>10, <2>12 DEF Said
    <2> QED
      BY <2>9, <2>13
  <1>10. Good(ua, ub, v, lb, x, cb, n, t, s) /\ Said(x, cb, t, s, sa, sb, ra, rb, l, ua /\ ub)
    <2>1. CASE ub /\ \E e \in Messages : s = qb \o <<e>> /\ IsEnd(e, ca.id)
      <3>1. PICK e \in Messages : Gets(TRUE, s, qb, <<e>>) /\ IsEnd(e, ca.id)
        BY <2>1 DEF Gets
      <3> QED
        BY <1>9, <2>1, <3>1
    <2> QED
      BY <1>8, <2>1 DEF Told, Fine
  <1> QED
    BY <1>10 DEF Fine

\* End "b" has no channel any more.
LEMMA QuitB ==
    ASSUME NEW ua, NEW ub, NEW la, NEW lb, NEW ca \in Conv, NEW cb \in Conv, NEW n \in Nat,
           NEW qa \in Seq(Messages), NEW qb \in Seq(Messages),
           NEW sa \in Seq(ClientMsg), NEW sb \in Seq(ClientMsg),
           NEW ra \in Seq(ClientMsg), NEW rb \in Seq(ClientMsg),
           NEW k, Fine(ua, ub, la, lb, ca, cb, n, qa, qb, sa, sb, ra, rb, k),
           NEW x, ~x.chan, Rests(x), x.id = cb.id \/ x.id = 0,
           NEW l, Keeps(l, k, x), ~x.multi => x.buf = <<>>,
           NEW s, MayLose(ub, s, qb), NEW v, Leaves(v, ub, s),
           NEW y, NEW z, x.id = 0 \/ (y = sb /\ z = rb), NEW t,
           Told(t, qa, ua, {}, cb.id)
    PROVE  Fine(ua, ub, la, v, ca, x, n, t, s, sa, y, ra, z, l)
  <1> USE DEF Fine, Keeps, Leaves, MayLose, Rests
  <1>1. /\ cb.id \in Nat /\ cb.id <= n /\ 0 <= n /\ x.id \in Nat /\ x.id <= cb.id
        /\ Numbered(qb)
    BY MessageIds, ConvFields DEF Good, Shape
  <1>2. s \in Seq(Messages) /\ Range(s) \subseteq Range(qb)
    BY NoMessage
  <1>3. Shape(x, ub, v, s, n)
    <2>1. x.id <= n
      BY <1>1
    <2>2. \A m \in Range(s) : m.id <= n
      BY <1>2 DEF Good, Shape
    <2> QED
      BY <2>1, <2>2 DEF Shape
  <1>4. /\ t \in Seq(Messages)
        /\ \A m \in Range(t) : m \in Range(qa) \/ (IsEnd(m, cb.id) /\ ua)
    <2>1. CASE t = qa
      BY <2>1
    <2>2. ASSUME NEW e \in Messages, ua, Gets(TRUE, t, qa, <<e>>), IsEnd(e, cb.id)
          PROVE  /\ t \in Seq(Messages)
                 /\ \A m \in Range(t) : m \in Range(qa) \/ (IsEnd(m, cb.id) /\ ua)
      <3>1. <<e>> \in Seq(Messages) /\ Range(<<e>>) = {e}
        BY OneMessage
      <3>2. t \in Seq(Messages) /\ Range(t) = Range(qa) \cup Range(<<e>>)
        BY <2>2, <3>1, Put DEF Gets
      <3> QED
        BY <2>2, <3>1, <3>2
    <2>3. CASE ua /\ \E e \in Messages : t = qa \o <<e>> /\ IsEnd(e, cb.id)
      <3>1. PICK e \in Messages : Gets(TRUE, t, qa, <<e>>) /\ IsEnd(e, cb.id)
        BY <2>3 DEF Gets
      <3> QED
        BY <2>2, <2>3, <3>1
    <2> QED
      BY <2>1, <2>3 DEF Told
  <1>5. Shape(ca, ua, la, t, n)
    <2>1. \A m \in Range(t) : m.id <= n
      BY <1>1, <1>4 DEF Good, Shape, IsEnd
    <2>2. ~la => t = <<>>
      BY DEF Good, Shape, Told
    <2> QED
      BY <2>1, <2>2 DEF Good, Shape
  <1>6. Held(ca, ua, qa) \subseteq Held(ca, ua, t) \cup {cb.id}
    <2>1. CASE ca.id = cb.id
      BY <2>1, HeldSome
    <2>2. CASE ca.id # cb.id
      <3>1. \A m \in Range(t) : IsEnd(m, ca.id) => m \in Range(qa)
        BY <1>4, <2>2 DEF IsEnd
      <3>2. Held(ca, ua, qa) \subseteq Held(ca, ua, t)
        BY <3>1, HeldStill
      <3> QED
        BY <3>2
    <2> QED
      BY <2>1, <2>2
  <1>7. Lined(s, x) /\ (ub => Ending(s, x, Held(ca, ua, t)))
    <2>1. CASE s = qb
      <3>1. Lined(qb, cb) /\ ~x.chan
        BY DEF Good
      <3>2. Lined(qb, x) /\ (Ending(qb, cb, Held(ca, ua, qa)) => Ending(qb, x, Held(ca, ua, t)))
        BY <1>1, <1>6, <3>1, LinedClosed
      <3> QED
        BY <2>1, <3>2 DEF Good
    <2>2. CASE s = <<>> /\ ~ub
      BY <2>2, LinedNothing
    <2> QED
      BY <2>1, <2>2
  <1>8. Good(ua, ub, la, v, ca, x, n, t, s)
    BY <1>2, <1>3, <1>5, <1>7 DEF Good
  <1>9. \A m \in Range(t) :
            \/ m \in Range(qa)
            \/ m.type # "ACCEPT" /\ \A i : ~IsPiece(m, i)
    BY <1>4, NotPieces DEF IsEnd
  <1>10. Answered(Range(t), Range(s), ca)
    <2>1. Answered(Range(qa), Range(qb), ca)
      BY DEF Said
    <2> QED
      BY <1>2, <1>9, <2>1, AnsweredStill
  <1>11. Agreed(Range(s), ca, x)
    BY <1>2 DEF Said, Agreed
  <1>12. Quiet(Range(t), Range(s), ca, sa, ra, l)
    BY <1>2, <1>9 DEF Said, Quiet
  <1>13. Clean(x, l) /\ Clean(ca, l)
    BY DEF Said, Clean
  <1>14. Flow(t, y, ra, ca, x, l, ua /\ ub)
    <2>1. CASE x.id = 0
      BY <2>1, FlowVoid
    <2>2. CASE x.id # 0
      <3>1. y = sb /\ x.id = cb.id
        BY <2>2
      <3>2. Flow(qa, sb, ra, ca, cb, k, ua /\ ub)
        BY DEF Said
      <3>3. Continues(ca, cb, k, ua /\ ub, ca, x, l, ua /\ ub)
        BY <3>1 DEF Continues
      <3>4. Flow(qa, sb, ra, ca, x, l, ua /\ ub)
        BY <3>2, <3>3, FlowStill
      <3>5. CASE t = qa
        BY <3>1, <3>4, <3>5
      <3>6. ASSUME NEW e \in Messages, Gets(TRUE, t, qa, <<e>>), IsEnd(e, cb.id)
            PROVE  Flow(t, y, ra, ca, x, l, ua /\ ub)
        <4>1. PICK ms : Single(ms, e)
          BY DEF Single
        <4>2. ms \in Seq(Messages) /\ DOMAIN ms = {1} /\ ms[1] = e
          BY <4>1, OneMessage DEF Single
        <4>3. \A j \in DOMAIN ms : ~IsPiece(ms[j], ca.id)
          BY <3>6, <4>2 DEF IsEnd, IsPiece
        <4>4. Flow(qa \o ms, sb, ra, ca, x, l, ua /\ ub)
          BY <3>4, <4>2, <4>3, FlowWritten
        <4> QED
          BY <3>1, <3>6, <4>1, <4>4 DEF Single, Gets
      <3>7. CASE \E e \in Messages : t = qa \o <<e>> /\ IsEnd(e, cb.id)
        <4>1. PICK e \in Messages : Gets(TRUE, t, qa, <<e>>) /\ IsEnd(e, cb.id)
          BY <3>7 DEF Gets
        <4> QED
          BY <3>6, <4>1
      <3> QED
        BY <3>5, <3>7 DEF Told
    <2> QED
      BY <2>1, <2>2
  <1>15. Flow(s, sa, z, x, ca, l, ua /\ ub)
    <2>1. CASE x.id = 0
      BY <2>1, FlowVoid
    <2>2. CASE x.id # 0
      <3>1. z = rb /\ x.id = cb.id
        BY <2>2
      <3>2. Flow(qb, sa, rb, cb, ca, k, ua /\ ub)
        BY DEF Said
      <3>3. Flow(s, sa, rb, x, ca, l, ua /\ ub)
        BY <3>2, <3>1, FlowClosed
      <3> QED
        BY <3>1, <3>3
    <2> QED
      BY <2>1, <2>2
  <1>16. Said(ca, x, t, s, sa, y, ra, z, l, ua /\ ub)
    BY <1>10, <1>11, <1>12, <1>13, <1>14, <1>15 DEF Said
  <1> QED
    BY <1>8, <1>16 DEF Fine

\* recv_channelCreate: the offer at the head of its queue makes end "b" answer.
LEMMA OfferHead ==
    ASSUME NEW ua, NEW ub, NEW la, NEW lb, NEW ca \in Conv, NEW cb \in Conv, NEW n \in Nat,
           NEW qa \in Seq(Messages), NEW qb \in Seq(Messages),
           Good(ua, ub, la, lb, ca, cb, n, qa, qb), qb # <<>>, IsOffer(qb[1])
    PROVE  /\ ~cb.chan /\ cb.id < qb[1].id
           /\ qb[1] \in Range(qb) /\ qb[1].id \in 1..n /\ qb[1] \in Messages
           /\ \A m \in Range(Tail(qb)) : IsOffer(m) => qb[1].id < m.id /\ m.id # qb[1].id
  <1>1. PICK t : t = Tail(qb)
    OBVIOUS
  <1>2. t \in Seq(Messages) /\ Shifted(t, qb) /\ Range(qb) = {qb[1]} \cup Range(t)
    BY <1>1, TailShifted, ShiftedRange
  <1>3. Lined(qb, cb)
    BY DEF Good
  <1>4. /\ ~cb.chan /\ cb.id < qb[1].id
        /\ \A m \in Range(t) : IsOffer(m) => qb[1].id < m.id
    BY <1>2, <1>3, OfferRead
  <1>7. /\ qb[1] \in Messages /\ qb[1].id \in 1..MaxChans /\ MaxChans \in Nat /\ qb[1].id <= n
        /\ \A m \in Range(qb) : m.id \in Nat
    BY <1>2, MessageIds, BoundsAssumption DEF Good, Shape
  <1>8. qb[1].id \in 1..n
    BY <1>7
  <1>9. \A m \in Range(t) : IsOffer(m) => m.id # qb[1].id
    BY <1>2, <1>4, <1>7
  <1> QED
    BY <1>1, <1>2, <1>4, <1>7, <1>8, <1>9

LEMMA RefuseB ==
    ASSUME NEW ua, NEW ub, NEW la, NEW lb, NEW ca \in Conv, NEW cb \in Conv, NEW n \in Nat,
           NEW qa \in Seq(Messages), NEW qb \in Seq(Messages),
           NEW sa \in Seq(ClientMsg), NEW sb \in Seq(ClientMsg),
           NEW ra \in Seq(ClientMsg), NEW rb \in Seq(ClientMsg),
           NEW k, Fine(ua, ub, la, lb, ca, cb, n, qa, qb, sa, sb, ra, rb, k),
           qb # <<>>, IsOffer(qb[1]), NEW e \in Messages, IsEnd(e, qb[1].id), NEW t,
           MayGet(ua, t, qa, e)
    PROVE  Fine(ua, ub, la, lb, ca, cb, n, t, Tail(qb), sa, sb, ra, rb, k)
  <1> USE DEF Fine, MayGet
  <1>1. PICK s : s = Tail(qb)
    OBVIOUS
  <1>2. s \in Seq(Messages) /\ Range(qb) = {qb[1]} \cup Range(s)
    BY <1>1, TailShifted, ShiftedRange
  <1>3. /\ ~cb.chan /\ qb[1] \in Range(qb) /\ qb[1].id \in 1..n
        /\ \A m \in Range(s) : IsOffer(m) => m.id # qb[1].id
    BY <1>1, OfferHead
  <1>4. /\ Good(ua, ub, la, lb, ca, cb, n, qa, s)
        /\ Said(ca, cb, qa, s, sa, sb, ra, rb, k, ua /\ ub)
    BY <1>1, <1>3, DropB
  <1>5. CASE t = qa
    BY <1>1, <1>4, <1>5
  <1>6. CASE t = qa \o <<e>> /\ ua
    <2>1. PICK ms : Single(ms, e)
      BY DEF Single
    <2>2. ms \in Seq(Messages) /\ DOMAIN ms = {1} /\ ms[1] = e /\ Range(ms) = {e}
      BY <2>1, OneMessage DEF Single
    <2>3. t = qa \o ms
      BY <1>6, <2>1 DEF Single
    <2>4. t \in Seq(Messages) /\ Range(t) = Range(qa) \cup {e}
      <3>1. t \in Seq(Messages) /\ Range(t) = Range(qa) \cup Range(ms)
        BY <2>2, <2>3, Put
      <3> QED
        BY <2>2, <3>1
    <2>5. e.type = "DESTROY" /\ e.id = qb[1].id /\ \A i : ~IsPiece(e, i)
      BY NotPieces DEF IsEnd
    <2>6. Shape(ca, ua, la, t, n)
      <3>1. e.id <= n
        BY <1>3, <2>5
      <3> QED
        BY <1>4, <1>6, <2>4, <3>1 DEF Good, Shape
    <2>7. ub => Ending(s, cb, Held(ca, ua, t))
      <3>1. \A i \in Held(ca, ua, qa) : i = qb[1].id \/ i \in Held(ca, ua, t)
        <4>1. CASE ca.id = qb[1].id
          BY <4>1, HeldSome
        <4>2. CASE ca.id # qb[1].id
          <5>1. \A m \in Range(t) : IsEnd(m, ca.id) => m \in Range(qa)
            BY <2>4, <2>5, <4>2 DEF IsEnd
          <5>2. Held(ca, ua, qa) \subseteq Held(ca, ua, t)
            BY <5>1, HeldStill
          <5> QED
            BY <5>2
        <4> QED
          BY <4>1, <4>2
      <3>2. \A j \in DOMAIN s : IsOffer(s[j]) => s[j].id # qb[1].id
        BY <1>3, Messages0
      <3>3. ub => Ending(s, cb, Held(ca, ua, qa))
        BY <1>4 DEF Good
      <3> QED
        BY <1>3, <3>1, <3>2, <3>3 DEF Ending
    <2>8. Good(ua, ub, la, lb, ca, cb, n, t, s)
      BY <1>4, <2>6, <2>7 DEF Good
    <2>9. Answered(Range(t), Range(s), ca)
      <3>1. Answered(Range(qa), Range(qb), ca)
        BY DEF Said
      <3>2. /\ \A m \in Range(t) : m \in Range(qa) \/ m.id = qb[1].id
            /\ \A m \in Range(s) : m \in Range(qb)
        BY <1>2, <2>4, <2>5
      <3>3. ASSUME NEW m \in Range(s), IsOffer(m) PROVE ~Open(Range(t), ca, m.id)
        <4>1. m.id # qb[1].id /\ ~Open(Range(qa), ca, m.id)
          BY <1>3, <3>1, <3>2, <3>3 DEF Answered
        <4> QED
          BY <3>2, <4>1 DEF Open, Accepts
      <3> QED
        BY <3>3 DEF Answered
    <2>10. Quiet(Range(t), Range(s), ca, sa, ra, k)
      BY <1>4, <2>4, <2>5 DEF Said, Quiet
    <2>11. Flow(t, sb, ra, ca, cb, k, ua /\ ub)
      <3>1. Flow(qa, sb, ra, ca, cb, k, ua /\ ub)
        BY DEF Said
      <3>2. \A j \in DOMAIN ms : ~IsPiece(ms[j], ca.id)
        BY <2>2, <2>5
      <3> QED
        BY <2>2, <2>3, <3>1, <3>2, FlowWritten
    <2>12. Said(ca, cb, t, s, sa, sb, ra, rb, k, ua /\ ub)
      BY <1>4, <2>9, <2>10, <2>11 DEF Said
    <2> QED
      BY <1>1, <2>8, <2>12
  <1> QED
    BY <1>5, <1>6

LEMMA AcceptB ==
    ASSUME NEW ua, NEW ub, NEW la, NEW lb, NEW ca \in Conv, NEW cb \in Conv, NEW n \in Nat,
           NEW qa \in Seq(Messages), NEW qb \in Seq(Messages),
           NEW sa \in Seq(ClientMsg), NEW sb \in Seq(ClientMsg),
           NEW ra \in Seq(ClientMsg), NEW rb \in Seq(ClientMsg),
           NEW k, Fine(ua, ub, la, lb, ca, cb, n, qa, qb, sa, sb, ra, rb, k),
           qb # <<>>, IsOffer(qb[1]), Yes(ub), NEW e \in Messages, Accepts(e, qb[1].id), NEW t,
           Gets(ua, t, qa, <<e>>),
           NEW x, x.id = qb[1].id, x.state = "OPEN", x.chan, x.feats = qb[1].feats,
           ~x.multi, x.buf = <<>>
    PROVE  Fine(ua, ub, la, lb, ca, x, n, t, Tail(qb), sa, <<>>, ra, <<>>, k)
  <1> USE DEF Fine, Yes, Gets
  <1>1. PICK s, o : s = Tail(qb) /\ o = qb[1]
    OBVIOUS
  <1>2. s \in Seq(Messages) /\ Shifted(s, qb) /\ Range(qb) = {qb[1]} \cup Range(s)
    BY <1>1, TailShifted, ShiftedRange
  <1>3. /\ ~cb.chan /\ o \in Range(qb) /\ o.id \in 1..n
        /\ \A m \in Range(s) : IsOffer(m) => m.id # o.id
    BY <1>1, OfferHead
  <1>4. /\ x.id = o.id /\ x.feats = o.feats /\ IsOffer(o)
        /\ e.type = "ACCEPT" /\ e.id = o.id /\ (\A i : ~IsPiece(e, i)) /\ (\A i : ~IsEnd(e, i))
       
    BY <1>1, NotPieces DEF Accepts, IsEnd
  <1>5. x.id \in Nat /\ x.id <= n /\ x.id # 0
    BY <1>3, <1>4
  <1>6. t \in Seq(Messages) /\ \A m \in Range(t) : m \in Range(qa) \/ (m = e /\ ua)
    <2>1. <<e>> \in Seq(Messages) /\ Range(<<e>>) = {e}
      BY OneMessage
    <2>2. CASE ~ua
      BY <2>2
    <2>3. CASE ua
      <3>1. t \in Seq(Messages) /\ Range(t) = Range(qa) \cup Range(<<e>>)
        BY <2>1, <2>3, Put
      <3> QED
        BY <2>1, <2>3, <3>1
    <2> QED
      BY <2>2, <2>3
  <1>7. Shape(ca, ua, la, t, n)
    <2>1. \A m \in Range(t) : m.id <= n
      BY <1>4, <1>5, <1>6 DEF Good, Shape
    <2>2. ~la => t = <<>>
      BY DEF Good, Shape
    <2> QED
      BY <2>1, <2>2 DEF Good, Shape
  <1>8. Shape(x, ub, lb, s, n)
    BY <1>2, <1>5 DEF Good, Shape
  <1>9. Held(ca, ua, qa) \subseteq Held(ca, ua, t)
    <2>1. \A m \in Range(t) : IsEnd(m, ca.id) => m \in Range(qa)
      BY <1>4, <1>6
    <2> QED
      BY <2>1, HeldStill
  <1>10. Turns(cb, x, qb[1])
    BY <1>1, <1>4 DEF Turns
  <1>11. Lined(s, x)
    <2>1. cb.id \in Nat /\ Numbered(qb) /\ Lined(qb, cb)
      BY ConvFields, MessageIds DEF Good
    <2> QED
      BY <1>2, <1>5, <1>10, <2>1, LinedRead
  <1>12. Ending(s, x, Held(ca, ua, t))
    <2>1. Ending(qb, cb, Held(ca, ua, qa))
      BY DEF Good
    <2>2. Ending(s, x, Held(ca, ua, qa))
      BY <1>2, <1>10, <2>1, EndingRead
    <2> QED
      BY <1>9, <2>2, EndingMore
  <1>13. Good(ua, ub, la, lb, ca, x, n, t, s)
    BY <1>7, <1>8, <1>11, <1>12 DEF Good
  <1>14. Answered(Range(t), Range(s), ca)
    <2>1. Answered(Range(qa), Range(qb), ca)
      BY DEF Said
    <2>2. /\ \A m \in Range(t) : m \in Range(qa) \/ m.id = qb[1].id
          /\ \A m \in Range(s) : m \in Range(qb)
      BY <1>2, <1>4, <1>6
    <2>3. ASSUME NEW m \in Range(s), IsOffer(m) PROVE ~Open(Range(t), ca, m.id)
      <3>1. m.id # qb[1].id /\ ~Open(Range(qa), ca, m.id)
        BY <1>3, <1>4, <2>1, <2>2, <2>3 DEF Answered
      <3> QED
        BY <2>2, <3>1 DEF Open, Accepts
    <2> QED
      BY <2>3 DEF Answered
  <1>15. Agreed(Range(s), ca, x)
    <2>1. Agreed(Range(qb), ca, cb) /\ Range(s) \subseteq Range(qb)
      BY <1>2 DEF Said
    <2> QED
      BY <1>3, <1>4, <2>1, AgreedNow
  <1>16. Quiet(Range(qa), Range(qb), ca, sa, ra, k)
    BY DEF Said
  <1>17. Quiet(Range(t), Range(s), ca, sa, ra, k)
    BY <1>2, <1>4, <1>6, <1>16 DEF Quiet
  <1>18. Clean(x, k)
    BY DEF Clean
  <1>19. /\ \A m \in Range(qa) \cup Range(qb) : ~IsPiece(m, o.id)
         /\ ca.id = o.id => /\ sa = <<>> /\ ra = <<>>
                            /\ ~k /\ ca.chan => ~ca.multi /\ ca.buf = <<>>
    <2>1. ~ca.multi => ca.buf = <<>>
      BY DEF Said, Clean
    <2> QED
      BY <1>3, <1>4, <1>16, <2>1 DEF Quiet
  <1>20. Flow(t, <<>>, ra, ca, x, k, ua /\ ub)
    <2>1. CASE k \/ ca.id # x.id \/ ca.id = 0
      BY <2>1, FlowVoid
    <2>2. CASE ~k /\ ca.id = o.id
      <3>1. /\ \A m \in Range(t) : ~IsPiece(m, ca.id)
            /\ ca.chan => ~ca.multi /\ ca.buf = <<>>
            /\ ra = <<>>
        BY <1>4, <1>6, <1>19, <2>2
      <3>2. Flow(t, <<>>, <<>>, ca, x, k, ua /\ ub)
        BY <1>6, <3>1, FlowStart
      <3> QED
        BY <3>1, <3>2
    <2> QED
      BY <1>4, <2>1, <2>2
  <1>21. Flow(s, sa, <<>>, x, ca, k, ua /\ ub)
    <2>1. CASE k \/ x.id # ca.id \/ x.id = 0
      BY <2>1, FlowVoid
    <2>2. CASE ca.id = o.id
      <3>1. /\ \A m \in Range(s) : ~IsPiece(m, x.id)
            /\ sa = <<>>
        BY <1>2, <1>4, <1>19, <2>2
      <3>2. Flow(s, <<>>, <<>>, x, ca, k, ua /\ ub)
        BY <1>2, <3>1, FlowStart
      <3> QED
        BY <3>1, <3>2
    <2> QED
      BY <1>4, <2>1, <2>2
  <1>22. Said(ca, x, t, s, sa, <<>>, ra, <<>>, k, ua /\ ub)
    <2>1. Clean(ca, k)
      BY DEF Said
    <2> QED
      BY <1>14, <1>15, <1>17, <1>18, <1>20, <1>21, <2>1 DEF Said
  <1> QED
    BY <1>1, <1>13, <1>22

\* A user logs in again.
LEMMA LogA ==
    ASSUME NEW ua, NEW ub, NEW la, NEW lb, NEW ca \in Conv, NEW cb \in Conv, NEW n \in Nat,
           NEW qa \in Seq(Messages), NEW qb \in Seq(Messages),
           NEW sa \in Seq(ClientMsg), NEW sb \in Seq(ClientMsg),
           NEW ra \in Seq(ClientMsg), NEW rb \in Seq(ClientMsg),
           NEW k, Fine(ua, ub, la, lb, ca, cb, n, qa, qb, sa, sb, ra, rb, k),
           No(la)
    PROVE  Fine(TRUE, ub, TRUE, lb, ca, cb, n, qa, qb, sa, sb, ra, rb, k)
  <1> USE DEF Fine, No
  <1>1. ~ca.chan /\ Shape(ca, TRUE, TRUE, qa, n)
    BY DEF Good, Shape
  <1>2. Held(ca, ua, qa) = {} /\ Held(ca, TRUE, qa) = {}
    BY <1>1, HeldNone
  <1>3. Good(TRUE, ub, TRUE, lb, ca, cb, n, qa, qb)
    BY <1>1, <1>2 DEF Good
  <1>4. Flow(qa, sb, ra, ca, cb, k, TRUE /\ ub)
    BY <1>1, FlowClosed DEF Said
  <1>5. Flow(qb, sa, rb, cb, ca, k, TRUE /\ ub)
    <2>1. Continues(cb, ca, k, ua /\ ub, cb, ca, k, TRUE /\ ub)
      BY <1>1 DEF Continues
    <2>2. Flow(qb, sa, rb, cb, ca, k, ua /\ ub)
      BY DEF Said
    <2> QED
      BY <2>1, <2>2, FlowStill
  <1>6. Said(ca, cb, qa, qb, sa, sb, ra, rb, k, TRUE /\ ub)
    BY <1>4, <1>5 DEF Said
  <1> QED
    BY <1>3, <1>6 DEF Fine

LEMMA LogB ==
    ASSUME NEW ua, NEW ub, NEW la, NEW lb, NEW ca \in Conv, NEW cb \in Conv, NEW n \in Nat,
           NEW qa \in Seq(Messages), NEW qb \in Seq(Messages),
           NEW sa \in Seq(ClientMsg), NEW sb \in Seq(ClientMsg),
           NEW ra \in Seq(ClientMsg), NEW rb \in Seq(ClientMsg),
           NEW k, Fine(ua, ub, la, lb, ca, cb, n, qa, qb, sa, sb, ra, rb, k),
           No(lb)
    PROVE  Fine(ua, TRUE, la, TRUE, ca, cb, n, qa, qb, sa, sb, ra, rb, k)
  <1> USE DEF Fine, No
  <1>1. ~cb.chan /\ Shape(cb, TRUE, TRUE, qb, n) /\ qb = <<>>
    BY DEF Good, Shape
  <1>2. Ending(qb, cb, Held(ca, ua, qa))
    BY <1>1, LinedNothing
  <1>3. Good(ua, TRUE, la, TRUE, ca, cb, n, qa, qb)
    BY <1>1, <1>2 DEF Good
  <1>4. Flow(qb, sa, rb, cb, ca, k, ua /\ TRUE)
    BY <1>1, FlowClosed DEF Said
  <1>5. Flow(qa, sb, ra, ca, cb, k, ua /\ TRUE)
    <2>1. Continues(ca, cb, k, ua /\ ub, ca, cb, k, ua /\ TRUE)
      BY <1>1 DEF Continues
    <2>2. Flow(qa, sb, ra, ca, cb, k, ua /\ ub)
      BY DEF Said
    <2> QED
      BY <2>1, <2>2, FlowStill
  <1>6. Said(ca, cb, qa, qb, sa, sb, ra, rb, k, ua /\ TRUE)
    BY <1>4, <1>5 DEF Said
  <1> QED
    BY <1>3, <1>6 DEF Fine

\* A connection breaks: the last of what was written on it is lost, and the ends
\* of its channels are written instead.
LEMMA FrontIs ==
    ASSUME NEW q \in Seq(Messages), NEW i \in 0..Len(q), NEW s, s = SubSeq(q, 1, i)
    PROVE  s \in Seq(Messages) /\ FrontOf(s, q) /\ Range(s) \subseteq Range(q)
  <1>1. Len(q) \in Nat /\ DOMAIN q = 1..Len(q)
    BY LenProperties
  <1>2. i \in Nat /\ i <= Len(q)
    BY <1>1
  <1>3. s = [j \in 1..i |-> q[j]]
    BY <1>2 DEF SubSeq
  <1>4. s \in Seq(Messages)
    <2>1. \A j \in 1..i : q[j] \in Messages
      BY <1>1, <1>2, ElementOfSeq
    <2> QED
      BY <1>2, <1>3, <2>1
  <1>5. \A j \in DOMAIN s : j \in Nat /\ j \in DOMAIN q /\ s[j] = q[j]
    BY <1>1, <1>2, <1>3
  <1>6. \A j \in DOMAIN s : \A h \in DOMAIN q : h < j => h \in DOMAIN s
    BY <1>1, <1>2, <1>3
  <1>7. ASSUME NEW m \in Range(s) PROVE m \in Range(q)
    <2>1. PICK j \in DOMAIN s : m = s[j]
      BY <1>7, Messages0
    <2>2. j \in DOMAIN q /\ m = q[j]
      BY <1>5, <2>1
    <2> QED
      BY <2>2, Messages0
  <1> QED
    BY <1>4, <1>5, <1>6, <1>7 DEF FrontOf

Ended(ms, n) == ms = [j \in 1..n |-> Destroy(j, "OTHER")]
LEMMA EndedIs ==
    ASSUME NEW n \in Nat, n <= MaxChans, NEW ms, Ended(ms, n)
    PROVE  /\ ms \in Seq(Messages)
           /\ \A j \in DOMAIN ms : ~IsOffer(ms[j]) /\ \A i : ~IsPiece(ms[j], i)
           /\ \A x \in 1..n : \E j \in DOMAIN ms : IsEnd(ms[j], x)
           /\ \A m \in Range(ms) : m.type = "DESTROY" /\ m.id <= n
  <1>1. MaxChans \in Nat
    BY BoundsAssumption
  <1>2. DOMAIN ms = 1..n /\ \A j \in 1..n : ms[j] = Destroy(j, "OTHER")
    BY DEF Ended
  <1>3. \A j \in 1..n : /\ Destroy(j, "OTHER").type = "DESTROY" /\ Destroy(j, "OTHER").id = j
                        /\ Destroy(j, "OTHER").reason = "OTHER" /\ j <= n
                        /\ Destroy(j, "OTHER") \in Messages
    BY <1>1 DEF Destroy, Messages, Reason
  <1>4. ms \in Seq(Messages)
    BY <1>2, <1>3 DEF Ended
  <1>5. \A j \in DOMAIN ms : /\ ms[j].type = "DESTROY" /\ ms[j].id = j /\ ms[j].reason = "OTHER"
                             /\ j <= n
    BY <1>2, <1>3
  <1>6. \A j \in DOMAIN ms : ~IsOffer(ms[j]) /\ \A i : ~IsPiece(ms[j], i)
    BY <1>5 DEF IsOffer, IsPiece
  <1>7. \A x \in 1..n : \E j \in DOMAIN ms : IsEnd(ms[j], x)
    BY <1>2, <1>5 DEF IsEnd
  <1>8. \A m \in Range(ms) : m.type = "DESTROY" /\ m.id <= n
    BY <1>5, <1>6, Messages0
  <1> QED
    BY <1>4, <1>6, <1>7, <1>8

Cuts(u, t, q, i, ms) == (u => t = SubSeq(q, 1, i) \o ms) /\ (~u => t = q)
Lost(t, q, i, ms) == t = SubSeq(q, 1, i) \o ms
LEMMA Broken ==
    ASSUME NEW q \in Seq(Messages), NEW n \in Nat, n <= MaxChans, NEW i \in 0..Len(q),
           NEW S, NEW R, NEW c, NEW d, NEW k, NEW b, Flow(q, S, R, c, d, k, b),
           NEW ms, Ended(ms, n), NEW t, Lost(t, q, i, ms)
    PROVE  /\ t \in Seq(Messages) /\ Flow(t, S, R, c, d, k, FALSE)
           /\ \A m \in Range(t) : \/ m \in Range(q)
                                  \/ m.type = "DESTROY" /\ m.id <= n
           /\ Behind(t, SubSeq(q, 1, i), ms)
  <1>1. PICK s : s = SubSeq(q, 1, i)
    OBVIOUS
  <1>2. s \in Seq(Messages) /\ Range(s) \subseteq Range(q)
    BY <1>1, FrontIs
  <1>3. /\ ms \in Seq(Messages) /\ \A j \in DOMAIN ms : ~IsPiece(ms[j], c.id)
        /\ \A m \in Range(ms) : m.type = "DESTROY" /\ m.id <= n
    BY EndedIs
  <1>4. t = s \o ms
    BY <1>1 DEF Lost
  <1>5. t \in Seq(Messages) /\ Behind(t, s, ms) /\ Range(t) = Range(s) \cup Range(ms)
    BY <1>2, <1>3, <1>4, Put
  <1>6. Flow(s, S, R, c, d, k, FALSE)
    BY <1>1, FlowLost
  <1>7. Flow(t, S, R, c, d, k, FALSE)
    BY <1>2, <1>3, <1>4, <1>6, FlowWritten
  <1> QED
    BY <1>1, <1>2, <1>3, <1>5, <1>7

LEMMA BreakA ==
    ASSUME NEW ua, NEW ub, NEW la, NEW lb, NEW ca \in Conv, NEW cb \in Conv, NEW n \in Nat,
           NEW qa \in Seq(Messages), NEW qb \in Seq(Messages),
           NEW sa \in Seq(ClientMsg), NEW sb \in Seq(ClientMsg),
           NEW ra \in Seq(ClientMsg), NEW rb \in Seq(ClientMsg),
           NEW k, Fine(ua, ub, la, lb, ca, cb, n, qa, qb, sa, sb, ra, rb, k),
           n <= MaxChans, Yes(ua), NEW i \in 0..Len(qb), NEW ms, Ended(ms, n), NEW t,
           Cuts(ub, t, qb, i, ms)
    PROVE  Fine(FALSE, ub, la, lb, ca, cb, n, qa, t, sa, sb, ra, rb, k)
  <1> USE DEF Fine, Yes, Cuts
  <1>1. Shape(ca, FALSE, la, qa, n)
    BY DEF Good, Shape
  <1>2. Held(ca, FALSE, qa) = {}
    BY HeldNone
  <1>3. Flow(qa, sb, ra, ca, cb, k, FALSE /\ ub)
    <2>1. Continues(ca, cb, k, ua /\ ub, ca, cb, k, FALSE /\ ub)
      BY DEF Continues
    <2>2. Flow(qa, sb, ra, ca, cb, k, ua /\ ub)
      BY DEF Said
    <2> QED
      BY <2>1, <2>2, FlowStill
  <1>4. Flow(qb, sa, rb, cb, ca, k, ua /\ ub)
    BY DEF Said
  <1>5. CASE ~ub
    <2>1. Good(FALSE, ub, la, lb, ca, cb, n, qa, qb)
      BY <1>1, <1>5 DEF Good
    <2>2. Continues(cb, ca, k, ua /\ ub, cb, ca, k, FALSE /\ ub)
      BY DEF Continues
    <2>3. Flow(qb, sa, rb, cb, ca, k, FALSE /\ ub)
      BY <1>4, <2>2, FlowStill
    <2>4. Said(ca, cb, qa, qb, sa, sb, ra, rb, k, FALSE /\ ub)
      BY <1>3, <2>3 DEF Said
    <2> QED
      BY <1>5, <2>1, <2>4 DEF Fine
  <1>6. CASE ub
    <2>1. PICK s : s = SubSeq(qb, 1, i)
      OBVIOUS
    <2>2. s \in Seq(Messages) /\ FrontOf(s, qb) /\ Range(s) \subseteq Range(qb)
      BY <2>1, FrontIs
    <2>3. Lost(t, qb, i, ms)
      BY <1>6 DEF Lost
    <2>4. /\ t \in Seq(Messages) /\ Flow(t, sa, rb, cb, ca, k, FALSE)
          /\ \A m \in Range(t) : \/ m \in Range(qb)
                                 \/ m.type = "DESTROY" /\ m.id <= n
          /\ Behind(t, SubSeq(qb, 1, i), ms)
      BY <1>4, <2>3, Broken
    <2>5. Lined(t, cb) /\ Ending(t, cb, {})
      <3>1. Lined(qb, cb)
        BY DEF Good
      <3>2. Lined(s, cb)
        BY <2>2, <3>1, FrontLined
      <3>3. /\ \A j \in DOMAIN ms : ~IsOffer(ms[j])
            /\ \A x \in 1..n : \E j \in DOMAIN ms : IsEnd(ms[j], x)
        BY EndedIs
      <3>4. \A m \in Range(qb) : m.id \in 1..n
        <4>1. \A m \in Range(qb) : m.id \in 1..MaxChans /\ m.id <= n /\ MaxChans \in Nat
          BY MessageIds, BoundsAssumption DEF Good, Shape
        <4> QED
          BY <4>1
      <3>5. \A j \in DOMAIN s : s[j].id \in 1..n
        BY <2>2, <3>4, Messages0
      <3>6. cb.chan => cb.id \in 1..n
        <4>1. cb.id \in Nat /\ cb.id <= n /\ (cb.chan => cb.id # 0)
          BY ConvFields DEF Good, Shape
        <4> QED
          BY <4>1
      <3>7. Behind(t, s, ms)
        BY <2>1, <2>4
      <3> QED
        BY <3>2, <3>3, <3>5, <3>6, <3>7, AllEnded
    <2>6. Shape(cb, ub, lb, t, n)
      BY <1>6, <2>4 DEF Good, Shape
    <2>7. Good(FALSE, ub, la, lb, ca, cb, n, qa, t)
      BY <1>1, <1>2, <2>4, <2>5, <2>6 DEF Good
    <2>8. \A m \in Range(t) : m \in Range(qb) \/ (~IsOffer(m) /\ \A j : ~IsPiece(m, j))
      BY <2>4, NotPieces DEF IsOffer
    <2>9. Answered(Range(qa), Range(t), ca)
      BY <2>8, AnsweredStill DEF Said
    <2>10. Agreed(Range(t), ca, cb)
      BY <2>8, AgreedStill DEF Said
    <2>11. Quiet(Range(qa), Range(t), ca, sa, ra, k)
      BY <2>8 DEF Said, Quiet
    <2>12. Flow(t, sa, rb, cb, ca, k, FALSE /\ ub)
      <3>1. Continues(cb, ca, k, FALSE, cb, ca, k, FALSE /\ ub)
        BY DEF Continues
      <3> QED
        BY <2>4, <3>1, FlowStill
    <2>13. Said(ca, cb, qa, t, sa, sb, ra, rb, k, FALSE /\ ub)
      BY <1>3, <2>9, <2>10, <2>11, <2>12 DEF Said
    <2> QED
      BY <2>7, <2>13 DEF Fine
  <1> QED
    BY <1>5, <1>6

LEMMA BreakB ==
    ASSUME NEW ua, NEW ub, NEW la, NEW lb, NEW ca \in Conv, NEW cb \in Conv, NEW n \in Nat,
           NEW qa \in Seq(Messages), NEW qb \in Seq(Messages),
           NEW sa \in Seq(ClientMsg), NEW sb \in Seq(ClientMsg),
           NEW ra \in Seq(ClientMsg), NEW rb \in Seq(ClientMsg),
           NEW k, Fine(ua, ub, la, lb, ca, cb, n, qa, qb, sa, sb, ra, rb, k),
           n <= MaxChans, Yes(ub), NEW i \in 0..Len(qa), NEW ms, Ended(ms, n), NEW t,
           Cuts(ua, t, qa, i, ms)
    PROVE  Fine(ua, FALSE, la, lb, ca, cb, n, t, qb, sa, sb, ra, rb, k)
  <1> USE DEF Fine, Yes, Cuts
  <1>1. Shape(cb, FALSE, lb, qb, n)
    BY DEF Good, Shape
  <1>2. Flow(qb, sa, rb, cb, ca, k, ua /\ FALSE)
    <2>1. Continues(cb, ca, k, ua /\ ub, cb, ca, k, ua /\ FALSE)
      BY DEF Continues
    <2>2. Flow(qb, sa, rb, cb, ca, k, ua /\ ub)
      BY DEF Said
    <2> QED
      BY <2>1, <2>2, FlowStill
  <1>3. Flow(qa, sb, ra, ca, cb, k, ua /\ ub)
    BY DEF Said
  <1>4. /\ Flow(t, sb, ra, ca, cb, k, ua /\ FALSE) /\ Shape(ca, ua, la, t, n)
        /\ \A m \in Range(t) : m \in Range(qa) \/ (m.type = "DESTROY")
    <2>1. CASE ~ua
      <3>1. Continues(ca, cb, k, ua /\ ub, ca, cb, k, ua /\ FALSE)
        BY DEF Continues
      <3>2. Flow(qa, sb, ra, ca, cb, k, ua /\ FALSE)
        BY <1>3, <3>1, FlowStill
      <3> QED
        BY <2>1, <3>2 DEF Good
    <2>2. CASE ua
      <3>1. Lost(t, qa, i, ms)
        BY <2>2 DEF Lost
      <3>2. /\ t \in Seq(Messages) /\ Flow(t, sb, ra, ca, cb, k, FALSE)
            /\ \A m \in Range(t) : \/ m \in Range(qa)
                                   \/ m.type = "DESTROY" /\ m.id <= n
        BY <1>3, <3>1, Broken
      <3>3. Shape(ca, ua, la, t, n)
        BY <2>2, <3>2 DEF Good, Shape
      <3>4. Continues(ca, cb, k, FALSE, ca, cb, k, ua /\ FALSE)
        BY DEF Continues
      <3>5. Flow(t, sb, ra, ca, cb, k, ua /\ FALSE)
        BY <3>2, <3>4, FlowStill
      <3> QED
        BY <3>2, <3>3, <3>5
    <2> QED
      BY <2>1, <2>2
  <1>5. Good(ua, FALSE, la, lb, ca, cb, n, t, qb)
    BY <1>1, <1>4 DEF Good
  <1>6. \A m \in Range(t) :
           \/ m \in Range(qa)
           \/ m.type # "ACCEPT" /\ \A j : ~IsPiece(m, j)
    BY <1>4, NotPieces
  <1>7. Answered(Range(t), Range(qb), ca)
    BY <1>6, AnsweredStill DEF Said
  <1>8. Quiet(Range(t), Range(qb), ca, sa, ra, k)
    BY <1>6 DEF Said, Quiet
  <1>9. Said(ca, cb, t, qb, sa, sb, ra, rb, k, ua /\ FALSE)
    BY <1>2, <1>4, <1>7, <1>8 DEF Said
  <1> QED
    BY <1>5, <1>9 DEF Fine

-----------------------------------------------------------------------------
(* The steps.  First what Sends, the types and the calls owed come to.     *)

LEMMA RefusedIs ==
    ASSUME NEW ms \in Seq(Messages), NEW q \in Seq(Messages)
    PROVE  /\ Refused(ms) \in Seq(Messages)
           /\ (ms = <<>> \/ ~IsOffer(ms[1])) => q \o Refused(ms) = q
           /\ \A o : ms = <<o>> /\ IsOffer(o) => Refused(ms) = <<Destroy(o.id, "OTHER")>>
  <1>1. ms # <<>> => Head(ms) = ms[1] /\ ms[1] \in Messages
    BY TailShifted
  <1>2. \A m \in Messages : IsOffer(m) => Destroy(m.id, "OTHER") \in Messages
    BY DEF Destroy, Messages, Reason, IsOffer
  <1>3. <<>> \in Seq(Messages) /\ q \o <<>> = q
    BY NoMessage, ConcatEmptySeq
  <1>4. CASE ms = <<>> \/ ~IsOffer(ms[1])
    <2>1. Refused(ms) = <<>>
      BY <1>1, <1>4 DEF Refused, IsOffer
    <2>2. ASSUME NEW o, ms = <<o>>, IsOffer(o) PROVE FALSE
      BY <1>4, <2>2
    <2> QED
      BY <1>3, <2>1, <2>2
  <1>5. CASE ms # <<>> /\ IsOffer(ms[1])
    <2>1. Refused(ms) = <<Destroy(ms[1].id, "OTHER")>>
      BY <1>1, <1>5 DEF Refused, IsOffer
    <2>2. Refused(ms) \in Seq(Messages)
      <3>1. PICK m \in Messages : m = Destroy(ms[1].id, "OTHER")
        BY <1>1, <1>2, <1>5
      <3> QED
        BY <2>1, <3>1, OneMessage
    <2>3. ASSUME NEW o, ms = <<o>> PROVE Refused(ms) = <<Destroy(o.id, "OTHER")>>
      BY <2>1, <2>3
    <2> QED
      BY <1>5, <2>2, <2>3
  <1> QED
    BY <1>4, <1>5

LEMMA SendsA ==
    ASSUME TypeOK, NEW rest \in Seq(Messages), NEW ms \in Seq(Messages), Sends("a", rest, ms)
    PROVE  /\ net' \in [Ends -> Seq(Messages)]
           /\ up["a"] /\ up["b"] => net'["a"] = rest /\ net'["b"] = net["b"] \o ms
           /\ ~up["a"] => net'["a"] = rest /\ net'["b"] = net["b"]
           /\ up["a"] /\ ~up["b"] => net'["a"] = rest \o Refused(ms) /\ net'["b"] = net["b"]
  <1>1. /\ net \in [Ends -> Seq(Messages)] /\ net["b"] \in Seq(Messages)
        /\ net["b"] \o ms \in Seq(Messages) /\ Refused(ms) \in Seq(Messages)
        /\ rest \o Refused(ms) \in Seq(Messages)
    BY Typing, RefusedIs, ConcatBehind DEF TypeOK
  <1>2. CASE ~up["a"]
    <2>1. net' = [net EXCEPT !["a"] = rest]
      BY <1>2 DEF Sends
    <2>2. net' \in [Ends -> Seq(Messages)] /\ net'["a"] = rest /\ net'["b"] = net["b"]
      BY <1>1, <2>1 DEF Ends
    <2> QED
      BY <1>2, <2>2
  <1>3. CASE up["a"] /\ up["b"]
    <2>1. net' = [net EXCEPT !["a"] = rest, !["b"] = @ \o ms]
      BY <1>3, TwoEnds DEF Sends
    <2>2. /\ net' \in [Ends -> Seq(Messages)] /\ net'["a"] = rest
          /\ net'["b"] = net["b"] \o ms
      BY <1>1, <2>1 DEF Ends
    <2> QED
      BY <1>3, <2>2
  <1>4. CASE up["a"] /\ ~up["b"]
    <2>1. net' = [net EXCEPT !["a"] = rest \o Refused(ms)]
      BY <1>4, TwoEnds DEF Sends
    <2>2. /\ net' \in [Ends -> Seq(Messages)] /\ net'["a"] = rest \o Refused(ms)
          /\ net'["b"] = net["b"]
      BY <1>1, <2>1 DEF Ends
    <2> QED
      BY <1>4, <2>2
  <1> QED
    BY <1>2, <1>3, <1>4

LEMMA SendsB ==
    ASSUME TypeOK, NEW rest \in Seq(Messages), NEW ms \in Seq(Messages), Sends("b", rest, ms)
    PROVE  /\ net' \in [Ends -> Seq(Messages)]
           /\ up["b"] /\ up["a"] => net'["b"] = rest /\ net'["a"] = net["a"] \o ms
           /\ ~up["b"] => net'["b"] = rest /\ net'["a"] = net["a"]
           /\ up["b"] /\ ~up["a"] => net'["b"] = rest \o Refused(ms) /\ net'["a"] = net["a"]
  <1>1. /\ net \in [Ends -> Seq(Messages)] /\ net["a"] \in Seq(Messages)
        /\ net["a"] \o ms \in Seq(Messages) /\ Refused(ms) \in Seq(Messages)
        /\ rest \o Refused(ms) \in Seq(Messages)
    BY Typing, RefusedIs, ConcatBehind DEF TypeOK
  <1>2. CASE ~up["b"]
    <2>1. net' = [net EXCEPT !["b"] = rest]
      BY <1>2 DEF Sends
    <2>2. net' \in [Ends -> Seq(Messages)] /\ net'["b"] = rest /\ net'["a"] = net["a"]
      BY <1>1, <2>1 DEF Ends
    <2> QED
      BY <1>2, <2>2
  <1>3. CASE up["b"] /\ up["a"]
    <2>1. net' = [net EXCEPT !["b"] = rest, !["a"] = @ \o ms]
      BY <1>3, TwoEnds DEF Sends
    <2>2. /\ net' \in [Ends -> Seq(Messages)] /\ net'["b"] = rest
          /\ net'["a"] = net["a"] \o ms
      BY <1>1, <2>1 DEF Ends
    <2> QED
      BY <1>3, <2>2
  <1>4. CASE up["b"] /\ ~up["a"]
    <2>1. net' = [net EXCEPT !["b"] = rest \o Refused(ms)]
      BY <1>4, TwoEnds DEF Sends
    <2>2. /\ net' \in [Ends -> Seq(Messages)] /\ net'["b"] = rest \o Refused(ms)
          /\ net'["a"] = net["a"]
      BY <1>1, <2>1 DEF Ends
    <2> QED
      BY <1>4, <2>2
  <1> QED
    BY <1>2, <1>3, <1>4

\* What is not an offer is written to an end that is up, and else lost.
LEMMA WordsA ==
    ASSUME TypeOK, NEW rest \in Seq(Messages), NEW ms \in Seq(Messages),
           Sends("a", rest, ms), ms = <<>> \/ ~IsOffer(ms[1])
    PROVE  /\ net' \in [Ends -> Seq(Messages)] /\ net'["a"] = rest
           /\ up["a"] /\ up["b"] => net'["b"] = net["b"] \o ms
           /\ ~up["a"] \/ ~up["b"] => net'["b"] = net["b"]
  <1>1. rest \o Refused(ms) = rest
    BY RefusedIs
  <1> QED
    BY <1>1, SendsA

LEMMA WordsB ==
    ASSUME TypeOK, NEW rest \in Seq(Messages), NEW ms \in Seq(Messages),
           Sends("b", rest, ms), ms = <<>> \/ ~IsOffer(ms[1])
    PROVE  /\ net' \in [Ends -> Seq(Messages)] /\ net'["b"] = rest
           /\ up["b"] /\ up["a"] => net'["a"] = net["a"] \o ms
           /\ ~up["b"] \/ ~up["a"] => net'["a"] = net["a"]
  <1>1. rest \o Refused(ms) = rest
    BY RefusedIs
  <1> QED
    BY <1>1, SendsB

LEMMA SilentA ==
    ASSUME TypeOK, NEW rest \in Seq(Messages), Sends("a", rest, <<>>)
    PROVE  net' \in [Ends -> Seq(Messages)] /\ net'["a"] = rest /\ net'["b"] = net["b"]
  <1>1. <<>> \in Seq(Messages) /\ net["b"] \o <<>> = net["b"]
    BY Typing, NoMessage, ConcatEmptySeq
  <1> QED
    BY <1>1, WordsA

LEMMA SilentB ==
    ASSUME TypeOK, NEW rest \in Seq(Messages), Sends("b", rest, <<>>)
    PROVE  net' \in [Ends -> Seq(Messages)] /\ net'["b"] = rest /\ net'["a"] = net["a"]
  <1>1. <<>> \in Seq(Messages) /\ net["a"] \o <<>> = net["a"]
    BY Typing, NoMessage, ConcatEmptySeq
  <1> QED
    BY <1>1, WordsB

LEMMA TypesNext ==
    ASSUME TypeOK, UNCHANGED <<up, live, feat, breaks, sets>>, adrift' \in Nat,
           conv' \in [Ends -> Conv], net' \in [Ends -> Seq(Messages)],
           sent' \in [Ends -> Seq(ClientMsg)], rcvd' \in [Ends -> Seq(ClientMsg)],
           owed' \in [Ends -> Int], nchan' \in 0..MaxChans, cut' \in BOOLEAN
    PROVE  TypeOK'
  BY DEF TypeOK

LEMMA OwedNext ==
    ASSUME adrift' \in Nat,
           owed'["a"] = IF conv'["a"].state = "CLOSED" THEN 0 ELSE 1,
           owed'["b"] = (IF conv'["b"].state = "CLOSED" THEN 0 ELSE 1) + adrift'
    PROVE  ClosedOncePerTry'
  BY TwoEnds DEF ClosedOncePerTry

LEMMA OwedNow ==
    ASSUME TypeOK, ClosedOncePerTry
    PROVE  /\ owed \in [Ends -> Int] /\ adrift \in Nat
           /\ owed["a"] = IF conv["a"].state = "CLOSED" THEN 0 ELSE 1
           /\ owed["b"] = (IF conv["b"].state = "CLOSED" THEN 0 ELSE 1) + adrift
  BY TwoEnds DEF ClosedOncePerTry, TypeOK

\* What the invariant says of the ends in a state.
Sound ==
    Fine(up["a"], up["b"], live["a"], live["b"], conv["a"], conv["b"], nchan,
         net["a"], net["b"], sent["a"], sent["b"], rcvd["a"], rcvd["b"], cut)

LEMMA SoundNow ==
    ASSUME Inv
    PROVE  TypeOK /\ ClosedOncePerTry /\ Sound
  BY Known DEF Sound, Fine

LEMMA SoundNext ==
    ASSUME TypeOK', ClosedOncePerTry', Sound'
    PROVE  Inv'
  BY InvNext DEF Sound, Fine

LEMMA MessageIn ==
    ASSUME NEW id, id \in 1..MaxChans
    PROVE  /\ Msg("ACCEPT", id) \in Messages /\ Msg("START", id) \in Messages
           /\ Msg("STOP", id) \in Messages
           /\ \A f \in Features : Create(id, f) \in Messages
           /\ \A r \in Reason : Destroy(id, r) \in Messages
           /\ \A p \in Part : Piece("TEXT", id, p) \in Messages /\ Piece("HTML", id, p) \in Messages
  BY DEF Messages, Msg, Create, Destroy, Piece

\* convo_create_chan without a connection, and with one.
LEMMA CreateDown ==
    ASSUME TypeOK, Sound, ~up["a"], UNCHANGED <<up, live>>,
           NEW c \in Conv, c.state = "PENDING", ~c.chan, c.id = conv["a"].id \/ c.id = 0,
           ~c.multi => c.buf = <<>>, ~cut' => ~cut /\ ~c.multi,
           NEW rest \in Seq(Messages), Range(rest) \subseteq Range(net["a"]),
           ~live["a"] => rest = <<>>, convo_create_chan("a", c, rest)
    PROVE  /\ conv' \in [Ends -> Conv] /\ net' \in [Ends -> Seq(Messages)]
           /\ sent' \in [Ends -> Seq(ClientMsg)] /\ rcvd' \in [Ends -> Seq(ClientMsg)]
           /\ nchan' \in 0..MaxChans
           /\ conv'["a"].state = "PENDING" /\ conv'["b"] = conv["b"] /\ Sound'
  <1>1. /\ conv' = [conv EXCEPT !["a"] = c] /\ Sends("a", rest, <<>>)
        /\ nchan' = nchan /\ sent' = sent /\ rcvd' = rcvd
    BY DEF convo_create_chan
  <1>2. conv' \in [Ends -> Conv] /\ conv'["a"] = c /\ conv'["b"] = conv["b"]
    BY <1>1 DEF TypeOK, Ends
  <1>3. net' \in [Ends -> Seq(Messages)] /\ net'["a"] = rest /\ net'["b"] = net["b"]
    BY <1>1, SilentA
  <1>4. Held(conv["a"], up["a"], net["a"]) = {}
    BY HeldNone
  <1>5. Fine(up["a"], up["b"], live["a"], live["b"], conv["a"], conv["b"], nchan,
             net["a"], net["b"], sent["a"], sent["b"], rcvd["a"], rcvd["b"], cut)
    BY DEF Sound
  <1>6. Fine(up["a"], up["b"], live["a"], live["b"], conv'["a"], conv["b"], nchan,
             net'["a"], net["b"], sent["a"], sent["b"], rcvd["a"], rcvd["b"], cut')
    <2>1. /\ ~conv'["a"].chan /\ Ceases(conv'["a"], conv["a"])
          /\ conv'["a"].id = conv["a"].id \/ conv'["a"].id = 0
          /\ ~conv'["a"].multi => conv'["a"].buf = <<>>
          /\ Keeps(cut', cut, conv'["a"])
          /\ net'["a"] \in Seq(Messages) /\ Range(net'["a"]) \subseteq Range(net["a"])
          /\ Leaves(live["a"], up["a"], net'["a"])
          /\ Told(net["b"], net["b"], up["b"], Held(conv["a"], up["a"], net["a"]), conv["a"].id)
      BY <1>2, <1>3, <1>4 DEF Keeps, Leaves, Told, Ceases
    <2>2. /\ conv["a"] \in Conv /\ conv["b"] \in Conv /\ nchan \in Nat
          /\ net["a"] \in Seq(Messages) /\ net["b"] \in Seq(Messages)
          /\ sent["a"] \in Seq(ClientMsg) /\ sent["b"] \in Seq(ClientMsg)
          /\ rcvd["a"] \in Seq(ClientMsg) /\ rcvd["b"] \in Seq(ClientMsg)
      BY Typing
    <2> QED
      BY <1>5, <2>1, <2>2, QuitA
  <1>7. Sound'
    BY <1>1, <1>2, <1>3, <1>6 DEF Sound
  <1> QED
    BY <1>1, <1>2, <1>3, <1>7 DEF TypeOK

LEMMA CreateUp ==
    ASSUME TypeOK, Sound, up["a"], UNCHANGED <<up, live>>,
           NEW c \in Conv, c.state = "PENDING", c.feats \in Features,
           ~c.multi => c.buf = <<>>, ~cut' => ~cut /\ ~c.multi,
           Held(conv["a"], up["a"], net["a"]) = {},
           nchan < MaxChans, c.feats # "PLAIN" => nchan + 1 < MaxChans,
           NEW rest \in Seq(Messages), Range(rest) \subseteq Range(net["a"]),
           convo_create_chan("a", c, rest)
    PROVE  /\ conv' \in [Ends -> Conv] /\ net' \in [Ends -> Seq(Messages)]
           /\ sent' \in [Ends -> Seq(ClientMsg)] /\ rcvd' \in [Ends -> Seq(ClientMsg)]
           /\ nchan' \in 0..MaxChans
           /\ conv'["a"].state = "PENDING" /\ conv'["b"] = conv["b"] /\ Sound'
  <1>1. /\ conv' = [conv EXCEPT !["a"] = [c EXCEPT !.chan = TRUE, !.id = nchan + 1]]
        /\ nchan' = nchan + 1
        /\ Sends("a", rest, <<Create(nchan + 1, c.feats)>>)
        /\ sent' = [sent EXCEPT !["a"] = <<>>] /\ rcvd' = [rcvd EXCEPT !["a"] = <<>>]
    BY DEF convo_create_chan
  <1>2. nchan \in Nat /\ MaxChans \in Nat /\ nchan + 1 \in 1..MaxChans /\ nchan + 1 \in 0..MaxChans
    BY Typing
  <1>3. /\ [c EXCEPT !.chan = TRUE, !.id = nchan + 1] \in Conv
        /\ [c EXCEPT !.chan = TRUE, !.id = nchan + 1].chan
        /\ [c EXCEPT !.chan = TRUE, !.id = nchan + 1].id = nchan + 1
        /\ [c EXCEPT !.chan = TRUE, !.id = nchan + 1].state = c.state
        /\ [c EXCEPT !.chan = TRUE, !.id = nchan + 1].feats = c.feats
        /\ [c EXCEPT !.chan = TRUE, !.id = nchan + 1].multi = c.multi
        /\ [c EXCEPT !.chan = TRUE, !.id = nchan + 1].buf = c.buf
    BY <1>2 DEF Conv
  <1>4. /\ conv' \in [Ends -> Conv] /\ conv'["b"] = conv["b"]
        /\ conv'["a"] = [c EXCEPT !.chan = TRUE, !.id = nchan + 1]
    BY <1>1, <1>3 DEF TypeOK, Ends
  <1>5. /\ conv'["a"].chan /\ conv'["a"].id = nchan + 1 /\ conv'["a"].state = "PENDING"
        /\ conv'["a"].feats = c.feats /\ conv'["a"].multi = c.multi /\ conv'["a"].buf = c.buf
    BY <1>3, <1>4
  <1>6. /\ sent' \in [Ends -> Seq(ClientMsg)] /\ sent'["a"] = <<>> /\ sent'["b"] = sent["b"]
        /\ rcvd' \in [Ends -> Seq(ClientMsg)] /\ rcvd'["a"] = <<>> /\ rcvd'["b"] = rcvd["b"]
    BY <1>1, NoMessage DEF TypeOK, Ends
  <1>7. PICK o : o = Create(nchan + 1, c.feats)
    OBVIOUS
  <1>8. PICK e : e = Destroy(nchan + 1, "OTHER")
    OBVIOUS
  <1>9. o \in Messages /\ IsOffer(o) /\ o.id = nchan + 1 /\ o.feats = c.feats
    BY <1>2, <1>7, MessageIn DEF Create, IsOffer
  <1>10. e \in Messages /\ IsEnd(e, nchan + 1) /\ e = Destroy(o.id, "OTHER")
    <2>1. "OTHER" \in Reason
      BY DEF Reason
    <2>2. e \in Messages
      BY <1>2, <1>8, <2>1, MessageIn
    <2> QED
      BY <1>8, <1>9, <2>2 DEF Destroy, IsEnd
  <1>11. /\ net' \in [Ends -> Seq(Messages)]
         /\ Offered(up["b"], net'["a"], rest, net'["b"], net["b"], o, e)
    <2>1. PICK ms : Single(ms, o)
      BY DEF Single
    <2>2. ms \in Seq(Messages) /\ Refused(ms) = <<e>>
      <3>1. ms = <<o>>
        BY <2>1 DEF Single
      <3>2. ms \in Seq(Messages)
        BY <1>9, <3>1, OneMessage
      <3> QED
        BY <1>9, <1>10, <3>1, <3>2, RefusedIs
    <2>3. Sends("a", rest, ms)
      BY <1>1, <1>7, <2>1 DEF Single
    <2>4. /\ net' \in [Ends -> Seq(Messages)]
          /\ up["b"] => net'["a"] = rest /\ net'["b"] = net["b"] \o ms
          /\ ~up["b"] => net'["a"] = rest \o Refused(ms) /\ net'["b"] = net["b"]
      BY <2>2, <2>3, SendsA
    <2> QED
      BY <2>1, <2>2, <2>4 DEF Single, Offered
  <1>14. PICK j : Follows(j, nchan)
    BY DEF Follows
  <1>15. j = nchan + 1
    BY <1>14 DEF Follows
  <1>12. Fine(up["a"], up["b"], live["a"], live["b"], conv'["a"], conv["b"], j,
              net'["a"], net'["b"], <<>>, sent["b"], <<>>, rcvd["b"], cut')
    <2>1. Fine(up["a"], up["b"], live["a"], live["b"], conv["a"], conv["b"], nchan,
               net["a"], net["b"], sent["a"], sent["b"], rcvd["a"], rcvd["b"], cut)
      BY DEF Sound
    <2>2. Yes(up["a"]) /\ Yes(live["a"]) /\ Keeps(cut', cut, conv'["a"])
      BY <1>5, <2>1 DEF Fine, Good, Shape, Yes, Keeps
    <2>3. o \in Messages /\ e \in Messages /\ NewOffer(conv'["a"], j, o, e)
      BY <1>5, <1>9, <1>10, <1>15 DEF NewOffer
    <2>4. Held(conv["a"], up["a"], net["a"]) = {} /\ Range(rest) \subseteq Range(net["a"])
      OBVIOUS
    <2> QED
      BY ONLY TypeOK, <1>11, <1>14, <2>1, <2>2, <2>3, <2>4, Typing, OfferA, rest \in Seq(Messages)
  <1>13. Sound'
    BY <1>1, <1>4, <1>6, <1>15, <1>12 DEF Sound
  <1> QED
    BY <1>1, <1>2, <1>4, <1>5, <1>6, <1>11, <1>13

\* A conversation that is opened is the one that is there, or a new one.
LEMMA OpenConv ==
    ASSUME TypeOK, Sound, conv["a"].state = "CLOSED",
           NEW c, c = [getConversation("a") EXCEPT !.state = "PENDING"]
    PROVE  /\ c \in Conv /\ c.state = "PENDING" /\ ~c.chan /\ c.feats \in Features
           /\ c.id = conv["a"].id \/ c.id = 0
           /\ ~c.multi => c.buf = <<>>
           /\ ~cut => ~c.multi
  <1>1. conv["a"] \in Conv /\ feat["a"] \in Features /\ ~conv["a"].chan /\ Clean(conv["a"], cut)
    BY Typing DEF Sound, Fine, Good, Shape, Said
  <1>2. CASE conv["a"].feats = "none"
    <2>1. c = [Fresh(feat["a"]) EXCEPT !.state = "PENDING"]
      BY <1>2 DEF getConversation
    <2>2. 0 \in 0..MaxChans /\ <<>> \in Seq(Part)
      BY BoundsAssumption, NoMessage
    <2>3. /\ c \in Conv /\ c.state = "PENDING" /\ c.chan = FALSE /\ c.feats = feat["a"]
          /\ c.id = 0 /\ c.buf = <<>> /\ c.multi = FALSE
      BY <1>1, <2>1, <2>2 DEF Fresh, Conv
    <2> QED
      BY <1>1, <2>3
  <1>3. CASE conv["a"].feats # "none"
    <2>1. c = [conv["a"] EXCEPT !.state = "PENDING"]
      BY <1>3 DEF getConversation
    <2>2. /\ c \in Conv /\ c.state = "PENDING" /\ c.chan = conv["a"].chan
          /\ c.feats = conv["a"].feats /\ c.id = conv["a"].id /\ c.buf = conv["a"].buf
          /\ c.multi = conv["a"].multi /\ c.feats \in Features \cup {"none"}
      BY <1>1, <2>1 DEF Conv
    <2> QED
      BY <1>1, <1>3, <2>2 DEF Clean
  <1> QED
    BY <1>2, <1>3

LEMMA OpenStep ==
    ASSUME Inv, mwConversation_open
    PROVE  Inv'
  <1>1. TypeOK /\ ClosedOncePerTry /\ Sound
    BY SoundNow
  <1>2. PICK c : c = [getConversation("a") EXCEPT !.state = "PENDING"]
    OBVIOUS
  <1>3. /\ conv["a"].state = "CLOSED" /\ nchan + 2 <= MaxChans
        /\ convo_create_chan("a", c, net["a"])
        /\ owed' = [owed EXCEPT !["a"] = @ + 1]
        /\ UNCHANGED <<up, live, feat, adrift, cut, breaks, sets>>
    BY <1>2 DEF mwConversation_open
  <1>4. /\ c \in Conv /\ c.state = "PENDING" /\ ~c.chan /\ c.feats \in Features
        /\ c.id = conv["a"].id \/ c.id = 0
        /\ ~c.multi => c.buf = <<>>
        /\ ~cut => ~c.multi
    BY <1>1, <1>2, <1>3, OpenConv
  <1>5. /\ conv["a"] \in Conv /\ net["a"] \in Seq(Messages)
        /\ nchan < MaxChans /\ nchan + 1 < MaxChans
    BY <1>1, <1>3, Typing
  <1>6. /\ ~live["a"] => net["a"] = <<>>
        /\ Held(conv["a"], up["a"], net["a"]) = {}
    BY <1>1, <1>3, HeldNone DEF Sound, Fine, Good, Shape
  <1>7. ~cut' => ~cut /\ ~c.multi
    BY <1>3, <1>4
  <1>8. /\ conv' \in [Ends -> Conv] /\ net' \in [Ends -> Seq(Messages)]
        /\ sent' \in [Ends -> Seq(ClientMsg)] /\ rcvd' \in [Ends -> Seq(ClientMsg)]
        /\ nchan' \in 0..MaxChans
        /\ conv'["a"].state = "PENDING" /\ conv'["b"] = conv["b"] /\ Sound'
    <2>1. UNCHANGED <<up, live>> /\ Range(net["a"]) \subseteq Range(net["a"])
      BY <1>3
    <2>2. CASE up["a"]
      BY <1>1, <1>3, <1>4, <1>5, <1>6, <1>7, <2>1, <2>2, CreateUp
    <2>3. CASE ~up["a"]
      BY <1>1, <1>3, <1>4, <1>5, <1>6, <1>7, <2>1, <2>3, CreateDown
    <2> QED
      BY <2>2, <2>3
  <1>9. owed' \in [Ends -> Int] /\ owed'["a"] = 1 /\ owed'["b"] = owed["b"]
    BY <1>1, <1>3, OwedNow DEF Ends
  <1>10. TypeOK'
    <2>1. cut' \in BOOLEAN /\ adrift' \in Nat
      BY <1>1, <1>3 DEF TypeOK
    <2> QED
      BY <1>1, <1>3, <1>8, <1>9, <2>1, TypesNext
  <1>11. ClosedOncePerTry'
    BY <1>1, <1>3, <1>8, <1>9, OwedNow, OwedNext
  <1> QED
    BY <1>8, <1>10, <1>11, SoundNext

LEMMA AbsentIs ==
    /\ Absent \in Conv /\ Absent.chan = FALSE /\ Absent.state = "CLOSED" /\ Absent.id = 0
    /\ Absent.multi = FALSE /\ Absent.buf = <<>>
  <1>1. 0 \in 0..MaxChans /\ <<>> \in Seq(Part) /\ "none" \in Features \cup {"none"}
    BY BoundsAssumption, NoMessage
  <1>2. Absent \in Conv
    BY <1>1 DEF Absent, Fresh, Conv
  <1> QED
    BY <1>2 DEF Absent, Fresh

\* What mwConversation_close makes of conversation c.
IsClosed(x, c, freed) ==
    x = IF freed THEN Absent ELSE [c EXCEPT !.state = "CLOSED", !.chan = FALSE]
LEMMA ClosedConv ==
    ASSUME NEW c \in Conv, NEW freed, NEW x,
           IsClosed(x, c, freed)
    PROVE  /\ x \in Conv /\ ~x.chan /\ x.state = "CLOSED" /\ (x.id = c.id \/ x.id = 0)
           /\ x.multi => c.multi
           /\ (~c.multi => c.buf = <<>>) => (~x.multi => x.buf = <<>>)
           /\ freed => ~x.multi
  <1>1. CASE freed
    <2>1. x = Absent
      BY <1>1 DEF IsClosed
    <2>2. /\ x \in Conv /\ x.chan = FALSE /\ x.state = "CLOSED" /\ x.id = 0
          /\ x.multi = FALSE /\ x.buf = <<>>
      BY <2>1, AbsentIs
    <2> QED
      BY <2>2
  <1>2. CASE ~freed
    <2>1. x = [c EXCEPT !.state = "CLOSED", !.chan = FALSE]
      BY <1>2 DEF IsClosed
    <2>2. /\ x \in Conv /\ x.chan = FALSE /\ x.state = "CLOSED" /\ x.id = c.id
          /\ x.multi = c.multi /\ x.buf = c.buf
      BY <2>1 DEF Conv
    <2> QED
      BY <1>2, <2>2
  <1> QED
    BY <1>1, <1>2

\* mwChannel_destroy: the other end is told, if both ends have a connection.
LEMMA ToldB ==
    ASSUME TypeOK, NEW rest \in Seq(Messages), NEW c \in Conv, c.chan => c.id # 0, NEW r \in Reason,
           c.id = conv["a"].id, ~c.chan => Held(conv["a"], up["a"], net["a"]) = {},
           Sends("a", rest, IF c.chan THEN <<Destroy(c.id, r)>> ELSE <<>>)
    PROVE  /\ net' \in [Ends -> Seq(Messages)] /\ net'["a"] = rest
           /\ Told(net'["b"], net["b"], up["b"], Held(conv["a"], up["a"], net["a"]), conv["a"].id)
  <1>1. CASE ~c.chan
    <2>1. Sends("a", rest, <<>>)
      BY <1>1
    <2>2. net' \in [Ends -> Seq(Messages)] /\ net'["a"] = rest /\ net'["b"] = net["b"]
      BY <2>1, SilentA
    <2>3. Held(conv["a"], up["a"], net["a"]) = {}
      BY <1>1
    <2> QED
      BY <2>2, <2>3 DEF Told
  <1>2. CASE c.chan
    <2>1. PICK e : e = Destroy(c.id, r)
      OBVIOUS
    <2>2. /\ e \in Messages /\ IsEnd(e, conv["a"].id) /\ ~IsOffer(e)
      <3>1. r \in Reason /\ c.id \in 1..MaxChans
        BY <1>2, ConvFields
      <3>2. e \in Messages
        BY <2>1, <3>1, MessageIn
      <3> QED
        BY <2>1, <3>2 DEF Destroy, IsEnd, IsOffer
    <2>3. PICK ms : Single(ms, e)
      BY DEF Single
    <2>4. ms \in Seq(Messages) /\ ms[1] = e
      BY <2>2, <2>3, OneMessage DEF Single
    <2>5. Sends("a", rest, ms)
      BY <1>2, <2>1, <2>3 DEF Single
    <2>6. /\ net' \in [Ends -> Seq(Messages)] /\ net'["a"] = rest
          /\ up["a"] /\ up["b"] => net'["b"] = net["b"] \o ms
          /\ ~up["a"] \/ ~up["b"] => net'["b"] = net["b"]
      BY <2>2, <2>4, <2>5, WordsA
    <2>7. ~up["a"] => Held(conv["a"], up["a"], net["a"]) = {}
      BY HeldNone
    <2>8. up["a"] /\ up["b"] => net'["b"] = net["b"] \o <<e>>
      BY <2>3, <2>6 DEF Single
    <2> QED
      BY <2>2, <2>6, <2>7, <2>8 DEF Told
  <1> QED
    BY <1>1, <1>2

LEMMA ToldA ==
    ASSUME TypeOK, NEW rest \in Seq(Messages), NEW c \in Conv, c.chan => c.id # 0, NEW r \in Reason,
           c.id = conv["b"].id,
           Sends("b", rest, IF c.chan THEN <<Destroy(c.id, r)>> ELSE <<>>)
    PROVE  /\ net' \in [Ends -> Seq(Messages)] /\ net'["b"] = rest
           /\ Told(net'["a"], net["a"], up["a"], {}, conv["b"].id)
  <1>1. CASE ~c.chan
    <2>1. Sends("b", rest, <<>>)
      BY <1>1
    <2>2. net' \in [Ends -> Seq(Messages)] /\ net'["b"] = rest /\ net'["a"] = net["a"]
      BY <2>1, SilentB
    <2> QED
      BY <2>2 DEF Told
  <1>2. CASE c.chan
    <2>1. PICK e : e = Destroy(c.id, r)
      OBVIOUS
    <2>2. /\ e \in Messages /\ IsEnd(e, conv["b"].id) /\ ~IsOffer(e)
      <3>1. r \in Reason /\ c.id \in 1..MaxChans
        BY <1>2, ConvFields
      <3>2. e \in Messages
        BY <2>1, <3>1, MessageIn
      <3> QED
        BY <2>1, <3>2 DEF Destroy, IsEnd, IsOffer
    <2>3. PICK ms : Single(ms, e)
      BY DEF Single
    <2>4. ms \in Seq(Messages) /\ ms[1] = e
      BY <2>2, <2>3, OneMessage DEF Single
    <2>5. Sends("b", rest, ms)
      BY <1>2, <2>1, <2>3 DEF Single
    <2>6. /\ net' \in [Ends -> Seq(Messages)] /\ net'["b"] = rest
          /\ up["b"] /\ up["a"] => net'["a"] = net["a"] \o ms
          /\ ~up["b"] \/ ~up["a"] => net'["a"] = net["a"]
      BY <2>2, <2>4, <2>5, WordsB
    <2>7. up["b"] /\ up["a"] => net'["a"] = net["a"] \o <<e>>
      BY <2>3, <2>6 DEF Single
    <2> QED
      BY <2>2, <2>6, <2>7 DEF Told
  <1> QED
    BY <1>1, <1>2

\* End "a" is left without a channel.
LEMMA QuitStepA ==
    ASSUME TypeOK, Sound, UNCHANGED <<up, nchan, sent, rcvd>>, live'["b"] = live["b"],
           NEW x \in Conv, conv' = [conv EXCEPT !["a"] = x], ~x.chan, Ceases(x, conv["a"]),
           x.id = conv["a"].id \/ x.id = 0, ~x.multi => x.buf = <<>>, Keeps(cut', cut, x),
           net'["a"] \in Seq(Messages), Range(net'["a"]) \subseteq Range(net["a"]),
           Leaves(live'["a"], up["a"], net'["a"]),
           Told(net'["b"], net["b"], up["b"], Held(conv["a"], up["a"], net["a"]), conv["a"].id)
    PROVE  conv' \in [Ends -> Conv] /\ conv'["a"] = x /\ conv'["b"] = conv["b"] /\ Sound'
  <1>1. conv' \in [Ends -> Conv] /\ conv'["a"] = x /\ conv'["b"] = conv["b"]
    BY DEF TypeOK, Ends
  <1>2. Fine(up["a"], up["b"], live["a"], live["b"], conv["a"], conv["b"], nchan,
             net["a"], net["b"], sent["a"], sent["b"], rcvd["a"], rcvd["b"], cut)
    BY DEF Sound
  <1>3. /\ x \in Conv /\ ~x.chan /\ Ceases(x, conv["a"]) /\ (x.id = conv["a"].id \/ x.id = 0)
        /\ ~x.multi => x.buf = <<>>
        /\ Keeps(cut', cut, x)
        /\ net'["a"] \in Seq(Messages) /\ Range(net'["a"]) \subseteq Range(net["a"])
        /\ Leaves(live'["a"], up["a"], net'["a"])
        /\ Told(net'["b"], net["b"], up["b"], Held(conv["a"], up["a"], net["a"]), conv["a"].id)
    OBVIOUS
  <1>4. Fine(up["a"], up["b"], live'["a"], live["b"], x, conv["b"], nchan,
             net'["a"], net'["b"], sent["a"], sent["b"], rcvd["a"], rcvd["b"], cut')
    BY ONLY TypeOK, <1>2, <1>3, Typing, QuitA
  <1>5. Sound'
    BY <1>1, <1>4 DEF Sound
  <1> QED
    BY <1>1, <1>5

\* End "b" is left without a channel.
LEMMA QuitStepB ==
    ASSUME TypeOK, Sound, NEW x \in Conv, ~x.chan, Rests(x),
           x.id = conv["b"].id \/ x.id = 0, ~x.multi => x.buf = <<>>, NEW l, Keeps(l, cut, x),
           NEW y, NEW z, x.id = 0 \/ (y = sent["b"] /\ z = rcvd["b"]),
           NEW s, MayLose(up["b"], s, net["b"]), NEW v, Leaves(v, up["b"], s),
           NEW t, Told(t, net["a"], up["a"], {}, conv["b"].id)
    PROVE  Fine(up["a"], up["b"], live["a"], v, conv["a"], x, nchan,
                t, s, sent["a"], y, rcvd["a"], z, l)
  <1>1. Fine(up["a"], up["b"], live["a"], live["b"], conv["a"], conv["b"], nchan,
             net["a"], net["b"], sent["a"], sent["b"], rcvd["a"], rcvd["b"], cut)
    BY DEF Sound
  <1> QED
    BY <1>1, Typing, QuitB

\* mwConversation_close of a conversation of end "a" that is not closed.
LEMMA CloseA ==
    ASSUME TypeOK, ClosedOncePerTry, Sound, UNCHANGED <<up, nchan, sent, rcvd, adrift>>,
           live'["b"] = live["b"], conv["a"].state # "CLOSED",
           NEW c \in Conv, c.id = conv["a"].id, c.chan => c.id # 0, ~c.multi => c.buf = <<>>,
           ~c.chan => Held(conv["a"], up["a"], net["a"]) = {},
           NEW rest \in Seq(Messages), Range(rest) \subseteq Range(net["a"]),
           NEW freed, NEW r \in Reason, Close("a", c, r, rest, freed), Leaves(live'["a"], up["a"], rest),
           ~cut' => ~cut /\ (freed \/ ~c.multi)
    PROVE  /\ conv' \in [Ends -> Conv] /\ net' \in [Ends -> Seq(Messages)]
           /\ owed' \in [Ends -> Int] /\ ClosedOncePerTry' /\ Sound'
  <1>1. PICK x : IsClosed(x, c, freed)
    BY DEF IsClosed
  <1>2. /\ x \in Conv /\ ~x.chan /\ x.state = "CLOSED" /\ (x.id = c.id \/ x.id = 0)
        /\ x.multi => c.multi
        /\ ~x.multi => x.buf = <<>>
        /\ freed => ~x.multi
    BY <1>1, ClosedConv
  <1>3. /\ conv' = [conv EXCEPT !["a"] = x]
        /\ Sends("a", rest, IF c.chan THEN <<Destroy(c.id, r)>> ELSE <<>>)
        /\ owed' = [owed EXCEPT !["a"] = @ - 1]
    BY <1>1 DEF Close, IsClosed
  <1>4. /\ net' \in [Ends -> Seq(Messages)] /\ net'["a"] = rest
        /\ Told(net'["b"], net["b"], up["b"], Held(conv["a"], up["a"], net["a"]), conv["a"].id)
    BY <1>3, ToldB
  <1>5. /\ Ceases(x, conv["a"]) /\ (x.id = conv["a"].id \/ x.id = 0) /\ Keeps(cut', cut, x)
        /\ net'["a"] \in Seq(Messages) /\ Range(net'["a"]) \subseteq Range(net["a"])
        /\ Leaves(live'["a"], up["a"], net'["a"])
    BY <1>2, <1>4 DEF Keeps, Ceases
  <1>6. conv' \in [Ends -> Conv] /\ conv'["a"] = x /\ conv'["b"] = conv["b"] /\ Sound'
    BY <1>2, <1>3, <1>4, <1>5, QuitStepA
  <1>7. owed' \in [Ends -> Int] /\ owed'["a"] = 0 /\ owed'["b"] = owed["b"]
    BY <1>3, OwedNow DEF Ends
  <1>8. ClosedOncePerTry'
    BY <1>2, <1>6, <1>7, OwedNow, OwedNext
  <1> QED
    BY <1>4, <1>6, <1>7, <1>8

LEMMA CloseB ==
    ASSUME TypeOK, ClosedOncePerTry, Sound, conv["b"].state # "CLOSED", UNCHANGED adrift,
           NEW c \in Conv, c.id = conv["b"].id, c.chan => c.id # 0, ~c.multi => c.buf = <<>>,
           NEW rest \in Seq(Messages), NEW s, MayLose(up["b"], s, net["b"]),
           NEW freed, NEW r \in Reason, Close("b", c, r, rest, freed), NEW v, Leaves(v, up["b"], s),
           ~cut' => ~cut /\ (freed \/ ~c.multi)
    PROVE  /\ conv' \in [Ends -> Conv] /\ net' \in [Ends -> Seq(Messages)]
           /\ owed' \in [Ends -> Int] /\ ClosedOncePerTry'
           /\ conv'["b"] \in Conv /\ ~conv'["b"].chan
           /\ conv'["a"] = conv["a"] /\ net'["b"] = rest
           /\ Fine(up["a"], up["b"], live["a"], v, conv["a"], conv'["b"], nchan, net'["a"], s,
                   sent["a"], sent["b"], rcvd["a"], rcvd["b"], cut')
  <1>1. PICK x : IsClosed(x, c, freed)
    BY DEF IsClosed
  <1>2. /\ x \in Conv /\ ~x.chan /\ x.state = "CLOSED" /\ (x.id = c.id \/ x.id = 0)
        /\ x.multi => c.multi
        /\ ~x.multi => x.buf = <<>>
        /\ freed => ~x.multi
    BY <1>1, ClosedConv
  <1>3. /\ conv' = [conv EXCEPT !["b"] = x]
        /\ Sends("b", rest, IF c.chan THEN <<Destroy(c.id, r)>> ELSE <<>>)
        /\ owed' = [owed EXCEPT !["b"] = @ - 1]
    BY <1>1 DEF Close, IsClosed
  <1>4. /\ net' \in [Ends -> Seq(Messages)] /\ net'["b"] = rest
        /\ Told(net'["a"], net["a"], up["a"], {}, conv["b"].id)
    BY <1>3, ToldA
  <1>5. conv' \in [Ends -> Conv] /\ conv'["b"] = x /\ conv'["a"] = conv["a"]
    BY <1>2, <1>3 DEF TypeOK, Ends
  <1>6. (x.id = conv["b"].id \/ x.id = 0) /\ Keeps(cut', cut, x) /\ Rests(x)
    BY <1>2 DEF Keeps, Rests
  <1>7. PICK y, z : y = sent["b"] /\ z = rcvd["b"]
    OBVIOUS
  <1>8. Fine(up["a"], up["b"], live["a"], v, conv["a"], x, nchan, net'["a"], s,
             sent["a"], y, rcvd["a"], z, cut')
    BY <1>2, <1>4, <1>6, <1>7, QuitStepB
  <1>9. owed' \in [Ends -> Int] /\ owed'["b"] = adrift /\ owed'["a"] = owed["a"]
    BY <1>3, OwedNow DEF Ends
  <1>10. ClosedOncePerTry'
    BY <1>2, <1>5, <1>9, OwedNow, OwedNext
  <1> QED
    BY <1>2, <1>4, <1>5, <1>7, <1>8, <1>9, <1>10

LEMMA CutIs ==
    ASSUME TypeOK, NEW c \in Conv, CutShort(c)
    PROVE  cut' \in BOOLEAN /\ (~cut' => ~cut /\ ~c.multi)
  <1>1. cut \in BOOLEAN /\ c.multi \in BOOLEAN
    BY ConvBooleans DEF TypeOK
  <1> QED
    BY <1>1 DEF CutShort

LEMMA SoundShape ==
    ASSUME Sound
    PROVE  /\ Shape(conv["a"], up["a"], live["a"], net["a"], nchan)
           /\ Shape(conv["b"], up["b"], live["b"], net["b"], nchan)
           /\ Clean(conv["a"], cut) /\ Clean(conv["b"], cut)
           /\ Leaves(live["a"], up["a"], net["a"]) /\ Leaves(live["b"], up["b"], net["b"])
  BY DEF Sound, Fine, Good, Said, Shape, Leaves

LEMMA CloseStep ==
    ASSUME Inv, NEW e \in Ends, NEW r \in Reason, NEW freed \in BOOLEAN,
           mwConversation_close(e, r, freed)
    PROVE  Inv'
  <1>1. TypeOK /\ ClosedOncePerTry /\ Sound
    BY SoundNow
  <1>2. /\ conv[e].state # "CLOSED" /\ Close(e, conv[e], r, net[e], freed) /\ CutShort(conv[e])
        /\ UNCHANGED <<up, live, feat, nchan, sent, rcvd, adrift, breaks, sets>>
    BY DEF mwConversation_close
  <1>3. /\ conv[e] \in Conv /\ net[e] \in Seq(Messages)
        /\ Shape(conv[e], up[e], live[e], net[e], nchan)
        /\ ~conv[e].multi => conv[e].buf = <<>>
    BY <1>1, Typing, TwoEnds, SoundShape DEF Clean
  <1>4. /\ cut' \in BOOLEAN /\ (~cut' => ~cut /\ ~conv[e].multi)
    BY <1>1, <1>2, <1>3, CutIs
  <1>5. conv[e].chan => conv[e].id # 0
    BY <1>3 DEF Shape
  <1>6. /\ conv' \in [Ends -> Conv] /\ net' \in [Ends -> Seq(Messages)]
        /\ owed' \in [Ends -> Int] /\ ClosedOncePerTry' /\ Sound'
    <2>1. CASE e = "a"
      <3>1. ~conv["a"].chan => Held(conv["a"], up["a"], net["a"]) = {}
        BY HeldNone
      <3>2. Leaves(live'["a"], up["a"], net["a"]) /\ live'["b"] = live["b"]
        BY <1>1, <1>2, SoundShape
      <3>3. UNCHANGED <<up, nchan, sent, rcvd, adrift>> /\ Range(net["a"]) \subseteq Range(net["a"])
        BY <1>2
      <3> QED
        BY <1>1, <1>2, <1>3, <1>4, <1>5, <2>1, <3>1, <3>2, <3>3, CloseA
    <2>2. CASE e = "b"
      <3>1. MayLose(up["b"], net["b"], net["b"]) /\ Leaves(live["b"], up["b"], net["b"])
        BY <1>1, SoundShape DEF MayLose
      <3>2. /\ conv' \in [Ends -> Conv] /\ net' \in [Ends -> Seq(Messages)]
            /\ owed' \in [Ends -> Int] /\ ClosedOncePerTry'
            /\ conv'["a"] = conv["a"] /\ net'["b"] = net["b"]
            /\ Fine(up["a"], up["b"], live["a"], live["b"], conv["a"], conv'["b"], nchan,
                    net'["a"], net["b"], sent["a"], sent["b"], rcvd["a"], rcvd["b"], cut')
        BY <1>1, <1>2, <1>3, <1>4, <1>5, <2>2, <3>1, CloseB
      <3> QED
        BY <1>2, <3>2 DEF Sound
    <2> QED
      BY <2>1, <2>2, TwoEnds
  <1>7. TypeOK'
    <2>1. /\ sent' \in [Ends -> Seq(ClientMsg)] /\ rcvd' \in [Ends -> Seq(ClientMsg)]
          /\ nchan' \in 0..MaxChans /\ adrift' \in Nat
      BY <1>1, <1>2 DEF TypeOK
    <2> QED
      BY <1>1, <1>2, <1>4, <1>6, <2>1, TypesNext
  <1> QED
    BY <1>6, <1>7, SoundNext

LEMMA SetStep ==
    ASSUME Inv, NEW e \in Ends, mwServiceIm_setClientType(e)
    PROVE  Inv'
  <1>1. TypeOK /\ ClosedOncePerTry /\ Sound
    BY SoundNow
  <1>2. /\ sets < MaxSets /\ sets' = sets + 1
        /\ feat' = [feat EXCEPT ![e] = CHOOSE f \in Features : f # @]
        /\ UNCHANGED <<up, live, conv, nchan, net, sent, rcvd, adrift, owed, cut, breaks>>
    BY DEF mwServiceIm_setClientType
  <1>3. \A g : (CHOOSE f \in Features : f # g) \in Features
    <2>1. \A g : \E f \in Features : f # g
      BY DEF Features
    <2> QED
      BY <2>1
  <1>4. feat' \in [Ends -> Features]
    BY <1>1, <1>2, <1>3 DEF TypeOK
  <1>5. sets' \in 0..MaxSets
    BY <1>1, <1>2, BoundsAssumption DEF TypeOK
  <1>6. TypeOK'
    BY <1>1, <1>2, <1>4, <1>5 DEF TypeOK
  <1>7. ClosedOncePerTry'
    BY <1>1, <1>2 DEF ClosedOncePerTry
  <1>8. Sound'
    BY <1>1, <1>2 DEF Sound
  <1> QED
    BY <1>6, <1>7, <1>8, SoundNext

\* What mwConversation_send writes.
LEMMA SendingIs ==
    ASSUME NEW id \in 1..MaxChans, NEW n \in 1..MaxMsgs, NEW z, NEW ms, Sending(z, n, id, ms)
    PROVE  /\ z \in ClientMsg /\ ms \in Seq(Messages)
           /\ \A m \in Range(ms) : IsPiece(m, id)
           /\ ms = <<>> \/ ~IsOffer(ms[1])
  <1>1. PICK p, r : p = <<n, 1>> /\ r = <<n, 2>>
    OBVIOUS
  <1>2. p \in Part /\ r \in Part
    BY <1>1 DEF Part
  <1>3. <<p>> \in Seq(Part) /\ <<p, r>> \in Seq(Part)
    BY <1>2
  <1>4. /\ Text(n) = [type |-> "PLAIN", parts |-> <<p>>]
        /\ Html(n, 1) = [type |-> "HTML", parts |-> <<p>>]
        /\ Html(n, 2) = [type |-> "HTML", parts |-> <<p, r>>]
    BY <1>1, TextParts
  <1>5. Text(n) \in ClientMsg /\ Html(n, 1) \in ClientMsg /\ Html(n, 2) \in ClientMsg
    <2>1. \A s \in Seq(Part) : /\ [type |-> "PLAIN", parts |-> s] \in ClientMsg
                               /\ [type |-> "HTML", parts |-> s] \in ClientMsg
      BY DEF ClientMsg
    <2> QED
      BY <1>3, <1>4, <2>1
  <1>6. /\ Msg("START", id) \in Messages /\ Msg("STOP", id) \in Messages
        /\ Piece("TEXT", id, p) \in Messages /\ Piece("HTML", id, p) \in Messages
        /\ Piece("HTML", id, r) \in Messages
    BY <1>2, MessageIn
  <1>7. IsPiece(Piece("TEXT", id, p), id) /\ IsPiece(Piece("HTML", id, p), id)
    BY DEF IsPiece, Piece
  <1>8. ASSUME NEW m \in Messages, IsPiece(m, id), ms = <<m>>
        PROVE  /\ ms \in Seq(Messages) /\ \A y \in Range(ms) : IsPiece(y, id)
               /\ ~IsOffer(ms[1])
    <2>1. ms \in Seq(Messages) /\ Range(ms) = {m} /\ ms[1] = m
      BY <1>8, OneMessage
    <2> QED
      BY <1>8, <2>1, NotPieces
  <1>9. CASE z = Text(n) /\ ms = <<Piece("TEXT", id, <<n, 1>>)>>
    BY <1>1, <1>5, <1>6, <1>7, <1>8, <1>9
  <1>10. CASE z = Html(n, 1) /\ ms = <<Piece("HTML", id, <<n, 1>>)>>
    BY <1>1, <1>5, <1>6, <1>7, <1>8, <1>10
  <1>11. CASE z = Html(n, 2) /\ ms = Segmented(id, n)
    <2>1. Piece("HTML", id, <<n, 1>>) \in Messages /\ Piece("HTML", id, <<n, 2>>) \in Messages
      BY <1>1, <1>6
    <2>2. /\ Segmented(id, n) \in Seq(Messages) /\ Segmented(id, n)[1] = Msg("START", id)
          /\ \A x \in Range(Segmented(id, n)) : IsPiece(x, id)
      BY <1>6, <2>1, SegmentMessages
    <2>3. ~IsOffer(Msg("START", id))
      BY DEF IsOffer, Msg
    <2> QED
      BY <1>5, <1>11, <2>2, <2>3
  <1> QED
    BY <1>9, <1>10, <1>11 DEF Sending

LEMMA SendStep ==
    ASSUME Inv, NEW e \in Ends, mwConversation_send(e)
    PROVE  Inv'
  <1>1. TypeOK /\ ClosedOncePerTry /\ Sound
    BY SoundNow
  <1>2. /\ conv[e].state = "OPEN" /\ conv[e].chan /\ up[e] /\ Len(sent[e]) + 1 <= MaxMsgs
        /\ UNCHANGED <<up, live, feat, conv, nchan, rcvd, adrift, owed, cut, breaks, sets>>
    BY DEF mwConversation_send
  <1>3. PICK z, ms : /\ Sending(z, Len(sent[e]) + 1, conv[e].id, ms)
                     /\ sent' = [sent EXCEPT ![e] = Append(@, z)]
                     /\ Sends(e, net[e], ms)
    BY DEF mwConversation_send, Sending
  <1>4. /\ conv[e] \in Conv /\ net[e] \in Seq(Messages) /\ sent[e] \in Seq(ClientMsg)
        /\ Shape(conv[e], up[e], live[e], net[e], nchan)
    BY <1>1, Typing, TwoEnds, SoundShape
  <1>5. conv[e].id \in 1..MaxChans /\ Len(sent[e]) + 1 \in 1..MaxMsgs
    <2>1. conv[e].id # 0 /\ conv[e].id \in Nat /\ conv[e].id <= MaxChans /\ MaxChans \in Nat
      BY <1>2, <1>4, ConvFields, BoundsAssumption DEF Shape
    <2>2. Len(sent[e]) \in Nat /\ MaxMsgs \in Nat
      BY <1>4, LenProperties, BoundsAssumption
    <2> QED
      BY <1>2, <2>1, <2>2
  <1>6. /\ z \in ClientMsg /\ ms \in Seq(Messages) /\ (\A m \in Range(ms) : IsPiece(m, conv[e].id))
        /\ ms = <<>> \/ ~IsOffer(ms[1])
    BY <1>3, <1>5, SendingIs
  <1>7. Append(sent[e], z) \in Seq(ClientMsg)
    BY <1>4, <1>6, AppendProperties
  <1>8. Fine(up["a"], up["b"], live["a"], live["b"], conv["a"], conv["b"], nchan,
             net["a"], net["b"], sent["a"], sent["b"], rcvd["a"], rcvd["b"], cut)
    BY <1>1 DEF Sound
  <1>9. sent' \in [Ends -> Seq(ClientMsg)] /\ net' \in [Ends -> Seq(Messages)] /\ Sound'
    <2>1. CASE e = "a"
      <3>1. /\ sent' \in [Ends -> Seq(ClientMsg)] /\ sent'["a"] = Append(sent["a"], z)
            /\ sent'["b"] = sent["b"]
        BY <1>1, <1>3, <1>7, <2>1 DEF TypeOK, Ends
      <3>2. /\ net' \in [Ends -> Seq(Messages)] /\ net'["a"] = net["a"]
            /\ up["a"] /\ up["b"] => net'["b"] = net["b"] \o ms
            /\ ~up["a"] \/ ~up["b"] => net'["b"] = net["b"]
        BY <1>1, <1>3, <1>4, <1>6, <2>1, WordsA
      <3>3. Yes(up["a"]) /\ Gets(up["b"], net'["b"], net["b"], ms)
        BY <1>2, <2>1, <3>2 DEF Yes, Gets
      <3>4. /\ conv["a"].chan /\ conv["a"].state = "OPEN"
            /\ Sending(z, Len(sent["a"]) + 1, conv["a"].id, ms)
            /\ \A m \in Range(ms) : IsPiece(m, conv["a"].id)
        BY <1>2, <1>3, <1>6, <2>1
      <3>5. Fine(up["a"], up["b"], live["a"], live["b"], conv["a"], conv["b"], nchan,
                 net["a"], net'["b"], Append(sent["a"], z), sent["b"], rcvd["a"], rcvd["b"], cut)
        BY ONLY <1>1, <1>6, <1>8, <3>3, <3>4, Typing, SendA
      <3> QED
        BY <1>2, <3>1, <3>2, <3>5 DEF Sound
    <2>2. CASE e = "b"
      <3>1. /\ sent' \in [Ends -> Seq(ClientMsg)] /\ sent'["b"] = Append(sent["b"], z)
            /\ sent'["a"] = sent["a"]
        BY <1>1, <1>3, <1>7, <2>2 DEF TypeOK, Ends
      <3>2. /\ net' \in [Ends -> Seq(Messages)] /\ net'["b"] = net["b"]
            /\ up["b"] /\ up["a"] => net'["a"] = net["a"] \o ms
            /\ ~up["b"] \/ ~up["a"] => net'["a"] = net["a"]
        BY <1>1, <1>3, <1>4, <1>6, <2>2, WordsB
      <3>3. Yes(up["b"]) /\ Gets(up["a"], net'["a"], net["a"], ms)
        BY <1>2, <2>2, <3>2 DEF Yes, Gets
      <3>4. /\ conv["b"].chan /\ conv["b"].state = "OPEN"
            /\ Sending(z, Len(sent["b"]) + 1, conv["b"].id, ms)
            /\ \A m \in Range(ms) : IsPiece(m, conv["b"].id)
        BY <1>2, <1>3, <1>6, <2>2
      <3>5. Fine(up["a"], up["b"], live["a"], live["b"], conv["a"], conv["b"], nchan,
                 net'["a"], net["b"], sent["a"], Append(sent["b"], z), rcvd["a"], rcvd["b"], cut)
        BY ONLY <1>1, <1>6, <1>8, <3>3, <3>4, Typing, SendB
      <3> QED
        BY <1>2, <3>1, <3>2, <3>5 DEF Sound
    <2> QED
      BY <2>1, <2>2, TwoEnds
  <1>10. TypeOK'
    <2>1. /\ conv' \in [Ends -> Conv] /\ rcvd' \in [Ends -> Seq(ClientMsg)]
          /\ owed' \in [Ends -> Int] /\ nchan' \in 0..MaxChans /\ cut' \in BOOLEAN
          /\ adrift' \in Nat
      BY <1>1, <1>2 DEF TypeOK
    <2> QED
      BY <1>1, <1>2, <1>9, <2>1, TypesNext
  <1>11. ClosedOncePerTry'
    BY <1>1, <1>2 DEF ClosedOncePerTry
  <1> QED
    BY <1>9, <1>10, <1>11, SoundNext

\* A message of a channel that is not the conversation's is dropped.
LEMMA DroppedStep ==
    ASSUME Inv, NEW e \in Ends, net[e] # <<>>, Dropped(e)
    PROVE  Inv'
  <1>1. TypeOK /\ ClosedOncePerTry /\ Sound
    BY SoundNow
  <1>2. /\ Sends(e, Tail(net[e]), <<>>)
        /\ UNCHANGED <<up, live, feat, conv, nchan, sent, rcvd, adrift, owed, cut, breaks, sets>>
    BY DEF Dropped, Rest
  <1>3. net[e] \in Seq(Messages) /\ Tail(net[e]) \in Seq(Messages) /\ Head(net[e]) = net[e][1]
    BY <1>1, Typing, TwoEnds, TailShifted
  <1>4. net[e] # <<>> /\ ~(conv[e].chan /\ conv[e].id = net[e][1].id)
    BY <1>3 DEF Dropped, Ours
  <1>5. Fine(up["a"], up["b"], live["a"], live["b"], conv["a"], conv["b"], nchan,
             net["a"], net["b"], sent["a"], sent["b"], rcvd["a"], rcvd["b"], cut)
    BY <1>1 DEF Sound
  <1>6. net' \in [Ends -> Seq(Messages)] /\ Sound'
    <2>1. CASE e = "a"
      <3>1. net' \in [Ends -> Seq(Messages)] /\ net'["a"] = Tail(net["a"]) /\ net'["b"] = net["b"]
        BY <1>1, <1>2, <1>3, <2>1, SilentA
      <3>2. net["a"] # <<>> /\ ~(conv["a"].chan /\ conv["a"].id = net["a"][1].id)
        BY <1>4, <2>1
      <3>3. Fine(up["a"], up["b"], live["a"], live["b"], conv["a"], conv["b"], nchan,
                 Tail(net["a"]), net["b"], sent["a"], sent["b"], rcvd["a"], rcvd["b"], cut)
        BY ONLY <1>1, <1>5, <3>2, Typing, DropA
      <3> QED
        BY <1>2, <3>1, <3>3 DEF Sound
    <2>2. CASE e = "b"
      <3>1. net' \in [Ends -> Seq(Messages)] /\ net'["b"] = Tail(net["b"]) /\ net'["a"] = net["a"]
        BY <1>1, <1>2, <1>3, <2>2, SilentB
      <3>2. net["b"] # <<>> /\ ~(conv["b"].chan /\ conv["b"].id = net["b"][1].id)
        BY <1>4, <2>2
      <3>3. Fine(up["a"], up["b"], live["a"], live["b"], conv["a"], conv["b"], nchan,
                 net["a"], Tail(net["b"]), sent["a"], sent["b"], rcvd["a"], rcvd["b"], cut)
        BY ONLY <1>1, <1>5, <3>2, Typing, DropB
      <3> QED
        BY <1>2, <3>1, <3>3 DEF Sound
    <2> QED
      BY <2>1, <2>2, TwoEnds
  <1>7. TypeOK'
    BY <1>1, <1>2, <1>6 DEF TypeOK
  <1>8. ClosedOncePerTry'
    BY <1>1, <1>2 DEF ClosedOncePerTry
  <1> QED
    BY <1>6, <1>7, <1>8, SoundNext

LEMMA PieceParts ==
    ASSUME NEW m \in Messages
    PROVE  m.type \in {"TEXT", "HTML"} => m.part \in Part
  BY DEF Messages

LEMMA TakesTyped ==
    ASSUME NEW m \in Messages, NEW c \in Conv, NEW R \in Seq(ClientMsg), NEW x, NEW T,
           Takes(m, c, R, x, T)
    PROVE  x \in Conv /\ T \in Seq(ClientMsg)
  <1>1. c.buf \in Seq(Part) /\ c.mtype \in {"PLAIN", "HTML"} /\ <<>> \in Seq(Part)
    BY ConvFields, NoMessage
  <1>2. m.type \in {"TEXT", "HTML"} =>
           Append(c.buf, m.part) \in Seq(Part) /\ <<m.part>> \in Seq(Part)
    BY <1>1, PieceParts, AppendProperties, OneMessage
  <1>3. \A t \in {"PLAIN", "HTML"}, s \in Seq(Part) : [type |-> t, parts |-> s] \in ClientMsg
    BY DEF ClientMsg
  <1>4. \A z \in ClientMsg : Append(R, z) \in Seq(ClientMsg)
    BY AppendProperties
  <1>5. /\ [c EXCEPT !.multi = TRUE] \in Conv
        /\ [c EXCEPT !.multi = FALSE, !.buf = <<>>] \in Conv
        /\ \A s \in Seq(Part) : /\ [c EXCEPT !.buf = s] \in Conv
                               /\ [c EXCEPT !.buf = s, !.mtype = "HTML"] \in Conv
    BY <1>1 DEF Conv
  <1>6. x \in Conv
    <2>1. \/ x = c \/ x = [c EXCEPT !.multi = TRUE]
          \/ x = [c EXCEPT !.multi = FALSE, !.buf = <<>>]
          \/ m.type \in {"TEXT", "HTML"} /\ x = [c EXCEPT !.buf = Append(c.buf, m.part)]
          \/ /\ m.type \in {"TEXT", "HTML"}
             /\ x = [c EXCEPT !.buf = Append(c.buf, m.part), !.mtype = "HTML"]
      BY DEF Takes
    <2> QED
      BY <1>2, <1>5, <2>1
  <1>7. T \in Seq(ClientMsg)
    <2>1. \/ T = R \/ T = Append(R, [type |-> c.mtype, parts |-> c.buf])
          \/ /\ m.type \in {"TEXT", "HTML"}
             /\ \E t \in {"PLAIN", "HTML"} : T = Append(R, [type |-> t, parts |-> <<m.part>>])
      BY DEF Takes
    <2> QED
      BY <1>1, <1>2, <1>3, <1>4, <2>1
  <1> QED
    BY <1>6, <1>7

\* recv_text and recv_data do what Takes says.
LEMMA RecvIs ==
    ASSUME TypeOK, NEW e \in Ends, recv(e), ~Dropped(e)
    PROVE  \E x, T : /\ Takes(Head(net[e]), conv[e], rcvd[e], x, T)
                     /\ conv' = [conv EXCEPT ![e] = x] /\ rcvd' = [rcvd EXCEPT ![e] = T]
  <1>1. conv \in [Ends -> Conv] /\ rcvd \in [Ends -> Seq(ClientMsg)]
    BY DEF TypeOK
  <1>2. PICK m : m = Head(net[e])
    OBVIOUS
  <1>3. PICK c : c = conv[e]
    OBVIOUS
  <1>4. m.type \in {"TEXT", "HTML", "START", "STOP"}
    BY <1>2 DEF recv, Receives
  <1>5. CASE m.type = "START" /\ ~c.multi
    <2>1. /\ conv' = [conv EXCEPT ![e] = [c EXCEPT !.multi = TRUE]]
          /\ rcvd' = rcvd
      BY <1>2, <1>3, <1>5 DEF recv, Gather, Deliver
    <2>2. /\ conv' = [conv EXCEPT ![e] = [c EXCEPT !.multi = TRUE]]
          /\ rcvd' = [rcvd EXCEPT ![e] = rcvd[e]]
      BY <1>1, <1>3, <2>1
    <2>3. Takes(m, c, rcvd[e], [c EXCEPT !.multi = TRUE],
                rcvd[e])
      BY <1>5 DEF Takes
    <2> QED
      BY <1>2, <1>3, <2>2, <2>3
  <1>6. CASE m.type = "START" /\ c.multi
    <2>1. /\ conv' = conv
          /\ rcvd' = rcvd
      BY <1>2, <1>3, <1>6 DEF recv, Gather, Deliver
    <2>2. /\ conv' = [conv EXCEPT ![e] = c]
          /\ rcvd' = [rcvd EXCEPT ![e] = rcvd[e]]
      BY <1>1, <1>3, <2>1
    <2>3. Takes(m, c, rcvd[e], c,
                rcvd[e])
      BY <1>6 DEF Takes
    <2> QED
      BY <1>2, <1>3, <2>2, <2>3
  <1>7. CASE m.type = "STOP" /\ c.multi
    <2>1. /\ conv' = [conv EXCEPT ![e] = [c EXCEPT !.multi = FALSE, !.buf = <<>>]]
          /\ rcvd' = [rcvd EXCEPT ![e] = Append(@, [type |-> c.mtype, parts |-> c.buf])]
      BY <1>2, <1>3, <1>7 DEF recv, Gather, Deliver
    <2>2. /\ conv' = [conv EXCEPT ![e] = [c EXCEPT !.multi = FALSE, !.buf = <<>>]]
          /\ rcvd' = [rcvd EXCEPT ![e] = Append(rcvd[e], [type |-> c.mtype, parts |-> c.buf])]
      BY <1>1, <1>3, <2>1
    <2>3. Takes(m, c, rcvd[e], [c EXCEPT !.multi = FALSE, !.buf = <<>>],
                Append(rcvd[e], [type |-> c.mtype, parts |-> c.buf]))
      BY <1>7 DEF Takes
    <2> QED
      BY <1>2, <1>3, <2>2, <2>3
  <1>8. CASE m.type = "STOP" /\ ~c.multi
    <2>1. /\ conv' = conv
          /\ rcvd' = rcvd
      BY <1>2, <1>3, <1>8 DEF recv, Gather, Deliver
    <2>2. /\ conv' = [conv EXCEPT ![e] = c]
          /\ rcvd' = [rcvd EXCEPT ![e] = rcvd[e]]
      BY <1>1, <1>3, <2>1
    <2>3. Takes(m, c, rcvd[e], c,
                rcvd[e])
      BY <1>8 DEF Takes
    <2> QED
      BY <1>2, <1>3, <2>2, <2>3
  <1>9. CASE m.type = "TEXT" /\ c.multi
    <2>1. /\ conv' = [conv EXCEPT ![e] = [c EXCEPT !.buf = Append(@, m.part)]]
          /\ rcvd' = rcvd
      BY <1>2, <1>3, <1>9 DEF recv, Gather, Deliver
    <2>2. /\ conv' = [conv EXCEPT ![e] = [c EXCEPT !.buf = Append(@, m.part)]]
          /\ rcvd' = [rcvd EXCEPT ![e] = rcvd[e]]
      BY <1>1, <1>3, <2>1
    <2>3. Takes(m, c, rcvd[e], [c EXCEPT !.buf = Append(@, m.part)],
                rcvd[e])
      BY <1>9 DEF Takes
    <2> QED
      BY <1>2, <1>3, <2>2, <2>3
  <1>10. CASE m.type = "HTML" /\ c.multi
    <2>1. /\ conv' = [conv EXCEPT ![e] = [c EXCEPT !.buf = Append(@, m.part), !.mtype = "HTML"]]
          /\ rcvd' = rcvd
      BY <1>2, <1>3, <1>10 DEF recv, Gather, Deliver
    <2>2. /\ conv' = [conv EXCEPT ![e] = [c EXCEPT !.buf = Append(@, m.part), !.mtype = "HTML"]]
          /\ rcvd' = [rcvd EXCEPT ![e] = rcvd[e]]
      BY <1>1, <1>3, <2>1
    <2>3. Takes(m, c, rcvd[e], [c EXCEPT !.buf = Append(@, m.part), !.mtype = "HTML"],
                rcvd[e])
      BY <1>10 DEF Takes
    <2> QED
      BY <1>2, <1>3, <2>2, <2>3
  <1>11. CASE m.type = "TEXT" /\ ~c.multi
    <2>1. /\ conv' = conv
          /\ rcvd' = [rcvd EXCEPT ![e] = Append(@, [type |-> "PLAIN", parts |-> <<m.part>>])]
      BY <1>2, <1>3, <1>11 DEF recv, Gather, Deliver
    <2>2. /\ conv' = [conv EXCEPT ![e] = c]
          /\ rcvd' = [rcvd EXCEPT ![e] = Append(rcvd[e], [type |-> "PLAIN", parts |-> <<m.part>>])]
      BY <1>1, <1>3, <2>1
    <2>3. Takes(m, c, rcvd[e], c,
                Append(rcvd[e], [type |-> "PLAIN", parts |-> <<m.part>>]))
      BY <1>11 DEF Takes
    <2> QED
      BY <1>2, <1>3, <2>2, <2>3
  <1>12. CASE m.type = "HTML" /\ ~c.multi
    <2>1. /\ conv' = conv
          /\ rcvd' = [rcvd EXCEPT ![e] = Append(@, [type |-> "HTML", parts |-> <<m.part>>])]
      BY <1>2, <1>3, <1>12 DEF recv, Gather, Deliver
    <2>2. /\ conv' = [conv EXCEPT ![e] = c]
          /\ rcvd' = [rcvd EXCEPT ![e] = Append(rcvd[e], [type |-> "HTML", parts |-> <<m.part>>])]
      BY <1>1, <1>3, <2>1
    <2>3. Takes(m, c, rcvd[e], c,
                Append(rcvd[e], [type |-> "HTML", parts |-> <<m.part>>]))
      BY <1>12 DEF Takes
    <2> QED
      BY <1>2, <1>3, <2>2, <2>3
  <1> QED
    BY <1>4, <1>5, <1>6, <1>7, <1>8, <1>9, <1>10, <1>11, <1>12

LEMMA RecvStep ==
    ASSUME Inv, NEW e \in Ends, recv(e)
    PROVE  Inv'
  <1>1. TypeOK /\ ClosedOncePerTry /\ Sound
    BY SoundNow
  <1> SUFFICES ASSUME ~Dropped(e) PROVE Inv'
    BY DroppedStep DEF recv, Receives
  <1>2. /\ Sends(e, Tail(net[e]), <<>>)
        /\ UNCHANGED <<up, live, feat, nchan, sent, adrift, owed, cut, breaks, sets>>
    BY DEF recv, Rest
  <1>3. /\ net[e] # <<>> /\ net[e] \in Seq(Messages) /\ Tail(net[e]) \in Seq(Messages)
        /\ Head(net[e]) = net[e][1] /\ net[e][1] \in Messages
        /\ conv[e] \in Conv /\ rcvd[e] \in Seq(ClientMsg)
    BY <1>1, Typing, TwoEnds, TailShifted DEF recv, Receives
  <1>4. net[e] # <<>> /\ conv[e].chan /\ IsPiece(net[e][1], conv[e].id)
    BY <1>3 DEF recv, Receives, Ours, IsPiece
  <1>5. PICK x, T : /\ Takes(net[e][1], conv[e], rcvd[e], x, T)
                    /\ conv' = [conv EXCEPT ![e] = x] /\ rcvd' = [rcvd EXCEPT ![e] = T]
    BY <1>1, <1>3, RecvIs
  <1>6. x \in Conv /\ T \in Seq(ClientMsg) /\ x.state = conv[e].state
    BY <1>3, <1>5, TakesTyped, TakesLeaves
  <1>7. conv' \in [Ends -> Conv] /\ rcvd' \in [Ends -> Seq(ClientMsg)]
    BY <1>1, <1>5, <1>6 DEF TypeOK
  <1>8. Fine(up["a"], up["b"], live["a"], live["b"], conv["a"], conv["b"], nchan,
             net["a"], net["b"], sent["a"], sent["b"], rcvd["a"], rcvd["b"], cut)
    BY <1>1 DEF Sound
  <1>9. net' \in [Ends -> Seq(Messages)] /\ Sound'
    <2>1. CASE e = "a"
      <3>1. net' \in [Ends -> Seq(Messages)] /\ net'["a"] = Tail(net["a"]) /\ net'["b"] = net["b"]
        BY <1>1, <1>2, <1>3, <2>1, SilentA
      <3>2. /\ net["a"] # <<>> /\ conv["a"].chan /\ IsPiece(net["a"][1], conv["a"].id)
            /\ Takes(net["a"][1], conv["a"], rcvd["a"], x, T)
        BY <1>4, <1>5, <2>1
      <3>3. /\ conv'["a"] = x /\ conv'["b"] = conv["b"]
            /\ rcvd'["a"] = T /\ rcvd'["b"] = rcvd["b"]
        BY <1>1, <1>5, <2>1 DEF TypeOK, Ends
      <3>4. Fine(up["a"], up["b"], live["a"], live["b"], x, conv["b"], nchan,
                 Tail(net["a"]), net["b"], sent["a"], sent["b"], T, rcvd["b"], cut)
        BY ONLY <1>1, <1>8, <3>2, Typing, TakeA
      <3> QED
        BY <1>2, <3>1, <3>3, <3>4 DEF Sound
    <2>2. CASE e = "b"
      <3>1. net' \in [Ends -> Seq(Messages)] /\ net'["b"] = Tail(net["b"]) /\ net'["a"] = net["a"]
        BY <1>1, <1>2, <1>3, <2>2, SilentB
      <3>2. /\ net["b"] # <<>> /\ conv["b"].chan /\ IsPiece(net["b"][1], conv["b"].id)
            /\ Takes(net["b"][1], conv["b"], rcvd["b"], x, T)
        BY <1>4, <1>5, <2>2
      <3>3. /\ conv'["b"] = x /\ conv'["a"] = conv["a"]
            /\ rcvd'["b"] = T /\ rcvd'["a"] = rcvd["a"]
        BY <1>1, <1>5, <2>2 DEF TypeOK, Ends
      <3>4. Fine(up["a"], up["b"], live["a"], live["b"], conv["a"], x, nchan,
                 net["a"], Tail(net["b"]), sent["a"], sent["b"], rcvd["a"], T, cut)
        BY ONLY <1>1, <1>8, <3>2, Typing, TakeB
      <3> QED
        BY <1>2, <3>1, <3>3, <3>4 DEF Sound
    <2> QED
      BY <2>1, <2>2, TwoEnds
  <1>10. TypeOK'
    BY <1>1, <1>2, <1>7, <1>9 DEF TypeOK
  <1>11. ClosedOncePerTry'
    <2>1. \A i \in Ends : conv'[i].state = conv[i].state
      BY <1>1, <1>5, <1>6 DEF TypeOK
    <2> QED
      BY <1>1, <1>2, <2>1 DEF ClosedOncePerTry
  <1> QED
    BY <1>9, <1>10, <1>11, SoundNext

LEMMA AcceptStep ==
    ASSUME Inv, recv_channelAccept
    PROVE  Inv'
  <1>1. TypeOK /\ ClosedOncePerTry /\ Sound
    BY SoundNow
  <1> SUFFICES ASSUME ~Dropped("a") PROVE Inv'
    BY DroppedStep, TwoEnds DEF recv_channelAccept, Receives
  <1>2. /\ conv' = [conv EXCEPT !["a"].state = "OPEN"] /\ Sends("a", Tail(net["a"]), <<>>)
        /\ UNCHANGED <<up, live, feat, nchan, sent, rcvd, adrift, owed, cut, breaks, sets>>
    BY DEF recv_channelAccept, Rest
  <1>3. /\ net["a"] # <<>> /\ Tail(net["a"]) \in Seq(Messages)
        /\ Head(net["a"]) = net["a"][1] /\ conv["a"] \in Conv
    BY <1>1, Typing, TailShifted DEF recv_channelAccept, Receives
  <1>4. conv["a"].chan /\ Accepts(net["a"][1], conv["a"].id)
    BY <1>3 DEF recv_channelAccept, Receives, Ours, Accepts
  <1>5. PICK x : x = [conv["a"] EXCEPT !.state = "OPEN"]
    OBVIOUS
  <1>6. x \in Conv /\ x.state = "OPEN" /\ SameTalk(conv["a"], x)
    BY <1>3, <1>5 DEF Conv, SameTalk
  <1>7. conv' \in [Ends -> Conv] /\ conv'["a"] = x /\ conv'["b"] = conv["b"]
    BY <1>1, <1>2, <1>5, <1>6 DEF TypeOK, Ends
  <1>8. net' \in [Ends -> Seq(Messages)] /\ net'["a"] = Tail(net["a"]) /\ net'["b"] = net["b"]
    BY <1>1, <1>2, <1>3, SilentA
  <1>9. Fine(up["a"], up["b"], live["a"], live["b"], conv["a"], conv["b"], nchan,
             net["a"], net["b"], sent["a"], sent["b"], rcvd["a"], rcvd["b"], cut)
    BY <1>1 DEF Sound
  <1>10. Fine(up["a"], up["b"], live["a"], live["b"], x, conv["b"], nchan,
              Tail(net["a"]), net["b"], sent["a"], sent["b"], rcvd["a"], rcvd["b"], cut)
    BY ONLY <1>1, <1>3, <1>4, <1>6, <1>9, Typing, AcceptedA
  <1>11. Sound'
    BY <1>2, <1>7, <1>8, <1>10 DEF Sound
  <1>12. TypeOK'
    BY <1>1, <1>2, <1>7, <1>8 DEF TypeOK
  <1>13. ClosedOncePerTry'
    <2>1. conv["a"].state # "CLOSED"
      BY <1>1, <1>4, SoundShape DEF Shape
    <2> QED
      BY <1>1, <1>2, <1>6, <1>7, <2>1, OwedNow, OwedNext
  <1> QED
    BY <1>11, <1>12, <1>13, SoundNext

LEMMA LogStep ==
    ASSUME Inv, NEW e \in Ends, LogsIn(e)
    PROVE  Inv'
  <1>1. TypeOK /\ ClosedOncePerTry /\ Sound
    BY SoundNow
  <1>2. /\ ~live[e] /\ live' = [live EXCEPT ![e] = TRUE] /\ up' = [up EXCEPT ![e] = TRUE]
        /\ UNCHANGED <<feat, conv, nchan, net, sent, rcvd, adrift, owed, cut, breaks, sets>>
    BY DEF LogsIn
  <1>3. Fine(up["a"], up["b"], live["a"], live["b"], conv["a"], conv["b"], nchan,
             net["a"], net["b"], sent["a"], sent["b"], rcvd["a"], rcvd["b"], cut)
    BY <1>1 DEF Sound
  <1>4. Sound'
    <2>1. CASE e = "a"
      <3>1. /\ up'["a"] = TRUE /\ up'["b"] = up["b"]
            /\ live'["a"] = TRUE /\ live'["b"] = live["b"]
        BY <1>1, <1>2, <2>1 DEF TypeOK, Ends
      <3>2. No(live["a"])
        BY <1>2, <2>1 DEF No
      <3>3. Fine(TRUE, up["b"], TRUE, live["b"], conv["a"], conv["b"], nchan,
                 net["a"], net["b"], sent["a"], sent["b"], rcvd["a"], rcvd["b"], cut)
        BY ONLY <1>1, <1>3, <3>2, Typing, LogA
      <3> QED
        BY <1>2, <3>1, <3>3 DEF Sound
    <2>2. CASE e = "b"
      <3>1. /\ up'["b"] = TRUE /\ up'["a"] = up["a"]
            /\ live'["b"] = TRUE /\ live'["a"] = live["a"]
        BY <1>1, <1>2, <2>2 DEF TypeOK, Ends
      <3>2. No(live["b"])
        BY <1>2, <2>2 DEF No
      <3>3. Fine(up["a"], TRUE, live["a"], TRUE, conv["a"], conv["b"], nchan,
                 net["a"], net["b"], sent["a"], sent["b"], rcvd["a"], rcvd["b"], cut)
        BY ONLY <1>1, <1>3, <3>2, Typing, LogB
      <3> QED
        BY <1>2, <3>1, <3>3 DEF Sound
    <2> QED
      BY <2>1, <2>2, TwoEnds
  <1>5. TypeOK'
    BY <1>1, <1>2 DEF TypeOK
  <1>6. ClosedOncePerTry'
    BY <1>1, <1>2 DEF ClosedOncePerTry
  <1> QED
    BY <1>4, <1>5, <1>6, SoundNext

LEMMA BreakStep ==
    ASSUME Inv, NEW e \in Ends, LinkBreaks(e)
    PROVE  Inv'
  <1>1. TypeOK /\ ClosedOncePerTry /\ Sound
    BY SoundNow
  <1>2. /\ up[e] /\ breaks < MaxBreaks /\ breaks' = breaks + 1
        /\ up' = [up EXCEPT ![e] = FALSE]
        /\ UNCHANGED <<live, feat, conv, nchan, sent, rcvd, adrift, owed, cut, sets>>
    BY DEF LinkBreaks
  <1>3. Fine(up["a"], up["b"], live["a"], live["b"], conv["a"], conv["b"], nchan,
             net["a"], net["b"], sent["a"], sent["b"], rcvd["a"], rcvd["b"], cut)
    BY <1>1 DEF Sound
  <1>4. PICK n \in 0..Len(net[Other(e)]) :
          net' = [net EXCEPT
                    ![Other(e)] = IF up[Other(e)]
                       THEN SubSeq(@, 1, n) \o [i \in 1..nchan |-> Destroy(i, "OTHER")]
                       ELSE @]
    BY DEF LinkBreaks
  <1>5. PICK ms : Ended(ms, nchan)
    BY DEF Ended
  <1>6. /\ net[Other(e)] \in Seq(Messages) /\ Other(e) \in Ends /\ Other(e) # e
        /\ SubSeq(net[Other(e)], 1, n) \o ms \in Seq(Messages)
    <2>1. net[Other(e)] \in Seq(Messages) /\ Other(e) \in Ends /\ Other(e) # e
      BY <1>1, Typing, TwoEnds
    <2>2. ms \in Seq(Messages)
      BY <1>1, <1>5, Typing, EndedIs
    <2>3. SubSeq(net[Other(e)], 1, n) \in Seq(Messages)
      BY <2>1, FrontIs
    <2> QED
      BY <2>1, <2>2, <2>3, ConcatBehind
  <1>7. /\ net' \in [Ends -> Seq(Messages)] /\ net'[e] = net[e]
        /\ Cuts(up[Other(e)], net'[Other(e)], net[Other(e)], n, ms)
    <2>1. /\ up[Other(e)] => net' = [net EXCEPT ![Other(e)] = SubSeq(net[Other(e)], 1, n) \o ms]
          /\ ~up[Other(e)] => net' = [net EXCEPT ![Other(e)] = net[Other(e)]]
      BY <1>4, <1>5 DEF Ended
    <2>2. net \in [Ends -> Seq(Messages)]
      BY <1>1 DEF TypeOK
    <2>3. CASE up[Other(e)]
      <3>1. /\ net' \in [Ends -> Seq(Messages)] /\ net'[e] = net[e]
            /\ net'[Other(e)] = SubSeq(net[Other(e)], 1, n) \o ms
        BY <1>6, <2>1, <2>2, <2>3
      <3> QED
        BY <2>3, <3>1 DEF Cuts
    <2>4. CASE ~up[Other(e)]
      <3>1. net' = net
        BY <2>1, <2>2, <2>4
      <3> QED
        BY <2>2, <2>4, <3>1 DEF Cuts
    <2> QED
      BY <2>3, <2>4
  <1>8. Sound'
    <2>1. CASE e = "a"
      <3>1. up'["a"] = FALSE /\ up'["b"] = up["b"]
        BY <1>1, <1>2, <2>1 DEF TypeOK, Ends
      <3>2. /\ net'["a"] = net["a"] /\ Yes(up["a"]) /\ n \in 0..Len(net["b"])
            /\ Cuts(up["b"], net'["b"], net["b"], n, ms)
        BY <1>2, <1>7, <2>1, TwoEnds DEF Yes
      <3>3. Fine(FALSE, up["b"], live["a"], live["b"], conv["a"], conv["b"], nchan,
                 net["a"], net'["b"], sent["a"], sent["b"], rcvd["a"], rcvd["b"], cut)
        BY ONLY <1>1, <1>3, <1>5, <3>2, Typing, BreakA
      <3> QED
        BY <1>2, <3>1, <3>2, <3>3 DEF Sound
    <2>2. CASE e = "b"
      <3>1. up'["b"] = FALSE /\ up'["a"] = up["a"]
        BY <1>1, <1>2, <2>2 DEF TypeOK, Ends
      <3>2. /\ net'["b"] = net["b"] /\ Yes(up["b"]) /\ n \in 0..Len(net["a"])
            /\ Cuts(up["a"], net'["a"], net["a"], n, ms)
        BY <1>2, <1>7, <2>2, TwoEnds DEF Yes
      <3>3. Fine(up["a"], FALSE, live["a"], live["b"], conv["a"], conv["b"], nchan,
                 net'["a"], net["b"], sent["a"], sent["b"], rcvd["a"], rcvd["b"], cut)
        BY ONLY <1>1, <1>3, <1>5, <3>2, Typing, BreakB
      <3> QED
        BY <1>2, <3>1, <3>2, <3>3 DEF Sound
    <2> QED
      BY <2>1, <2>2, TwoEnds
  <1>9. TypeOK'
    <2>1. breaks' \in 0..MaxBreaks
      BY <1>1, <1>2, BoundsAssumption DEF TypeOK
    <2> QED
      BY <1>1, <1>2, <1>7, <2>1 DEF TypeOK
  <1>10. ClosedOncePerTry'
    BY <1>1, <1>2 DEF ClosedOncePerTry
  <1> QED
    BY <1>8, <1>9, <1>10, SoundNext

LEMMA StopStep ==
    ASSUME Inv, NEW e \in Ends, ServiceStops(e)
    PROVE  Inv'
  <1>1. TypeOK /\ ClosedOncePerTry /\ Sound
    BY SoundNow
  <1>2. /\ live[e] /\ ~up[e] /\ live' = [live EXCEPT ![e] = FALSE]
        /\ conv' = [conv EXCEPT ![e] = Absent] /\ Sends(e, <<>>, <<>>)
        /\ adrift' = adrift - (IF e = "b" THEN adrift ELSE 0)
        /\ owed' = [owed EXCEPT ![e] = @ - (IF conv[e].state = "CLOSED" THEN 0 ELSE 1)
                                         - (IF e = "b" THEN adrift ELSE 0)]
        /\ UNCHANGED <<up, feat, nchan, sent, rcvd, cut, breaks, sets>>
    BY DEF ServiceStops
  <1>3. <<>> \in Seq(Messages) /\ Range(<<>>) = {}
    BY NoMessage
  <1>5. live' \in [Ends -> BOOLEAN]
    BY <1>1, <1>2 DEF TypeOK
  <1>6. /\ Absent \in Conv /\ ~Absent.chan /\ Absent.state = "CLOSED" /\ Absent.id = 0
        /\ ~Absent.multi /\ Absent.buf = <<>>
    BY AbsentIs
  <1>7. /\ Keeps(cut', cut, Absent) /\ Ceases(Absent, conv["a"]) /\ Rests(Absent)
    BY <1>2, <1>6 DEF Keeps, Ceases, Rests
  <1>10. /\ adrift \in Nat /\ owed \in [Ends -> Int]
         /\ owed["a"] = IF conv["a"].state = "CLOSED" THEN 0 ELSE 1
         /\ owed["b"] = (IF conv["b"].state = "CLOSED" THEN 0 ELSE 1) + adrift
    BY <1>1, OwedNow
  <1>8. /\ conv' \in [Ends -> Conv] /\ net' \in [Ends -> Seq(Messages)] /\ adrift' \in Nat
        /\ owed' \in [Ends -> Int] /\ ClosedOncePerTry' /\ Sound'
    <2>1. CASE e = "a"
      <3>1. live'["a"] = FALSE /\ live'["b"] = live["b"] /\ ~up["a"]
        BY <1>1, <1>2, <2>1 DEF TypeOK, Ends
      <3>2. Held(conv["a"], up["a"], net["a"]) = {}
        BY <3>1, HeldNone
      <3>3. net' \in [Ends -> Seq(Messages)] /\ net'["a"] = <<>> /\ net'["b"] = net["b"]
        BY <1>1, <1>2, <1>3, <2>1, SilentA
      <3>4. /\ net'["a"] \in Seq(Messages) /\ Range(net'["a"]) \subseteq Range(net["a"])
            /\ Leaves(live'["a"], up["a"], net'["a"]) /\ UNCHANGED <<up, nchan, sent, rcvd>>
            /\ Told(net'["b"], net["b"], up["b"], Held(conv["a"], up["a"], net["a"]), conv["a"].id)
        BY <1>2, <1>3, <3>1, <3>2, <3>3 DEF Told, Leaves
      <3>5. conv' = [conv EXCEPT !["a"] = Absent]
        BY <1>2, <2>1
      <3>6. /\ conv' \in [Ends -> Conv] /\ conv'["a"] = Absent /\ conv'["b"] = conv["b"]
            /\ Sound'
        BY <1>1, <1>6, <1>7, <3>1, <3>4, <3>5, QuitStepA
      <3>7. adrift' = adrift /\ owed' \in [Ends -> Int] /\ owed'["a"] = 0 /\ owed'["b"] = owed["b"]
        BY <1>2, <1>10, <2>1 DEF Ends
      <3>8. ClosedOncePerTry'
        BY <1>6, <1>10, <3>6, <3>7, OwedNext
      <3> QED
        BY <1>10, <3>3, <3>6, <3>7, <3>8
    <2>2. CASE e = "b"
      <3>1. live'["b"] = FALSE /\ live'["a"] = live["a"] /\ ~up["b"]
        BY <1>1, <1>2, <2>2 DEF TypeOK, Ends
      <3>2. Leaves(live'["b"], up["b"], <<>>) /\ MayLose(up["b"], <<>>, net["b"])
        BY <3>1 DEF Leaves, MayLose
      <3>3. net' \in [Ends -> Seq(Messages)] /\ net'["b"] = <<>> /\ net'["a"] = net["a"]
        BY <1>1, <1>2, <1>3, <2>2, SilentB
      <3>4. Told(net["a"], net["a"], up["a"], {}, conv["b"].id)
        BY DEF Told
      <3>5. conv' \in [Ends -> Conv] /\ conv'["b"] = Absent /\ conv'["a"] = conv["a"]
        BY <1>1, <1>2, <1>6, <2>2 DEF TypeOK, Ends
      <3>6. PICK y, z : y = sent["b"] /\ z = rcvd["b"]
        OBVIOUS
      <3>7. Fine(up["a"], up["b"], live["a"], live'["b"], conv["a"], Absent, nchan,
                 net["a"], <<>>, sent["a"], y, rcvd["a"], z, cut')
        BY <1>1, <1>6, <1>7, <3>2, <3>4, <3>6, QuitStepB
      <3>8. adrift' = 0 /\ owed' \in [Ends -> Int] /\ owed'["b"] = 0 /\ owed'["a"] = owed["a"]
        BY <1>2, <1>10, <2>2 DEF Ends
      <3>9. ClosedOncePerTry'
        BY <1>6, <1>10, <3>5, <3>8, OwedNext
      <3>10. Sound'
        BY <1>2, <3>1, <3>3, <3>5, <3>6, <3>7 DEF Sound
      <3> QED
        BY <3>3, <3>5, <3>8, <3>9, <3>10
    <2> QED
      BY <2>1, <2>2, TwoEnds
  <1>9. TypeOK'
    BY <1>1, <1>2, <1>5, <1>8 DEF TypeOK
  <1> QED
    BY <1>8, <1>9, SoundNext

\* The client of "b" closes a conversation that was left without a channel.
LEMMA AdriftStep ==
    ASSUME Inv, mwConversation_close_adrift
    PROVE  Inv'
  <1>1. TypeOK /\ ClosedOncePerTry /\ Sound
    BY SoundNow
  <1>2. /\ adrift > 0 /\ adrift' = adrift - 1 /\ owed' = [owed EXCEPT !["b"] = @ - 1]
        /\ UNCHANGED <<up, live, feat, conv, nchan, net, sent, rcvd, cut, breaks, sets>>
    BY DEF mwConversation_close_adrift
  <1>3. /\ adrift \in Nat /\ owed \in [Ends -> Int]
        /\ owed["a"] = IF conv["a"].state = "CLOSED" THEN 0 ELSE 1
        /\ owed["b"] = (IF conv["b"].state = "CLOSED" THEN 0 ELSE 1) + adrift
    BY <1>1, OwedNow
  <1>4. /\ adrift' \in Nat /\ owed' \in [Ends -> Int] /\ owed'["a"] = owed["a"]
        /\ owed'["b"] = owed["b"] - 1
    BY <1>2, <1>3 DEF Ends
  <1>5. ClosedOncePerTry'
    BY <1>2, <1>3, <1>4, OwedNext
  <1>6. TypeOK'
    BY <1>1, <1>2, <1>4 DEF TypeOK
  <1>7. Sound'
    BY <1>1, <1>2 DEF Sound
  <1> QED
    BY <1>5, <1>6, <1>7, SoundNext

LEMMA CreateStep ==
    ASSUME Inv, recv_channelCreate
    PROVE  Inv'
  <1>1. TypeOK /\ ClosedOncePerTry /\ Sound
    BY SoundNow
  <1>2. PICK m : m = Head(net["b"])
    OBVIOUS
  <1>3. /\ net["b"] # <<>> /\ Tail(net["b"]) \in Seq(Messages) /\ m = net["b"][1]
        /\ m \in Messages
    BY <1>1, <1>2, Typing, TailShifted DEF recv_channelCreate, Receives
  <1>4. IsOffer(m) /\ UNCHANGED <<up, live, feat, nchan, cut, breaks, sets>>
    BY <1>2 DEF recv_channelCreate, Receives, IsOffer
  <1>5. Fine(up["a"], up["b"], live["a"], live["b"], conv["a"], conv["b"], nchan,
             net["a"], net["b"], sent["a"], sent["b"], rcvd["a"], rcvd["b"], cut)
    BY <1>1 DEF Sound
  <1>6. IsOffer(net["b"][1])
    BY <1>3, <1>4
  <1>7. PICK k : k = IF conv["b"].state = "CLOSED" THEN adrift ELSE adrift + 1
    OBVIOUS
  <1>12. k \in Nat /\ owed["b"] = k /\ owed \in [Ends -> Int] /\ adrift \in Nat
         /\ owed["a"] = IF conv["a"].state = "CLOSED" THEN 0 ELSE 1
    BY <1>1, <1>7, OwedNow
  <1>8. m.id \in 1..MaxChans /\ m.feats \in Features
    BY <1>3, <1>4 DEF Messages, IsOffer
  <1>9. CASE \E r \in Reason :
               /\ Sends("b", Tail(net["b"]), <<Destroy(m.id, r)>>)
               /\ UNCHANGED <<conv, sent, rcvd, adrift, owed>>
    <2>1. PICK r \in Reason : /\ Sends("b", Tail(net["b"]), <<Destroy(m.id, r)>>)
                              /\ UNCHANGED <<conv, sent, rcvd, adrift, owed>>
      BY <1>9
    <2>2. PICK e : e = Destroy(m.id, r)
      OBVIOUS
    <2>3. e \in Messages /\ IsEnd(e, net["b"][1].id) /\ ~IsOffer(e)
      <3>1. e \in Messages
        BY <1>8, <2>2, MessageIn
      <3> QED
        BY <1>3, <2>2, <3>1 DEF Destroy, IsEnd, IsOffer
    <2>4. PICK ms : Single(ms, e)
      BY DEF Single
    <2>5. ms \in Seq(Messages) /\ ms[1] = e
      BY <2>3, <2>4, OneMessage DEF Single
    <2>6. Sends("b", Tail(net["b"]), ms)
      BY <2>1, <2>2, <2>4 DEF Single
    <2>7. /\ net' \in [Ends -> Seq(Messages)] /\ net'["b"] = Tail(net["b"])
          /\ up["b"] /\ up["a"] => net'["a"] = net["a"] \o ms
          /\ ~up["b"] \/ ~up["a"] => net'["a"] = net["a"]
      BY <1>1, <1>3, <2>3, <2>5, <2>6, WordsB
    <2>8. MayGet(up["a"], net'["a"], net["a"], e)
      BY <2>4, <2>7 DEF Single, MayGet
    <2>9. Fine(up["a"], up["b"], live["a"], live["b"], conv["a"], conv["b"], nchan,
               net'["a"], Tail(net["b"]), sent["a"], sent["b"], rcvd["a"], rcvd["b"], cut)
      BY ONLY <1>1, <1>3, <1>5, <1>6, <2>3, <2>8, Typing, RefuseB
    <2>10. Sound'
      BY <1>4, <2>1, <2>7, <2>9 DEF Sound
    <2>11. TypeOK'
      BY <1>1, <1>4, <2>1, <2>7 DEF TypeOK
    <2>12. ClosedOncePerTry'
      BY <1>1, <2>1 DEF ClosedOncePerTry
    <2> QED
      BY <2>10, <2>11, <2>12, SoundNext
  <1>10. CASE /\ adrift' = k
              /\ sent' = [sent EXCEPT !["b"] = <<>>] /\ rcvd' = [rcvd EXCEPT !["b"] = <<>>]
              /\ up["b"]
              /\ conv' = [conv EXCEPT
                            !["b"] = [[Fresh(OfferedFeatures(m)) EXCEPT !.state = "PENDING",
                                        !.chan = TRUE, !.id = m.id] EXCEPT !.state = "OPEN"]]
              /\ Sends("b", Tail(net["b"]), <<Msg("ACCEPT", m.id)>>)
              /\ owed' = [owed EXCEPT !["b"] = @ + 1]
    <2>1. PICK x : x = [[Fresh(OfferedFeatures(m)) EXCEPT !.state = "PENDING",
                           !.chan = TRUE, !.id = m.id] EXCEPT !.state = "OPEN"]
      OBVIOUS
    <2>2. /\ x \in Conv /\ x.state = "OPEN" /\ x.chan = TRUE /\ x.id = m.id /\ x.feats = m.feats
          /\ x.multi = FALSE /\ x.buf = <<>>
      <3>1. m.id \in 0..MaxChans /\ <<>> \in Seq(Part)
        BY <1>8, NoMessage
      <3> QED
        BY <1>8, <2>1, <3>1 DEF Fresh, OfferedFeatures, Conv
    <2>3. /\ x.id = net["b"][1].id /\ x.state = "OPEN" /\ x.chan /\ x.feats = net["b"][1].feats
          /\ ~x.multi /\ x.buf = <<>>
      BY <1>3, <2>2
    <2>4. PICK e : e = Msg("ACCEPT", m.id)
      OBVIOUS
    <2>5. e \in Messages /\ Accepts(e, net["b"][1].id) /\ ~IsOffer(e)
      <3>1. e \in Messages
        BY <1>8, <2>4, MessageIn
      <3> QED
        BY <1>3, <2>4, <3>1 DEF Msg, Accepts, IsOffer
    <2>6. PICK ms : Single(ms, e)
      BY DEF Single
    <2>7. ms \in Seq(Messages) /\ ms[1] = e
      BY <2>5, <2>6, OneMessage DEF Single
    <2>8. Sends("b", Tail(net["b"]), ms)
      BY <1>10, <2>4, <2>6 DEF Single
    <2>9. /\ net' \in [Ends -> Seq(Messages)] /\ net'["b"] = Tail(net["b"])
          /\ up["b"] /\ up["a"] => net'["a"] = net["a"] \o ms
          /\ ~up["b"] \/ ~up["a"] => net'["a"] = net["a"]
      BY <1>1, <1>3, <2>5, <2>7, <2>8, WordsB
    <2>10. Yes(up["b"]) /\ Gets(up["a"], net'["a"], net["a"], <<e>>)
      BY <1>10, <2>6, <2>9 DEF Yes, Single, Gets
    <2>11. Fine(up["a"], up["b"], live["a"], live["b"], conv["a"], x, nchan,
                net'["a"], Tail(net["b"]), sent["a"], <<>>, rcvd["a"], <<>>, cut)
      BY ONLY <1>1, <1>3, <1>5, <1>6, <2>3, <2>5, <2>10, Typing, AcceptB
    <2>12. conv' \in [Ends -> Conv] /\ conv'["b"] = x /\ conv'["a"] = conv["a"]
      BY <1>1, <1>10, <2>1, <2>2 DEF TypeOK, Ends
    <2>13. /\ sent' \in [Ends -> Seq(ClientMsg)] /\ sent'["b"] = <<>> /\ sent'["a"] = sent["a"]
           /\ rcvd' \in [Ends -> Seq(ClientMsg)] /\ rcvd'["b"] = <<>> /\ rcvd'["a"] = rcvd["a"]
      BY <1>1, <1>10, NoMessage DEF TypeOK, Ends
    <2>14. Sound'
      BY <1>4, <2>9, <2>11, <2>12, <2>13 DEF Sound
    <2>15. owed' \in [Ends -> Int] /\ owed'["b"] = k + 1 /\ owed'["a"] = owed["a"]
      BY <1>10, <1>12 DEF Ends
    <2>16. TypeOK'
      BY <1>1, <1>4, <1>10, <1>12, <2>9, <2>12, <2>13, <2>15 DEF TypeOK
    <2>17. ClosedOncePerTry'
      BY <1>10, <1>12, <2>2, <2>12, <2>15, OwedNext
    <2> QED
      BY <2>14, <2>16, <2>17, SoundNext
  <1>11. CASE /\ adrift' = k
              /\ sent' = [sent EXCEPT !["b"] = <<>>] /\ rcvd' = [rcvd EXCEPT !["b"] = <<>>]
              /\ ~up["b"] /\ conv' = [conv EXCEPT !["b"] = Absent]
              /\ Sends("b", Tail(net["b"]), <<>>) /\ UNCHANGED owed
    <2>1. /\ Absent \in Conv /\ ~Absent.chan /\ Absent.state = "CLOSED" /\ Absent.id = 0
          /\ ~Absent.multi /\ Absent.buf = <<>> /\ Rests(Absent)
      BY AbsentIs DEF Rests
    <2>2. net' \in [Ends -> Seq(Messages)] /\ net'["b"] = Tail(net["b"]) /\ net'["a"] = net["a"]
      BY <1>1, <1>3, <1>11, SilentB
    <2>3. /\ Told(net["a"], net["a"], up["a"], {}, conv["b"].id) /\ Keeps(cut, cut, Absent)
          /\ MayLose(up["b"], net["b"], net["b"]) /\ Leaves(live["b"], up["b"], net["b"])
      BY <1>1, <2>1, SoundShape DEF Told, Keeps, MayLose
    <2>4. Fine(up["a"], up["b"], live["a"], live["b"], conv["a"], Absent, nchan,
               net["a"], net["b"], sent["a"], <<>>, rcvd["a"], <<>>, cut)
      BY <1>1, <2>1, <2>3, QuitStepB
    <2>5. ~(Absent.chan /\ Absent.id = net["b"][1].id)
      BY <2>1
    <2>6. Fine(up["a"], up["b"], live["a"], live["b"], conv["a"], Absent, nchan,
               net["a"], Tail(net["b"]), sent["a"], <<>>, rcvd["a"], <<>>, cut)
      BY ONLY <1>1, <1>3, <2>1, <2>4, <2>5, Typing, DropB
    <2>7. conv' \in [Ends -> Conv] /\ conv'["b"] = Absent /\ conv'["a"] = conv["a"]
      BY <1>1, <1>11, <2>1 DEF TypeOK, Ends
    <2>8. /\ sent' \in [Ends -> Seq(ClientMsg)] /\ sent'["b"] = <<>> /\ sent'["a"] = sent["a"]
          /\ rcvd' \in [Ends -> Seq(ClientMsg)] /\ rcvd'["b"] = <<>> /\ rcvd'["a"] = rcvd["a"]
      BY <1>1, <1>11, NoMessage DEF TypeOK, Ends
    <2>9. Sound'
      BY <1>4, <2>2, <2>6, <2>7, <2>8 DEF Sound
    <2>10. TypeOK'
      BY <1>1, <1>4, <1>11, <1>12, <2>2, <2>7, <2>8 DEF TypeOK
    <2>11. ClosedOncePerTry'
      BY <1>11, <1>12, <2>1, <2>7, OwedNext
    <2> QED
      BY <2>9, <2>10, <2>11, SoundNext
  <1> QED
    BY <1>2, <1>7, <1>9, <1>10, <1>11 DEF recv_channelCreate, Rest

LEMMA DestroyStep ==
    ASSUME Inv, NEW e \in Ends, recv_channelDestroy(e)
    PROVE  Inv'
  <1>1. TypeOK /\ ClosedOncePerTry /\ Sound
    BY SoundNow
  <1> SUFFICES ASSUME ~Dropped(e) PROVE Inv'
    BY DroppedStep DEF recv_channelDestroy, Receives
  <1>2. PICK m : m = Head(net[e])
    OBVIOUS
  <1>3. PICK c : c = [conv[e] EXCEPT !.chan = FALSE]
    OBVIOUS
  <1>4. PICK plain : plain = [c EXCEPT !.feats = "PLAIN"]
    OBVIOUS
  <1>5. /\ net[e] # <<>> /\ m.type = "DESTROY" /\ Ours(e) /\ CutShort(c)
        /\ UNCHANGED <<up, live, feat, adrift, breaks, sets>>
    BY <1>2, <1>3 DEF recv_channelDestroy, Receives
  <1>6. \/ /\ FallsBack(c, m.reason) /\ c.state = "PENDING"
           /\ convo_create_chan(e, plain, Tail(net[e])) /\ UNCHANGED owed
        \/ /\ FallsBack(c, m.reason) /\ c.state # "PENDING"
           /\ conv' = [conv EXCEPT ![e] = plain] /\ Sends(e, Tail(net[e]), <<>>)
           /\ UNCHANGED <<nchan, sent, rcvd, owed>>
        \/ Close(e, c, m.reason, Tail(net[e]), FALSE) /\ UNCHANGED <<nchan, sent, rcvd>>
    BY <1>2, <1>3, <1>4 DEF recv_channelDestroy, Rest
  <1>7. /\ conv[e] \in Conv /\ net[e] \in Seq(Messages) /\ Tail(net[e]) \in Seq(Messages)
        /\ m = net[e][1] /\ m \in Range(net[e]) /\ Range(Tail(net[e])) \subseteq Range(net[e])
    <2>1. conv[e] \in Conv /\ net[e] \in Seq(Messages)
      BY <1>1, Typing, TwoEnds
    <2>2. /\ Tail(net[e]) \in Seq(Messages) /\ Shifted(Tail(net[e]), net[e])
          /\ Head(net[e]) = net[e][1]
      BY <1>5, <2>1, TailShifted
    <2>3. Range(net[e]) = {net[e][1]} \cup Range(Tail(net[e]))
      BY <2>2, ShiftedRange
    <2> QED
      BY <1>2, <2>1, <2>2, <2>3
  <1>8. conv[e].chan /\ conv[e].id = m.id /\ IsEnd(m, conv[e].id)
    BY <1>2, <1>5 DEF Ours, IsEnd
  <1>9. /\ Shape(conv[e], up[e], live[e], net[e], nchan)
        /\ ~conv[e].multi => conv[e].buf = <<>>
        /\ live[e] /\ conv[e].state # "CLOSED"
    BY <1>1, <1>5, <1>8, TwoEnds, SoundShape DEF Clean, Shape
  <1>10. /\ c \in Conv /\ c.chan = FALSE /\ c.state = conv[e].state /\ c.feats = conv[e].feats
         /\ c.id = conv[e].id /\ c.multi = conv[e].multi /\ c.buf = conv[e].buf
    BY <1>3, <1>7 DEF Conv
  <1>11. /\ plain \in Conv /\ plain.chan = FALSE /\ plain.state = c.state
         /\ plain.feats = "PLAIN" /\ plain.id = c.id /\ plain.multi = c.multi /\ plain.buf = c.buf
    BY <1>4, <1>10 DEF Conv, Features
  <1>12. cut' \in BOOLEAN /\ (~cut' => ~cut /\ ~c.multi)
    BY <1>1, <1>5, <1>10, CutIs
  <1>13. (FallsBack(c, m.reason) => c.feats # "PLAIN") /\ m.reason \in Reason
    <2>1. m \in Messages
      BY <1>7, MessageIds
    <2> QED
      BY <1>5, <2>1 DEF FallsBack, Messages
  <1>14. /\ c.id = conv[e].id /\ (c.chan => c.id # 0) /\ ~c.chan
         /\ ~c.multi => c.buf = <<>>
         /\ ~cut' => ~cut /\ (FALSE \/ ~c.multi)
    BY <1>9, <1>10, <1>12
  <1>15. /\ conv' \in [Ends -> Conv] /\ net' \in [Ends -> Seq(Messages)]
         /\ sent' \in [Ends -> Seq(ClientMsg)] /\ rcvd' \in [Ends -> Seq(ClientMsg)]
         /\ owed' \in [Ends -> Int] /\ nchan' \in 0..MaxChans /\ ClosedOncePerTry' /\ Sound'
    <2>1. CASE e = "a"
      <3>1. Held(conv["a"], up["a"], net["a"]) = {}
        BY <1>7, <1>8, <2>1, HeldNone
      <3>2. CASE /\ FallsBack(c, m.reason) /\ c.state = "PENDING"
                 /\ convo_create_chan(e, plain, Tail(net[e])) /\ UNCHANGED owed
        <4>1. nchan < MaxChans
          <5>1. conv["a"].state = "PENDING" /\ conv["a"].chan /\ conv["a"].feats # "PLAIN"
            BY <1>8, <1>10, <1>13, <2>1, <3>2
          <5> QED
            BY <1>1, <5>1 DEF Sound, Fine, Good
        <4>2. /\ plain.state = "PENDING" /\ plain.feats \in Features /\ ~plain.chan
              /\ plain.id = conv["a"].id \/ plain.id = 0
              /\ ~plain.multi => plain.buf = <<>>
              /\ ~cut' => ~cut /\ ~plain.multi
              /\ plain.feats # "PLAIN" => nchan + 1 < MaxChans
          BY <1>10, <1>11, <1>14, <2>1, <3>2 DEF Features
        <4>3. /\ convo_create_chan("a", plain, Tail(net["a"])) /\ UNCHANGED <<up, live>>
              /\ Tail(net["a"]) \in Seq(Messages) /\ Range(Tail(net["a"])) \subseteq Range(net["a"])
              /\ ~live["a"] => Tail(net["a"]) = <<>>
          BY <1>5, <1>7, <1>9, <2>1, <3>2
        <4>4. /\ conv' \in [Ends -> Conv] /\ net' \in [Ends -> Seq(Messages)]
              /\ sent' \in [Ends -> Seq(ClientMsg)] /\ rcvd' \in [Ends -> Seq(ClientMsg)]
              /\ nchan' \in 0..MaxChans
              /\ conv'["a"].state = "PENDING" /\ conv'["b"] = conv["b"] /\ Sound'
          <5>1. CASE up["a"]
            BY <1>1, <1>11, <3>1, <4>1, <4>2, <4>3, <5>1, CreateUp
          <5>2. CASE ~up["a"]
            BY <1>1, <1>11, <4>2, <4>3, <5>2, CreateDown
          <5> QED
            BY <5>1, <5>2
        <4>5. ClosedOncePerTry' /\ owed' \in [Ends -> Int]
          BY <1>1, <1>5, <1>9, <2>1, <3>2, <4>4, OwedNow, OwedNext
        <4> QED
          BY <4>4, <4>5
      <3>3. CASE /\ FallsBack(c, m.reason) /\ c.state # "PENDING"
                 /\ conv' = [conv EXCEPT ![e] = plain] /\ Sends(e, Tail(net[e]), <<>>)
                 /\ UNCHANGED <<nchan, sent, rcvd, owed>>
        <4>1. /\ Tail(net["a"]) \in Seq(Messages) /\ Range(Tail(net["a"])) \subseteq Range(net["a"])
              /\ conv["a"].state # "CLOSED" /\ conv["a"].state # "PENDING" /\ conv["a"] \in Conv
          BY <1>7, <1>9, <1>10, <2>1, <3>3
        <4>2. conv["a"].state = "OPEN"
          BY <4>1, ConvFields
        <4>3. net' \in [Ends -> Seq(Messages)] /\ net'["a"] = Tail(net["a"]) /\ net'["b"] = net["b"]
          BY <1>1, <2>1, <3>3, <4>1, SilentA
        <4>4. /\ ~plain.chan /\ Ceases(plain, conv["a"]) /\ plain.id = conv["a"].id
              /\ ~plain.multi => plain.buf = <<>>
              /\ Keeps(cut', cut, plain)
          BY <1>10, <1>11, <1>14, <2>1, <4>2 DEF Ceases, Keeps
        <4>5. /\ net'["a"] \in Seq(Messages) /\ Range(net'["a"]) \subseteq Range(net["a"])
              /\ Leaves(live'["a"], up["a"], net'["a"]) /\ UNCHANGED <<up, nchan, sent, rcvd>>
              /\ live'["b"] = live["b"] /\ conv' = [conv EXCEPT !["a"] = plain]
              /\ Told(net'["b"], net["b"], up["b"], Held(conv["a"], up["a"], net["a"]), conv["a"].id)
          BY <1>5, <1>9, <2>1, <3>1, <3>3, <4>1, <4>3 DEF Told, Leaves
        <4>6. /\ conv' \in [Ends -> Conv] /\ conv'["a"] = plain /\ conv'["b"] = conv["b"] /\ Sound'
          BY <1>1, <1>11, <4>4, <4>5, QuitStepA
        <4>7. ClosedOncePerTry' /\ owed' \in [Ends -> Int]
          <5>1. plain.state = "OPEN"
            BY <1>10, <1>11, <2>1, <4>2
          <5> QED
            BY <1>1, <1>5, <3>3, <4>2, <4>6, <5>1, OwedNow, OwedNext
        <4> QED
          BY <1>1, <3>3, <4>3, <4>6, <4>7 DEF TypeOK
      <3>4. CASE Close(e, c, m.reason, Tail(net[e]), FALSE) /\ UNCHANGED <<nchan, sent, rcvd>>
        <4>1. /\ UNCHANGED <<up, nchan, sent, rcvd, adrift>> /\ live'["b"] = live["b"]
              /\ Tail(net["a"]) \in Seq(Messages) /\ Range(Tail(net["a"])) \subseteq Range(net["a"])
              /\ conv["a"].state # "CLOSED" /\ c.id = conv["a"].id
          BY <1>5, <1>7, <1>9, <1>14, <2>1, <3>4
        <4>2. Close("a", c, m.reason, Tail(net["a"]), FALSE) /\ Leaves(live'["a"], up["a"], Tail(net["a"]))
          BY <1>5, <1>9, <2>1, <3>4 DEF Leaves
        <4>3. /\ conv' \in [Ends -> Conv] /\ net' \in [Ends -> Seq(Messages)]
              /\ owed' \in [Ends -> Int] /\ ClosedOncePerTry' /\ Sound'
          BY <1>1, <1>10, <1>13, <1>14, <3>1, <4>1, <4>2, CloseA
        <4> QED
          BY <1>1, <4>1, <4>3 DEF TypeOK
      <3> QED
        BY <1>6, <3>2, <3>3, <3>4
    <2>2. CASE e = "b"
      <3>1. MayLose(up["b"], net["b"], net["b"]) /\ Leaves(live["b"], up["b"], net["b"])
        BY <1>1, SoundShape DEF MayLose
      <3>2. /\ Tail(net["b"]) \in Seq(Messages) /\ conv["b"].state # "CLOSED" /\ c.id = conv["b"].id
            /\ net["b"] # <<>> /\ c.state = conv["b"].state /\ conv["b"].state # "PENDING"
        <4>1. conv["b"].state # "PENDING"
          BY <1>1 DEF Sound, Fine, Good
        <4> QED
          BY <1>5, <1>7, <1>9, <1>10, <1>14, <2>2, <4>1
      <3>3. /\ conv' \in [Ends -> Conv] /\ net' \in [Ends -> Seq(Messages)]
            /\ owed' \in [Ends -> Int] /\ ClosedOncePerTry' /\ UNCHANGED <<nchan, sent, rcvd>>
            /\ conv'["b"] \in Conv /\ ~conv'["b"].chan
            /\ conv'["a"] = conv["a"] /\ net'["b"] = Tail(net["b"])
            /\ Fine(up["a"], up["b"], live["a"], live["b"], conv["a"], conv'["b"], nchan,
                    net'["a"], net["b"], sent["a"], sent["b"], rcvd["a"], rcvd["b"], cut')
        <4>1. CASE Close("b", c, m.reason, Tail(net["b"]), FALSE) /\ UNCHANGED <<nchan, sent, rcvd>>
          BY <1>1, <1>5, <1>10, <1>13, <1>14, <3>1, <3>2, <4>1, CloseB
        <4>2. CASE /\ FallsBack(c, m.reason) /\ c.state # "PENDING"
                   /\ conv' = [conv EXCEPT !["b"] = plain] /\ Sends("b", Tail(net["b"]), <<>>)
                   /\ UNCHANGED <<nchan, sent, rcvd, owed>>
          <5>1. /\ net' \in [Ends -> Seq(Messages)] /\ net'["b"] = Tail(net["b"])
                /\ net'["a"] = net["a"]
            BY <1>1, <3>2, <4>2, SilentB
          <5>2. /\ ~plain.chan /\ Rests(plain) /\ plain.id = conv["b"].id
                /\ ~plain.multi => plain.buf = <<>>
                /\ Keeps(cut', cut, plain)
            BY <1>10, <1>11, <1>14, <3>2 DEF Rests, Keeps
          <5>3. conv' \in [Ends -> Conv] /\ conv'["b"] = plain /\ conv'["a"] = conv["a"]
            BY <1>1, <1>11, <4>2 DEF TypeOK, Ends
          <5>4. Told(net["a"], net["a"], up["a"], {}, conv["b"].id)
            BY DEF Told
          <5>5. PICK y, z : y = sent["b"] /\ z = rcvd["b"]
            OBVIOUS
          <5>6. Fine(up["a"], up["b"], live["a"], live["b"], conv["a"], plain, nchan,
                     net["a"], net["b"], sent["a"], y, rcvd["a"], z, cut')
            BY <1>1, <1>11, <3>1, <5>2, <5>4, <5>5, QuitStepB
          <5>7. ClosedOncePerTry' /\ owed' \in [Ends -> Int]
            <6>1. plain.state # "CLOSED"
              BY <1>11, <3>2
            <6> QED
              BY <1>1, <1>5, <3>2, <4>2, <5>3, <6>1, OwedNow, OwedNext
          <5> QED
            BY <1>11, <4>2, <5>1, <5>2, <5>3, <5>5, <5>6, <5>7
        <4> QED
          BY <1>6, <2>2, <3>2, <4>1, <4>2
      <3>6. net'["a"] \in Seq(Messages) /\ ~(conv'["b"].chan /\ conv'["b"].id = net["b"][1].id)
        BY <3>3, TwoEnds
      <3>7. Fine(up["a"], up["b"], live["a"], live["b"], conv["a"], conv'["b"], nchan,
                 net'["a"], Tail(net["b"]), sent["a"], sent["b"], rcvd["a"], rcvd["b"], cut')
        BY ONLY <1>1, <3>2, <3>3, <3>6, Typing, DropB
      <3>8. Sound'
        BY <1>5, <3>3, <3>7 DEF Sound
      <3> QED
        BY <1>1, <3>3, <3>8 DEF TypeOK
    <2> QED
      BY <2>1, <2>2, TwoEnds
  <1>16. TypeOK'
    <2>1. adrift' \in Nat
      BY <1>1, <1>5 DEF TypeOK
    <2> QED
      BY <1>1, <1>5, <1>12, <1>15, <2>1, TypesNext
  <1> QED
    BY <1>15, <1>16, SoundNext

-----------------------------------------------------------------------------
(* The theorems.                                                           *)

LEMMA InitInv ==
    ASSUME Init
    PROVE  Inv
  <1>1. /\ Absent \in Conv /\ Absent.chan = FALSE /\ Absent.state = "CLOSED" /\ Absent.id = 0
        /\ Absent.multi = FALSE /\ Absent.buf = <<>>
    BY AbsentIs
  <1>2. /\ <<>> \in Seq(Messages) /\ <<>> \in Seq(ClientMsg) /\ Range(<<>>) = {}
    BY NoMessage
  <1>3. \A e \in Ends : /\ conv[e] = Absent /\ net[e] = <<>> /\ sent[e] = <<>> /\ rcvd[e] = <<>>
                        /\ up[e] = TRUE /\ live[e] = TRUE /\ owed[e] = 0
    BY DEF Init
  <1>4. TypeOK
    <2>1. 0 \in 0..MaxChans /\ 0 \in 0..MaxBreaks /\ 0 \in 0..MaxSets /\ "PLAIN" \in Features
      BY BoundsAssumption DEF Features
    <2>2. conv \in [Ends -> Conv] /\ feat \in [Ends -> Features]
      BY <1>1, <2>1 DEF Init
    <2>3. /\ net \in [Ends -> Seq(Messages)] /\ sent \in [Ends -> Seq(ClientMsg)]
          /\ rcvd \in [Ends -> Seq(ClientMsg)] /\ owed \in [Ends -> Int]
      BY <1>2 DEF Init
    <2>4. up \in [Ends -> BOOLEAN] /\ live \in [Ends -> BOOLEAN] /\ cut \in BOOLEAN
      BY DEF Init
    <2>5. nchan = 0 /\ breaks = 0 /\ sets = 0 /\ adrift = 0
      BY DEF Init
    <2> QED
      BY <2>1, <2>2, <2>3, <2>4, <2>5 DEF TypeOK
  <1>5. ClosedOncePerTry
    <2>1. adrift = 0
      BY DEF Init
    <2> QED
      BY <1>1, <1>3, <2>1 DEF ClosedOncePerTry
  <1>6. Shaped
    <2>1. nchan = 0
      BY DEF Init
    <2> QED
      BY <1>1, <1>2, <1>3, <2>1, TwoEnds DEF Shaped, Shape
  <1>7. Ordered
    <2>1. Lined(<<>>, Absent) /\ \A g : Ending(<<>>, Absent, g)
      BY <1>1, LinedNothing
    <2> QED
      BY <1>3, <2>1, TwoEnds DEF Ordered
  <1>8. Spoken
    <2>1. Answered({}, {}, Absent) /\ Agreed({}, Absent, Absent)
      BY <1>1 DEF Answered, Agreed
    <2>2. Quiet({}, {}, Absent, <<>>, <<>>, cut) /\ Clean(Absent, cut)
      BY <1>1 DEF Quiet, Clean
    <2> QED
      BY <1>2, <1>3, <2>1, <2>2, TwoEnds DEF Spoken
  <1>9. Flowing
    BY <1>1, <1>3, TwoEnds DEF Flowing, Flow
  <1> QED
    BY <1>4, <1>5, <1>6, <1>7, <1>8, <1>9 DEF Inv

LEMMA StepInv ==
    ASSUME Inv, [Next]_vars
    PROVE  Inv'
  <1>1. CASE mwConversation_open
    BY <1>1, OpenStep
  <1>2. ASSUME NEW e \in Ends, NEW r \in Reason, NEW freed \in BOOLEAN,
               mwConversation_close(e, r, freed)
        PROVE  Inv'
    BY <1>2, CloseStep
  <1>10. CASE mwConversation_close_adrift
    BY <1>10, AdriftStep
  <1>3. ASSUME NEW e \in Ends, mwServiceIm_setClientType(e) PROVE Inv'
    BY <1>3, SetStep
  <1>4. ASSUME NEW e \in Ends, mwConversation_send(e) PROVE Inv'
    BY <1>4, SendStep
  <1>5. ASSUME NEW e \in Ends, Handle(e) PROVE Inv'
    BY <1>5, CreateStep, AcceptStep, DestroyStep, RecvStep DEF Handle
  <1>6. ASSUME NEW e \in Ends, LinkBreaks(e) PROVE Inv'
    BY <1>6, BreakStep
  <1>7. ASSUME NEW e \in Ends, ServiceStops(e) PROVE Inv'
    BY <1>7, StopStep
  <1>8. ASSUME NEW e \in Ends, LogsIn(e) PROVE Inv'
    BY <1>8, LogStep
  <1>9. CASE UNCHANGED vars
    <2>1. TypeOK /\ ClosedOncePerTry /\ Sound
      BY SoundNow
    <2>2. TypeOK'
      BY <1>9, <2>1 DEF TypeOK, vars
    <2>3. ClosedOncePerTry'
      BY <1>9, <2>1 DEF ClosedOncePerTry, vars
    <2>4. Sound'
      BY <1>9, <2>1 DEF Sound, vars
    <2> QED
      BY <2>2, <2>3, <2>4, SoundNext
  <1> QED
    BY <1>1, <1>2, <1>3, <1>4, <1>5, <1>6, <1>7, <1>8, <1>9, <1>10 DEF Next

LEMMA AlwaysInv == Spec => []Inv
  <1>1. Init => Inv
    BY InitInv
  <1>2. Inv /\ [Next]_vars => Inv'
    BY StepInv
  <1> QED
    BY <1>1, <1>2, PTL DEF Spec

\* The conversations are of their type, every attempt to converse is answered by
\* conversation_closed exactly once and when it is over (mwConversation_close,
\* recv_channelDestroy, stop), for whatever reason the clients close and whatever
\* the network and the server do, and end "b" is not offered a channel before it
\* was told of the end of the one it has.
THEOREM ConversationCorrect == Spec => []ConversationConsistent
  <1>1. ASSUME Inv PROVE ConversationConsistent
    <2>1. TypeOK /\ ClosedOncePerTry /\ Lined(net["b"], conv["b"])
      BY <1>1 DEF Inv, Ordered
    <2>2. ASSUME net["b"] # <<>>, Head(net["b"]).type = "CREATE" PROVE ~conv["b"].chan
      <3>1. Shifted(Tail(net["b"]), net["b"]) /\ Head(net["b"]) = net["b"][1]
        BY <2>1, <2>2, Typing, TailShifted
      <3>2. IsOffer(net["b"][1])
        BY <2>2, <3>1 DEF IsOffer
      <3> QED
        BY <2>1, <3>1, <3>2, OfferRead
    <2> QED
      BY <2>1, <2>2 DEF ConversationConsistent, ChannelsInTurn
  <1> QED
    BY <1>1, AlwaysInv, PTL

\* Two ends of one channel have the features that the opening end offered
\* (recv_channelCreate), from the offer on and though the client types are set
\* meanwhile; and a conversation that is left OPEN without a channel, because the
\* other client closed for one of the two reasons to fall back, has fallen back
\* on plain text (recv_channelDestroy).
THEOREM FeaturesCorrect == Spec => []FeaturesAgree
  <1>1. ASSUME Inv PROVE FeaturesAgree
    <2>1. Shaped /\ Agreed(Range(net["b"]), conv["a"], conv["b"])
      BY <1>1 DEF Inv, Spoken
    <2>2. \A e \in Ends : conv[e].state = "OPEN" => conv[e].chan \/ conv[e].feats = "PLAIN"
      BY <2>1 DEF Shaped, Shape
    <2>3. ASSUME conv["a"].id = conv["b"].id, conv["a"].chan, conv["b"].chan
          PROVE  conv["a"].feats = conv["b"].feats
      BY <2>1, <2>3 DEF Agreed
    <2> QED
      BY <2>2, <2>3 DEF FeaturesAgree
  <1> QED
    BY <1>1, AlwaysInv, PTL

\* What a client is handed on a channel is a prefix of what the other client
\* sent on it, whole messages of the right type (recv_text, recv_data,
\* convo_sendSegmented), as long as no channel went away in the middle of a
\* segmented message before.
THEOREM WholeCorrect == Spec => []MessagesWhole
  <1>1. ASSUME Inv PROVE MessagesWhole
    <2>1. \A e \in Ends :
            Flow(net[e], sent[Other(e)], rcvd[e], conv[e], conv[Other(e)], cut,
                 up["a"] /\ up["b"])
      BY <1>1 DEF Inv, Flowing
    <2>2. ASSUME ~cut, conv["a"].id = conv["b"].id, conv["a"].id # 0, NEW e \in Ends
          PROVE  IsPrefix(rcvd[e], sent[Other(e)])
      <3>1. conv[e].id = conv[Other(e)].id /\ conv[e].id # 0
        BY <2>2, TwoEnds
      <3> QED
        BY <2>1, <2>2, <3>1 DEF Flow
    <2> QED
      BY <2>2 DEF MessagesWhole
  <1> QED
    BY <1>1, AlwaysInv, PTL

=============================================================================
