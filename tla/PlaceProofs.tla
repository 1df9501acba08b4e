---------------------------- MODULE PlaceProofs ----------------------------
(***************************************************************************)
(* Proofs about the place service: PlaceConsistent, MembersAgree and       *)
(* SpeakerKnown hold in every reachable state, for any number of users,    *)
(* places and events.                                                      *)
(*                                                                         *)
(* None is inductive.  That a list opens a place once rests on what can be *)
(* on its way to a place in which state (Stage, Conversing): no list comes *)
(* before it was asked for, and nothing but the end of the channel comes   *)
(* before the JOIN_RESPONSE.  That the tables agree when all is read rests *)
(* on what the messages on their way will do: the last one that speaks of  *)
(* an id says who has it, or none does and the table is right, or the list *)
(* is still to come (Following); and who speaks is known for the same      *)
(* reason, of the messages before its own (Hearing).  Wired keeps the      *)
(* channels of places in line, which come one after the other, and Seated  *)
(* the server's own table.                                                 *)
(***************************************************************************)
EXTENDS Place, SequenceTheorems, FunctionTheorems, FiniteSetTheorems, TLAPS

-----------------------------------------------------------------------------
(* The inductive invariant.                                                *)

Written ==
    [type : {"CREATE", "JOIN_PLACE", "DESTROY", "SET_ATTR", "OLD_INVITE"}, chan : Chans]
      \cup [type : {"MESSAGE"}, chan : Chans, section : {0, Section}]
      \cup [type : {"SECTION_LIST"}, chan : Chans, section : {0, Section}, request : Nat]
Told ==
    [type : {"ACCEPT", "DESTROY"}, chan : Chans]
      \cup [type : {"INFO"}, chan : Chans, section : {0, Section}]
      \cup [type : {"JOIN_RESPONSE"}, chan : Chans, id : Ids, section : {Section}]
      \cup [type : {"SECTION_LIST"}, chan : Chans, section : {Section}, members : Tables]
      \cup [type : {"SECTION_PART", "MESSAGE", "PEER_SET_ATTR", "PEER_CLEAR_ATTR"},
            chan : Chans, id : Ids, who : Peers \cup {Me}]
      \cup [type : {"PEER_JOIN"}, chan : Chans, id : Ids, who : Peers \cup {Me},
            section : {0, Section}]
      \cup [type : {"PEER_PART"}, chan : Chans, id : Ids, who : Peers \cup {Me},
            section : {Section}]

\* TypeOK, but for the states of the place, and the queues.
Typed ==
    /\ {on, up, copen, listed} \subseteq BOOLEAN
    /\ place \in PlaceRecord
    /\ outq \in Seq(Written) /\ toServer \in Seq(Written) /\ toClient \in Seq(Told)
    /\ peer \in [chan : {0} \cup Chans, joined : BOOLEAN]
    /\ roster \in Tables
    /\ nplaces \in 0..MaxPlaces
    /\ {opened, greeted} \subseteq Nat
    /\ events \in 0..MaxEvents

\* A user is in the section once, and this client's while the server regards it
\* as a member.
Seated ==
    /\ \A i, j \in Ids : roster[i] = roster[j] /\ roster[i] # Nobody => i = j
    /\ peer.joined <=> \E i \in Ids : roster[i] = Me
    /\ peer.joined => peer.chan # 0

\* Channels come one after the other: the first the server reads of one is its
\* CREATE, the last its DESTROY, and the place is joined once.
Before(a, b) ==
    /\ a.chan <= b.chan
    /\ b.type = "CREATE" \/ a.type = "DESTROY" => a.chan < b.chan
    /\ a.type = "JOIN_PLACE" /\ b.type = "JOIN_PLACE" => a.chan < b.chan
Lined(ts) == \A i, j \in DOMAIN ts : i < j => Before(ts[i], ts[j])
Ahead(ts, pr) ==
    \A i \in DOMAIN ts :
        /\ pr.chan <= ts[i].chan
        /\ ts[i].type = "CREATE" => pr.chan < ts[i].chan
        /\ ts[i].type = "JOIN_PLACE" /\ pr.joined => pr.chan < ts[i].chan

Closing(ts, c) == \E i \in DOMAIN ts : ts[i].type = "DESTROY" /\ ts[i].chan = c
Line(ts, q, p, pr, n) ==
    /\ p.chan \in {0, n} /\ pr.chan <= n
    /\ Lined(ts) /\ Ahead(ts, pr)
    /\ \A i \in DOMAIN ts :
          /\ ts[i].chan <= n
          /\ ts[i].type = "DESTROY" => ts[i].chan # p.chan
          /\ ts[i].type = "CREATE" => ts[i].chan = p.chan \/ Closing(ts, ts[i].chan)
    /\ \A i \in DOMAIN q : q[i].chan <= n
    /\ p.state = "NEW" =>
          /\ pr.chan < n
          /\ \A i \in DOMAIN ts : ts[i].chan < n
          /\ \A i \in DOMAIN q : q[i].chan < n
    /\ pr.chan \notin {0, p.chan} => Closing(ts, pr.chan)

Wired ==
    /\ ~up => toServer = <<>> /\ peer.chan = 0
    /\ ~on => ~up /\ place.state = "NONE" /\ toClient = <<>>
    /\ Line(toServer, toClient, place, peer, nplaces)

\* How far a place has come.
Stage ==
    /\ place.chan = 0 => place.state \in {"NONE", "NEW", "ERROR"}
    /\ place.chan # 0 => place.state \in {"PENDING", "JOINING", "JOINED", "OPEN", "ERROR"}
    /\ copen <=> place.chan # 0 /\ place.state # "PENDING"
    /\ outq # <<>> => place.state = "PENDING"
    /\ \A i \in DOMAIN outq : /\ outq[i].chan = place.chan
                              /\ outq[i].type \in {"MESSAGE", "SET_ATTR", "OLD_INVITE"}
    /\ place.state # "OPEN" => opened = 0 /\ greeted = 0
    /\ place.state = "OPEN" => opened <= greeted + 1
    /\ place.our_id # 0 => /\ place.section = Section
                           /\ place.state \in {"JOINING", "JOINED", "OPEN"}
    /\ place.our_id = 0 => place.members = Empty /\ ~listed
    /\ place.chan # 0 /\ place.state = "ERROR" => ~up

\* Whether m is on the channel of place p, and of type y.
Is(m, p, y) == m.chan = p.chan /\ m.type = y
Response(q, p) == \E j \in DOMAIN q : Is(q[j], p, "JOIN_RESPONSE")

\* What may be on its way to a place p that the server regards as pr and has ro
\* in its section.
Answers(q, p, pr, ro) ==
    /\ \A i, j \in DOMAIN q : \A y \in {"ACCEPT", "JOIN_RESPONSE"} :
          Is(q[i], p, y) /\ Is(q[j], p, y) => i = j
    /\ \A k \in DOMAIN q :
          /\ Is(q[k], p, "ACCEPT") => p.state = "PENDING"
          /\ Is(q[k], p, "DESTROY") => pr.chan # p.chan
          /\ Is(q[k], p, "JOIN_RESPONSE") =>
                /\ p.state = "JOINING" /\ p.our_id = 0
                /\ pr.joined /\ pr.chan = p.chan => ro[q[k].id] = Me
          /\ q[k].chan = p.chan /\ q[k].type \notin {"ACCEPT", "DESTROY", "JOIN_RESPONSE"} =>
                \/ p.our_id # 0
                \/ \E j \in DOMAIN q : j < k /\ Is(q[j], p, "JOIN_RESPONSE")
          /\ Is(q[k], p, "SECTION_LIST") => p.state \in {"JOINED", "OPEN"}

\* What a place p may have on its way to the server, q being on its way back.
Asks(ts, q, p) ==
    \A i \in DOMAIN ts :
        /\ Is(ts[i], p, "CREATE") =>
              p.state = "PENDING" /\ \A k \in DOMAIN q : q[k].chan # p.chan
        /\ Is(ts[i], p, "JOIN_PLACE") =>
              /\ p.state = "JOINING" /\ p.our_id = 0
              /\ \A k \in DOMAIN q : q[k].chan = p.chan => q[k].type = "DESTROY"
        /\ Is(ts[i], p, "SECTION_LIST") => p.state \in {"JOINED", "OPEN"}
        /\ ts[i].chan = p.chan /\ p.state = "PENDING" => ts[i].type = "CREATE"

\* The place is one the server has.
Joined(q, p, pr, ro) ==
    pr.joined /\ pr.chan = p.chan =>
        /\ p.state \in {"JOINING", "JOINED", "OPEN"}
        /\ p.our_id = 0 => Response(q, p)
        /\ p.our_id # 0 => ro[p.our_id] = Me

Talk(ts, q, p, pr, ro) ==
    p.chan # 0 => Answers(q, p, pr, ro) /\ Asks(ts, q, p) /\ Joined(q, p, pr, ro)
Conversing == Talk(toServer, toClient, place, peer, roster)

\* Message m on channel c says who has id i: nobody, if v is Nobody.
Says(m, c, i, v) ==
    /\ m.chan = c
    /\ \/ m.type = "PEER_JOIN" /\ m.section # 0 /\ m.id = i /\ v = m.who
       \/ m.type \in {"SECTION_PART", "PEER_PART"} /\ m.id = i /\ v = Nobody
       \/ m.type = "SECTION_LIST" /\ m.members[i] # Nobody /\ v = m.members[i]
Mute(m, c, i) == \A v : ~Says(m, c, i, v)
LastSaid(q, c, i, v) ==
    \E k \in DOMAIN q :
        /\ Says(q[k], c, i, v)
        /\ \A j \in DOMAIN q : j > k => Mute(q[j], c, i) \/ Says(q[j], c, i, v)
AllMute(q, c, i) == \A k \in DOMAIN q : Mute(q[k], c, i)
\* When q is read the table says v of id i, if it says t of it now.
Learns(q, c, i, t, v) == LastSaid(q, c, i, v) \/ (AllMute(q, c, i) /\ t = v)

\* What is on its way makes the table of a place that was sent the list the
\* server's; of any other place, as far as there is nobody.
Follows(q, p, pr, ro, li) ==
    pr.joined /\ pr.chan = p.chan =>
        \A i \in Ids :
            \/ Learns(q, p.chan, i, p.members[i], ro[i])
            \/ /\ ro[i] # Nobody /\ ~li
               /\ \A k \in DOMAIN q : ~Is(q[k], p, "SECTION_LIST")
Following == Follows(toClient, place, peer, roster, listed)

Inv == Typed /\ Seated /\ Wired /\ Stage /\ Conversing /\ Following

-----------------------------------------------------------------------------
(* What a step does to a queue: something is put behind it, or its first   *)
(* message is taken off.                                                   *)

Behind(t, s, m) ==
    /\ Len(s) \in Nat
    /\ \A i \in DOMAIN s : i \in 1..Len(s) /\ i \in DOMAIN t /\ t[i] = s[i]
    /\ \A j \in DOMAIN m : j \in Nat \ {0} /\ Len(s) + j \in DOMAIN t /\ t[Len(s) + j] = m[j]
    /\ \A i \in DOMAIN t : i \in DOMAIN s \/ \E j \in DOMAIN m : i = Len(s) + j

Shifted(t, s) ==
    /\ 1 \in DOMAIN s
    /\ \A i \in DOMAIN t : /\ i \in Nat \ {0} /\ i \in DOMAIN s
                           /\ i + 1 \in DOMAIN s /\ t[i] = s[i + 1]
    /\ \A j \in DOMAIN s :
         j \in Nat \ {0} /\ (j = 1 \/ (j - 1 \in DOMAIN t /\ t[j - 1] = s[j]))

LEMMA ConcatBehind ==
    ASSUME NEW A, NEW s \in Seq(A), NEW m \in Seq(A)
    PROVE  s \o m \in Seq(A) /\ Behind(s \o m, s, m)
  <1>1. /\ s \o m \in Seq(A) /\ Len(s \o m) = Len(s) + Len(m)
        /\ \A i \in 1..(Len(s) + Len(m)) :
             (s \o m)[i] = IF i <= Len(s) THEN s[i] ELSE m[i - Len(s)]
    BY ConcatProperties
  <1>2. /\ Len(s) \in Nat /\ DOMAIN s = 1..Len(s)
        /\ Len(m) \in Nat /\ DOMAIN m = 1..Len(m)
        /\ DOMAIN (s \o m) = 1..(Len(s) + Len(m))
    BY <1>1, LenProperties
  <1>3. PICK t : t = s \o m
    OBVIOUS
  <1>4. ASSUME NEW i \in DOMAIN t
        PROVE  i \in DOMAIN s \/ \E j \in DOMAIN m : i = Len(s) + j
    <2>1. CASE i > Len(s)
      <3>1. i - Len(s) \in DOMAIN m /\ i = Len(s) + (i - Len(s))
        BY <1>2, <1>3, <1>4, <2>1
      <3> QED
        BY <3>1
    <2> QED
      BY <1>2, <1>3, <1>4, <2>1
  <1>5. Behind(t, s, m)
    BY <1>1, <1>2, <1>3, <1>4 DEF Behind
  <1> QED
    BY <1>1, <1>3, <1>5

LEMMA TailShifted ==
    ASSUME NEW A, NEW s \in Seq(A), s # <<>>
    PROVE  /\ Tail(s) \in Seq(A) /\ Shifted(Tail(s), s)
           /\ Head(s) = s[1] /\ s[1] \in A /\ 1 \in DOMAIN s
  <1>1. /\ Len(s) \in Nat \ {0} /\ DOMAIN s = 1..Len(s)
        /\ Tail(s) \in Seq(A) /\ DOMAIN Tail(s) = 1..(Len(s) - 1)
        /\ Head(s) = s[1]
        /\ \A i \in DOMAIN Tail(s) : i + 1 \in DOMAIN s /\ Tail(s)[i] = s[i + 1]
    BY HeadTailProperties, LenProperties, EmptySeq
  <1>2. \A j \in DOMAIN s :
          j = 1 \/ (j - 1 \in DOMAIN Tail(s) /\ Tail(s)[j - 1] = s[j])
    BY <1>1
  <1>3. s[1] \in A
    BY <1>1, ElementOfSeq
  <1> QED
    BY <1>1, <1>2, <1>3 DEF Shifted


\* No message, one, and one at the end.
LEMMA NoMessage ==
    ASSUME NEW A
    PROVE  <<>> \in Seq(A) /\ ~ \E j : j \in DOMAIN <<>>
  OBVIOUS

LEMMA OneMessage ==
    ASSUME NEW A, NEW m \in A
    PROVE  <<m>> \in Seq(A) /\ DOMAIN <<m>> = {1} /\ <<m>>[1] = m
  OBVIOUS

\* A property of all messages, written or read.
LEMMA BehindEach ==
    ASSUME NEW t, NEW s, NEW m, Behind(t, s, m), NEW i \in DOMAIN t
    PROVE  \/ i \in DOMAIN s /\ i \in 1..Len(s) /\ t[i] = s[i]
           \/ \E j \in DOMAIN m : j \in Nat \ {0} /\ i = Len(s) + j /\ t[i] = m[j]
  BY DEF Behind

LEMMA ShiftedEach ==
    ASSUME NEW t, NEW s, Shifted(t, s), NEW i \in DOMAIN t
    PROVE  i \in Nat \ {0} /\ i + 1 \in DOMAIN s /\ t[i] = s[i + 1]
  BY DEF Shifted

-----------------------------------------------------------------------------
(* The order of channels.                                                  *)

LEMMA LinedWritten ==
    ASSUME NEW t, NEW s, NEW m, Behind(t, s, m), Lined(s), Lined(m),
           \A i \in DOMAIN s, j \in DOMAIN m : Before(s[i], m[j])
    PROVE  Lined(t)
  <1> SUFFICES ASSUME NEW i \in DOMAIN t, NEW j \in DOMAIN t, i < j
               PROVE  Before(t[i], t[j])
    BY DEF Lined
  <1>1. CASE j \in DOMAIN s
    <2>1. i \in DOMAIN s /\ t[i] = s[i] /\ t[j] = s[j]
      BY <1>1 DEF Behind
    <2> QED
      BY <2>1, <1>1 DEF Lined
  <1>2. CASE j \notin DOMAIN s
    <2>1. PICK k \in DOMAIN m : k \in Nat /\ j = Len(s) + k /\ t[j] = m[k]
      BY <1>2, BehindEach
    <2>2. CASE i \in DOMAIN s
      BY <2>1, <2>2 DEF Behind
    <2>3. CASE i \notin DOMAIN s
      <3>1. PICK l \in DOMAIN m : l \in Nat /\ i = Len(s) + l /\ t[i] = m[l]
        BY <2>3, BehindEach
      <3>2. l < k
        BY <2>1, <3>1 DEF Behind
      <3> QED
        BY <2>1, <3>1, <3>2 DEF Lined
    <2> QED
      BY <2>2, <2>3
  <1> QED
    BY <1>1, <1>2

LEMMA LinedRead ==
    ASSUME NEW t, NEW s, Shifted(t, s), Lined(s)
    PROVE  /\ Lined(t)
           /\ \A i \in DOMAIN t : Before(s[1], t[i])
  <1>1. ASSUME NEW i \in DOMAIN t, NEW j \in DOMAIN t, i < j
        PROVE  Before(t[i], t[j])
    BY <1>1 DEF Shifted, Lined
  <1>2. \A i \in DOMAIN t : Before(s[1], t[i])
    BY DEF Shifted, Lined
  <1> QED
    BY <1>1, <1>2 DEF Lined

-----------------------------------------------------------------------------
(* What a table says when messages are read.                               *)

LEMMA LearnsRead ==
    ASSUME NEW q, NEW c, NEW i, NEW v, NEW t, NEW w, NEW z, Learns(q, c, i, t, v),
           Shifted(z, q), Mute(q[1], c, i) => w = t, Mute(q[1], c, i) \/ Says(q[1], c, i, w)
    PROVE  Learns(z, c, i, w, v)
  <1>1. CASE LastSaid(q, c, i, v)
    <2>1. PICK k \in DOMAIN q :
            /\ Says(q[k], c, i, v)
            /\ \A j \in DOMAIN q : j > k => Mute(q[j], c, i) \/ Says(q[j], c, i, v)
      BY <1>1 DEF LastSaid
    <2>2. CASE k = 1
      <3>1. w = v
        <4>1. Says(q[1], c, i, w)
          BY <2>1, <2>2 DEF Mute
        <4> QED
          BY <2>1, <2>2, <4>1 DEF Says
      <3>2. \A j \in DOMAIN z : Mute(z[j], c, i) \/ Says(z[j], c, i, v)
        BY <2>1, <2>2 DEF Shifted
      <3>3. CASE AllMute(z, c, i)
        BY <3>1, <3>3 DEF Learns
      <3>4. CASE ~AllMute(z, c, i)
        <4>1. PICK l \in DOMAIN z : ~Mute(z[l], c, i)
          BY <3>4 DEF AllMute
        <4> QED
          BY <3>2, <4>1 DEF Learns, LastSaid
      <3> QED
        BY <3>3, <3>4
    <2>3. CASE k # 1
      <3>1. k - 1 \in DOMAIN z /\ Says(z[k - 1], c, i, v)
        BY <2>1, <2>3 DEF Shifted
      <3>2. ASSUME NEW j \in DOMAIN z, j > k - 1
            PROVE  Mute(z[j], c, i) \/ Says(z[j], c, i, v)
        <4>1. j + 1 \in DOMAIN q /\ j + 1 > k /\ z[j] = q[j + 1]
          BY <2>1, <3>2 DEF Shifted
        <4> QED
          BY <2>1, <4>1
      <3> QED
        BY <3>1, <3>2 DEF Learns, LastSaid
    <2> QED
      BY <2>2, <2>3
  <1>2. CASE AllMute(q, c, i) /\ t = v
    BY <1>2 DEF AllMute, Learns, Shifted
  <1> QED
    BY <1>1, <1>2 DEF Learns

LEMMA LearnsTold ==
    ASSUME NEW q, NEW c, NEW i, NEW v, NEW t, NEW m, NEW z, Behind(z, q, m)
    PROVE  /\ Learns(q, c, i, t, v) /\ AllMute(m, c, i) => Learns(z, c, i, t, v)
           /\ LastSaid(m, c, i, v) => Learns(z, c, i, t, v)
  <1>1. ASSUME LastSaid(m, c, i, v) PROVE Learns(z, c, i, t, v)
    <2>1. PICK k \in DOMAIN m :
            /\ Says(m[k], c, i, v)
            /\ \A j \in DOMAIN m : j > k => Mute(m[j], c, i) \/ Says(m[j], c, i, v)
      BY <1>1 DEF LastSaid
    <2>2. Len(q) + k \in DOMAIN z /\ Says(z[Len(q) + k], c, i, v)
      BY <2>1 DEF Behind
    <2>3. ASSUME NEW j \in DOMAIN z, j > Len(q) + k
          PROVE  Mute(z[j], c, i) \/ Says(z[j], c, i, v)
      <3>1. PICK l \in DOMAIN m : j = Len(q) + l /\ z[j] = m[l] /\ l > k
        BY <2>1, <2>3 DEF Behind
      <3> QED
        BY <2>1, <3>1
    <2> QED
      BY <2>2, <2>3 DEF Learns, LastSaid
  <1>2. ASSUME LastSaid(q, c, i, v), AllMute(m, c, i) PROVE Learns(z, c, i, t, v)
    <2>1. PICK k \in DOMAIN q :
            /\ Says(q[k], c, i, v)
            /\ \A j \in DOMAIN q : j > k => Mute(q[j], c, i) \/ Says(q[j], c, i, v)
      BY <1>2 DEF LastSaid
    <2>2. k \in DOMAIN z /\ Says(z[k], c, i, v)
      BY <2>1 DEF Behind
    <2>3. ASSUME NEW j \in DOMAIN z, j > k
          PROVE  Mute(z[j], c, i) \/ Says(z[j], c, i, v)
      BY <1>2, <2>1, <2>3, BehindEach DEF AllMute
    <2> QED
      BY <2>2, <2>3 DEF Learns, LastSaid
  <1>3. AllMute(q, c, i) /\ AllMute(m, c, i) => AllMute(z, c, i)
    BY BehindEach DEF AllMute
  <1> QED
    BY <1>1, <1>2, <1>3 DEF Learns

\* One message says it, and what is behind it says the same or nothing.
LEMMA SaidOnce ==
    ASSUME NEW m, NEW c, NEW i, NEW v, 1 \in DOMAIN m, Says(m[1], c, i, v),
           \A j \in DOMAIN m : Mute(m[j], c, i) \/ Says(m[j], c, i, v)
    PROVE  LastSaid(m, c, i, v)
  BY DEF LastSaid

-----------------------------------------------------------------------------
(* What may be on its way to a place: the first message is taken by the    *)
(* client, which makes place p place r; or the server puts some behind.    *)

\* Nothing but that the channel is gone.
Ended(q, p) == \A k \in DOMAIN q : q[k].chan = p.chan => q[k].type = "DESTROY"

LEMMA AnswersEnded ==
    ASSUME NEW q, NEW p, NEW pr, NEW ro, Ended(q, p),
           \A k \in DOMAIN q : q[k].chan = p.chan => pr.chan # p.chan
    PROVE  Answers(q, p, pr, ro)
  BY DEF Answers, Ended, Is

\* The place goes on from JOINED, or to it, only after it was told its id.
GoesOn(p, r) ==
    /\ r.chan = p.chan /\ r.our_id = p.our_id
    /\ \/ r.state = p.state
       \/ p.our_id # 0 /\ p.state # "PENDING" /\ r.state \in {"JOINED", "OPEN"}

LEMMA AnswersRead ==
    ASSUME NEW q, NEW z, NEW p, NEW r, NEW pr, NEW ro, Answers(q, p, pr, ro),
           Shifted(z, q), GoesOn(p, r), ~Is(q[1], p, "JOIN_RESPONSE")
    PROVE  Answers(z, r, pr, ro)
  <1>1. \A m, y : Is(m, r, y) <=> Is(m, p, y)
    BY DEF Is, GoesOn
  <1>2. \A k \in DOMAIN z : k \in Nat \ {0} /\ k + 1 \in DOMAIN q /\ z[k] = q[k + 1]
    BY DEF Shifted
  <1>3. ASSUME NEW i \in DOMAIN z, NEW j \in DOMAIN z, NEW y \in {"ACCEPT", "JOIN_RESPONSE"},
               Is(z[i], p, y), Is(z[j], p, y)
        PROVE  i = j
    <2>1. i + 1 = j + 1
      BY <1>2, <1>3 DEF Answers
    <2> QED
      BY <1>2, <2>1
  <1>4. ASSUME NEW k \in DOMAIN z
        PROVE  /\ Is(z[k], r, "ACCEPT") => r.state = "PENDING"
               /\ Is(z[k], r, "DESTROY") => pr.chan # r.chan
               /\ Is(z[k], r, "JOIN_RESPONSE") =>
                     /\ r.state = "JOINING" /\ r.our_id = 0
                     /\ pr.joined /\ pr.chan = r.chan => ro[z[k].id] = Me
               /\ Is(z[k], r, "SECTION_LIST") => r.state \in {"JOINED", "OPEN"}
    BY <1>1, <1>2 DEF Answers, GoesOn
  <1>5. ASSUME NEW k \in DOMAIN z, z[k].chan = r.chan,
               z[k].type \notin {"ACCEPT", "DESTROY", "JOIN_RESPONSE"}, r.our_id = 0
        PROVE  \E j \in DOMAIN z : j < k /\ Is(z[j], r, "JOIN_RESPONSE")
    <2>1. PICK j \in DOMAIN q : j < k + 1 /\ Is(q[j], p, "JOIN_RESPONSE")
      BY <1>2, <1>5 DEF Answers, GoesOn
    <2>2. j # 1
      BY <2>1
    <2>3. j - 1 \in DOMAIN z /\ z[j - 1] = q[j] /\ j - 1 < k
      BY <1>2, <2>1, <2>2 DEF Shifted
    <2> QED
      BY <1>1, <2>1, <2>3
  <1> QED
    BY <1>1, <1>3, <1>4, <1>5 DEF Answers

\* The place is told its id.
LEMMA AnswersResponse ==
    ASSUME NEW q, NEW z, NEW p, NEW r, NEW pr, NEW ro, Answers(q, p, pr, ro),
           Shifted(z, q), Is(q[1], p, "JOIN_RESPONSE"),
           r.chan = p.chan, r.state = p.state, r.our_id = q[1].id, r.our_id # 0
    PROVE  Answers(z, r, pr, ro)
  <1>1. \A m, y : Is(m, r, y) <=> Is(m, p, y)
    BY DEF Is
  <1>2. 1 \in DOMAIN q /\ \A k \in DOMAIN z :
          k \in Nat \ {0} /\ k + 1 \in DOMAIN q /\ z[k] = q[k + 1]
    BY DEF Shifted
  <1>3. ASSUME NEW i \in DOMAIN z, NEW j \in DOMAIN z, NEW y \in {"ACCEPT", "JOIN_RESPONSE"},
               Is(z[i], p, y), Is(z[j], p, y)
        PROVE  i = j
    <2>1. i + 1 = j + 1
      BY <1>2, <1>3 DEF Answers
    <2> QED
      BY <1>2, <2>1
  <1>4. \A k \in DOMAIN z : ~Is(z[k], r, "JOIN_RESPONSE")
    <2>1. \A k \in DOMAIN q : Is(q[k], p, "JOIN_RESPONSE") => k = 1
      BY <1>2 DEF Answers
    <2>2. \A k \in DOMAIN z : k + 1 # 1
      BY <1>2
    <2> QED
      BY <1>1, <1>2, <2>1, <2>2
  <1>5. \A k \in DOMAIN z :
          /\ Is(z[k], r, "ACCEPT") => r.state = "PENDING"
          /\ Is(z[k], r, "DESTROY") => pr.chan # r.chan
          /\ Is(z[k], r, "SECTION_LIST") => r.state \in {"JOINED", "OPEN"}
    BY <1>1, <1>2 DEF Answers
  <1> QED
    BY <1>1, <1>3, <1>4, <1>5 DEF Answers

\* What the server may say of itself or of others, to a place it has told its id.
Remark(m, p) ==
    m.chan = p.chan =>
        /\ m.type \notin {"ACCEPT", "JOIN_RESPONSE"}
        /\ m.type = "SECTION_LIST" => p.state \in {"JOINED", "OPEN"}

\* It still has this place, at the same id, or it has not.
Keeps(p, pr, ro, qr, so) ==
    qr.chan = p.chan =>
        /\ pr.chan = p.chan
        /\ qr.joined => pr.joined /\ \A i \in Ids : ro[i] = Me => so[i] = Me

LEMMA AnswersTold ==
    ASSUME NEW q \in Seq(Told), NEW z, NEW m, NEW p, NEW pr, NEW ro, NEW qr, NEW so,
           Answers(q, p, pr, ro), Joined(q, p, pr, ro), Behind(z, q, m),
           Keeps(p, pr, ro, qr, so),
           \A j \in DOMAIN m :
              /\ Remark(m[j], p)
              /\ m[j].chan = p.chan => \/ m[j].type = "DESTROY" /\ qr.chan # p.chan
                                       \/ m[j].type # "DESTROY" /\ pr.joined /\ pr.chan = p.chan
    PROVE  Answers(z, p, qr, so)
  <1>1. \A k \in DOMAIN q : Is(q[k], p, "JOIN_RESPONSE") => q[k].id \in Ids
    BY ElementOfSeq DEF Is, Told
  <1>2. /\ \A k \in DOMAIN q : k \in DOMAIN z /\ z[k] = q[k] /\ k \in 1..Len(q)
        /\ \A k \in DOMAIN z : (k \in DOMAIN q /\ z[k] = q[k]) \/
             \E j \in DOMAIN m : j \in Nat \ {0} /\ k = Len(q) + j /\ z[k] = m[j]
        /\ Len(q) \in Nat
    BY DEF Behind
  <1>3. \A k \in DOMAIN z : \A y \in {"ACCEPT", "JOIN_RESPONSE"} :
          Is(z[k], p, y) => k \in DOMAIN q /\ z[k] = q[k]
    BY <1>2 DEF Is, Remark
  <1>4. \A i, j \in DOMAIN z : \A y \in {"ACCEPT", "JOIN_RESPONSE"} :
          Is(z[i], p, y) /\ Is(z[j], p, y) => i = j
    BY <1>3 DEF Answers
  <1>5. ASSUME NEW k \in DOMAIN z
        PROVE  /\ Is(z[k], p, "ACCEPT") => p.state = "PENDING"
               /\ Is(z[k], p, "DESTROY") => qr.chan # p.chan
               /\ Is(z[k], p, "JOIN_RESPONSE") =>
                     /\ p.state = "JOINING" /\ p.our_id = 0
                     /\ qr.joined /\ qr.chan = p.chan => so[z[k].id] = Me
    <2>1. Is(z[k], p, "DESTROY") => qr.chan # p.chan
      BY <1>2 DEF Answers, Keeps, Is
    <2> QED
      BY <1>1, <1>3, <2>1 DEF Answers, Keeps
  <1>6. ASSUME NEW k \in DOMAIN z, Is(z[k], p, "SECTION_LIST")
        PROVE  p.state \in {"JOINED", "OPEN"}
    BY <1>2, <1>6 DEF Answers, Remark, Is
  <1>7. ASSUME NEW k \in DOMAIN z, z[k].chan = p.chan,
               z[k].type \notin {"ACCEPT", "DESTROY", "JOIN_RESPONSE"}, p.our_id = 0
        PROVE  \E j \in DOMAIN z : j < k /\ Is(z[j], p, "JOIN_RESPONSE")
    <2>1. CASE k \in DOMAIN q /\ z[k] = q[k]
      BY <1>2, <1>7, <2>1 DEF Answers
    <2>2. CASE \E j \in DOMAIN m : j \in Nat \ {0} /\ k = Len(q) + j /\ z[k] = m[j]
      <3>1. pr.joined /\ pr.chan = p.chan
        BY <1>7, <2>2
      <3>2. PICK j \in DOMAIN q : Is(q[j], p, "JOIN_RESPONSE")
        BY <1>7, <3>1 DEF Joined, Response
      <3>3. j < k
        BY <1>2, <2>2
      <3> QED
        BY <1>2, <3>2, <3>3
    <2> QED
      BY <1>2, <2>1, <2>2
  <1> QED
    BY <1>4, <1>5, <1>6, <1>7 DEF Answers

LEMMA AsksRead ==
    ASSUME NEW ts, NEW q, NEW z, NEW p, NEW r, Asks(ts, q, p), Shifted(z, q), GoesOn(p, r)
    PROVE  Asks(ts, z, r)
  <1>1. \A m, y : Is(m, r, y) <=> Is(m, p, y)
    BY DEF Is, GoesOn
  <1>2. \A k \in DOMAIN z : k + 1 \in DOMAIN q /\ z[k] = q[k + 1]
    BY DEF Shifted
  <1> QED
    BY <1>1, <1>2 DEF Asks, GoesOn

LEMMA JoinedRead ==
    ASSUME NEW q, NEW z, NEW p, NEW r, NEW pr, NEW ro, Joined(q, p, pr, ro),
           Shifted(z, q), GoesOn(p, r), ~Is(q[1], p, "JOIN_RESPONSE")
    PROVE  Joined(z, r, pr, ro)
  <1>1. ASSUME Response(q, p) PROVE Response(z, r)
    <2>1. PICK j \in DOMAIN q : Is(q[j], p, "JOIN_RESPONSE") /\ j # 1
      BY <1>1 DEF Response
    <2>2. j - 1 \in DOMAIN z /\ z[j - 1] = q[j]
      BY <2>1 DEF Shifted
    <2> QED
      BY <2>1, <2>2 DEF Response, Is, GoesOn
  <1> QED
    BY <1>1 DEF Joined, GoesOn

\* The client writes m, which makes it place r.
LEMMA AsksWritten ==
    ASSUME NEW ts, NEW t, NEW q, NEW m, NEW p, Asks(ts, q, p), Behind(t, ts, m),
           \A j \in DOMAIN m :
              /\ m[j].type \notin {"CREATE", "JOIN_PLACE"} /\ p.state # "PENDING"
              /\ m[j].type = "SECTION_LIST" => p.state \in {"JOINED", "OPEN"}
    PROVE  Asks(t, q, p)
  <1>1. \A i \in DOMAIN t : (i \in DOMAIN ts /\ t[i] = ts[i]) \/ \E j \in DOMAIN m : t[i] = m[j]
    BY DEF Behind
  <1>2. \A i \in DOMAIN t : \A y \in {"CREATE", "JOIN_PLACE"} :
          Is(t[i], p, y) => i \in DOMAIN ts /\ t[i] = ts[i]
    BY <1>1 DEF Is
  <1>3. ASSUME NEW i \in DOMAIN t
        PROVE  /\ Is(t[i], p, "CREATE") =>
                     p.state = "PENDING" /\ \A k \in DOMAIN q : q[k].chan # p.chan
               /\ Is(t[i], p, "JOIN_PLACE") =>
                     /\ p.state = "JOINING" /\ p.our_id = 0
                     /\ \A k \in DOMAIN q : q[k].chan = p.chan => q[k].type = "DESTROY"
    BY <1>2 DEF Asks
  <1>4. ASSUME NEW i \in DOMAIN t
        PROVE  /\ Is(t[i], p, "SECTION_LIST") => p.state \in {"JOINED", "OPEN"}
               /\ t[i].chan = p.chan /\ p.state = "PENDING" => t[i].type = "CREATE"
    BY <1>1 DEF Asks, Is
  <1> QED
    BY <1>3, <1>4 DEF Asks

\* The server takes the first message; it puts some behind what is on its way.
LEMMA AsksTaken ==
    ASSUME NEW ts, NEW t, NEW q, NEW p, Asks(ts, q, p), Shifted(t, ts)
    PROVE  Asks(t, q, p)
  BY DEF Asks, Shifted

LEMMA AsksTold ==
    ASSUME NEW ts, NEW q, NEW z, NEW m, NEW p, Asks(ts, q, p), Behind(z, q, m),
           \A i \in DOMAIN ts :
              /\ Is(ts[i], p, "CREATE") => \A j \in DOMAIN m : m[j].chan # p.chan
              /\ Is(ts[i], p, "JOIN_PLACE") =>
                    \A j \in DOMAIN m : m[j].chan = p.chan => m[j].type = "DESTROY"
    PROVE  Asks(ts, z, p)
  <1>1. \A i \in DOMAIN z : (i \in DOMAIN q /\ z[i] = q[i]) \/ \E j \in DOMAIN m : z[i] = m[j]
    BY DEF Behind
  <1> QED
    BY <1>1 DEF Asks

LEMMA JoinedTold ==
    ASSUME NEW q, NEW z, NEW m, NEW p, NEW pr, NEW ro, NEW qr, NEW so,
           p.our_id \in {0} \cup Ids, Joined(q, p, pr, ro), Behind(z, q, m),
           Keeps(p, pr, ro, qr, so)
    PROVE  Joined(z, p, qr, so)
  <1>1. Response(q, p) => Response(z, p)
    BY DEF Response, Behind
  <1> QED
    BY <1>1 DEF Joined, Keeps

-----------------------------------------------------------------------------
(* The invariant in the next state, said of the values the variables have  *)
(* there.                                                                  *)

LEMMA NextWired ==
    ASSUME NEW t, NEW q, NEW p, NEW pr, NEW n,
           t = toServer', q = toClient', p = place', pr = peer', n = nplaces',
           Line(t, q, p, pr, n), ~up' => t = <<>> /\ pr.chan = 0,
           ~on' => ~up' /\ p.state = "NONE" /\ q = <<>>
    PROVE  Wired'
  BY DEF Wired, Line, Lined, Before, Ahead, Closing

LEMMA NextConversing ==
    ASSUME NEW t, NEW q, NEW p, NEW pr, NEW ro,
           t = toServer', q = toClient', p = place', pr = peer', ro = roster',
           Talk(t, q, p, pr, ro)
    PROVE  Conversing'
  BY DEF Conversing, Talk, Answers, Asks, Joined, Response, Is

LEMMA NextFollowing ==
    ASSUME NEW q, NEW p, NEW pr, NEW ro, NEW li,
           q = toClient', p = place', pr = peer', ro = roster', li = listed',
           Follows(q, p, pr, ro, li)
    PROVE  Following'
  BY DEF Following

-----------------------------------------------------------------------------
(* The channels, in order, as the client and the server go on.             *)

LEMMA LineRead ==
    ASSUME NEW ts, NEW q, NEW z, NEW p, NEW r, NEW pr, NEW n, Line(ts, q, p, pr, n),
           Shifted(z, q), r.chan = p.chan, r.state = "NEW" => p.state = "NEW"
    PROVE  Line(ts, z, r, pr, n)
  BY DEF Line, Shifted

LEMMA LineWritten ==
    ASSUME NEW ts \in Seq(Written), NEW t, NEW m, NEW q, NEW p, NEW r, NEW pr,
           NEW n \in Nat, Line(ts, q, p, pr, n), Behind(t, ts, m),
           p.chan # 0, r.chan = p.chan, r.state # "NEW",
           \A j \in DOMAIN m : m[j].chan = p.chan /\ m[j].type \notin {"CREATE", "DESTROY"},
           \A j \in DOMAIN m : m[j].type = "JOIN_PLACE" =>
              /\ j = 1 /\ (pr.chan = p.chan => ~pr.joined)
              /\ \A i \in DOMAIN ts : ts[i].type = "JOIN_PLACE" => ts[i].chan # p.chan,
           pr \in [chan : {0} \cup Chans, joined : BOOLEAN]
    PROVE  Line(t, q, r, pr, n)
  <1>1. /\ \A i \in DOMAIN ts : ts[i].chan \in Nat /\ ts[i].chan <= n
        /\ p.chan = n /\ pr.chan <= n /\ pr.chan \in Nat
    <2>1. \A i \in DOMAIN ts : ts[i].chan \in Nat
      BY ElementOfSeq, BoundsAssumption DEF Written, Chans
    <2> QED
      BY <2>1, BoundsAssumption DEF Line, Chans
  <1>2. Lined(t)
    <2>1. \A i \in DOMAIN ts, j \in DOMAIN m : Before(ts[i], m[j])
      BY <1>1 DEF Before, Line
    <2>2. Lined(m)
      BY <1>1 DEF Lined, Before
    <2> QED
      BY <2>1, <2>2, LinedWritten DEF Line
  <1>3. \A c : Closing(ts, c) => Closing(t, c)
    BY DEF Closing, Behind
  <1>4. ASSUME NEW i \in DOMAIN t
        PROVE  /\ t[i].chan <= n
               /\ t[i].type = "DESTROY" => t[i].chan # r.chan
               /\ t[i].type = "CREATE" => t[i].chan = r.chan \/ Closing(t, t[i].chan)
               /\ pr.chan <= t[i].chan
               /\ t[i].type = "CREATE" => pr.chan < t[i].chan
               /\ t[i].type = "JOIN_PLACE" /\ pr.joined => pr.chan < t[i].chan
    BY <1>1, <1>3, BehindEach DEF Line, Ahead
  <1> QED
    BY <1>1, <1>2, <1>3, <1>4 DEF Line, Ahead

LEMMA LineCreated ==
    ASSUME NEW ts \in Seq(Written), NEW t, NEW m, NEW q, NEW p, NEW r, NEW pr,
           NEW n \in Nat, Line(ts, q, p, pr, n), Behind(t, ts, m),
           p.state = "NEW", p.chan = 0, r.chan = n, r.state # "NEW",
           DOMAIN m = {1}, m[1].type = "CREATE", m[1].chan = n,
           pr \in [chan : {0} \cup Chans, joined : BOOLEAN]
    PROVE  Line(t, q, r, pr, n)
  <1>1. /\ \A i \in DOMAIN ts : ts[i].chan \in Nat \ {0} /\ ts[i].chan < n
        /\ pr.chan < n /\ pr.chan \in Nat
    <2>1. \A i \in DOMAIN ts : ts[i].chan \in Nat \ {0}
      BY ElementOfSeq, BoundsAssumption DEF Written, Chans
    <2> QED
      BY <2>1, BoundsAssumption DEF Line, Chans
  <1>2. Lined(t)
    <2>1. \A i \in DOMAIN ts, j \in DOMAIN m : Before(ts[i], m[j])
      BY <1>1 DEF Before
    <2>2. Lined(m)
      BY DEF Lined
    <2> QED
      BY <2>1, <2>2, LinedWritten DEF Line
  <1>3. \A c : Closing(ts, c) => Closing(t, c)
    BY DEF Closing, Behind
  <1>4. ASSUME NEW i \in DOMAIN t
        PROVE  /\ t[i].chan <= n
               /\ t[i].type = "DESTROY" => t[i].chan # r.chan
               /\ t[i].type = "CREATE" => t[i].chan = r.chan \/ Closing(t, t[i].chan)
               /\ pr.chan <= t[i].chan
               /\ t[i].type = "CREATE" => pr.chan < t[i].chan
               /\ t[i].type = "JOIN_PLACE" /\ pr.joined => pr.chan < t[i].chan
    BY <1>1, <1>3, BehindEach DEF Line, Ahead
  <1> QED
    BY <1>1, <1>2, <1>3, <1>4 DEF Line, Ahead

\* The place is freed: its channel is closed, or the server has it no more.
LEMMA LineFreed ==
    ASSUME NEW ts \in Seq(Written), NEW t, NEW m, NEW q, NEW p, NEW r, NEW pr,
           NEW n \in Nat, Line(ts, q, p, pr, n), Behind(t, ts, m), r.chan = 0, r.state # "NEW",
           \A j \in DOMAIN m :
              j = 1 /\ m[j].type = "DESTROY" /\ m[j].chan = p.chan /\ p.chan # 0,
           \/ 1 \in DOMAIN m
           \/ p.chan = 0
           \/ /\ pr.chan # p.chan
              /\ \A i \in DOMAIN ts : ts[i].type = "CREATE" => ts[i].chan # p.chan,
           pr \in [chan : {0} \cup Chans, joined : BOOLEAN]
    PROVE  Line(t, q, r, pr, n)
  <1>1. /\ \A i \in DOMAIN ts : ts[i].chan \in Nat \ {0} /\ ts[i].chan <= n
        /\ pr.chan <= n /\ pr.chan \in Nat /\ p.chan \in {0, n}
    <2>1. \A i \in DOMAIN ts : ts[i].chan \in Nat \ {0}
      BY ElementOfSeq, BoundsAssumption DEF Written, Chans
    <2> QED
      BY <2>1, BoundsAssumption DEF Line, Chans
  <1>2. Lined(t)
    <2>1. \A i \in DOMAIN ts, j \in DOMAIN m : Before(ts[i], m[j])
      BY <1>1 DEF Before, Line
    <2>2. Lined(m)
      BY DEF Lined
    <2> QED
      BY <2>1, <2>2, LinedWritten DEF Line
  <1>3. \A c : Closing(ts, c) => Closing(t, c)
    BY DEF Closing, Behind
  <1>4. 1 \in DOMAIN m => Closing(t, p.chan)
    BY DEF Closing, Behind
  <1>5. ASSUME NEW i \in DOMAIN t
        PROVE  /\ t[i].chan <= n
               /\ t[i].type = "DESTROY" => t[i].chan # r.chan
               /\ pr.chan <= t[i].chan
               /\ t[i].type = "CREATE" => pr.chan < t[i].chan
               /\ t[i].type = "JOIN_PLACE" /\ pr.joined => pr.chan < t[i].chan
    BY <1>1, BehindEach DEF Line, Ahead
  <1>6. ASSUME NEW i \in DOMAIN t, t[i].type = "CREATE"
        PROVE  Closing(t, t[i].chan)
    <2>1. i \in DOMAIN ts /\ t[i] = ts[i]
      BY <1>6, BehindEach
    <2>2. ts[i].chan = p.chan \/ Closing(ts, ts[i].chan)
      BY <1>6, <2>1 DEF Line
    <2> QED
      BY <1>1, <1>3, <1>4, <1>6, <2>1, <2>2
  <1>7. pr.chan # 0 => Closing(t, pr.chan)
    BY <1>3, <1>4 DEF Line
  <1> QED
    BY <1>1, <1>2, <1>5, <1>6, <1>7 DEF Line, Ahead

\* A new place: all that is on its way is older.
LEMMA LineNew ==
    ASSUME NEW ts \in Seq(Written), NEW q \in Seq(Told), NEW p, NEW r, NEW pr,
           NEW n \in Nat, Line(ts, q, p, pr, n), p.chan = 0, r.chan = 0,
           pr \in [chan : {0} \cup Chans, joined : BOOLEAN]
    PROVE  Line(ts, q, r, pr, n + 1)
  <1>1. /\ \A i \in DOMAIN ts : ts[i].chan \in Nat
        /\ \A i \in DOMAIN q : q[i].chan \in Nat
        /\ pr.chan \in Nat
    BY ElementOfSeq, BoundsAssumption DEF Written, Told, Chans
  <1> QED
    BY <1>1 DEF Line

\* The server reads h, and has the channel it creates, or no more the one it
\* destroys.
LEMMA LineTaken ==
    ASSUME NEW ts \in Seq(Written), NEW t, NEW q, NEW p, NEW pr, NEW qr, NEW n \in Nat,
           Line(ts, q, p, pr, n), Shifted(t, ts),
           pr \in [chan : {0} \cup Chans, joined : BOOLEAN],
           \/ /\ qr.chan = pr.chan /\ (qr.joined => pr.joined \/ ts[1].type = "JOIN_PLACE")
              /\ ~(ts[1].type = "DESTROY" /\ ts[1].chan = pr.chan)
              /\ ts[1].type = "JOIN_PLACE" /\ qr.joined /\ ~pr.joined => ts[1].chan = pr.chan
           \/ ts[1].type = "CREATE" /\ qr.chan = ts[1].chan /\ ~qr.joined
           \/ qr.chan = 0 /\ ~qr.joined
    PROVE  Line(t, q, p, qr, n)
  <1>1. /\ \A i \in DOMAIN ts : ts[i].chan \in Nat \ {0}
        /\ pr.chan \in Nat /\ 1 \in DOMAIN ts
    BY ElementOfSeq, BoundsAssumption DEF Written, Chans, Shifted
  <1>2. Lined(t) /\ \A i \in DOMAIN t : Before(ts[1], t[i])
    BY LinedRead DEF Line
  <1>3. \A i \in DOMAIN t : i + 1 \in DOMAIN ts /\ t[i] = ts[i + 1]
    BY DEF Shifted
  <1>4. ASSUME NEW c, Closing(ts, c)
        PROVE  Closing(t, c) \/ (ts[1].type = "DESTROY" /\ ts[1].chan = c)
    <2>1. PICK i \in DOMAIN ts : ts[i].type = "DESTROY" /\ ts[i].chan = c
      BY <1>4 DEF Closing
    <2>2. i = 1 \/ (i - 1 \in DOMAIN t /\ t[i - 1] = ts[i])
      BY DEF Shifted
    <2> QED
      BY <2>1, <2>2 DEF Closing
  <1>5. Ahead(t, qr)
    <2>1. ASSUME NEW i \in DOMAIN t
          PROVE  /\ qr.chan <= t[i].chan
                 /\ t[i].type = "CREATE" => qr.chan < t[i].chan
                 /\ t[i].type = "JOIN_PLACE" /\ qr.joined => qr.chan < t[i].chan
      BY <1>1, <1>2, <1>3 DEF Before, Line, Ahead
    <2> QED
      BY <2>1 DEF Ahead
  <1>6. ASSUME NEW i \in DOMAIN t, t[i].type = "CREATE", t[i].chan # p.chan
        PROVE  Closing(t, t[i].chan)
    <2>1. Closing(ts, t[i].chan)
      BY <1>3, <1>6 DEF Line
    <2>2. ~(ts[1].type = "DESTROY" /\ ts[1].chan = t[i].chan)
      BY <1>1, <1>2, <1>3 DEF Before
    <2> QED
      BY <1>4, <2>1, <2>2
  <1>7. ASSUME qr.chan \notin {0, p.chan} PROVE Closing(t, qr.chan)
    <2>1. CASE qr.chan = pr.chan /\ ~(ts[1].type = "DESTROY" /\ ts[1].chan = pr.chan)
      BY <1>4, <1>7, <2>1 DEF Line
    <2>2. CASE ts[1].type = "CREATE" /\ qr.chan = ts[1].chan
      BY <1>1, <1>4, <1>7, <2>2 DEF Line
    <2> QED
      BY <1>7, <2>1, <2>2
  <1>8. qr.chan <= n /\ (p.state = "NEW" => qr.chan < n)
    BY <1>1 DEF Line
  <1> QED
    BY <1>2, <1>3, <1>5, <1>6, <1>7, <1>8 DEF Line

\* The server says something on a channel it has or reads of.
LEMMA LineTold ==
    ASSUME NEW ts, NEW z, NEW q, NEW m, NEW p, NEW pr, NEW n,
           Line(ts, q, p, pr, n), Behind(z, q, m),
           \A j \in DOMAIN m : m[j].chan <= n /\ (p.state = "NEW" => m[j].chan < n)
    PROVE  Line(ts, z, p, pr, n)
  <1>1. \A i \in DOMAIN z : z[i].chan <= n /\ (p.state = "NEW" => z[i].chan < n)
    BY BehindEach DEF Line
  <1> QED
    BY <1>1 DEF Line

\* The server has this client's channel no more.
LEMMA LineDropped ==
    ASSUME NEW ts \in Seq(Written), NEW q, NEW p, NEW pr, NEW qr, NEW n \in Nat,
           Line(ts, q, p, pr, n), qr.chan = 0, ~qr.joined,
           pr \in [chan : {0} \cup Chans, joined : BOOLEAN]
    PROVE  Line(ts, q, p, qr, n)
  <1>1. \A i \in DOMAIN ts : ts[i].chan \in Nat \ {0}
    BY ElementOfSeq, BoundsAssumption DEF Written, Chans
  <1>2. pr.chan \in Nat
    BY BoundsAssumption DEF Chans
  <1> QED
    BY <1>1, <1>2 DEF Line, Ahead

LEMMA LineCut ==
    ASSUME NEW ts, NEW q, NEW z, NEW p, NEW r, NEW pr, NEW qr, NEW n \in Nat,
           Line(ts, q, p, pr, n), pr.chan \in Nat, qr.chan = 0, r.chan \in {0, p.chan},
           r.state = "NEW" => p.state = "NEW", z \in {q, <<>>}
    PROVE  Line(<<>>, z, r, qr, n)
  <1>1. ~ \E i : i \in DOMAIN <<>>
    OBVIOUS
  <1> QED
    BY <1>1 DEF Line, Lined, Ahead

-----------------------------------------------------------------------------
(* What client and server say to each other, as they go on.                *)

LEMMA TalkRead ==
    ASSUME NEW ts, NEW q, NEW z, NEW p, NEW r, NEW pr, NEW ro, Talk(ts, q, p, pr, ro),
           Shifted(z, q), GoesOn(p, r), ~Is(q[1], p, "JOIN_RESPONSE")
    PROVE  Talk(ts, z, r, pr, ro)
  <1>1. r.chan = p.chan
    BY DEF GoesOn
  <1> QED
    BY <1>1, AnswersRead, AsksRead, JoinedRead DEF Talk

LEMMA TalkWritten ==
    ASSUME NEW ts, NEW t, NEW q, NEW m, NEW p, NEW pr, NEW ro, Talk(ts, q, p, pr, ro),
           Behind(t, ts, m),
           \A j \in DOMAIN m :
              /\ m[j].type \notin {"CREATE", "JOIN_PLACE"} /\ p.state # "PENDING"
              /\ m[j].type = "SECTION_LIST" => p.state \in {"JOINED", "OPEN"}
    PROVE  Talk(t, q, p, pr, ro)
  BY AsksWritten DEF Talk

LEMMA TalkResponse ==
    ASSUME NEW ts, NEW q, NEW z, NEW p, NEW r, NEW pr, NEW ro, Talk(ts, q, p, pr, ro),
           Shifted(z, q), Is(q[1], p, "JOIN_RESPONSE"), p.chan # 0,
           r.chan = p.chan, r.state = p.state, r.our_id = q[1].id, r.our_id # 0
    PROVE  Talk(ts, z, r, pr, ro)
  <1>1. Answers(q, p, pr, ro) /\ Asks(ts, q, p) /\ Joined(q, p, pr, ro)
    BY DEF Talk
  <1>2. Answers(z, r, pr, ro)
    BY <1>1, AnswersResponse
  <1>3. /\ 1 \in DOMAIN q /\ p.state = "JOINING" /\ p.our_id = 0
        /\ (pr.joined /\ pr.chan = p.chan => ro[q[1].id] = Me)
    BY <1>1 DEF Answers, Shifted
  <1>4. \A m, y : Is(m, r, y) <=> Is(m, p, y)
    BY DEF Is
  <1>5. \A i \in DOMAIN ts : ~Is(ts[i], p, "JOIN_PLACE") /\ ~Is(ts[i], p, "CREATE")
    BY <1>1, <1>3 DEF Asks, Is
  <1>6. Asks(ts, z, r)
    BY <1>1, <1>3, <1>4, <1>5 DEF Asks
  <1>7. Joined(z, r, pr, ro)
    BY <1>3 DEF Joined
  <1> QED
    BY <1>2, <1>6, <1>7 DEF Talk

\* The channel is accepted: nothing else is on its way, either way.
LEMMA TalkAccepted ==
    ASSUME NEW ts, NEW t, NEW m, NEW q, NEW z, NEW p, NEW r, NEW pr, NEW ro,
           Talk(ts, q, p, pr, ro), Shifted(z, q), Behind(t, ts, m), Is(q[1], p, "ACCEPT"),
           p.chan # 0, p.our_id = 0, r.chan = p.chan, r.our_id = 0,
           r.state \in {"JOINING", "ERROR"},
           \A j \in DOMAIN m :
              /\ r.state = "JOINING"
              /\ m[j].type \in {"JOIN_PLACE", "MESSAGE", "SET_ATTR", "OLD_INVITE"}
    PROVE  /\ Talk(t, z, r, pr, ro)
           /\ \A i \in DOMAIN ts : ts[i].chan # p.chan
           /\ pr.chan = p.chan => ~pr.joined
           /\ p.state = "PENDING"
  <1>1. Answers(q, p, pr, ro) /\ Asks(ts, q, p) /\ Joined(q, p, pr, ro)
    BY DEF Talk
  <1>2. 1 \in DOMAIN q /\ p.state = "PENDING" /\ q[1].chan = p.chan
    BY <1>1 DEF Answers, Shifted, Is
  <1>3. pr.chan = p.chan => ~pr.joined
    BY <1>1, <1>2 DEF Joined
  <1>4. \A i \in DOMAIN ts : ts[i].chan # p.chan
    BY <1>1, <1>2 DEF Asks, Is
  <1>5. \A k \in DOMAIN z : k \in Nat \ {0} /\ k + 1 \in DOMAIN q /\ z[k] = q[k + 1]
    BY DEF Shifted
  <1>6. \A k \in DOMAIN q : Is(q[k], p, "ACCEPT") => k = 1
    BY <1>1, <1>2 DEF Answers
  <1>7. \A k \in DOMAIN q : ~Is(q[k], p, "JOIN_RESPONSE")
    BY <1>1, <1>2 DEF Answers
  <1>8. \A k \in DOMAIN q : q[k].chan = p.chan => k = 1 \/ q[k].type = "DESTROY"
    BY <1>1, <1>6, <1>7 DEF Answers, Is
  <1>9. Ended(z, r)
    <2>1. \A k \in DOMAIN z : k + 1 # 1
      BY <1>5
    <2> QED
      BY <1>5, <1>8, <2>1 DEF Ended
  <1>10. \A k \in DOMAIN z : z[k].chan = r.chan => pr.chan # r.chan
    BY <1>1, <1>5, <1>9 DEF Answers, Ended, Is
  <1>11. Answers(z, r, pr, ro)
    BY <1>9, <1>10, AnswersEnded
  <1>12. \A i \in DOMAIN t : t[i].chan = r.chan =>
           r.state = "JOINING" /\ t[i].type \in {"JOIN_PLACE", "MESSAGE", "SET_ATTR", "OLD_INVITE"}
    BY <1>4, BehindEach
  <1>13. Asks(t, z, r)
    BY <1>9, <1>12 DEF Asks, Is, Ended
  <1>14. Joined(z, r, pr, ro)
    BY <1>3 DEF Joined
  <1> QED
    BY <1>2, <1>3, <1>4, <1>11, <1>13, <1>14 DEF Talk

\* A place that is opened: all that is on its way is older.
LEMMA TalkCreated ==
    ASSUME NEW ts, NEW t, NEW m, NEW q, NEW p, NEW r, NEW pr, NEW ro, NEW n \in Nat,
           Line(ts, q, p, pr, n), p.state = "NEW", Behind(t, ts, m),
           r.chan = n, r.state = "PENDING", \A j \in DOMAIN m : m[j].type = "CREATE"
    PROVE  Talk(t, q, r, pr, ro)
  <1>1. pr.chan # r.chan
    BY DEF Line
  <1>2. \A k \in DOMAIN q : q[k].chan # r.chan
    BY DEF Line
  <1>3. \A i \in DOMAIN t : t[i].chan = r.chan => t[i].type = "CREATE"
    BY BehindEach DEF Line
  <1>4. Answers(q, r, pr, ro)
    BY <1>2, AnswersEnded DEF Ended
  <1>5. Asks(t, q, r) /\ Joined(q, r, pr, ro)
    BY <1>1, <1>2, <1>3 DEF Asks, Joined, Is
  <1> QED
    BY <1>4, <1>5 DEF Talk

LEMMA TalkTaken ==
    ASSUME NEW ts, NEW t, NEW q, NEW p, NEW pr, NEW ro, Talk(ts, q, p, pr, ro), Shifted(t, ts)
    PROVE  Talk(t, q, p, pr, ro)
  BY AsksTaken DEF Talk

LEMMA TalkTold ==
    ASSUME NEW ts, NEW q \in Seq(Told), NEW z, NEW m, NEW p \in PlaceRecord, NEW pr, NEW ro,
           NEW qr, NEW so, Talk(ts, q, p, pr, ro), Behind(z, q, m), Keeps(p, pr, ro, qr, so),
           \A j \in DOMAIN m :
              /\ Remark(m[j], p)
              /\ m[j].chan = p.chan => \/ m[j].type = "DESTROY" /\ qr.chan # p.chan
                                       \/ m[j].type # "DESTROY" /\ pr.joined /\ pr.chan = p.chan,
           \A i \in DOMAIN ts :
              /\ Is(ts[i], p, "CREATE") => \A j \in DOMAIN m : m[j].chan # p.chan
              /\ Is(ts[i], p, "JOIN_PLACE") =>
                    \A j \in DOMAIN m : m[j].chan = p.chan => m[j].type = "DESTROY"
    PROVE  Talk(ts, z, p, qr, so)
  <1>1. p.our_id \in {0} \cup Ids
    BY DEF PlaceRecord
  <1> SUFFICES ASSUME p.chan # 0
               PROVE  Answers(z, p, qr, so) /\ Asks(ts, z, p) /\ Joined(z, p, qr, so)
    BY DEF Talk
  <1>2. Answers(q, p, pr, ro) /\ Asks(ts, q, p) /\ Joined(q, p, pr, ro)
    BY DEF Talk
  <1>3. Answers(z, p, qr, so)
    BY <1>2, AnswersTold
  <1>4. Asks(ts, z, p)
    BY <1>2, AsksTold
  <1>5. Joined(z, p, qr, so)
    BY <1>1, <1>2, JoinedTold
  <1> QED
    BY <1>3, <1>4, <1>5

\* The server has another channel, or none: nothing it says is of this place.
LEMMA TalkElsewhere ==
    ASSUME NEW ts, NEW q \in Seq(Told), NEW z, NEW m, NEW p \in PlaceRecord, NEW pr, NEW ro,
           NEW qr, NEW so, Talk(ts, q, p, pr, ro), Behind(z, q, m), qr.chan # p.chan,
           \A j \in DOMAIN m : m[j].chan # p.chan
    PROVE  Talk(ts, z, p, qr, so)
  <1>1. Keeps(p, pr, ro, qr, so) /\ \A j \in DOMAIN m : Remark(m[j], p)
    BY DEF Keeps, Remark
  <1> QED
    BY <1>1, TalkTold

\* The server has the channel of the place.
LEMMA TalkAccepts ==
    ASSUME NEW ts, NEW t, NEW q, NEW z, NEW m, NEW p, NEW pr, NEW qr, NEW ro,
           Talk(ts, q, p, pr, ro), Shifted(t, ts), \A i \in DOMAIN t : Before(ts[1], t[i]),
           ts[1].chan \in Nat, Is(ts[1], p, "CREATE"), p.chan # 0, Behind(z, q, m),
           DOMAIN m = {1}, m[1].type = "ACCEPT", ~qr.joined
    PROVE  Talk(t, z, p, qr, ro)
  <1>1. Asks(ts, q, p)
    BY DEF Talk
  <1>2. p.state = "PENDING" /\ \A k \in DOMAIN q : q[k].chan # p.chan
    BY <1>1 DEF Asks, Shifted
  <1>3. ASSUME NEW i \in DOMAIN t PROVE t[i].chan # p.chan
    <2>1. t[i].chan = p.chan => t[i].type = "CREATE"
      BY <1>1, <1>2 DEF Asks, Shifted
    <2> QED
      BY <2>1 DEF Before, Is
  <1>4. \A k \in DOMAIN z : z[k].chan = p.chan => k = Len(q) + 1 /\ z[k].type = "ACCEPT"
    BY <1>2, BehindEach
  <1>5. Answers(z, p, qr, ro)
    BY <1>2, <1>4 DEF Answers, Is
  <1>6. Asks(t, z, p) /\ Joined(z, p, qr, ro)
    BY <1>3 DEF Asks, Joined, Is
  <1> QED
    BY <1>5, <1>6 DEF Talk

\* What the server tells a client it lets in.
Welcome(m, c, f) ==
    /\ DOMAIN m \in {{1, 2}, {1, 2, 3}}
    /\ m[1].type = "JOIN_RESPONSE" /\ m[1].chan = c /\ m[1].id = f
    /\ \A j \in DOMAIN m \ {1} :
          /\ m[j].type \in {"INFO", "PEER_JOIN"} /\ m[j].chan = c
          /\ m[j].type = "PEER_JOIN" => m[j].id = f

\* A place that asks to be let in is sent nothing before the server answers.
LEMMA JoinAlone ==
    ASSUME NEW ts, NEW q, NEW p, NEW pr, NEW ro, Talk(ts, q, p, pr, ro), 1 \in DOMAIN ts,
           Is(ts[1], p, "JOIN_PLACE"), p.chan # 0, pr.chan = p.chan
    PROVE  p.state = "JOINING" /\ p.our_id = 0 /\ \A k \in DOMAIN q : q[k].chan # p.chan
  BY DEF Talk, Asks, Answers, Is

LEMMA TalkJoins ==
    ASSUME NEW ts, NEW t, NEW q, NEW z, NEW m, NEW p, NEW pr, NEW qr, NEW ro, NEW so, NEW f,
           Talk(ts, q, p, pr, ro), Shifted(t, ts), \A i \in DOMAIN t : Before(ts[1], t[i]),
           ts[1].chan \in Nat, Is(ts[1], p, "JOIN_PLACE"), p.chan # 0, Behind(z, q, m),
           Welcome(m, p.chan, f), pr.chan = p.chan, so[f] = Me
    PROVE  Talk(t, z, p, qr, so)
  <1>1. Asks(ts, q, p) /\ 1 \in DOMAIN ts
    BY DEF Talk, Shifted
  <1>2. p.state = "JOINING" /\ p.our_id = 0 /\ \A k \in DOMAIN q : q[k].chan # p.chan
    BY <1>1, JoinAlone
  <1>3. \A i \in DOMAIN t : ~Is(t[i], p, "JOIN_PLACE") /\ ~Is(t[i], p, "CREATE")
    BY DEF Before, Is
  <1>4. Asks(t, z, p)
    BY <1>1, <1>2, <1>3 DEF Asks, Shifted
  <1>5. Len(q) \in Nat
    BY DEF Behind
  <1>6. \A k \in DOMAIN z : z[k].chan = p.chan =>
          \E j \in DOMAIN m : j \in {1, 2, 3} /\ k = Len(q) + j /\ z[k] = m[j]
    <2>1. \A j \in DOMAIN m : j \in {1, 2, 3}
      BY DEF Welcome
    <2> QED
      BY <1>2, <2>1, BehindEach
  <1>7. Len(q) + 1 \in DOMAIN z /\ z[Len(q) + 1] = m[1]
    BY DEF Behind, Welcome
  <1>8. Is(z[Len(q) + 1], p, "JOIN_RESPONSE")
    BY <1>7 DEF Welcome, Is
  <1>9. \A k \in DOMAIN z : /\ ~Is(z[k], p, "ACCEPT") /\ ~Is(z[k], p, "DESTROY")
                            /\ ~Is(z[k], p, "SECTION_LIST")
                            /\ Is(z[k], p, "JOIN_RESPONSE") => k = Len(q) + 1
    BY <1>6 DEF Welcome, Is
  <1>10. \A k \in DOMAIN z : Is(z[k], p, "JOIN_RESPONSE") => z[k].id = f
    BY <1>7, <1>9 DEF Welcome
  <1>11. ASSUME NEW k \in DOMAIN z, z[k].chan = p.chan, z[k].type # "JOIN_RESPONSE"
         PROVE  \E j \in DOMAIN z : j < k /\ Is(z[j], p, "JOIN_RESPONSE")
    <2>1. Len(q) + 1 < k
      BY <1>5, <1>6, <1>11 DEF Welcome
    <2> QED
      BY <1>7, <1>8, <2>1
  <1>13. Answers(z, p, qr, so)
    BY <1>2, <1>9, <1>10, <1>11 DEF Answers
  <1>14. Joined(z, p, qr, so)
    BY <1>2, <1>7, <1>8 DEF Joined, Response
  <1> QED
    BY <1>4, <1>13, <1>14 DEF Talk

-----------------------------------------------------------------------------
(* The table of members, as client and server go on.                       *)

LEMMA FollowsRead ==
    ASSUME NEW q, NEW z, NEW p, NEW r, NEW pr, NEW ro, NEW li, NEW lj,
           Follows(q, p, pr, ro, li), Shifted(z, q), r.chan = p.chan,
           \A i \in Ids :
              /\ Mute(q[1], p.chan, i) => r.members[i] = p.members[i]
              /\ Mute(q[1], p.chan, i) \/ Says(q[1], p.chan, i, r.members[i]),
           lj => li \/ Is(q[1], p, "SECTION_LIST")
    PROVE  Follows(z, r, pr, ro, lj)
  <1> SUFFICES ASSUME pr.joined, pr.chan = p.chan, NEW i \in Ids
               PROVE  \/ Learns(z, r.chan, i, r.members[i], ro[i])
                      \/ /\ ro[i] # Nobody /\ ~lj
                         /\ \A k \in DOMAIN z : ~Is(z[k], r, "SECTION_LIST")
    BY DEF Follows
  <1>1. CASE Learns(q, p.chan, i, p.members[i], ro[i])
    <2>1. Learns(z, p.chan, i, r.members[i], ro[i])
      BY <1>1, LearnsRead
    <2> QED
      BY <2>1
  <1>2. CASE /\ ro[i] # Nobody /\ ~li
             /\ \A k \in DOMAIN q : ~Is(q[k], p, "SECTION_LIST")
    BY <1>2 DEF Shifted, Is
  <1> QED
    BY <1>1, <1>2 DEF Follows

\* The server says m, and has so in the section.
LEMMA FollowsTold ==
    ASSUME NEW q, NEW z, NEW m, NEW p, NEW pr, NEW ro, NEW qr, NEW so, NEW li,
           Follows(q, p, pr, ro, li), Behind(z, q, m), Keeps(p, pr, ro, qr, so),
           qr.joined /\ qr.chan = p.chan =>
              \A i \in Ids :
                 \/ LastSaid(m, p.chan, i, so[i])
                 \/ /\ AllMute(m, p.chan, i) /\ so[i] = ro[i]
                    /\ ro[i] = Nobody \/ \A j \in DOMAIN m : ~Is(m[j], p, "SECTION_LIST")
    PROVE  Follows(z, p, qr, so, li)
  <1> SUFFICES ASSUME qr.joined, qr.chan = p.chan, NEW i \in Ids
               PROVE  \/ Learns(z, p.chan, i, p.members[i], so[i])
                      \/ /\ so[i] # Nobody /\ ~li
                         /\ \A k \in DOMAIN z : ~Is(z[k], p, "SECTION_LIST")
    BY DEF Follows
  <1>1. pr.joined /\ pr.chan = p.chan
    BY DEF Keeps
  <1>2. CASE LastSaid(m, p.chan, i, so[i])
    BY <1>2, LearnsTold
  <1>3. CASE /\ AllMute(m, p.chan, i) /\ so[i] = ro[i]
             /\ ro[i] = Nobody \/ \A j \in DOMAIN m : ~Is(m[j], p, "SECTION_LIST")
    <2>1. CASE Learns(q, p.chan, i, p.members[i], ro[i])
      BY <1>3, <2>1, LearnsTold
    <2>2. CASE /\ ro[i] # Nobody /\ ~li
               /\ \A k \in DOMAIN q : ~Is(q[k], p, "SECTION_LIST")
      BY <1>3, <2>2, BehindEach
    <2> QED
      BY <1>1, <2>1, <2>2 DEF Follows
  <1> QED
    BY <1>2, <1>3

LEMMA FollowsElsewhere ==
    ASSUME NEW q, NEW p, NEW pr, NEW ro, NEW li, pr.chan # p.chan \/ ~pr.joined
    PROVE  Follows(q, p, pr, ro, li)
  BY DEF Follows

\* The server lets the client in, which knows of nobody.
LEMMA FollowsJoins ==
    ASSUME NEW q, NEW z, NEW m, NEW p, NEW qr, NEW so, NEW f, NEW li,
           Behind(z, q, m), Welcome(m, p.chan, f), ~li, p.members = Empty,
           \A k \in DOMAIN q : q[k].chan # p.chan, so[f] # Nobody
    PROVE  Follows(z, p, qr, so, li)
  <1> SUFFICES ASSUME NEW i \in Ids
               PROVE  \/ Learns(z, p.chan, i, p.members[i], so[i])
                      \/ /\ so[i] # Nobody /\ ~li
                         /\ \A k \in DOMAIN z : ~Is(z[k], p, "SECTION_LIST")
    BY DEF Follows
  <1>1. \A k \in DOMAIN z : z[k].chan = p.chan =>
          /\ z[k].type \in {"JOIN_RESPONSE", "INFO", "PEER_JOIN"}
          /\ z[k].type = "PEER_JOIN" => z[k].id = f
    BY BehindEach DEF Welcome
  <1>2. CASE so[i] # Nobody
    BY <1>1, <1>2 DEF Is
  <1>3. CASE so[i] = Nobody
    <2>1. AllMute(z, p.chan, i)
      BY <1>1, <1>3 DEF AllMute, Mute, Says
    <2>2. p.members[i] = Nobody
      BY DEF Empty
    <2> QED
      BY <1>3, <2>1, <2>2 DEF Learns
  <1> QED
    BY <1>2, <1>3

-----------------------------------------------------------------------------
(* The section: there is an id for whoever is not in it.                   *)

LEMMA SeatFree ==
    ASSUME roster \in Tables, NEW u \in Peers \cup {Me}, \A i \in Ids : roster[i] # u,
           \A i, j \in Ids : roster[i] = roster[j] /\ roster[i] # Nobody => i = j
    PROVE  FreeId \in Ids /\ roster[FreeId] = Nobody
  <1>1. ASSUME \A i \in Ids : roster[i] # Nobody PROVE FALSE
    <2>1. /\ IsFiniteSet(Peers \cup {Me}) /\ Cardinality(Peers) \in Nat
          /\ Cardinality(Peers \cup {Me}) = Cardinality(Peers) + 1
      BY UsersAssumption, FS_AddElement, FS_CardinalityType
    <2>2. PICK S : S = Peers \cup {Me}
      OBVIOUS
    <2> DEFINE T == S \ {u}
    <2>3. IsFiniteSet(T) /\ Cardinality(T) = Cardinality(Peers)
      <3>1. Cardinality(T) = Cardinality(S) - 1 /\ IsFiniteSet(T)
        BY <2>1, <2>2, FS_RemoveElement
      <3> QED
        BY <2>1, <2>2, <3>1
    <2>4. IsFiniteSet(Ids) /\ Cardinality(Ids) = Cardinality(Peers) + 1
      BY <2>1, FS_Interval DEF Ids
    <2>5. roster \in [Ids -> T]
      BY <1>1, <2>2 DEF Tables
    <2> HIDE DEF T
    <2>6. Cardinality(T) < Cardinality(Ids)
      BY <2>1, <2>3, <2>4
    <2>7. \E i, j \in Ids : i # j /\ roster[i] = roster[j]
      BY <2>3, <2>4, <2>5, <2>6, FS_PigeonHole
    <2> QED
      BY <1>1, <2>7
  <1> QED
    BY <1>1 DEF FreeId

LEMMA IdOfUser ==
    ASSUME NEW u, Inside(u)
    PROVE  IdOf(u) \in Ids /\ roster[IdOf(u)] = u
  BY DEF Inside, IdOf

\* A user goes.
LEMMA SeatLeft ==
    ASSUME roster \in Tables, NEW f \in Ids, NEW so, so = [roster EXCEPT ![f] = Nobody],
           \A i, j \in Ids : roster[i] = roster[j] /\ roster[i] # Nobody => i = j
    PROVE  /\ so \in Tables /\ so[f] = Nobody /\ \A i \in Ids : i # f => so[i] = roster[i]
           /\ \A i, j \in Ids : so[i] = so[j] /\ so[i] # Nobody => i = j
  <1>1. so \in Tables /\ so[f] = Nobody /\ \A i \in Ids : i # f => so[i] = roster[i]
    BY DEF Tables
  <1> QED
    BY <1>1

LEMMA SeatDropped ==
    ASSUME roster \in Tables, NEW so,
           so = [i \in Ids |-> IF roster[i] = Me THEN Nobody ELSE roster[i]],
           \A i, j \in Ids : roster[i] = roster[j] /\ roster[i] # Nobody => i = j
    PROVE  /\ so \in Tables /\ \A i \in Ids : so[i] # Me
           /\ \A i, j \in Ids : so[i] = so[j] /\ so[i] # Nobody => i = j
  <1>1. so \in Tables /\ \A i \in Ids : so[i] = IF roster[i] = Me THEN Nobody ELSE roster[i]
    BY DEF Tables
  <1>2. Me # Nobody
    BY UsersAssumption
  <1> QED
    BY <1>1, <1>2

-----------------------------------------------------------------------------
(* The calls of the client.                                                *)

LEMMA SendsBehind ==
    ASSUME toServer \in Seq(Written), NEW msgs \in Seq(Written), Sends(msgs),
           ~up => toServer = <<>>
    PROVE  /\ toServer' \in Seq(Written) /\ (~up => toServer' = <<>>)
           /\ Behind(toServer', toServer, IF up THEN msgs ELSE <<>>)
  <1>1. CASE up
    BY <1>1, ConcatBehind DEF Sends
  <1>2. CASE ~up
    <2>1. Behind(<<>>, <<>>, <<>>)
      BY NoMessage DEF Behind
    <2> QED
      BY <1>2, <2>1 DEF Sends
  <1> QED
    BY <1>1, <1>2

LEMMA TellsBehind ==
    ASSUME toClient \in Seq(Told), NEW msgs \in Seq(Told), Tells(msgs)
    PROVE  toClient' \in Seq(Told) /\ Behind(toClient', toClient, msgs)
  BY ConcatBehind DEF Tells

LEMMA SameBehind ==
    ASSUME NEW A, NEW s \in Seq(A)
    PROVE  Behind(s, s, <<>>)
  BY NoMessage, LenProperties DEF Behind

LEMMA SeatedSame ==
    ASSUME Seated, UNCHANGED server
    PROVE  Seated'
  BY DEF Seated, server

\* A place without a channel.
LEMMA Unconnected ==
    ASSUME Seated', place'.chan = 0
    PROVE  Conversing' /\ Following'
  BY DEF Seated, Conversing, Talk, Following, Follows

LEMMA NewKeeps ==
    ASSUME Inv, mwPlace_new
    PROVE  Inv'
  <1>1. PICK r : r = place' /\ r = [NoPlace EXCEPT !.state = "NEW"]
    BY DEF mwPlace_new
  <1>2. r.chan = 0 /\ r.state = "NEW" /\ r.our_id = 0 /\ r.members = Empty /\ r \in PlaceRecord
    BY <1>1 DEF NoPlace, PlaceRecord, mwPlaceState, Empty, Tables
  <1>3. /\ Typed /\ Seated /\ Wired /\ Stage /\ place.state = "NONE" /\ on
        /\ nplaces < MaxPlaces /\ nplaces' = nplaces + 1
        /\ UNCHANGED <<on, up, copen, outq, toServer, toClient, peer, roster, opened, greeted,
                       listed, events>>
    BY DEF Inv, mwPlace_new, server, history
  <1>4. place.chan = 0
    BY <1>3 DEF Stage
  <1>5. Typed'
    BY <1>1, <1>2, <1>3, BoundsAssumption DEF Typed
  <1>6. Seated'
    BY <1>3, SeatedSame DEF server
  <1>7. Wired'
    <2>1. /\ toServer \in Seq(Written) /\ toClient \in Seq(Told) /\ nplaces \in Nat
          /\ peer \in [chan : {0} \cup Chans, joined : BOOLEAN]
          /\ Line(toServer, toClient, place, peer, nplaces)
      BY <1>3, BoundsAssumption DEF Typed, Wired
    <2>2. Line(toServer, toClient, r, peer, nplaces + 1)
      BY <1>2, <1>4, <2>1, LineNew
    <2> QED
      BY <1>1, <1>2, <1>3, <2>2, NextWired DEF Wired
  <1>8. Stage'
    BY <1>1, <1>2, <1>3, <1>4 DEF Stage
  <1> QED
    BY <1>1, <1>2, <1>5, <1>6, <1>7, <1>8, Unconnected DEF Inv

LEMMA OpenKeeps ==
    ASSUME Inv, mwPlace_open
    PROVE  Inv'
  <1>1. /\ Typed /\ Seated /\ Wired /\ Stage /\ place.state = "NEW"
        /\ Sends(<<Msg("CREATE", nplaces)>>)
        /\ UNCHANGED <<on, up, copen, outq, toClient, peer, roster, nplaces, opened, greeted,
                       listed, events>>
    BY DEF Inv, mwPlace_open, server, history
  <1>2. /\ place \in PlaceRecord /\ toServer \in Seq(Written) /\ nplaces \in Nat
        /\ nplaces <= MaxPlaces /\ peer \in [chan : {0} \cup Chans, joined : BOOLEAN]
        /\ Line(toServer, toClient, place, peer, nplaces)
    BY <1>1, BoundsAssumption DEF Typed, Wired
  <1>3. /\ place.chan = 0 /\ place.our_id = 0 /\ place.members = Empty /\ ~listed
        /\ outq = <<>> /\ ~copen /\ opened = 0 /\ greeted = 0
    BY <1>1, <1>2 DEF Stage
  <1>4. nplaces \in Chans
    BY <1>1, <1>2, BoundsAssumption DEF Line, Chans
  <1>5. PICK m : m = <<Msg("CREATE", nplaces)>>
    OBVIOUS
  <1>6. /\ m \in Seq(Written) /\ DOMAIN m = {1}
        /\ m[1].type = "CREATE" /\ m[1].chan = nplaces
    <2>1. Msg("CREATE", nplaces) \in Written
      BY <1>4 DEF Msg, Written
    <2> QED
      BY <1>5, <2>1, OneMessage DEF Msg
  <1>7. /\ toServer' \in Seq(Written) /\ (~up => toServer' = <<>>)
        /\ Behind(toServer', toServer, IF up THEN m ELSE <<>>)
    BY <1>1, <1>2, <1>5, <1>6, SendsBehind DEF Wired
  <1>8. Seated'
    BY <1>1, SeatedSame DEF server
  <1>9. on
    BY <1>1 DEF Wired
  <1>10. CASE up
    <2>1. PICK r : r = place' /\ r = [place EXCEPT !.state = "PENDING", !.chan = nplaces]
      BY <1>10 DEF mwPlace_open
    <2>2. /\ r.chan = nplaces /\ r.state = "PENDING" /\ r.our_id = 0 /\ r.members = Empty
          /\ r \in PlaceRecord
      BY <1>2, <1>3, <1>4, <2>1 DEF PlaceRecord, mwPlaceState
    <2>3. Typed'
      BY <1>1, <1>7, <2>1, <2>2 DEF Typed
    <2>4. PICK t : t = toServer' /\ Behind(t, toServer, m)
      BY <1>7, <1>10
    <2>5. Wired'
      <3>1. Line(t, toClient, r, peer, nplaces)
        BY <1>1, <1>2, <1>3, <1>6, <2>2, <2>4, LineCreated
      <3> QED
        BY <1>1, <1>9, <1>10, <2>1, <2>4, <3>1, NextWired
    <2>6. Stage'
      BY <1>1, <1>3, <1>4, <2>1, <2>2, BoundsAssumption DEF Stage, Chans
    <2>7. Conversing'
      <3>1. Talk(t, toClient, r, peer, roster)
        BY <1>1, <1>2, <1>6, <2>2, <2>4, TalkCreated
      <3> QED
        BY <1>1, <2>1, <2>4, <3>1, NextConversing
    <2>8. Following'
      <3>1. peer.chan # r.chan
        BY <1>1, <1>2, <2>2 DEF Line
      <3>2. Follows(toClient, r, peer, roster, listed)
        BY <3>1, FollowsElsewhere
      <3> QED
        BY <1>1, <2>1, <3>2, NextFollowing
    <2> QED
      BY <1>8, <2>3, <2>5, <2>6, <2>7, <2>8 DEF Inv
  <1>11. CASE ~up
    <2>1. PICK r : r = place' /\ r = [place EXCEPT !.state = "ERROR"]
      BY <1>11 DEF mwPlace_open
    <2>2. /\ r.chan = 0 /\ r.state = "ERROR" /\ r.our_id = 0 /\ r.members = Empty
          /\ r \in PlaceRecord
      BY <1>2, <1>3, <2>1 DEF PlaceRecord, mwPlaceState
    <2>3. Typed'
      BY <1>1, <1>7, <2>1, <2>2 DEF Typed
    <2>4. Wired'
      <3>1. peer.chan = 0
        BY <1>1, <1>11 DEF Wired
      <3>2. Line(<<>>, toClient, r, peer, nplaces)
        BY <1>2, <2>2, <3>1, LineCut
      <3> QED
        BY <1>1, <1>7, <1>9, <1>11, <2>1, <3>1, <3>2, NextWired
    <2>5. Stage'
      BY <1>1, <1>3, <2>1, <2>2 DEF Stage
    <2> QED
      BY <1>8, <2>1, <2>2, <2>3, <2>4, <2>5, Unconnected DEF Inv
  <1> QED
    BY <1>10, <1>11

\* The place is freed, and what is on its way is in line.
LEMMA FreeKeeps ==
    ASSUME Inv, place_free, UNCHANGED <<server, nplaces, events>>, {on', up'} \subseteq BOOLEAN,
           toServer' \in Seq(Written), toClient' \in Seq(Told),
           Line(toServer', toClient', NoPlace, peer, nplaces),
           ~up' => toServer' = <<>> /\ peer.chan = 0, ~on' => ~up' /\ toClient' = <<>>
    PROVE  Inv'
  <1>1. /\ place' = NoPlace /\ copen' = FALSE /\ outq' = <<>> /\ opened' = 0 /\ greeted' = 0
        /\ listed' = FALSE
        /\ UNCHANGED <<peer, roster, nplaces, events>>
    BY DEF place_free, server
  <1>2. PICK r : r = NoPlace
    OBVIOUS
  <1>3. r.chan = 0 /\ r.state = "NONE" /\ r.our_id = 0 /\ r.members = Empty /\ r \in PlaceRecord
    BY <1>2 DEF NoPlace, PlaceRecord, mwPlaceState, Empty, Tables
  <1>4. Typed'
    <2>1. {on', up', copen', listed'} \subseteq BOOLEAN
      BY <1>1, Zenon
    <2>2. outq' \in Seq(Written)
      BY <1>1, NoMessage
    <2> QED
      BY <1>1, <1>2, <1>3, <2>1, <2>2 DEF Inv, Typed
  <1>5. Seated'
    BY SeatedSame DEF Inv
  <1>6. Wired'
    BY <1>1, <1>2, <1>3, NextWired
  <1>7. Stage'
    BY <1>1, <1>2, <1>3 DEF Stage
  <1> QED
    BY <1>1, <1>2, <1>3, <1>4, <1>5, <1>6, <1>7, Unconnected DEF Inv

LEMMA DestroyKeeps ==
    ASSUME Inv, mwPlace_destroy
    PROVE  Inv'
  <1>1. /\ Typed /\ Wired /\ Stage /\ place_free
        /\ UNCHANGED <<on, up, toClient, server, nplaces, events>>
        /\ Sends(IF place.chan # 0 THEN <<Msg("DESTROY", place.chan)>> ELSE <<>>)
    BY DEF Inv, mwPlace_destroy
  <1>2. /\ place \in PlaceRecord /\ toServer \in Seq(Written) /\ nplaces \in Nat
        /\ peer \in [chan : {0} \cup Chans, joined : BOOLEAN]
        /\ Line(toServer, toClient, place, peer, nplaces)
        /\ toClient \in Seq(Told) /\ {on, up} \subseteq BOOLEAN
    BY <1>1, BoundsAssumption DEF Typed, Wired
  <1>3. PICK m : m = IF place.chan # 0 THEN <<Msg("DESTROY", place.chan)>> ELSE <<>>
    OBVIOUS
  <1>4. /\ m \in Seq(Written) /\ (place.chan # 0 => DOMAIN m = {1})
        /\ \A j \in DOMAIN m :
              j = 1 /\ m[j].type = "DESTROY" /\ m[j].chan = place.chan /\ place.chan # 0
    <2>1. CASE place.chan # 0
      <3>1. Msg("DESTROY", place.chan) \in Written
        BY <1>2, <2>1 DEF Msg, Written, PlaceRecord
      <3> QED
        BY <1>3, <2>1, <3>1, OneMessage DEF Msg
    <2>2. CASE place.chan = 0
      BY <1>3, <2>2, NoMessage
    <2> QED
      BY <2>1, <2>2
  <1>5. /\ toServer' \in Seq(Written) /\ (~up => toServer' = <<>>)
        /\ Behind(toServer', toServer, IF up THEN m ELSE <<>>)
    BY <1>1, <1>2, <1>3, <1>4, SendsBehind DEF Wired
  <1>6. NoPlace.chan = 0 /\ NoPlace.state # "NEW"
    BY DEF NoPlace
  <1>7. Line(toServer', toClient', NoPlace, peer, nplaces)
    <2>1. CASE up
      <3>1. Behind(toServer', toServer, m)
        BY <1>5, <2>1
      <3>2. Line(toServer', toClient, NoPlace, peer, nplaces)
        BY <1>2, <1>4, <1>6, <3>1, LineFreed
      <3> QED
        BY <1>1, <3>2
    <2>2. CASE ~up
      <3>1. peer.chan = 0
        BY <1>1, <2>2 DEF Wired
      <3>2. Line(<<>>, toClient, NoPlace, peer, nplaces)
        BY <1>2, <1>6, <3>1, LineCut
      <3> QED
        BY <1>1, <1>5, <2>2, <3>2
    <2> QED
      BY <2>1, <2>2
  <1>8. /\ {on', up'} \subseteq BOOLEAN /\ toClient' \in Seq(Told)
        /\ (~up' => toServer' = <<>> /\ peer.chan = 0) /\ (~on' => ~up' /\ toClient' = <<>>)
    BY <1>1, <1>2, <1>5 DEF Wired
  <1> QED
    BY <1>1, <1>5, <1>7, <1>8, FreeKeeps

\* What is said on the channel, or waits until it is open.
LEMMA SayKeeps ==
    ASSUME Inv, NEW m \in Written, m.chan = place.chan, place.chan # 0,
           m.type \in {"MESSAGE", "SET_ATTR", "OLD_INVITE"}, SendsOnChannel(m),
           events < MaxEvents, events' = events + 1,
           UNCHANGED <<on, up, place, copen, toClient, server, nplaces, history>>
    PROVE  Inv'
  <1>1. /\ Typed /\ Seated /\ Wired /\ Stage /\ Conversing /\ Following
        /\ UNCHANGED <<on, up, place, copen, toClient, peer, roster, nplaces, opened, greeted,
                       listed>>
    BY DEF Inv, server, history
  <1>2. /\ place \in PlaceRecord /\ toServer \in Seq(Written) /\ nplaces \in Nat
        /\ peer \in [chan : {0} \cup Chans, joined : BOOLEAN]
        /\ outq \in Seq(Written)
        /\ Line(toServer, toClient, place, peer, nplaces)
        /\ Talk(toServer, toClient, place, peer, roster)
    BY <1>1, BoundsAssumption DEF Typed, Wired, Conversing
  <1>3. events' \in 0..MaxEvents
    BY <1>1, BoundsAssumption DEF Typed
  <1>4. Seated'
    BY SeatedSame DEF Inv
  <1>5. Following'
    BY <1>1, NextFollowing DEF Following
  <1>6. place.state # "NEW"
    BY <1>1 DEF Stage
  <1>7. CASE copen
    <2>1. PICK s : s = <<m>>
      OBVIOUS
    <2>2. s \in Seq(Written) /\ DOMAIN s = {1} /\ s[1] = m
      BY <2>1, OneMessage
    <2>3. Sends(s) /\ outq' = outq
      BY <1>7, <2>1 DEF SendsOnChannel
    <2>4. /\ toServer' \in Seq(Written) /\ (~up => toServer' = <<>>)
          /\ Behind(toServer', toServer, IF up THEN s ELSE <<>>)
      BY <1>1, <1>2, <2>2, <2>3, SendsBehind DEF Wired
    <2>5. PICK z : Behind(toServer', toServer, z) /\ \A j \in DOMAIN z : z[j] = m
      BY <2>2, <2>4, NoMessage
    <2>6. place.state # "PENDING"
      BY <1>1, <1>7 DEF Stage
    <2>7. Typed'
      BY <1>1, <1>3, <2>3, <2>4 DEF Typed
    <2>8. Wired'
      <3>1. Line(toServer', toClient, place, peer, nplaces)
        BY <1>2, <1>6, <2>5, LineWritten
      <3> QED
        BY <1>1, <2>4, <3>1, NextWired DEF Wired
    <2>9. Stage'
      BY <1>1, <2>3 DEF Stage
    <2>10. Conversing'
      <3>1. Talk(toServer', toClient, place, peer, roster)
        BY <1>2, <2>5, <2>6, TalkWritten
      <3> QED
        BY <1>1, <3>1, NextConversing
    <2> QED
      BY <1>4, <1>5, <2>7, <2>8, <2>9, <2>10 DEF Inv
  <1>8. CASE ~copen
    <2>1. outq' = Append(outq, m) /\ toServer' = toServer
      BY <1>8 DEF SendsOnChannel
    <2>2. place.state = "PENDING"
      BY <1>1, <1>8 DEF Stage
    <2>3. /\ outq' \in Seq(Written)
          /\ \A i \in DOMAIN outq' : (i \in DOMAIN outq /\ outq'[i] = outq[i]) \/ outq'[i] = m
      BY <1>2, <2>1, AppendProperties, LenProperties
    <2>4. Typed'
      BY <1>1, <1>3, <2>1, <2>3 DEF Typed
    <2>5. Wired'
      BY <1>1, <2>1 DEF Wired, Line, Lined, Before, Ahead, Closing
    <2>6. Conversing'
      BY <1>1, <1>2, <2>1, NextConversing
    <2>7. Stage'
      BY <1>1, <1>8, <2>1, <2>2, <2>3 DEF Stage
    <2> QED
      BY <1>4, <1>5, <2>4, <2>5, <2>6, <2>7 DEF Inv
  <1> QED
    BY <1>7, <1>8

LEMMA CallKeeps ==
    ASSUME Inv, mwPlace_sendText \/ mwPlace_setAttribute \/ mwPlace_legacyInvite
    PROVE  Inv'
  <1>1. place \in PlaceRecord
    BY DEF Inv, Typed
  <1>2. CASE mwPlace_sendText
    <2>1. PICK m : m = OnSection("MESSAGE", place.chan, place.section)
      OBVIOUS
    <2>2. m \in Written /\ m.chan = place.chan /\ m.type = "MESSAGE"
      BY <1>1, <1>2, <2>1 DEF mwPlace_sendText, OnSection, Written, PlaceRecord
    <2> QED
      BY <1>2, <2>1, <2>2, SayKeeps DEF mwPlace_sendText
  <1>3. CASE mwPlace_setAttribute
    <2>1. PICK m : m = Msg("SET_ATTR", place.chan)
      OBVIOUS
    <2>2. m \in Written /\ m.chan = place.chan /\ m.type = "SET_ATTR"
      BY <1>1, <1>3, <2>1 DEF mwPlace_setAttribute, Msg, Written, PlaceRecord
    <2> QED
      BY <1>3, <2>1, <2>2, SayKeeps DEF mwPlace_setAttribute
  <1>4. CASE mwPlace_legacyInvite
    <2>1. PICK m : m = Msg("OLD_INVITE", place.chan)
      OBVIOUS
    <2>2. m \in Written /\ m.chan = place.chan /\ m.type = "OLD_INVITE"
      BY <1>1, <1>4, <2>1 DEF mwPlace_legacyInvite, Msg, Written, PlaceRecord
    <2> QED
      BY <1>4, <2>1, <2>2, SayKeeps DEF mwPlace_legacyInvite
  <1> QED
    BY <1>2, <1>3, <1>4

-----------------------------------------------------------------------------
(* The messages the client reads.                                          *)

LEMMA Takes ==
    ASSUME Inv, NEW y, Receives(y)
    PROVE  /\ Got = toClient[1] /\ Got \in Told /\ Got.type = y /\ Got.chan \in Nat \ {0}
           /\ 1 \in DOMAIN toClient /\ toClient' \in Seq(Told) /\ Shifted(toClient', toClient)
           /\ on /\ UNCHANGED <<on, up, peer, roster, nplaces, events>>
  <1>1. toClient \in Seq(Told) /\ toClient # <<>>
    BY DEF Inv, Typed, Receives
  <1>2. Got \in Told => Got.chan \in Nat \ {0}
    BY BoundsAssumption DEF Told, Chans
  <1> QED
    BY <1>1, <1>2, TailShifted DEF Receives, Got, server

\* Everything but ACCEPT, DESTROY and JOIN_RESPONSE comes to a place that knows
\* its id.
LEMMA Told1 ==
    ASSUME Inv, NEW y, Receives(y), Known, y \notin {"ACCEPT", "DESTROY", "JOIN_RESPONSE"}
    PROVE  /\ place.our_id # 0 /\ place.section = Section /\ place.chan # 0 /\ copen
           /\ place.state \in {"JOINING", "JOINED", "OPEN"}
  <1>1. /\ Got = toClient[1] /\ Got.type = y /\ Got.chan \in Nat \ {0}
        /\ 1 \in DOMAIN toClient /\ toClient \in Seq(Told)
    BY Takes DEF Inv, Typed
  <1>2. place.chan # 0 /\ toClient[1].chan = place.chan
    BY <1>1 DEF Known
  <1>3. Answers(toClient, place, peer, roster)
    BY <1>2 DEF Inv, Conversing, Talk
  <1>4. ~ \E j \in DOMAIN toClient : j < 1
    BY <1>1, LenProperties
  <1>5. place.our_id # 0
    BY <1>1, <1>2, <1>3, <1>4 DEF Answers
  <1> QED
    BY <1>2, <1>5 DEF Inv, Stage

\* The place goes on as place r, and m is written.
LEMMA TakeKeeps ==
    ASSUME Inv, NEW y, Receives(y), NEW r \in PlaceRecord, place' = r, NEW m,
           UNCHANGED <<copen, outq>>, toServer' \in Seq(Written),
           Behind(toServer', toServer, m), ~up => toServer' = <<>>,
           \A j \in DOMAIN m : /\ m[j].type = "SECTION_LIST" /\ m[j].chan = place.chan
                               /\ place.chan # 0 /\ r.state \in {"JOINED", "OPEN"},
           GoesOn(place, r), Stage', {opened', greeted'} \subseteq Nat, listed' \in BOOLEAN,
           ~Is(Got, place, "JOIN_RESPONSE"),
           \A i \in Ids :
              /\ Mute(Got, place.chan, i) => r.members[i] = place.members[i]
              /\ Mute(Got, place.chan, i) \/ Says(Got, place.chan, i, r.members[i]),
           listed' => listed \/ Is(Got, place, "SECTION_LIST")
    PROVE  Inv'
  <1>1. /\ Typed /\ Seated /\ Wired /\ Stage /\ Conversing /\ Following
        /\ Got = toClient[1] /\ on
        /\ toClient' \in Seq(Told) /\ Shifted(toClient', toClient)
        /\ UNCHANGED <<on, up, peer, roster, nplaces, events>>
    BY Takes DEF Inv
  <1>2. /\ toServer \in Seq(Written) /\ nplaces \in Nat
        /\ peer \in [chan : {0} \cup Chans, joined : BOOLEAN]
        /\ Line(toServer, toClient, place, peer, nplaces)
        /\ Talk(toServer, toClient, place, peer, roster)
        /\ Follows(toClient, place, peer, roster, listed)
    BY <1>1, BoundsAssumption DEF Typed, Wired, Conversing, Following
  <1>3. r.chan = place.chan /\ (r.state = "NEW" => place.state = "NEW")
    BY DEF GoesOn
  <1>4. Typed'
    <2>1. {on', up', copen', listed'} \subseteq BOOLEAN
      <3>1. {on, up, copen} \subseteq BOOLEAN
        BY <1>1 DEF Typed
      <3> QED
        BY <1>1, <3>1, Zenon
    <2> QED
      BY <1>1, <2>1 DEF Typed
  <1>5. Seated'
    BY <1>1, SeatedSame DEF server
  <1>6. Wired'
    <2>1. Line(toServer, toClient', r, peer, nplaces)
      BY <1>1, <1>2, <1>3, LineRead
    <2>2. CASE m = <<>> \/ \A j : j \notin DOMAIN m
      <3>1. Line(toServer', toClient', r, peer, nplaces)
        <4>1. toServer' = toServer
          BY <1>2, <2>2, NoMessage, SeqEqual, LenProperties DEF Behind
        <4> QED
          BY <2>1, <4>1
      <3> QED
        BY <1>1, <3>1, NextWired DEF Wired
    <2>3. CASE \E j : j \in DOMAIN m
      <3>1. r.chan # 0 /\ r.state # "NEW" /\ \A j \in DOMAIN m :
              m[j].chan = r.chan /\ m[j].type \notin {"CREATE", "DESTROY", "JOIN_PLACE"}
        BY <1>3, <2>3
      <3>2. Line(toServer', toClient', r, peer, nplaces)
        BY <1>2, <2>1, <3>1, LineWritten
      <3> QED
        BY <1>1, <3>2, NextWired DEF Wired
    <2> QED
      BY <2>2, <2>3
  <1>7. Conversing'
    <2>1. Talk(toServer, toClient', r, peer, roster)
      BY <1>1, <1>2, TalkRead
    <2>2. Talk(toServer', toClient', r, peer, roster)
      BY <2>1, TalkWritten
    <2> QED
      BY <1>1, <2>2, NextConversing
  <1>8. Following'
    <2>1. Follows(toClient', r, peer, roster, listed')
      BY <1>1, <1>2, <1>3, FollowsRead
    <2> QED
      BY <1>1, <2>1, NextFollowing
  <1> QED
    BY <1>4, <1>5, <1>6, <1>7, <1>8 DEF Inv

\* Nothing is written.
LEMMA QuietKeeps ==
    ASSUME Inv, NEW y, Receives(y), NEW r \in PlaceRecord, place' = r, Unsent,
           GoesOn(place, r), Stage', {opened', greeted'} \subseteq Nat, listed' \in BOOLEAN,
           ~Is(Got, place, "JOIN_RESPONSE"),
           \A i \in Ids :
              /\ Mute(Got, place.chan, i) => r.members[i] = place.members[i]
              /\ Mute(Got, place.chan, i) \/ Says(Got, place.chan, i, r.members[i]),
           listed' => listed \/ Is(Got, place, "SECTION_LIST")
    PROVE  Inv'
  <1>1. /\ toServer \in Seq(Written) /\ toServer' = toServer /\ (~up => toServer = <<>>)
        /\ UNCHANGED <<copen, outq>>
    BY DEF Inv, Typed, Wired, Unsent
  <1>2. Behind(toServer', toServer, <<>>)
    BY <1>1, SameBehind
  <1>3. ~ \E j : j \in DOMAIN <<>>
    BY NoMessage
  <1>4. toServer' \in Seq(Written) /\ (~up => toServer' = <<>>)
    BY <1>1
  <1> QED
    BY <1>1, <1>2, <1>3, <1>4, TakeKeeps

\* A message that is nothing to the place.
LEMMA NothingKeeps ==
    ASSUME Inv, NEW y, Receives(y), Unsent, UNCHANGED <<place, history>>,
           \/ ~Known
           \/ y \in {"MESSAGE", "PEER_SET_ATTR", "PEER_CLEAR_ATTR"}
           \/ y \in {"INFO", "PEER_JOIN"} /\ (y = "PEER_JOIN" => Got.section = 0)
    PROVE  Inv'
  <1>1. /\ Typed /\ Stage /\ Got = toClient[1] /\ Got.type = y
        /\ UNCHANGED <<on, up, place, copen, outq, opened, greeted, listed>>
    BY Takes DEF Inv, Unsent, history
  <1>2. place \in PlaceRecord /\ {opened', greeted'} \subseteq Nat /\ listed' \in BOOLEAN
    BY <1>1 DEF Typed
  <1>3. Stage'
    BY <1>1 DEF Stage
  <1>4. GoesOn(place, place)
    BY DEF GoesOn
  <1>5. /\ ~Is(Got, place, "JOIN_RESPONSE")
        /\ \A i \in Ids : Mute(Got, place.chan, i)
    BY <1>1 DEF Is, Known, Mute, Says
  <1> QED
    BY <1>1, <1>2, <1>3, <1>4, <1>5, QuietKeeps

LEMMA AcceptKeeps ==
    ASSUME Inv, Receives("ACCEPT"), Known, send_JOIN_PLACE
    PROVE  Inv'
  <1>1. /\ Typed /\ Seated /\ Wired /\ Stage /\ Conversing
        /\ Got = toClient[1] /\ Got.type = "ACCEPT" /\ Got.chan = place.chan
        /\ place.chan # 0 /\ on
        /\ toClient' \in Seq(Told) /\ Shifted(toClient', toClient)
        /\ UNCHANGED <<on, up, peer, roster, nplaces, events>>
    BY Takes DEF Inv, Known
  <1>2. /\ place \in PlaceRecord /\ toServer \in Seq(Written) /\ outq \in Seq(Written)
        /\ nplaces \in Nat /\ peer \in [chan : {0} \cup Chans, joined : BOOLEAN]
        /\ Line(toServer, toClient, place, peer, nplaces)
        /\ Talk(toServer, toClient, place, peer, roster)
    BY <1>1, BoundsAssumption DEF Typed, Wired, Conversing
  <1>3. Is(toClient[1], place, "ACCEPT") /\ 1 \in DOMAIN toClient
    BY <1>1 DEF Is, Shifted
  <1>4. place.state = "PENDING"
    BY <1>1, <1>2, <1>3 DEF Talk, Answers
  <1>5. /\ place.our_id = 0 /\ place.members = Empty /\ ~listed /\ opened = 0 /\ greeted = 0
        /\ \A i \in DOMAIN outq :
              outq[i].chan = place.chan /\ outq[i].type \in {"MESSAGE", "SET_ATTR", "OLD_INVITE"}
    BY <1>1, <1>4 DEF Stage
  <1>6. /\ place' = [place EXCEPT !.state = IF up THEN "JOINING" ELSE "ERROR"]
        /\ copen' = TRUE /\ outq' = <<>> /\ UNCHANGED <<opened, greeted, listed>>
        /\ Sends(<<Msg("JOIN_PLACE", place.chan)>> \o outq)
    BY DEF send_JOIN_PLACE, history
  <1>7. PICK r : r = place'
    OBVIOUS
  <1>8. /\ r.chan = place.chan /\ r.our_id = 0 /\ r.members = Empty /\ r \in PlaceRecord
        /\ r.state = IF up THEN "JOINING" ELSE "ERROR"
    BY <1>2, <1>5, <1>6, <1>7 DEF PlaceRecord, mwPlaceState
  <1>9. PICK m : m = <<Msg("JOIN_PLACE", place.chan)>> \o outq
    OBVIOUS
  <1>10. /\ m \in Seq(Written)
         /\ \A j \in DOMAIN m : /\ m[j].chan = place.chan
                                /\ m[j].type \in {"JOIN_PLACE", "MESSAGE", "SET_ATTR", "OLD_INVITE"}
                                /\ m[j].type = "JOIN_PLACE" => j = 1
    <2>1. PICK h : h = <<Msg("JOIN_PLACE", place.chan)>>
      OBVIOUS
    <2>2. /\ h \in Seq(Written) /\ DOMAIN h = {1}
          /\ h[1].type = "JOIN_PLACE" /\ h[1].chan = place.chan
      <3>1. Msg("JOIN_PLACE", place.chan) \in Written
        BY <1>1, <1>2 DEF Msg, Written, PlaceRecord
      <3> QED
        BY <2>1, <3>1, OneMessage DEF Msg
    <2>3. m \in Seq(Written) /\ Behind(m, h, outq)
      BY <1>2, <1>9, <2>1, <2>2, ConcatBehind
    <2> QED
      BY <1>5, <2>2, <2>3, BehindEach
  <1>11. /\ toServer' \in Seq(Written) /\ (~up => toServer' = <<>>)
         /\ Behind(toServer', toServer, IF up THEN m ELSE <<>>)
    BY <1>1, <1>2, <1>6, <1>9, <1>10, SendsBehind DEF Wired
  <1>12. PICK s : /\ Behind(toServer', toServer, s)
                  /\ \A j \in DOMAIN s : /\ s[j].chan = place.chan /\ r.state = "JOINING"
                                         /\ s[j].type \in {"JOIN_PLACE", "MESSAGE", "SET_ATTR",
                                                           "OLD_INVITE"}
                                         /\ s[j].type = "JOIN_PLACE" => j = 1
    <2>1. CASE up
      BY <1>8, <1>10, <1>11, <2>1
    <2>2. CASE ~up
      BY <1>11, <2>2, NoMessage
    <2> QED
      BY <2>1, <2>2
  <1>13. /\ Talk(toServer', toClient', r, peer, roster)
         /\ \A i \in DOMAIN toServer : toServer[i].chan # place.chan
         /\ peer.chan = place.chan => ~peer.joined
    <2>1. r.state \in {"JOINING", "ERROR"}
      BY <1>8
    <2>2. \A j \in DOMAIN s :
            /\ r.state = "JOINING"
            /\ s[j].type \in {"JOIN_PLACE", "MESSAGE", "SET_ATTR", "OLD_INVITE"}
      BY <1>12
    <2>3. /\ Talk(toServer, toClient, place, peer, roster) /\ Shifted(toClient', toClient)
          /\ Behind(toServer', toServer, s) /\ Is(toClient[1], place, "ACCEPT")
          /\ place.chan # 0 /\ place.our_id = 0 /\ r.chan = place.chan /\ r.our_id = 0
      BY <1>1, <1>2, <1>3, <1>5, <1>8, <1>12
    <2> QED
      BY <2>1, <2>2, <2>3, TalkAccepted
  <1>14. Typed'
    <2>1. {on', up', copen', listed'} \subseteq BOOLEAN
      <3>1. {on, up, listed} \subseteq BOOLEAN
        BY <1>1 DEF Typed
      <3> QED
        BY <1>1, <1>6, <3>1, Zenon
    <2>2. outq' \in Seq(Written)
      BY <1>6, NoMessage
    <2> QED
      BY <1>1, <1>6, <1>7, <1>8, <1>11, <2>1, <2>2 DEF Typed
  <1>15. Seated'
    BY <1>1, SeatedSame DEF server
  <1>16. Wired'
    <2>1. r.state # "NEW"
      BY <1>8
    <2>2. Line(toServer, toClient', r, peer, nplaces)
      BY <1>1, <1>2, <1>8, <2>1, LineRead
    <2>3. r.chan # 0 /\ \A j \in DOMAIN s :
            s[j].chan = r.chan /\ s[j].type \notin {"CREATE", "DESTROY"}
      BY <1>1, <1>8, <1>12
    <2>4. \A j \in DOMAIN s : s[j].type = "JOIN_PLACE" =>
            /\ j = 1 /\ (peer.chan = r.chan => ~peer.joined)
            /\ \A i \in DOMAIN toServer :
                  toServer[i].type = "JOIN_PLACE" => toServer[i].chan # r.chan
      BY <1>8, <1>12, <1>13
    <2>5. Behind(toServer', toServer, s)
      BY <1>12
    <2>6. Line(toServer', toClient', r, peer, nplaces)
      BY <1>2, <2>1, <2>2, <2>3, <2>4, <2>5, LineWritten
    <2> QED
      BY <1>1, <1>7, <1>11, <2>6, NextWired DEF Wired
  <1>17. Stage'
    BY <1>1, <1>5, <1>6, <1>7, <1>8 DEF Stage
  <1>18. Conversing'
    BY <1>1, <1>7, <1>13, NextConversing
  <1>19. Following'
    <2>1. Follows(toClient', r, peer, roster, listed)
      BY <1>8, <1>13, FollowsElsewhere
    <2> QED
      BY <1>1, <1>6, <1>7, <2>1, NextFollowing
  <1> QED
    BY <1>14, <1>15, <1>16, <1>17, <1>18, <1>19 DEF Inv

LEMMA ClosedKeeps ==
    ASSUME Inv, Receives("DESTROY"), Known, place_free, UNCHANGED toServer
    PROVE  Inv'
  <1>1. /\ Typed /\ Wired /\ Conversing
        /\ Got = toClient[1] /\ Got.type = "DESTROY" /\ Got.chan = place.chan
        /\ place.chan # 0 /\ on /\ 1 \in DOMAIN toClient
        /\ toClient' \in Seq(Told) /\ Shifted(toClient', toClient)
        /\ UNCHANGED <<on, up, peer, roster, nplaces, events>>
    BY Takes DEF Inv, Known
  <1>2. /\ toServer \in Seq(Written) /\ {on, up} \subseteq BOOLEAN
        /\ nplaces \in Nat /\ peer \in [chan : {0} \cup Chans, joined : BOOLEAN]
        /\ Line(toServer, toClient, place, peer, nplaces)
        /\ Answers(toClient, place, peer, roster) /\ Asks(toServer, toClient, place)
    BY <1>1, BoundsAssumption DEF Typed, Wired, Conversing, Talk
  <1>3. peer.chan # place.chan
    BY <1>1, <1>2 DEF Answers, Is
  <1>4. \A i \in DOMAIN toServer : toServer[i].type = "CREATE" => toServer[i].chan # place.chan
    BY <1>1, <1>2 DEF Asks, Is
  <1>5. NoPlace.chan = 0 /\ NoPlace.state # "NEW"
    BY DEF NoPlace
  <1>6. Line(toServer, toClient', place, peer, nplaces)
    BY <1>1, <1>2, LineRead
  <1>7. Behind(toServer, toServer, <<>>) /\ ~ \E j : j \in DOMAIN <<>>
    BY <1>2, SameBehind, NoMessage
  <1>8. Line(toServer, toClient', NoPlace, peer, nplaces)
    BY <1>2, <1>3, <1>4, <1>5, <1>6, <1>7, LineFreed
  <1>9. /\ {on', up'} \subseteq BOOLEAN /\ toServer' \in Seq(Written)
        /\ (~up' => toServer' = <<>> /\ peer.chan = 0) /\ (~on' => ~up' /\ toClient' = <<>>)
        /\ UNCHANGED <<server, nplaces, events>>
    BY <1>1, <1>2 DEF Wired, server
  <1> QED
    BY <1>1, <1>8, <1>9, FreeKeeps

LEMMA ResponseKeeps ==
    ASSUME Inv, Receives("JOIN_RESPONSE"), Known, recv_JOIN_RESPONSE
    PROVE  Inv'
  <1>1. /\ Typed /\ Seated /\ Wired /\ Stage /\ Conversing /\ Following
        /\ Got = toClient[1] /\ Got.type = "JOIN_RESPONSE" /\ Got.chan = place.chan
        /\ Got \in Told /\ place.chan # 0 /\ on /\ 1 \in DOMAIN toClient
        /\ toClient' \in Seq(Told) /\ Shifted(toClient', toClient)
        /\ UNCHANGED <<on, up, peer, roster, nplaces, events>>
    BY Takes DEF Inv, Known
  <1>2. /\ place' = [place EXCEPT !.our_id = Got.id, !.section = Got.section]
        /\ UNCHANGED <<copen, outq, toServer, opened, greeted, listed>>
    BY DEF recv_JOIN_RESPONSE, Unsent, history
  <1>3. Got.id \in Ids /\ Got.id # 0 /\ Got.section = Section
    BY <1>1 DEF Told, Ids
  <1>4. /\ place \in PlaceRecord /\ toServer \in Seq(Written)
        /\ Line(toServer, toClient, place, peer, nplaces)
        /\ Talk(toServer, toClient, place, peer, roster)
        /\ Follows(toClient, place, peer, roster, listed)
    BY <1>1 DEF Typed, Wired, Conversing, Following
  <1>5. Is(toClient[1], place, "JOIN_RESPONSE")
    BY <1>1 DEF Is
  <1>6. place.state = "JOINING"
    BY <1>1, <1>4, <1>5 DEF Talk, Answers
  <1>7. PICK r : r = place'
    OBVIOUS
  <1>8. /\ r.chan = place.chan /\ r.our_id = toClient[1].id /\ r.our_id # 0
        /\ r.members = place.members
        /\ r \in PlaceRecord /\ r.state = place.state /\ r.section = Section
    BY <1>1, <1>2, <1>3, <1>4, <1>7 DEF PlaceRecord
  <1>9. Typed'
    BY <1>1, <1>2, <1>7, <1>8 DEF Typed
  <1>10. Seated'
    BY <1>1, SeatedSame DEF server
  <1>11. Wired'
    <2>1. Line(toServer, toClient', r, peer, nplaces)
      BY <1>1, <1>4, <1>8, LineRead
    <2> QED
      BY <1>1, <1>2, <1>7, <2>1, NextWired DEF Wired
  <1>12. Stage'
    BY <1>1, <1>2, <1>6, <1>7, <1>8 DEF Stage
  <1>13. Conversing'
    <2>1. Talk(toServer, toClient', r, peer, roster)
      BY <1>1, <1>4, <1>5, <1>8, TalkResponse
    <2> QED
      BY <1>1, <1>2, <1>7, <2>1, NextConversing
  <1>14. Following'
    <2>1. \A i \in Ids : Mute(toClient[1], place.chan, i)
      BY <1>1 DEF Mute, Says
    <2>2. Follows(toClient', r, peer, roster, listed)
      BY <1>1, <1>4, <1>8, <2>1, FollowsRead
    <2> QED
      BY <1>1, <1>2, <1>7, <2>2, NextFollowing
  <1> QED
    BY <1>9, <1>10, <1>11, <1>12, <1>13, <1>14 DEF Inv

\* The place is described: the members are asked for.
LEMMA InfoKeeps ==
    ASSUME Inv, Receives("INFO"), Known, recv_INFO
    PROVE  Inv'
  <1>1. CASE Got.section # 0
    BY <1>1, NothingKeeps DEF recv_INFO
  <1>2. CASE Got.section = 0
    <2>1. /\ Typed /\ Wired /\ Stage /\ Got.type = "INFO" /\ Got.chan = place.chan
          /\ UNCHANGED <<on, up>>
      BY Takes DEF Inv, Known
    <2>2. /\ place.our_id # 0 /\ place.section = Section /\ place.chan # 0 /\ copen
          /\ place.state \in {"JOINING", "JOINED", "OPEN"}
      BY Told1
    <2>3. /\ place' = [place EXCEPT !.state = "JOINED", !.requests = @ + 1]
          /\ Sends(<<ListRequest(place.chan, place.section, place.requests + 1)>>)
          /\ opened' = 0 /\ greeted' = 0 /\ UNCHANGED <<copen, outq, listed>>
      BY <1>2, <2>2 DEF recv_INFO, send_SECTION_LIST, SendsOnChannel
    <2>4. place \in PlaceRecord /\ toServer \in Seq(Written) /\ (~up => toServer = <<>>)
      BY <2>1 DEF Typed, Wired
    <2>5. PICK r : r = place'
      OBVIOUS
    <2>6. /\ r.chan = place.chan /\ r.our_id = place.our_id /\ r.members = place.members
          /\ r.section = place.section /\ r.state = "JOINED" /\ r \in PlaceRecord
      <3>1. PICK n \in Nat : n = place.requests + 1
        BY <2>4 DEF PlaceRecord
      <3>2. r = [place EXCEPT !.state = "JOINED", !.requests = n]
        BY <2>3, <2>4, <2>5, <3>1 DEF PlaceRecord
      <3> QED
        BY <2>4, <3>2 DEF PlaceRecord, mwPlaceState
    <2>7. PICK m : m = <<ListRequest(place.chan, place.section, place.requests + 1)>>
      OBVIOUS
    <2>8. /\ m \in Seq(Written) /\ DOMAIN m = {1}
          /\ m[1].type = "SECTION_LIST" /\ m[1].chan = place.chan
      <3>1. ListRequest(place.chan, place.section, place.requests + 1) \in Written
        BY <2>2, <2>4 DEF ListRequest, Written, PlaceRecord
      <3> QED
        BY <2>7, <3>1, OneMessage DEF ListRequest
    <2>9. /\ toServer' \in Seq(Written) /\ (~up => toServer' = <<>>)
          /\ Behind(toServer', toServer, IF up THEN m ELSE <<>>)
      BY <2>3, <2>4, <2>7, <2>8, SendsBehind
    <2>10. PICK s : /\ Behind(toServer', toServer, s)
                    /\ \A j \in DOMAIN s : s[j].type = "SECTION_LIST" /\ s[j].chan = place.chan
      BY <2>8, <2>9, NoMessage
    <2>11. GoesOn(place, r)
      BY <2>2, <2>6 DEF GoesOn
    <2>12. {opened', greeted'} \subseteq Nat /\ listed' \in BOOLEAN
      BY <2>1, <2>3 DEF Typed
    <2>13. Stage'
      BY <2>1, <2>2, <2>3, <2>5, <2>6, <2>12 DEF Stage, Typed
    <2>14. ~Is(Got, place, "JOIN_RESPONSE") /\ \A i \in Ids : Mute(Got, place.chan, i)
      BY <2>1 DEF Is, Mute, Says
    <2>15. \A j \in DOMAIN s : /\ s[j].type = "SECTION_LIST" /\ s[j].chan = place.chan
                               /\ place.chan # 0 /\ r.state \in {"JOINED", "OPEN"}
      BY <2>2, <2>6, <2>10
    <2>16. \A i \in Ids :
             /\ Mute(Got, place.chan, i) => r.members[i] = place.members[i]
             /\ Mute(Got, place.chan, i) \/ Says(Got, place.chan, i, r.members[i])
      BY <2>6, <2>14
    <2>17. /\ r \in PlaceRecord /\ place' = r /\ r.state = "JOINED"
           /\ UNCHANGED <<copen, outq>> /\ (listed' => listed)
           /\ Behind(toServer', toServer, s)
      BY <2>3, <2>5, <2>6, <2>10
    <2> QED
      BY <2>9, <2>11, <2>12, <2>13, <2>14, <2>15, <2>16, <2>17, TakeKeeps
  <1> QED
    BY <1>1, <1>2

\* Somebody came in.
LEMMA PeerJoinKeeps ==
    ASSUME Inv, Receives("PEER_JOIN"), Known, recv_SECTION_PEER_JOIN, Got.section # 0
    PROVE  Inv'
  <1>1. /\ Typed /\ Stage /\ Conversing /\ Got = toClient[1] /\ Got.type = "PEER_JOIN"
        /\ Got.chan = place.chan /\ Got \in Told /\ 1 \in DOMAIN toClient /\ UNCHANGED up
    BY Takes DEF Inv, Known
  <1>2. /\ place.our_id # 0 /\ place.section = Section /\ place.chan # 0 /\ copen
        /\ place.state \in {"JOINING", "JOINED", "OPEN"}
    BY Told1
  <1>3. Got.id \in Ids /\ Got.who \in Peers \cup {Me}
    BY <1>1 DEF Told
  <1>4. place \in PlaceRecord /\ place.members \in Tables
    BY <1>1 DEF Typed, PlaceRecord
  <1>5. PICK r : r = place'
    OBVIOUS
  <1>6. PICK t : t = [place.members EXCEPT ![Got.id] = Got.who]
    OBVIOUS
  <1>7. t \in Tables /\ t[Got.id] = Got.who /\ \A i \in Ids : i # Got.id => t[i] = place.members[i]
    BY <1>3, <1>4, <1>6 DEF Tables
  <1>8. PICK p : p = [place EXCEPT !.members[Got.id] = Got.who]
    OBVIOUS
  <1>9. /\ p \in PlaceRecord /\ p.members = t /\ p.chan = place.chan
        /\ p.our_id = place.our_id /\ p.section = place.section /\ p.state = place.state
    BY <1>4, <1>6, <1>7, <1>8 DEF PlaceRecord
  <1>10. OpenedIfSelf(p) /\ Unsent /\ UNCHANGED <<copen, outq, toServer, listed>>
    BY <1>8 DEF recv_SECTION_PEER_JOIN, Unsent
  <1>11. opened \in Nat /\ greeted \in Nat
    BY <1>1 DEF Typed
  <1>12. /\ r \in PlaceRecord /\ r.members = t /\ r.chan = place.chan
         /\ r.our_id = place.our_id /\ r.section = place.section
         /\ \/ /\ r.state = "OPEN" /\ opened' = opened + 1 /\ greeted' = greeted + 1
            \/ /\ r.state = place.state /\ opened' = opened /\ greeted' = greeted
    <2>1. CASE Got.id = place.our_id
      BY <1>5, <1>9, <1>10, <2>1 DEF OpenedIfSelf, place_opened, PlaceRecord, mwPlaceState
    <2>2. CASE Got.id # place.our_id
      BY <1>5, <1>9, <1>10, <2>2 DEF OpenedIfSelf
    <2> QED
      BY <2>1, <2>2
  <1>13. {opened', greeted'} \subseteq Nat /\ listed' \in BOOLEAN
    <2>1. {opened', greeted'} \subseteq Nat
      BY <1>11, <1>12
    <2>2. listed' \in BOOLEAN
      BY <1>1, <1>10 DEF Typed
    <2> QED
      BY <2>1, <2>2
  <1>14. Stage'
    BY <1>1, <1>2, <1>5, <1>10, <1>11, <1>12 DEF Stage
  <1>15. GoesOn(place, r)
    BY <1>2, <1>12 DEF GoesOn
  <1>16. ~Is(Got, place, "JOIN_RESPONSE") /\ ~Is(Got, place, "INFO")
    BY <1>1 DEF Is
  <1>17. ASSUME NEW i \in Ids
         PROVE  /\ Mute(Got, place.chan, i) => r.members[i] = place.members[i]
                /\ Mute(Got, place.chan, i) \/ Says(Got, place.chan, i, r.members[i])
    <2>1. CASE i = Got.id
      <3>1. Says(Got, place.chan, i, r.members[i])
        BY <1>1, <1>7, <1>12, <2>1 DEF Says
      <3> QED
        BY <3>1 DEF Mute
    <2>2. CASE i # Got.id
      BY <1>1, <1>7, <1>12, <2>2 DEF Mute, Says
    <2> QED
      BY <2>1, <2>2
  <1> QED
    BY <1>5, <1>10, <1>12, <1>13, <1>14, <1>15, <1>16, <1>17, QuietKeeps

\* The members are listed.
LEMMA ListKeeps ==
    ASSUME Inv, Receives("SECTION_LIST"), Known, recv_SECTION_LIST
    PROVE  Inv'
  <1>1. /\ Typed /\ Stage /\ Conversing /\ Got = toClient[1] /\ Got.type = "SECTION_LIST"
        /\ Got.chan = place.chan /\ Got \in Told /\ 1 \in DOMAIN toClient /\ UNCHANGED up
    BY Takes DEF Inv, Known
  <1>2. /\ place.our_id # 0 /\ place.section = Section /\ place.chan # 0 /\ copen
        /\ place.state \in {"JOINING", "JOINED", "OPEN"}
    BY Told1
  <1>3. Got.members \in Tables /\ Got.section = Section
    BY <1>1 DEF Told
  <1>4. place \in PlaceRecord /\ place.members \in Tables
    BY <1>1 DEF Typed, PlaceRecord
  <1>5. PICK r : r = place'
    OBVIOUS
  <1>6. PICK t : t = [i \in Ids |-> IF Got.members[i] # Nobody THEN Got.members[i]
                                                             ELSE place.members[i]]
    OBVIOUS
  <1>7. /\ t \in Tables
        /\ \A i \in Ids : t[i] = IF Got.members[i] # Nobody THEN Got.members[i]
                                                            ELSE place.members[i]
    BY <1>3, <1>4, <1>6 DEF Tables
  <1>8. PICK p : p = [place EXCEPT !.members = t]
    OBVIOUS
  <1>9. /\ p \in PlaceRecord /\ p.members = t /\ p.chan = place.chan
        /\ p.our_id = place.our_id /\ p.section = place.section /\ p.state = place.state
    BY <1>4, <1>7, <1>8 DEF PlaceRecord
  <1>10. p = [place EXCEPT !.members =
                [i \in Ids |-> IF Got.members[i] # Nobody THEN Got.members[i] ELSE @[i]]]
    BY <1>4, <1>6, <1>8 DEF PlaceRecord
  <1>11. /\ IF place.state # "OPEN" THEN place_opened(p) ELSE place' = p /\ UNCHANGED opened
         /\ Unsent /\ UNCHANGED <<copen, outq, toServer, greeted>> /\ listed' = TRUE
    BY <1>2, <1>3, <1>10 DEF recv_SECTION_LIST, Unsent
  <1>12. place.state \in {"JOINED", "OPEN"}
    <2>1. Answers(toClient, place, peer, roster) /\ Is(toClient[1], place, "SECTION_LIST")
      BY <1>1, <1>2 DEF Conversing, Talk, Is
    <2> QED
      BY <1>1, <2>1 DEF Answers
  <1>13. /\ r \in PlaceRecord /\ r.members = t /\ r.chan = place.chan
         /\ r.our_id = place.our_id /\ r.section = place.section /\ r.state = "OPEN"
         /\ \/ place.state = "JOINED" /\ opened' = opened + 1
            \/ place.state = "OPEN" /\ opened' = opened
    <2>1. CASE place.state # "OPEN"
      BY <1>5, <1>9, <1>11, <1>12, <2>1 DEF place_opened, PlaceRecord, mwPlaceState
    <2>2. CASE place.state = "OPEN"
      BY <1>5, <1>9, <1>11, <2>2
    <2> QED
      BY <2>1, <2>2
  <1>14. {opened', greeted'} \subseteq Nat /\ listed' \in BOOLEAN
    BY <1>1, <1>11, <1>13 DEF Typed
  <1>15. Stage'
    <2>1. opened \in Nat /\ greeted \in Nat
      BY <1>1 DEF Typed
    <2> QED
      BY <1>1, <1>2, <1>5, <1>11, <1>13, <2>1 DEF Stage
  <1>16. GoesOn(place, r)
    BY <1>2, <1>13 DEF GoesOn
  <1>17. /\ ~Is(Got, place, "JOIN_RESPONSE") /\ ~Is(Got, place, "INFO")
         /\ Is(Got, place, "SECTION_LIST")
    BY <1>1 DEF Is
  <1>18. ASSUME NEW i \in Ids
         PROVE  /\ Mute(Got, place.chan, i) => r.members[i] = place.members[i]
                /\ Mute(Got, place.chan, i) \/ Says(Got, place.chan, i, r.members[i])
    <2>1. CASE Got.members[i] # Nobody
      <3>1. Says(Got, place.chan, i, r.members[i])
        BY <1>1, <1>7, <1>13, <2>1 DEF Says
      <3> QED
        BY <3>1 DEF Mute
    <2>2. CASE Got.members[i] = Nobody
      BY <1>1, <1>7, <1>13, <2>2 DEF Mute, Says
    <2> QED
      BY <2>1, <2>2
  <1> QED
    BY <1>5, <1>11, <1>13, <1>14, <1>15, <1>16, <1>17, <1>18, QuietKeeps

\* Somebody went.
LEMMA PartKeeps ==
    ASSUME Inv, NEW y \in {"SECTION_PART", "PEER_PART"}, Receives(y), Known,
           place' = [place EXCEPT !.members[Got.id] = Nobody], Unsent, UNCHANGED history
    PROVE  Inv'
  <1>1. /\ Typed /\ Stage /\ Got = toClient[1] /\ Got.type \in {"SECTION_PART", "PEER_PART"}
        /\ Got.chan = place.chan /\ Got \in Told /\ UNCHANGED up
    BY Takes DEF Inv, Known
  <1>2. /\ place.our_id # 0 /\ place.section = Section /\ place.chan # 0 /\ copen
        /\ place.state \in {"JOINING", "JOINED", "OPEN"}
    BY Told1
  <1>3. Got.id \in Ids
    BY <1>1 DEF Told
  <1>4. place \in PlaceRecord /\ place.members \in Tables
    BY <1>1 DEF Typed, PlaceRecord
  <1>5. PICK r : r = place'
    OBVIOUS
  <1>6. PICK t : t = [place.members EXCEPT ![Got.id] = Nobody]
    OBVIOUS
  <1>7. t \in Tables /\ t[Got.id] = Nobody /\ \A i \in Ids : i # Got.id => t[i] = place.members[i]
    BY <1>3, <1>4, <1>6 DEF Tables
  <1>8. /\ r \in PlaceRecord /\ r.members = t /\ r.chan = place.chan
        /\ r.our_id = place.our_id /\ r.section = place.section /\ r.state = place.state
    BY <1>4, <1>5, <1>6, <1>7 DEF PlaceRecord
  <1>9. UNCHANGED <<copen, outq, opened, greeted, listed>>
    BY DEF Unsent, history
  <1>10. {opened', greeted'} \subseteq Nat /\ listed' \in BOOLEAN
    BY <1>1, <1>9 DEF Typed
  <1>11. Stage'
    BY <1>1, <1>2, <1>5, <1>8, <1>9 DEF Stage
  <1>12. GoesOn(place, r)
    BY <1>8 DEF GoesOn
  <1>13. ~Is(Got, place, "JOIN_RESPONSE") /\ ~Is(Got, place, "INFO")
    BY <1>1 DEF Is
  <1>14. ASSUME NEW i \in Ids
         PROVE  /\ Mute(Got, place.chan, i) => r.members[i] = place.members[i]
                /\ Mute(Got, place.chan, i) \/ Says(Got, place.chan, i, r.members[i])
    <2>1. CASE i = Got.id
      <3>1. Says(Got, place.chan, i, r.members[i])
        BY <1>1, <1>7, <1>8, <2>1 DEF Says
      <3> QED
        BY <3>1 DEF Mute
    <2>2. CASE i # Got.id
      BY <1>1, <1>7, <1>8, <2>2 DEF Mute, Says
    <2> QED
      BY <2>1, <2>2
  <1> QED
    BY <1>5, <1>8, <1>9, <1>10, <1>11, <1>12, <1>13, <1>14, QuietKeeps

LEMMA HandleKeeps ==
    ASSUME Inv, Handle
    PROVE  Inv'
  <1>1. ASSUME NEW y, Receives(y), ~Known, UNCHANGED <<place, copen, outq, toServer, history>>
        PROVE  Inv'
    BY <1>1, NothingKeeps DEF Unsent
  <1>2. CASE recv_channelAccept
    BY <1>1, <1>2, AcceptKeeps DEF recv_channelAccept, Dispatch
  <1>3. CASE recv_channelDestroy
    BY <1>1, <1>3, ClosedKeeps DEF recv_channelDestroy, Dispatch
  <1>4. CASE Dispatch("JOIN_RESPONSE", recv_JOIN_RESPONSE)
    BY <1>1, <1>4, ResponseKeeps DEF Dispatch
  <1>5. CASE Dispatch("INFO", recv_INFO)
    BY <1>1, <1>5, InfoKeeps DEF Dispatch
  <1>6. CASE Dispatch("MESSAGE", recv_MESSAGE)
    BY <1>1, <1>6, NothingKeeps DEF Dispatch, recv_MESSAGE
  <1>7. CASE Dispatch("SECTION_LIST", recv_SECTION_LIST)
    BY <1>1, <1>7, ListKeeps DEF Dispatch
  <1>8. CASE Dispatch("SECTION_PART", recv_SECTION_PART)
    BY <1>1, <1>8, PartKeeps DEF Dispatch, recv_SECTION_PART
  <1>9. CASE Dispatch("PEER_JOIN", recv_SECTION_PEER_JOIN)
    <2>1. ASSUME Known, Receives("PEER_JOIN"), recv_SECTION_PEER_JOIN, Got.section = 0
          PROVE  Inv'
      BY <2>1, NothingKeeps DEF recv_SECTION_PEER_JOIN, history
    <2> QED
      BY <1>1, <1>9, <2>1, PeerJoinKeeps DEF Dispatch
  <1>10. CASE Dispatch("PEER_PART", recv_SECTION_PEER_PART)
    <2>1. CASE Known
      <3>1. Receives("PEER_PART") /\ recv_SECTION_PEER_PART
        BY <1>10, <2>1 DEF Dispatch
      <3>2. Got.section = Section /\ place.section = Section
        <4>1. Got \in Told /\ Got.type = "PEER_PART"
          BY <3>1, Takes
        <4>2. place.section = Section
          BY <2>1, <3>1, Told1
        <4> QED
          BY <4>1, <4>2 DEF Told
      <3>3. /\ place' = [place EXCEPT !.members[Got.id] = Nobody] /\ Unsent
            /\ UNCHANGED history
        BY <3>1, <3>2 DEF recv_SECTION_PEER_PART
      <3> QED
        BY <2>1, <3>1, <3>3, PartKeeps
    <2> QED
      BY <1>1, <1>10, <2>1 DEF Dispatch
  <1>11. CASE Dispatch("PEER_SET_ATTR", recv_SECTION_PEER_SET_ATTR)
    BY <1>1, <1>11, NothingKeeps DEF Dispatch, recv_SECTION_PEER_SET_ATTR
  <1>12. CASE Dispatch("PEER_CLEAR_ATTR", recv_SECTION_PEER_CLEAR_ATTR)
    BY <1>1, <1>12, NothingKeeps DEF Dispatch, recv_SECTION_PEER_CLEAR_ATTR
  <1> QED
    BY <1>2, <1>3, <1>4, <1>5, <1>6, <1>7, <1>8, <1>9, <1>10, <1>11, <1>12
       DEF Handle, recv, recv_SECTION, recv_SECTION_PEER

-----------------------------------------------------------------------------
(* The server and the other users.                                         *)

LEMMA ServerKeeps ==
    ASSUME Inv, UNCHANGED <<on, place, copen, outq, nplaces, history>>,
           events' \in 0..MaxEvents, up' \in BOOLEAN, up' => up,
           peer' \in [chan : {0} \cup Chans, joined : BOOLEAN], roster' \in Tables, Seated',
           toServer' \in Seq(Written), toClient' \in Seq(Told),
           Line(toServer', toClient', place, peer', nplaces),
           Talk(toServer', toClient', place, peer', roster'),
           Follows(toClient', place, peer', roster', listed),
           ~up' => toServer' = <<>> /\ peer'.chan = 0, ~on => ~up' /\ toClient' = <<>>
    PROVE  Inv'
  <1>1. /\ Typed /\ Wired /\ Stage
        /\ UNCHANGED <<on, place, copen, outq, nplaces, opened, greeted, listed>>
    BY DEF Inv, history
  <1>2. Typed'
    <2>1. {on', up', copen', listed'} \subseteq BOOLEAN
      <3>1. {on, copen, listed} \subseteq BOOLEAN
        BY <1>1 DEF Typed
      <3> QED
        BY <1>1, <3>1, Zenon
    <2> QED
      BY <1>1, <2>1 DEF Typed
  <1>3. Wired'
    <2>1. ~on => place.state = "NONE"
      BY <1>1 DEF Wired
    <2> QED
      BY <1>1, <2>1, NextWired
  <1>4. Stage'
    BY <1>1 DEF Stage
  <1>5. Conversing'
    BY <1>1, NextConversing
  <1>6. Following'
    BY <1>1, NextFollowing
  <1> QED
    BY <1>2, <1>3, <1>4, <1>5, <1>6 DEF Inv

LEMMA NothingBehind ==
    ASSUME NEW A, NEW s \in Seq(A), NEW t \in Seq(A), NEW m, Behind(t, s, m),
           \A j : j \notin DOMAIN m
    PROVE  t = s
  BY SeqEqual, LenProperties DEF Behind

\* The client is in the section, and is told m of it.
LEMMA TellKeeps ==
    ASSUME Inv, NEW m, UNCHANGED <<on, up, place, copen, outq, nplaces, history, peer>>,
           events' \in 0..MaxEvents, roster' \in Tables, Seated',
           toServer' \in Seq(Written), ~up => toServer' = <<>>,
           Line(toServer', toClient, place, peer, nplaces),
           Talk(toServer', toClient, place, peer, roster),
           toClient' \in Seq(Told), Behind(toClient', toClient, m),
           \A j \in DOMAIN m :
              /\ m[j].chan = peer.chan /\ peer.joined
              /\ m[j].type \notin {"ACCEPT", "JOIN_RESPONSE", "DESTROY"}
              /\ m[j].type = "SECTION_LIST" /\ m[j].chan = place.chan =>
                    place.state \in {"JOINED", "OPEN"},
           \A i \in Ids : roster[i] = Me => roster'[i] = Me,
           peer.joined => \A i \in Ids :
              \/ LastSaid(m, peer.chan, i, roster'[i])
              \/ /\ AllMute(m, peer.chan, i) /\ roster'[i] = roster[i]
                 /\ roster[i] = Nobody \/ \A j \in DOMAIN m : m[j].type # "SECTION_LIST"
    PROVE  Inv'
  <1>1. /\ Typed /\ Seated /\ Wired /\ Following
        /\ UNCHANGED <<on, up, place, copen, outq, nplaces, opened, greeted, listed, peer>>
    BY DEF Inv, history
  <1>2. /\ place \in PlaceRecord /\ toClient \in Seq(Told) /\ up' \in BOOLEAN
        /\ nplaces \in Nat /\ peer' \in [chan : {0} \cup Chans, joined : BOOLEAN]
        /\ peer.chan \in Nat /\ Follows(toClient, place, peer, roster, listed)
    BY <1>1, BoundsAssumption DEF Typed, Chans, Following
  <1>3. Keeps(place, peer, roster, peer, roster')
    BY DEF Keeps
  <1>4. ASSUME NEW j \in DOMAIN m
        PROVE  /\ Remark(m[j], place)
               /\ m[j].chan = place.chan =>
                     m[j].type # "DESTROY" /\ peer.joined /\ peer.chan = place.chan
    BY DEF Remark
  <1>5. ASSUME NEW i \in DOMAIN toServer', NEW j \in DOMAIN m, m[j].chan = place.chan
        PROVE  ~Is(toServer'[i], place, "CREATE") /\ ~Is(toServer'[i], place, "JOIN_PLACE")
    <2>1. peer.joined /\ peer.chan = place.chan
      BY <1>5
    <2> QED
      BY <1>2, <2>1 DEF Line, Ahead, Is
  <1>6. Talk(toServer', toClient', place, peer, roster')
    <2>1. \A j \in DOMAIN m :
            /\ Remark(m[j], place)
            /\ m[j].chan = place.chan =>
                  \/ m[j].type = "DESTROY" /\ peer.chan # place.chan
                  \/ m[j].type # "DESTROY" /\ peer.joined /\ peer.chan = place.chan
      BY <1>4
    <2>2. \A i \in DOMAIN toServer' :
            /\ Is(toServer'[i], place, "CREATE") => \A j \in DOMAIN m : m[j].chan # place.chan
            /\ Is(toServer'[i], place, "JOIN_PLACE") =>
                  \A j \in DOMAIN m : m[j].chan = place.chan => m[j].type = "DESTROY"
      BY <1>5
    <2> QED
      BY <1>2, <1>3, <2>1, <2>2, TalkTold
  <1>7. Line(toServer', toClient', place, peer, nplaces)
    <2>1. peer.chan <= nplaces /\ (place.state = "NEW" => peer.chan < nplaces)
      BY DEF Line
    <2> QED
      BY <2>1, LineTold
  <1>8. Follows(toClient', place, peer, roster', listed)
    <2>1. peer.joined /\ peer.chan = place.chan =>
            \A i \in Ids :
               \/ LastSaid(m, place.chan, i, roster'[i])
               \/ /\ AllMute(m, place.chan, i) /\ roster'[i] = roster[i]
                  /\ roster[i] = Nobody \/ \A j \in DOMAIN m : ~Is(m[j], place, "SECTION_LIST")
      BY DEF Is
    <2> QED
      BY <1>2, <1>3, <2>1, FollowsTold
  <1>9. ~up => peer.chan = 0
    BY <1>1 DEF Wired
  <1>10. ~on => ~up /\ toClient' = <<>>
    <2>1. ASSUME ~on PROVE ~up /\ toClient = <<>> /\ \A j : j \notin DOMAIN m
      BY <1>1, <2>1 DEF Wired, Seated
    <2> QED
      BY <1>2, <2>1, NothingBehind
  <1> QED
    BY <1>1, <1>2, <1>6, <1>7, <1>8, <1>9, <1>10, ServerKeeps

\* The server has the client's channel no more, and tells it so or not.
LEMMA DropKeeps ==
    ASSUME Inv, NEW m, UNCHANGED <<on, place, copen, outq, nplaces, history>>,
           events' \in 0..MaxEvents, up' \in BOOLEAN, up' => up, peer' = NoPeer,
           roster' = [i \in Ids |-> IF roster[i] = Me THEN Nobody ELSE roster[i]],
           toServer' \in Seq(Written), ~up' => toServer' = <<>>,
           Line(toServer', toClient, place, NoPeer, nplaces),
           Talk(toServer', toClient, place, peer, roster),
           toClient' \in Seq(Told), Behind(toClient', toClient, m),
           \A j \in DOMAIN m :
              /\ m[j].chan = peer.chan /\ peer.chan # 0 /\ m[j].type = "DESTROY"
              /\ \A i \in DOMAIN toServer' :
                    toServer'[i].type = "CREATE" => toServer'[i].chan # peer.chan
    PROVE  Inv'
  <1>1. /\ Typed /\ Seated /\ Wired
        /\ UNCHANGED <<on, place, copen, outq, nplaces, opened, greeted, listed>>
    BY DEF Inv, history
  <1>2. /\ place \in PlaceRecord /\ toClient \in Seq(Told) /\ roster \in Tables
        /\ Line(toServer, toClient, place, peer, nplaces)
    BY <1>1 DEF Typed, Wired
  <1>3. PICK qr : qr = NoPeer
    OBVIOUS
  <1>4. qr.chan = 0 /\ ~qr.joined /\ qr \in [chan : {0} \cup Chans, joined : BOOLEAN]
    BY <1>3 DEF NoPeer
  <1>5. /\ roster' \in Tables /\ \A i \in Ids : roster'[i] # Me
        /\ \A i, j \in Ids : roster'[i] = roster'[j] /\ roster'[i] # Nobody => i = j
    BY <1>1, <1>2, SeatDropped DEF Seated
  <1>6. Seated'
    BY <1>3, <1>4, <1>5 DEF Seated
  <1>7. Talk(toServer', toClient', place, qr, roster')
    <2>1. CASE place.chan = 0
      BY <2>1 DEF Talk
    <2>2. CASE place.chan # 0
      <3>1. Keeps(place, peer, roster, qr, roster')
        BY <1>4, <2>2 DEF Keeps
      <3>2. \A j \in DOMAIN m : /\ Remark(m[j], place)
                                /\ m[j].type = "DESTROY" /\ qr.chan # place.chan
        BY <1>4, <2>2 DEF Remark
      <3>3. \A i \in DOMAIN toServer' :
              Is(toServer'[i], place, "CREATE") => \A j \in DOMAIN m : m[j].chan # place.chan
        BY DEF Is
      <3> QED
        BY <1>2, <3>1, <3>2, <3>3, TalkTold
    <2> QED
      BY <2>1, <2>2
  <1>8. Line(toServer', toClient', place, qr, nplaces)
    <2>1. peer.chan <= nplaces /\ (place.state = "NEW" => peer.chan < nplaces)
      BY <1>2 DEF Line
    <2> QED
      BY <1>3, <2>1, LineTold
  <1>9. Follows(toClient', place, qr, roster', listed)
    BY <1>4, FollowsElsewhere
  <1>10. ~on => ~up' /\ toClient' = <<>>
    <2>1. ASSUME ~on PROVE ~up /\ toClient = <<>> /\ \A j : j \notin DOMAIN m
      BY <1>1, <2>1 DEF Wired
    <2> QED
      BY <1>2, <2>1, NothingBehind
  <1> QED
    BY <1>1, <1>3, <1>4, <1>5, <1>6, <1>7, <1>8, <1>9, <1>10, ServerKeeps

\* What others do.
LEMMA EventKeeps ==
    ASSUME Inv, Event
    PROVE  /\ UNCHANGED <<on, place, copen, outq, nplaces, history>>
           /\ events' \in 0..MaxEvents
           /\ toServer \in Seq(Written) /\ toClient \in Seq(Told) /\ roster \in Tables
           /\ up \in BOOLEAN /\ nplaces \in Nat
           /\ peer \in [chan : {0} \cup Chans, joined : BOOLEAN]
           /\ (peer.joined => peer.chan \in Chans) /\ Section \in Nat \ {0}
           /\ Line(toServer, toClient, place, peer, nplaces)
           /\ Talk(toServer, toClient, place, peer, roster)
           /\ (~up => toServer = <<>> /\ peer.chan = 0)
  BY BoundsAssumption DEF Inv, Typed, Wired, Conversing, Seated, Event

LEMMA PeerJoinsKeeps ==
    ASSUME Inv, NEW u \in Peers, PeerJoins(u)
    PROVE  Inv'
  <1>1. /\ Event /\ UNCHANGED <<up, toServer, peer>> /\ \A i \in Ids : roster[i] # u
        /\ roster' = [roster EXCEPT ![FreeId] = u]
        /\ TellsMember(<<PeerJoin(peer.chan, FreeId, u, Section)>>)
    BY DEF PeerJoins, Inside
  <1>2. /\ roster \in Tables /\ toClient \in Seq(Told) /\ toServer \in Seq(Written)
        /\ (peer.joined => peer.chan \in Chans)
        /\ Line(toServer, toClient, place, peer, nplaces)
        /\ Talk(toServer, toClient, place, peer, roster)
        /\ (~up => toServer = <<>>)
        /\ UNCHANGED <<on, place, copen, outq, nplaces, history>> /\ events' \in 0..MaxEvents
    BY <1>1, EventKeeps
  <1>3. Seated
    BY DEF Inv
  <1>4. PICK f : f = FreeId
    OBVIOUS
  <1>5. f \in Ids /\ roster[f] = Nobody
    BY <1>1, <1>2, <1>3, <1>4, SeatFree DEF Seated
  <1>6. u # Me /\ u # Nobody /\ Me # Nobody /\ f # 0
    BY <1>5, UsersAssumption DEF Ids
  <1>7. /\ roster' \in Tables /\ roster'[f] = u /\ \A i \in Ids : i # f => roster'[i] = roster[i]
        /\ \A i, j \in Ids : roster'[i] = roster'[j] /\ roster'[i] # Nobody => i = j
    <2>1. PICK so : so = roster' /\ so = [roster EXCEPT ![f] = u]
      BY <1>1, <1>4
    <2>2. \A i, j \in Ids : roster[i] = roster[j] /\ roster[i] # Nobody => i = j
      BY <1>3 DEF Seated
    <2>3. u \in Peers \cup {Me} /\ \A i \in Ids : roster[i] # u
      BY <1>1
    <2>4. so \in Tables /\ so[f] = u /\ \A i \in Ids : i # f => so[i] = roster[i]
      BY <1>2, <1>5, <2>1, <2>3 DEF Tables
    <2>5. \A i, j \in Ids : so[i] = so[j] /\ so[i] # Nobody => i = j
      BY <2>2, <2>3, <2>4
    <2> QED
      BY <2>1, <2>4, <2>5
  <1>8. Seated'
    BY <1>1, <1>3, <1>5, <1>6, <1>7 DEF Seated
  <1>9. PICK m : m = IF peer.joined THEN <<PeerJoin(peer.chan, f, u, Section)>> ELSE <<>>
    OBVIOUS
  <1>10. /\ m \in Seq(Told) /\ (peer.joined => DOMAIN m = {1})
         /\ \A j \in DOMAIN m : /\ m[j].chan = peer.chan /\ peer.joined
                                /\ m[j].type = "PEER_JOIN" /\ m[j].id = f /\ m[j].who = u
                                /\ m[j].section # 0
    <2>1. CASE peer.joined
      <3>1. PeerJoin(peer.chan, f, u, Section) \in Told /\ Section # 0
        BY <1>2, <1>5, <2>1, BoundsAssumption DEF PeerJoin, Told
      <3> QED
        BY <1>9, <2>1, <3>1, OneMessage DEF PeerJoin
    <2>2. CASE ~peer.joined
      BY <1>9, <2>2, NoMessage
    <2> QED
      BY <2>1, <2>2
  <1>11. toClient' \in Seq(Told) /\ Behind(toClient', toClient, m)
    BY <1>1, <1>2, <1>4, <1>9, <1>10, TellsBehind DEF TellsMember
  <1>12. ASSUME peer.joined, NEW i \in Ids
         PROVE  \/ LastSaid(m, peer.chan, i, roster'[i])
                \/ /\ AllMute(m, peer.chan, i) /\ roster'[i] = roster[i]
                   /\ \A j \in DOMAIN m : m[j].type # "SECTION_LIST"
    <2>1. CASE i = f
      <3>1. Says(m[1], peer.chan, i, roster'[i])
        BY <1>7, <1>10, <1>12, <2>1 DEF Says
      <3> QED
        BY <1>10, <1>12, <3>1, SaidOnce
    <2>2. CASE i # f
      BY <1>7, <1>10, <2>2 DEF AllMute, Mute, Says
    <2> QED
      BY <2>1, <2>2
  <1>13. \A i \in Ids : roster[i] = Me => roster'[i] = Me
    BY <1>5, <1>6, <1>7
  <1>14. \A j \in DOMAIN m :
           /\ m[j].chan = peer.chan /\ peer.joined
           /\ m[j].type \notin {"ACCEPT", "JOIN_RESPONSE", "DESTROY", "SECTION_LIST"}
    BY <1>10
  <1>15. /\ toServer' \in Seq(Written) /\ (~up => toServer' = <<>>)
         /\ Line(toServer', toClient, place, peer, nplaces)
         /\ Talk(toServer', toClient, place, peer, roster)
         /\ UNCHANGED <<on, up, place, copen, outq, nplaces, history, peer>>
    BY <1>1, <1>2
  <1> QED
    BY <1>2, <1>7, <1>8, <1>11, <1>12, <1>13, <1>14, <1>15, TellKeeps

LEMMA PeerPartsKeeps ==
    ASSUME Inv, NEW u \in Peers, PeerParts(u)
    PROVE  Inv'
  <1>1. /\ Event /\ UNCHANGED <<up, toServer, peer>> /\ Inside(u)
        /\ roster' = [roster EXCEPT ![IdOf(u)] = Nobody]
        /\ TellsMember(<<Peer("SECTION_PART", peer.chan, IdOf(u), u),
                         [type |-> "PEER_PART", chan |-> peer.chan,
                          id |-> IdOf(u), who |-> u, section |-> Section]>>)
    BY DEF PeerParts
  <1>2. /\ roster \in Tables /\ toClient \in Seq(Told) /\ toServer \in Seq(Written)
        /\ (peer.joined => peer.chan \in Chans)
        /\ Line(toServer, toClient, place, peer, nplaces)
        /\ Talk(toServer, toClient, place, peer, roster)
        /\ (~up => toServer = <<>>)
        /\ UNCHANGED <<on, place, copen, outq, nplaces, history>> /\ events' \in 0..MaxEvents
    BY <1>1, EventKeeps
  <1>3. Seated
    BY DEF Inv
  <1>4. PICK f : f = IdOf(u)
    OBVIOUS
  <1>5. f \in Ids /\ roster[f] = u
    BY <1>1, <1>4, IdOfUser
  <1>6. u # Me /\ Me # Nobody
    BY UsersAssumption
  <1>7. /\ roster' \in Tables /\ roster'[f] = Nobody
        /\ \A i \in Ids : i # f => roster'[i] = roster[i]
        /\ \A i, j \in Ids : roster'[i] = roster'[j] /\ roster'[i] # Nobody => i = j
    <2>1. PICK so : so = roster' /\ so = [roster EXCEPT ![f] = Nobody]
      BY <1>1, <1>4
    <2>2. \A i, j \in Ids : roster[i] = roster[j] /\ roster[i] # Nobody => i = j
      BY <1>3 DEF Seated
    <2>3. /\ so \in Tables /\ so[f] = Nobody /\ \A i \in Ids : i # f => so[i] = roster[i]
          /\ \A i, j \in Ids : so[i] = so[j] /\ so[i] # Nobody => i = j
      BY <1>2, <1>5, <2>1, <2>2, SeatLeft
    <2> QED
      BY <2>1, <2>3
  <1>8. Seated'
    BY <1>1, <1>3, <1>5, <1>6, <1>7 DEF Seated
  <1>9. PICK a, b : /\ a = Peer("SECTION_PART", peer.chan, f, u)
                    /\ b = [type |-> "PEER_PART", chan |-> peer.chan, id |-> f, who |-> u,
                            section |-> Section]
    OBVIOUS
  <1>10. /\ a.type = "SECTION_PART" /\ a.chan = peer.chan /\ a.id = f
         /\ b.type = "PEER_PART" /\ b.chan = peer.chan /\ b.id = f
         /\ peer.joined => a \in Told /\ b \in Told
    BY <1>2, <1>5, <1>9 DEF Peer, Told
  <1>11. PICK m : m = IF peer.joined THEN <<a, b>> ELSE <<>>
    OBVIOUS
  <1>12. /\ m \in Seq(Told) /\ (peer.joined => 1 \in DOMAIN m)
         /\ \A j \in DOMAIN m : /\ m[j].chan = peer.chan /\ peer.joined
                                /\ m[j].type \in {"SECTION_PART", "PEER_PART"} /\ m[j].id = f
    <2>1. CASE peer.joined
      <3>1. DOMAIN m = {1, 2} /\ m[1] = a /\ m[2] = b /\ m \in Seq(Told)
        BY <1>10, <1>11, <2>1
      <3> QED
        BY <1>10, <2>1, <3>1
    <2>2. CASE ~peer.joined
      BY <1>11, <2>2, NoMessage
    <2> QED
      BY <2>1, <2>2
  <1>13. toClient' \in Seq(Told) /\ Behind(toClient', toClient, m)
    BY <1>1, <1>2, <1>4, <1>9, <1>11, <1>12, TellsBehind DEF TellsMember
  <1>14. ASSUME peer.joined, NEW i \in Ids
         PROVE  \/ LastSaid(m, peer.chan, i, roster'[i])
                \/ /\ AllMute(m, peer.chan, i) /\ roster'[i] = roster[i]
                   /\ \A j \in DOMAIN m : m[j].type # "SECTION_LIST"
    <2>1. CASE i = f
      <3>1. \A j \in DOMAIN m : Says(m[j], peer.chan, i, roster'[i])
        BY <1>7, <1>12, <1>14, <2>1 DEF Says
      <3> QED
        BY <1>12, <1>14, <3>1, SaidOnce
    <2>2. CASE i # f
      BY <1>7, <1>12, <2>2 DEF AllMute, Mute, Says
    <2> QED
      BY <2>1, <2>2
  <1>15. \A i \in Ids : roster[i] = Me => roster'[i] = Me
    BY <1>5, <1>6, <1>7
  <1>16. \A j \in DOMAIN m :
           /\ m[j].chan = peer.chan /\ peer.joined
           /\ m[j].type \notin {"ACCEPT", "JOIN_RESPONSE", "DESTROY", "SECTION_LIST"}
    BY <1>12
  <1>17. /\ toServer' \in Seq(Written) /\ (~up => toServer' = <<>>)
         /\ Line(toServer', toClient, place, peer, nplaces)
         /\ Talk(toServer', toClient, place, peer, roster)
         /\ UNCHANGED <<on, up, place, copen, outq, nplaces, history, peer>>
    BY <1>1, <1>2
  <1> QED
    BY <1>2, <1>7, <1>8, <1>13, <1>14, <1>15, <1>16, <1>17, TellKeeps

\* Something is said in the section that is no news of members.
LEMMA SaidKeeps ==
    ASSUME Inv, NEW m \in Told, Tells(<<m>>), m.chan = peer.chan, peer.joined,
           m.type \in {"INFO", "MESSAGE", "PEER_SET_ATTR", "PEER_CLEAR_ATTR"},
           UNCHANGED <<on, up, place, copen, outq, nplaces, history, server>>,
           events' \in 0..MaxEvents,
           toServer' \in Seq(Written), ~up => toServer' = <<>>,
           Line(toServer', toClient, place, peer, nplaces),
           Talk(toServer', toClient, place, peer, roster)
    PROVE  Inv'
  <1>1. toClient \in Seq(Told) /\ roster \in Tables /\ UNCHANGED <<peer, roster>> /\ Seated'
    BY SeatedSame DEF Inv, Typed, server
  <1>2. PICK s : s = <<m>>
    OBVIOUS
  <1>3. s \in Seq(Told) /\ \A j \in DOMAIN s : s[j] = m
    BY <1>2, OneMessage
  <1>4. toClient' \in Seq(Told) /\ Behind(toClient', toClient, s)
    BY <1>1, <1>2, <1>3, TellsBehind
  <1>5. \A i \in Ids : AllMute(s, peer.chan, i)
    BY <1>3 DEF AllMute, Mute, Says
  <1>6. \A j \in DOMAIN s :
          /\ s[j].chan = peer.chan /\ peer.joined
          /\ s[j].type \notin {"ACCEPT", "JOIN_RESPONSE", "DESTROY", "SECTION_LIST"}
    BY <1>3
  <1>7. /\ UNCHANGED <<on, up, place, copen, outq, nplaces, history, peer>> /\ roster' \in Tables
        /\ \A i \in Ids : roster'[i] = roster[i]
    BY <1>1
  <1> QED
    BY <1>1, <1>4, <1>5, <1>6, <1>7, TellKeeps

\* The client is told that it joined, where it did.
LEMMA GreetingsTold ==
    ASSUME NEW c \in Chans, NEW f \in Ids, NEW g \in Greetings(c, f)
    PROVE  /\ g \in Told /\ g.type = "PEER_JOIN" /\ g.chan = c /\ g.id = f /\ g.who = Me
           /\ g.section \in {0, Section}
  BY DEF Greetings, PeerJoin, Told

LEMMA GreetsKeeps ==
    ASSUME Inv, ServerGreets
    PROVE  Inv'
  <1>1. Event /\ peer.joined /\ UNCHANGED <<up, toServer, server>>
    BY DEF ServerGreets
  <1>2. /\ toClient \in Seq(Told) /\ toServer \in Seq(Written) /\ peer.chan \in Chans
        /\ Line(toServer, toClient, place, peer, nplaces)
        /\ Talk(toServer, toClient, place, peer, roster)
        /\ (~up => toServer = <<>>) /\ roster \in Tables
        /\ UNCHANGED <<on, place, copen, outq, nplaces, history>> /\ events' \in 0..MaxEvents
    BY <1>1, EventKeeps
  <1>3. PICK f : f = IdOf(Me)
    OBVIOUS
  <1>4. f \in Ids /\ roster[f] = Me
    BY <1>1, <1>3, IdOfUser DEF Inv, Seated, Inside
  <1>5. PICK g \in Greetings(peer.chan, f) : Tells(<<g>>)
    BY <1>3 DEF ServerGreets
  <1>6. /\ g \in Told /\ g.type = "PEER_JOIN" /\ g.chan = peer.chan /\ g.id = f /\ g.who = Me
    BY <1>2, <1>4, <1>5, GreetingsTold
  <1>7. PICK s : s = <<g>>
    OBVIOUS
  <1>8. s \in Seq(Told) /\ DOMAIN s = {1} /\ s[1] = g
    BY <1>6, <1>7, OneMessage
  <1>9. toClient' \in Seq(Told) /\ Behind(toClient', toClient, s)
    BY <1>2, <1>5, <1>7, <1>8, TellsBehind
  <1>10. UNCHANGED <<peer, roster>> /\ Seated'
    BY <1>1, SeatedSame DEF Inv, server
  <1>11. ASSUME NEW i \in Ids
         PROVE  \/ LastSaid(s, peer.chan, i, roster'[i])
                \/ /\ AllMute(s, peer.chan, i) /\ roster'[i] = roster[i]
                   /\ \A j \in DOMAIN s : s[j].type # "SECTION_LIST"
    <2>1. CASE i = f /\ g.section # 0
      <3>1. Says(s[1], peer.chan, i, roster'[i])
        BY <1>4, <1>6, <1>8, <1>10, <2>1 DEF Says
      <3> QED
        BY <1>8, <3>1, SaidOnce
    <2>2. CASE ~(i = f /\ g.section # 0)
      BY <1>6, <1>8, <1>10, <2>2 DEF AllMute, Mute, Says
    <2> QED
      BY <2>1, <2>2
  <1>12. \A j \in DOMAIN s :
           /\ s[j].chan = peer.chan /\ peer.joined
           /\ s[j].type \notin {"ACCEPT", "JOIN_RESPONSE", "DESTROY", "SECTION_LIST"}
    BY <1>1, <1>6, <1>8
  <1>13. /\ toServer' \in Seq(Written) /\ (~up => toServer' = <<>>)
         /\ Line(toServer', toClient, place, peer, nplaces)
         /\ Talk(toServer', toClient, place, peer, roster)
         /\ roster' \in Tables /\ (\A i \in Ids : roster[i] = Me => roster'[i] = Me)
         /\ UNCHANGED <<on, up, place, copen, outq, nplaces, history, peer>>
    BY <1>1, <1>2, <1>10
  <1> QED
    BY <1>2, <1>9, <1>10, <1>11, <1>12, <1>13, TellKeeps

LEMMA PeerActsKeeps ==
    ASSUME Inv, NEW u \in Peers, PeerActs(u)
    PROVE  Inv'
  <1>1. /\ Event /\ Inside(u) /\ peer.joined /\ UNCHANGED <<up, toServer, server>>
        /\ \E type \in {"MESSAGE", "PEER_SET_ATTR", "PEER_CLEAR_ATTR"} :
             Tells(<<Peer(type, peer.chan, IdOf(u), u)>>)
    BY DEF PeerActs, Acts
  <1>2. PICK y \in {"MESSAGE", "PEER_SET_ATTR", "PEER_CLEAR_ATTR"} :
          Tells(<<Peer(y, peer.chan, IdOf(u), u)>>)
    BY <1>1
  <1>3. PICK m : m = Peer(y, peer.chan, IdOf(u), u)
    OBVIOUS
  <1>4. m \in Told /\ m.chan = peer.chan /\ m.type = y
    BY <1>1, <1>3, EventKeeps, IdOfUser DEF Peer, Told
  <1>5. /\ toServer' \in Seq(Written) /\ (~up => toServer' = <<>>)
        /\ Line(toServer', toClient, place, peer, nplaces)
        /\ Talk(toServer', toClient, place, peer, roster)
        /\ UNCHANGED <<on, up, place, copen, outq, nplaces, history, server>>
        /\ events' \in 0..MaxEvents
    BY <1>1, EventKeeps
  <1> QED
    BY <1>1, <1>2, <1>3, <1>4, <1>5, SaidKeeps

LEMMA InformsKeeps ==
    ASSUME Inv, ServerInforms
    PROVE  Inv'
  <1>1. /\ Event /\ peer.joined /\ UNCHANGED <<up, toServer, server>>
        /\ \E sec \in {0, Section} : Tells(<<OnSection("INFO", peer.chan, sec)>>)
    BY DEF ServerInforms
  <1>2. PICK sec \in {0, Section} : Tells(<<OnSection("INFO", peer.chan, sec)>>)
    BY <1>1
  <1>3. PICK m : m = OnSection("INFO", peer.chan, sec)
    OBVIOUS
  <1>4. m \in Told /\ m.chan = peer.chan /\ m.type = "INFO"
    BY <1>1, <1>3, EventKeeps DEF OnSection, Told
  <1>5. /\ toServer' \in Seq(Written) /\ (~up => toServer' = <<>>)
        /\ Line(toServer', toClient, place, peer, nplaces)
        /\ Talk(toServer', toClient, place, peer, roster)
        /\ UNCHANGED <<on, up, place, copen, outq, nplaces, history, server>>
        /\ events' \in 0..MaxEvents
    BY <1>1, EventKeeps
  <1> QED
    BY <1>1, <1>2, <1>3, <1>4, <1>5, SaidKeeps

LEMMA KicksKeeps ==
    ASSUME Inv, ServerKicks
    PROVE  Inv'
  <1>1. /\ Event /\ peer.chan # 0 /\ UNCHANGED <<up, toServer>>
        /\ Tells(<<Msg("DESTROY", peer.chan)>>) /\ peer' = NoPeer
        /\ roster' = [i \in Ids |-> IF roster[i] = Me THEN Nobody ELSE roster[i]]
    BY DEF ServerKicks, ServerDrops
  <1>2. /\ toServer \in Seq(Written) /\ toClient \in Seq(Told) /\ nplaces \in Nat
        /\ peer \in [chan : {0} \cup Chans, joined : BOOLEAN] /\ up \in BOOLEAN
        /\ Line(toServer, toClient, place, peer, nplaces)
        /\ Talk(toServer, toClient, place, peer, roster)
        /\ (~up => toServer = <<>>)
        /\ UNCHANGED <<on, place, copen, outq, nplaces, history>> /\ events' \in 0..MaxEvents
    BY <1>1, EventKeeps
  <1>3. PICK m : m = <<Msg("DESTROY", peer.chan)>>
    OBVIOUS
  <1>4. m \in Seq(Told) /\ \A j \in DOMAIN m : m[j].chan = peer.chan /\ m[j].type = "DESTROY"
    <2>1. Msg("DESTROY", peer.chan) \in Told
      BY <1>1, <1>2 DEF Msg, Told
    <2> QED
      BY <1>3, <2>1, OneMessage DEF Msg
  <1>5. toClient' \in Seq(Told) /\ Behind(toClient', toClient, m)
    BY <1>1, <1>2, <1>3, <1>4, TellsBehind
  <1>6. NoPeer.chan = 0 /\ ~NoPeer.joined
    BY DEF NoPeer
  <1>7. Line(toServer, toClient, place, NoPeer, nplaces)
    BY <1>2, <1>6, LineDropped
  <1>8. \A i \in DOMAIN toServer : toServer[i].type = "CREATE" => toServer[i].chan # peer.chan
    <2>1. peer.chan \in Nat
      BY <1>2, BoundsAssumption DEF Chans
    <2> QED
      BY <1>2, <2>1 DEF Line, Ahead
  <1>9. /\ toServer' \in Seq(Written) /\ up' \in BOOLEAN /\ (up' => up)
        /\ (~up' => toServer' = <<>>) /\ toServer' = toServer
    BY <1>1, <1>2
  <1> QED
    BY <1>1, <1>2, <1>4, <1>5, <1>7, <1>8, <1>9, DropKeeps

LEMMA BreaksKeeps ==
    ASSUME Inv, LinkBreaks
    PROVE  Inv'
  <1>1. /\ Event /\ up' = FALSE /\ toServer' = <<>> /\ Tells(<<>>) /\ peer' = NoPeer
        /\ roster' = [i \in Ids |-> IF roster[i] = Me THEN Nobody ELSE roster[i]]
    BY DEF LinkBreaks, ServerDrops
  <1>2. /\ toServer \in Seq(Written) /\ toClient \in Seq(Told) /\ nplaces \in Nat
        /\ peer \in [chan : {0} \cup Chans, joined : BOOLEAN]
        /\ Line(toServer, toClient, place, peer, nplaces)
        /\ Talk(toServer, toClient, place, peer, roster)
        /\ UNCHANGED <<on, place, copen, outq, nplaces, history>> /\ events' \in 0..MaxEvents
    BY <1>1, EventKeeps
  <1>3. <<>> \in Seq(Told) /\ <<>> \in Seq(Written) /\ ~ \E j : j \in DOMAIN <<>>
    BY NoMessage
  <1>4. toClient' \in Seq(Told) /\ Behind(toClient', toClient, <<>>)
    BY <1>1, <1>2, <1>3, TellsBehind
  <1>5. NoPeer.chan = 0 /\ peer.chan \in Nat
    BY <1>2, BoundsAssumption DEF NoPeer, Chans
  <1>6. Line(<<>>, toClient, place, NoPeer, nplaces)
    BY <1>2, <1>5, LineCut
  <1>7. Talk(<<>>, toClient, place, peer, roster)
    BY <1>2, <1>3 DEF Talk, Asks
  <1>8. /\ toServer' \in Seq(Written) /\ up' \in BOOLEAN /\ (up' => up)
        /\ Line(toServer', toClient, place, NoPeer, nplaces)
        /\ Talk(toServer', toClient, place, peer, roster)
    BY <1>1, <1>3, <1>6, <1>7
  <1> QED
    BY <1>1, <1>2, <1>3, <1>4, <1>8, DropKeeps

LEMMA StopKeeps ==
    ASSUME Inv, stop
    PROVE  Inv'
  <1>1. /\ ~up /\ on' = FALSE /\ toClient' = <<>> /\ place_free
        /\ UNCHANGED <<up, toServer, server, nplaces, events>>
    BY DEF stop
  <1>2. /\ toServer = <<>> /\ peer.chan = 0 /\ nplaces \in Nat /\ up \in BOOLEAN
        /\ Line(toServer, toClient, place, peer, nplaces)
    BY <1>1, BoundsAssumption DEF Inv, Typed, Wired
  <1>3. NoPlace.chan = 0 /\ NoPlace.state # "NEW"
    BY DEF NoPlace
  <1>4. Line(<<>>, <<>>, NoPlace, peer, nplaces)
    BY <1>2, <1>3, LineCut
  <1>5. {on', up'} \subseteq BOOLEAN /\ toServer' \in Seq(Written) /\ toClient' \in Seq(Told)
    BY <1>1, <1>2, NoMessage
  <1> QED
    BY <1>1, <1>2, <1>4, <1>5, FreeKeeps

-----------------------------------------------------------------------------
(* The server reads what the client wrote.                                 *)

\* What is known when the server reads.
LEMMA Reading ==
    ASSUME Inv, ServerReads
    PROVE  /\ toServer' \in Seq(Written) /\ Shifted(toServer', toServer) /\ 1 \in DOMAIN toServer
           /\ Head(toServer) = toServer[1] /\ toServer[1] \in Written
           /\ toServer[1].chan \in Chans /\ toServer[1].chan \in Nat \ {0}
           /\ \A i \in DOMAIN toServer' : Before(toServer[1], toServer'[i])
           /\ up /\ on /\ peer.chan \in Nat /\ nplaces \in Nat
           /\ toServer[1].chan <= nplaces
           /\ (place.state = "NEW" => toServer[1].chan < nplaces)
           /\ peer.chan <= toServer[1].chan
           /\ (toServer[1].type = "CREATE" => peer.chan < toServer[1].chan)
           /\ (toServer[1].type = "JOIN_PLACE" /\ peer.joined => peer.chan < toServer[1].chan)
           /\ Talk(toServer', toClient, place, peer, roster)
           /\ UNCHANGED <<on, up, place, copen, outq, nplaces, history>>
  <1>1. /\ toServer # <<>> /\ toServer' = Tail(toServer)
        /\ UNCHANGED <<on, up, place, copen, outq, nplaces, history>>
    BY DEF ServerReads
  <1>2. /\ toServer \in Seq(Written) /\ nplaces \in Nat /\ peer.chan \in Nat /\ up /\ on
        /\ Line(toServer, toClient, place, peer, nplaces)
        /\ Talk(toServer, toClient, place, peer, roster)
    BY <1>1, BoundsAssumption DEF Inv, Typed, Wired, Conversing, Chans
  <1>3. /\ toServer' \in Seq(Written) /\ Shifted(toServer', toServer) /\ 1 \in DOMAIN toServer
        /\ Head(toServer) = toServer[1] /\ toServer[1] \in Written
    BY <1>1, <1>2, TailShifted
  <1>4. toServer[1].chan \in Chans /\ toServer[1].chan \in Nat \ {0}
    BY <1>3, BoundsAssumption DEF Written, Chans
  <1>5. \A i \in DOMAIN toServer' : Before(toServer[1], toServer'[i])
    BY <1>2, <1>3, LinedRead DEF Line
  <1>6. Talk(toServer', toClient, place, peer, roster)
    BY <1>2, <1>3, TalkTaken
  <1>7. /\ toServer[1].chan <= nplaces
        /\ (place.state = "NEW" => toServer[1].chan < nplaces)
        /\ peer.chan <= toServer[1].chan
        /\ (toServer[1].type = "CREATE" => peer.chan < toServer[1].chan)
        /\ (toServer[1].type = "JOIN_PLACE" /\ peer.joined => peer.chan < toServer[1].chan)
    BY <1>2, <1>3 DEF Line, Ahead
  <1> QED
    BY <1>1, <1>2, <1>3, <1>4, <1>5, <1>6, <1>7

\* A message that changes nothing, or is answered with m.
LEMMA AnsweredKeeps ==
    ASSUME Inv, ServerReads, NEW m, UNCHANGED <<server, events>>,
           toClient' \in Seq(Told), Behind(toClient', toClient, m),
           ~(toServer[1].type = "DESTROY" /\ toServer[1].chan = peer.chan),
           \A j \in DOMAIN m :
              /\ m[j].chan = peer.chan /\ peer.joined
              /\ m[j].type \in {"MESSAGE", "SECTION_LIST"}
              /\ m[j].type = "SECTION_LIST" /\ m[j].chan = place.chan =>
                    place.state \in {"JOINED", "OPEN"},
           peer.joined => \A i \in Ids :
              \/ LastSaid(m, peer.chan, i, roster[i])
              \/ /\ AllMute(m, peer.chan, i)
                 /\ roster[i] = Nobody \/ \A j \in DOMAIN m : m[j].type # "SECTION_LIST"
    PROVE  Inv'
  <1>1. /\ toServer' \in Seq(Written) /\ Shifted(toServer', toServer) /\ up /\ nplaces \in Nat
        /\ Talk(toServer', toClient, place, peer, roster)
        /\ UNCHANGED <<on, up, place, copen, outq, nplaces, history, peer, roster>>
    BY Reading DEF server
  <1>2. /\ toServer \in Seq(Written) /\ peer \in [chan : {0} \cup Chans, joined : BOOLEAN]
        /\ Line(toServer, toClient, place, peer, nplaces)
        /\ roster' \in Tables /\ events' \in 0..MaxEvents
    BY <1>1 DEF Inv, Typed, Wired
  <1>3. Seated'
    BY SeatedSame DEF Inv
  <1>4. Line(toServer', toClient, place, peer, nplaces)
    BY <1>1, <1>2, LineTaken
  <1>5. \A j \in DOMAIN m :
          /\ m[j].chan = peer.chan /\ peer.joined
          /\ m[j].type \notin {"ACCEPT", "JOIN_RESPONSE", "DESTROY"}
          /\ m[j].type = "SECTION_LIST" /\ m[j].chan = place.chan =>
                place.state \in {"JOINED", "OPEN"}
    OBVIOUS
  <1>6. \A i \in Ids : roster'[i] = roster[i]
    BY <1>1
  <1>7. UNCHANGED <<on, up, place, copen, outq, nplaces, history, peer>>
    BY <1>1
  <1> QED
    BY <1>1, <1>2, <1>3, <1>4, <1>5, <1>6, <1>7, TellKeeps

LEMMA IgnoredKeeps ==
    ASSUME Inv, ServerReads, UNCHANGED <<server, toClient, events>>,
           ~(toServer[1].type = "DESTROY" /\ toServer[1].chan = peer.chan)
    PROVE  Inv'
  <1>1. toClient' \in Seq(Told) /\ toClient' = toClient
    BY DEF Inv, Typed
  <1>2. Behind(toClient', toClient, <<>>) /\ ~ \E j : j \in DOMAIN <<>>
    BY <1>1, SameBehind, NoMessage
  <1>3. \A i \in Ids : AllMute(<<>>, peer.chan, i)
    BY <1>2 DEF AllMute
  <1> QED
    BY <1>1, <1>2, <1>3, AnsweredKeeps

LEMMA CreateAccepted ==
    ASSUME Inv, ServerReads, toServer[1].type = "CREATE",
           peer' = [chan |-> toServer[1].chan, joined |-> FALSE],
           Tells(<<Msg("ACCEPT", toServer[1].chan)>>), UNCHANGED <<roster, events>>
    PROVE  Inv'
  <1>1. /\ toServer' \in Seq(Written) /\ Shifted(toServer', toServer) /\ 1 \in DOMAIN toServer
        /\ toServer[1].chan \in Chans /\ toServer[1].chan \in Nat \ {0}
        /\ \A i \in DOMAIN toServer' : Before(toServer[1], toServer'[i])
        /\ up /\ on /\ peer.chan \in Nat /\ nplaces \in Nat
        /\ toServer[1].chan <= nplaces
        /\ (place.state = "NEW" => toServer[1].chan < nplaces)
        /\ peer.chan < toServer[1].chan
        /\ Talk(toServer', toClient, place, peer, roster)
        /\ UNCHANGED <<on, up, place, copen, outq, nplaces, history>>
    BY Reading
  <1>2. /\ toServer \in Seq(Written) /\ peer \in [chan : {0} \cup Chans, joined : BOOLEAN]
        /\ Line(toServer, toClient, place, peer, nplaces) /\ Seated
        /\ Talk(toServer, toClient, place, peer, roster)
        /\ roster' \in Tables /\ events' \in 0..MaxEvents
        /\ toClient \in Seq(Told) /\ place \in PlaceRecord
    BY DEF Inv, Typed, Wired, Conversing
  <1>3. PICK c, qr : c = toServer[1].chan /\ qr = peer'
    OBVIOUS
  <1>4. /\ qr.chan = c /\ ~qr.joined /\ c # 0
        /\ qr \in [chan : {0} \cup Chans, joined : BOOLEAN]
    BY <1>1, <1>3
  <1>5. PICK m : m = <<Msg("ACCEPT", c)>>
    OBVIOUS
  <1>6. m \in Seq(Told) /\ DOMAIN m = {1} /\ m[1].type = "ACCEPT" /\ m[1].chan = c
    <2>1. Msg("ACCEPT", c) \in Told
      BY <1>1, <1>3 DEF Msg, Told
    <2> QED
      BY <1>5, <2>1, OneMessage DEF Msg
  <1>7. toClient' \in Seq(Told) /\ Behind(toClient', toClient, m)
    BY <1>2, <1>3, <1>5, <1>6, TellsBehind
  \* The channel before this one is closed.
  <1>8. ~peer.joined
    <2>1. ASSUME Closing(toServer, peer.chan) PROVE FALSE
      <3>1. PICK i \in DOMAIN toServer :
              toServer[i].type = "DESTROY" /\ toServer[i].chan = peer.chan
        BY <2>1 DEF Closing
      <3>2. i # 1
        BY <1>1, <3>1
      <3>3. i - 1 \in DOMAIN toServer' /\ toServer'[i - 1] = toServer[i]
        BY <1>1, <3>2 DEF Shifted
      <3>4. Before(toServer[1], toServer[i])
        BY <1>1, <3>3
      <3> QED
        BY <1>1, <3>1, <3>4 DEF Before
    <2>2. peer.chan # place.chan \/ peer.chan = 0
      BY <1>1, <1>2 DEF Line
    <2>3. peer.chan = 0
      BY <1>2, <2>1, <2>2 DEF Line
    <2> QED
      BY <1>2, <2>3 DEF Seated
  <1>9. Seated'
    BY <1>2, <1>3, <1>4, <1>8 DEF Seated
  <1>10. Line(toServer', toClient', place, qr, nplaces)
    <2>1. Line(toServer', toClient, place, qr, nplaces)
      BY <1>1, <1>2, <1>3, <1>4, LineTaken
    <2>2. \A j \in DOMAIN m : m[j].chan <= nplaces /\ (place.state = "NEW" => m[j].chan < nplaces)
      BY <1>1, <1>3, <1>6
    <2> QED
      BY <1>7, <2>1, <2>2, LineTold
  <1>11. Talk(toServer', toClient', place, qr, roster')
    <2>1. CASE c = place.chan
      <3>1. Is(toServer[1], place, "CREATE") /\ place.chan # 0
        BY <1>3, <1>4, <2>1 DEF Is
      <3>2. Talk(toServer', toClient', place, qr, roster)
        BY <1>1, <1>2, <1>4, <1>6, <1>7, <3>1, TalkAccepts
      <3> QED
        BY <3>2
    <2>2. CASE c # place.chan
      <3>1. qr.chan # place.chan /\ \A j \in DOMAIN m : m[j].chan # place.chan
        BY <1>4, <1>6, <2>2
      <3> QED
        BY <1>1, <1>2, <1>7, <3>1, TalkElsewhere
    <2> QED
      BY <2>1, <2>2
  <1>12. Follows(toClient', place, qr, roster', listed)
    BY <1>4, FollowsElsewhere
  <1> QED
    BY <1>1, <1>2, <1>3, <1>4, <1>7, <1>9, <1>10, <1>11, <1>12, ServerKeeps

LEMMA CreateRefused ==
    ASSUME Inv, ServerReads, toServer[1].type = "CREATE", events < MaxEvents,
           events' = events + 1, Tells(<<Msg("DESTROY", toServer[1].chan)>>), UNCHANGED server
    PROVE  Inv'
  <1>1. /\ toServer' \in Seq(Written) /\ Shifted(toServer', toServer)
        /\ toServer[1].chan \in Chans /\ toServer[1].chan \in Nat \ {0}
        /\ \A i \in DOMAIN toServer' : Before(toServer[1], toServer'[i])
        /\ up /\ on /\ peer.chan \in Nat /\ nplaces \in Nat
        /\ toServer[1].chan <= nplaces
        /\ (place.state = "NEW" => toServer[1].chan < nplaces)
        /\ peer.chan < toServer[1].chan
        /\ Talk(toServer', toClient, place, peer, roster)
        /\ UNCHANGED <<on, up, place, copen, outq, nplaces, history, peer, roster>>
    BY Reading DEF server
  <1>2. /\ toServer \in Seq(Written) /\ peer' \in [chan : {0} \cup Chans, joined : BOOLEAN]
        /\ Line(toServer, toClient, place, peer, nplaces)
        /\ Follows(toClient, place, peer, roster, listed)
        /\ roster' \in Tables /\ events' \in 0..MaxEvents
        /\ toClient \in Seq(Told) /\ place \in PlaceRecord
    BY <1>1, BoundsAssumption DEF Inv, Typed, Wired, Following
  <1>3. PICK c : c = toServer[1].chan
    OBVIOUS
  <1>4. PICK m : m = <<Msg("DESTROY", c)>>
    OBVIOUS
  <1>5. m \in Seq(Told) /\ \A j \in DOMAIN m : m[j].type = "DESTROY" /\ m[j].chan = c
    <2>1. Msg("DESTROY", c) \in Told
      BY <1>1, <1>3 DEF Msg, Told
    <2> QED
      BY <1>4, <2>1, OneMessage DEF Msg
  <1>6. toClient' \in Seq(Told) /\ Behind(toClient', toClient, m)
    BY <1>2, <1>3, <1>4, <1>5, TellsBehind
  <1>7. Seated'
    BY SeatedSame DEF Inv
  <1>8. Line(toServer', toClient', place, peer, nplaces)
    <2>1. Line(toServer', toClient, place, peer, nplaces)
      BY <1>1, <1>2, LineTaken
    <2>2. \A j \in DOMAIN m : m[j].chan <= nplaces /\ (place.state = "NEW" => m[j].chan < nplaces)
      BY <1>1, <1>3, <1>5
    <2> QED
      BY <1>6, <2>1, <2>2, LineTold
  <1>9. Keeps(place, peer, roster, peer, roster)
    BY DEF Keeps
  <1>10. Talk(toServer', toClient', place, peer, roster)
    <2>1. \A j \in DOMAIN m :
            /\ Remark(m[j], place)
            /\ m[j].chan = place.chan =>
                  \/ m[j].type = "DESTROY" /\ peer.chan # place.chan
                  \/ m[j].type # "DESTROY" /\ peer.joined /\ peer.chan = place.chan
      BY <1>1, <1>3, <1>5 DEF Remark
    <2>2. \A i \in DOMAIN toServer' :
            /\ Is(toServer'[i], place, "CREATE") => \A j \in DOMAIN m : m[j].chan # place.chan
            /\ Is(toServer'[i], place, "JOIN_PLACE") =>
                  \A j \in DOMAIN m : m[j].chan = place.chan => m[j].type = "DESTROY"
      BY <1>1, <1>3, <1>5 DEF Before, Is
    <2>3. /\ Talk(toServer', toClient, place, peer, roster) /\ toClient \in Seq(Told)
          /\ Behind(toClient', toClient, m) /\ place \in PlaceRecord
      BY <1>1, <1>2, <1>6
    <2> QED
      BY <1>9, <2>1, <2>2, <2>3, TalkTold
  <1>11. Follows(toClient', place, peer, roster, listed)
    <2>1. \A i \in Ids : AllMute(m, place.chan, i)
      BY <1>5 DEF AllMute, Mute, Says
    <2>2. \A j \in DOMAIN m : ~Is(m[j], place, "SECTION_LIST")
      BY <1>5 DEF Is
    <2> QED
      BY <1>2, <1>6, <1>9, <2>1, <2>2, FollowsTold
  <1> QED
    BY <1>1, <1>2, <1>6, <1>7, <1>8, <1>10, <1>11, ServerKeeps

\* The client is let in.
LEMMA JoinAccepted ==
    ASSUME Inv, ServerReads, toServer[1].type = "JOIN_PLACE", toServer[1].chan = peer.chan,
           ServerJoins(toServer[1].chan), UNCHANGED events
    PROVE  Inv'
  <1>1. /\ toServer' \in Seq(Written) /\ Shifted(toServer', toServer)
        /\ toServer[1].chan \in Chans /\ toServer[1].chan \in Nat \ {0}
        /\ \A i \in DOMAIN toServer' : Before(toServer[1], toServer'[i])
        /\ up /\ on /\ peer.chan \in Nat /\ nplaces \in Nat
        /\ toServer[1].chan <= nplaces
        /\ (place.state = "NEW" => toServer[1].chan < nplaces)
        /\ ~peer.joined
        /\ Talk(toServer', toClient, place, peer, roster)
        /\ UNCHANGED <<on, up, place, copen, outq, nplaces, history>>
    BY Reading
  <1>2. /\ toServer \in Seq(Written) /\ peer \in [chan : {0} \cup Chans, joined : BOOLEAN]
        /\ Line(toServer, toClient, place, peer, nplaces) /\ Seated
        /\ Talk(toServer, toClient, place, peer, roster)
        /\ roster \in Tables /\ events' \in 0..MaxEvents
        /\ toClient \in Seq(Told) /\ place \in PlaceRecord /\ Stage
    BY DEF Inv, Typed, Wired, Conversing
  <1>3. PICK c, f : c = toServer[1].chan /\ f = FreeId
    OBVIOUS
  <1>4. /\ roster' = [roster EXCEPT ![f] = Me] /\ peer' = [chan |-> c, joined |-> TRUE]
        /\ \E echo \in {<<>>} \cup {<<g>> : g \in Greetings(c, f)} :
             Tells(<<JoinResponse(c, f)>> \o echo \o <<OnSection("INFO", c, 0)>>)
    BY <1>3 DEF ServerJoins
  <1>5. \A i \in Ids : roster[i] # Me
    BY <1>1, <1>2 DEF Seated
  <1>6. f \in Ids /\ roster[f] = Nobody
    BY <1>2, <1>3, <1>5, SeatFree DEF Seated
  <1>7. PICK so : so = roster' /\ so = [roster EXCEPT ![f] = Me]
    BY <1>4
  <1>8. so \in Tables /\ so[f] = Me /\ \A i \in Ids : i # f => so[i] = roster[i]
    BY <1>2, <1>6, <1>7 DEF Tables
  <1>9. PICK qr : qr = peer'
    OBVIOUS
  <1>10. /\ qr.chan = c /\ qr.joined /\ c # 0 /\ c = peer.chan
         /\ qr \in [chan : {0} \cup Chans, joined : BOOLEAN]
    BY <1>1, <1>3, <1>4, <1>9
  <1>11. Seated'
    <2>1. \A i, j \in Ids : roster[i] = roster[j] /\ roster[i] # Nobody => i = j
      BY <1>2 DEF Seated
    <2>2. \A i, j \in Ids : so[i] = so[j] /\ so[i] # Nobody => i = j
      BY <1>5, <1>8, <2>1
    <2> QED
      BY <1>6, <1>7, <1>8, <1>9, <1>10, <2>2 DEF Seated
  <1>12. PICK echo \in {<<>>} \cup {<<g>> : g \in Greetings(c, f)} :
           Tells(<<JoinResponse(c, f)>> \o echo \o <<OnSection("INFO", c, 0)>>)
    BY <1>4
  <1>13. PICK m : m = <<JoinResponse(c, f)>> \o echo \o <<OnSection("INFO", c, 0)>>
    OBVIOUS
  <1>14. m \in Seq(Told) /\ Welcome(m, c, f)
    <2>1. PICK a, b : a = JoinResponse(c, f) /\ b = OnSection("INFO", c, 0)
      OBVIOUS
    <2>2. /\ a \in Told /\ a.type = "JOIN_RESPONSE" /\ a.chan = c /\ a.id = f
          /\ b \in Told /\ b.type = "INFO" /\ b.chan = c
      BY <1>1, <1>3, <1>6, <2>1 DEF JoinResponse, OnSection, Told
    <2>3. CASE echo = <<>>
      <3>1. m = <<a>> \o <<>> \o <<b>>
        BY <1>13, <2>1, <2>3
      <3>2. m \in Seq(Told) /\ DOMAIN m = {1, 2} /\ m[1] = a /\ m[2] = b
        BY <2>2, <3>1
      <3> QED
        BY <2>2, <3>2 DEF Welcome
    <2>4. CASE \E g \in Greetings(c, f) : echo = <<g>>
      <3>1. PICK d \in Greetings(c, f) : echo = <<d>>
        BY <2>4
      <3>2. d \in Told /\ d.type = "PEER_JOIN" /\ d.chan = c /\ d.id = f
        BY <1>1, <1>3, <1>6, GreetingsTold
      <3>3. m = <<a>> \o <<d>> \o <<b>>
        BY <1>13, <2>1, <3>1
      <3>4. m \in Seq(Told) /\ DOMAIN m = {1, 2, 3} /\ m[1] = a /\ m[2] = d /\ m[3] = b
        BY <2>2, <3>2, <3>3
      <3> QED
        BY <2>2, <3>2, <3>4 DEF Welcome
    <2> QED
      BY <1>12, <2>3, <2>4
  <1>15. toClient' \in Seq(Told) /\ Behind(toClient', toClient, m)
    BY <1>2, <1>12, <1>13, <1>14, TellsBehind
  <1>16. \A j \in DOMAIN m : m[j].chan = c
    BY <1>14 DEF Welcome
  <1>17. Line(toServer', toClient', place, qr, nplaces)
    <2>1. Line(toServer', toClient, place, qr, nplaces)
      BY <1>1, <1>2, <1>3, <1>10, LineTaken
    <2>2. \A j \in DOMAIN m : m[j].chan <= nplaces /\ (place.state = "NEW" => m[j].chan < nplaces)
      BY <1>1, <1>3, <1>16
    <2> QED
      BY <1>15, <2>1, <2>2, LineTold
  <1>18. /\ Talk(toServer', toClient', place, qr, so)
         /\ Follows(toClient', place, qr, so, listed)
    <2>1. CASE c = place.chan
      <3>1. /\ Is(toServer[1], place, "JOIN_PLACE") /\ place.chan # 0 /\ peer.chan = place.chan
            /\ Welcome(m, place.chan, f)
        BY <1>3, <1>10, <1>14, <2>1 DEF Is
      <3>2. /\ Talk(toServer', toClient', place, qr, so)
            /\ \A k \in DOMAIN toClient : toClient[k].chan # place.chan
            /\ place.our_id = 0
        <4>1. /\ Talk(toServer, toClient, place, peer, roster) /\ Shifted(toServer', toServer)
              /\ \A i \in DOMAIN toServer' : Before(toServer[1], toServer'[i])
              /\ toServer[1].chan \in Nat /\ Behind(toClient', toClient, m) /\ so[f] = Me
              /\ 1 \in DOMAIN toServer
          BY <1>1, <1>2, <1>8, <1>15, Reading
        <4>2. Talk(toServer', toClient', place, qr, so)
          BY <3>1, <4>1, TalkJoins
        <4>3. place.our_id = 0 /\ \A k \in DOMAIN toClient : toClient[k].chan # place.chan
          BY <3>1, <4>1, JoinAlone
        <4> QED
          BY <4>2, <4>3
      <3>3. place.members = Empty /\ ~listed
        BY <1>2, <3>2 DEF Stage
      <3>4. so[f] # Nobody
        BY <1>8, UsersAssumption
      <3>5. Follows(toClient', place, qr, so, listed)
        BY <1>15, <3>1, <3>2, <3>3, <3>4, FollowsJoins
      <3> QED
        BY <3>2, <3>5
    <2>2. CASE c # place.chan
      <3>1. qr.chan # place.chan /\ \A j \in DOMAIN m : m[j].chan # place.chan
        BY <1>10, <1>16, <2>2
      <3> QED
        BY <1>1, <1>2, <1>15, <3>1, TalkElsewhere, FollowsElsewhere
    <2> QED
      BY <2>1, <2>2
  <1>19. roster' = so /\ peer' = qr
    BY <1>7, <1>9
  <1> QED
    BY <1>1, <1>2, <1>8, <1>10, <1>11, <1>15, <1>17, <1>18, <1>19, ServerKeeps

\* The members are listed for it.
LEMMA ListAnswered ==
    ASSUME Inv, ServerReads, toServer[1].type = "SECTION_LIST",
           toServer[1].chan = peer.chan, peer.joined,
           Tells(<<SectionList(toServer[1].chan, roster)>>), UNCHANGED <<server, events>>
    PROVE  Inv'
  <1>1. toServer[1].chan \in Chans /\ 1 \in DOMAIN toServer /\ toServer[1].chan # 0
    BY Reading
  <1>2. toClient \in Seq(Told) /\ roster \in Tables
    BY DEF Inv, Typed
  <1>3. PICK m : m = <<SectionList(toServer[1].chan, roster)>>
    OBVIOUS
  <1>4. /\ m \in Seq(Told) /\ DOMAIN m = {1} /\ m[1].type = "SECTION_LIST"
        /\ m[1].chan = peer.chan /\ m[1].members = roster
    <2>1. SectionList(toServer[1].chan, roster) \in Told
      BY <1>1, <1>2 DEF SectionList, Told
    <2> QED
      BY <1>3, <2>1, OneMessage DEF SectionList
  <1>5. toClient' \in Seq(Told) /\ Behind(toClient', toClient, m)
    BY <1>2, <1>3, <1>4, TellsBehind
  <1>6. peer.chan = place.chan => place.state \in {"JOINED", "OPEN"}
    BY <1>1 DEF Inv, Conversing, Talk, Asks, Is
  <1>7. ASSUME NEW i \in Ids
        PROVE  \/ LastSaid(m, peer.chan, i, roster[i])
               \/ AllMute(m, peer.chan, i) /\ roster[i] = Nobody
    <2>1. CASE roster[i] # Nobody
      <3>1. Says(m[1], peer.chan, i, roster[i])
        BY <1>4, <2>1 DEF Says
      <3> QED
        BY <1>4, <3>1, SaidOnce
    <2>2. CASE roster[i] = Nobody
      BY <1>4, <2>2 DEF AllMute, Mute, Says
    <2> QED
      BY <2>1, <2>2
  <1>8. \A j \in DOMAIN m :
          /\ m[j].chan = peer.chan /\ peer.joined /\ m[j].type \in {"MESSAGE", "SECTION_LIST"}
          /\ m[j].chan = place.chan => place.state \in {"JOINED", "OPEN"}
    BY <1>4, <1>6
  <1> QED
    BY <1>5, <1>7, <1>8, AnsweredKeeps

\* What it says comes back to it.
LEMMA MessageAnswered ==
    ASSUME Inv, ServerReads, toServer[1].type = "MESSAGE",
           toServer[1].chan = peer.chan, peer.joined,
           Tells(<<Peer("MESSAGE", toServer[1].chan, IdOf(Me), Me)>>), UNCHANGED <<server, events>>
    PROVE  Inv'
  <1>1. toServer[1].chan \in Chans
    BY Reading
  <1>2. toClient \in Seq(Told) /\ Inside(Me)
    BY DEF Inv, Typed, Seated, Inside
  <1>3. PICK m : m = <<Peer("MESSAGE", toServer[1].chan, IdOf(Me), Me)>>
    OBVIOUS
  <1>4. m \in Seq(Told) /\ DOMAIN m = {1} /\ m[1].type = "MESSAGE" /\ m[1].chan = peer.chan
    <2>1. Peer("MESSAGE", toServer[1].chan, IdOf(Me), Me) \in Told
      BY <1>1, <1>2, IdOfUser DEF Peer, Told
    <2> QED
      BY <1>3, <2>1, OneMessage DEF Peer
  <1>5. toClient' \in Seq(Told) /\ Behind(toClient', toClient, m)
    BY <1>2, <1>3, <1>4, TellsBehind
  <1>6. \A i \in Ids : AllMute(m, peer.chan, i)
    BY <1>4 DEF AllMute, Mute, Says
  <1>7. \A j \in DOMAIN m : m[j].chan = peer.chan /\ peer.joined /\ m[j].type = "MESSAGE"
    BY <1>4
  <1> QED
    BY <1>5, <1>6, <1>7, AnsweredKeeps

\* The client closes its channel.
LEMMA DestroyRead ==
    ASSUME Inv, ServerReads, toServer[1].type = "DESTROY", toServer[1].chan = peer.chan,
           ServerDrops(<<>>), UNCHANGED events
    PROVE  Inv'
  <1>1. /\ toServer' \in Seq(Written) /\ Shifted(toServer', toServer) /\ up /\ nplaces \in Nat
        /\ Talk(toServer', toClient, place, peer, roster)
        /\ UNCHANGED <<on, up, place, copen, outq, nplaces, history>>
    BY Reading
  <1>2. /\ toServer \in Seq(Written) /\ peer \in [chan : {0} \cup Chans, joined : BOOLEAN]
        /\ Line(toServer, toClient, place, peer, nplaces)
        /\ events' \in 0..MaxEvents /\ toClient \in Seq(Told) /\ up \in BOOLEAN
    BY DEF Inv, Typed, Wired
  <1>3. /\ peer' = NoPeer /\ Tells(<<>>)
        /\ roster' = [i \in Ids |-> IF roster[i] = Me THEN Nobody ELSE roster[i]]
    BY DEF ServerDrops
  <1>4. <<>> \in Seq(Told) /\ ~ \E j : j \in DOMAIN <<>>
    BY NoMessage
  <1>5. toClient' \in Seq(Told) /\ Behind(toClient', toClient, <<>>)
    BY <1>2, <1>3, <1>4, TellsBehind
  <1>6. NoPeer.chan = 0 /\ ~NoPeer.joined
    BY DEF NoPeer
  <1>7. Line(toServer', toClient, place, NoPeer, nplaces)
    BY <1>1, <1>2, <1>6, LineTaken
  <1>8. /\ up' \in BOOLEAN /\ (up' => up) /\ up'
        /\ UNCHANGED <<on, place, copen, outq, nplaces, history>>
    BY <1>1, <1>2
  <1> QED
    BY <1>1, <1>2, <1>3, <1>4, <1>5, <1>7, <1>8, DropKeeps

LEMMA ReadsKeeps ==
    ASSUME Inv, ServerReads
    PROVE  Inv'
  <1>1. PICK h : h = toServer[1] /\ h = Head(toServer)
    BY Reading
  <1>2. CASE h.type = "CREATE"
    <2>1. CASE /\ peer' = [chan |-> h.chan, joined |-> FALSE]
               /\ Tells(<<Msg("ACCEPT", h.chan)>>) /\ UNCHANGED <<roster, events>>
      BY <1>1, <1>2, <2>1, CreateAccepted
    <2>2. CASE /\ events < MaxEvents /\ events' = events + 1
               /\ Tells(<<Msg("DESTROY", h.chan)>>) /\ UNCHANGED server
      BY <1>1, <1>2, <2>2, CreateRefused
    <2> QED
      BY <1>1, <1>2, <2>1, <2>2 DEF ServerReads
  <1>3. CASE h.type = "JOIN_PLACE"
    <2>1. CASE h.chan = peer.chan
      <3>1. ServerJoins(h.chan) /\ UNCHANGED events
        BY <1>1, <1>3, <2>1 DEF ServerReads
      <3> QED
        BY <1>1, <1>3, <2>1, <3>1, JoinAccepted
    <2>2. CASE h.chan # peer.chan
      <3>1. UNCHANGED <<server, toClient, events>>
        BY <1>1, <1>3, <2>2 DEF ServerReads
      <3> QED
        BY <1>1, <1>3, <3>1, IgnoredKeeps
    <2> QED
      BY <2>1, <2>2
  <1>4. CASE h.type = "SECTION_LIST"
    <2>1. CASE h.chan = peer.chan /\ peer.joined /\ h.section = Section
      <3>1. Tells(<<SectionList(h.chan, roster)>>) /\ UNCHANGED <<server, events>>
        BY <1>1, <1>4, <2>1 DEF ServerReads
      <3> QED
        BY <1>1, <1>4, <2>1, <3>1, ListAnswered
    <2>2. CASE ~(h.chan = peer.chan /\ peer.joined /\ h.section = Section)
      <3>1. UNCHANGED <<server, toClient, events>>
        BY <1>1, <1>4, <2>2 DEF ServerReads
      <3> QED
        BY <1>1, <1>4, <3>1, IgnoredKeeps
    <2> QED
      BY <2>1, <2>2
  <1>5. CASE h.type = "MESSAGE"
    <2>1. CASE h.chan = peer.chan /\ peer.joined /\ h.section = Section
      <3>1. Tells(<<Peer("MESSAGE", h.chan, IdOf(Me), Me)>>) /\ UNCHANGED <<server, events>>
        BY <1>1, <1>5, <2>1 DEF ServerReads
      <3> QED
        BY <1>1, <1>5, <2>1, <3>1, MessageAnswered
    <2>2. CASE ~(h.chan = peer.chan /\ peer.joined /\ h.section = Section)
      <3>1. UNCHANGED <<server, toClient, events>>
        BY <1>1, <1>5, <2>2 DEF ServerReads
      <3> QED
        BY <1>1, <1>5, <3>1, IgnoredKeeps
    <2> QED
      BY <2>1, <2>2
  <1>6. CASE h.type \in {"SET_ATTR", "OLD_INVITE"}
    <2>1. UNCHANGED <<server, toClient, events>>
      BY <1>1, <1>6 DEF ServerReads
    <2> QED
      BY <1>1, <1>6, <2>1, IgnoredKeeps
  <1>7. CASE h.type = "DESTROY"
    <2>1. CASE h.chan = peer.chan
      <3>1. ServerDrops(<<>>) /\ UNCHANGED events
        BY <1>1, <1>7, <2>1 DEF ServerReads
      <3> QED
        BY <1>1, <1>7, <2>1, <3>1, DestroyRead
    <2>2. CASE h.chan # peer.chan
      <3>1. UNCHANGED <<server, toClient, events>>
        BY <1>1, <1>7, <2>2 DEF ServerReads
      <3> QED
        BY <1>1, <1>7, <2>2, <3>1, IgnoredKeeps
    <2> QED
      BY <2>1, <2>2
  <1>8. h.type \in {"CREATE", "JOIN_PLACE", "SECTION_LIST", "MESSAGE", "SET_ATTR", "OLD_INVITE",
                    "DESTROY"}
    <2>1. h \in Written
      BY <1>1, Reading
    <2> QED
      BY <2>1 DEF Written
  <1> QED
    BY <1>2, <1>3, <1>4, <1>5, <1>6, <1>7, <1>8

-----------------------------------------------------------------------------
LEMMA InitInv ==
    ASSUME Init
    PROVE  Inv
  <1>1. /\ on /\ up /\ place = NoPlace /\ copen = FALSE /\ outq = <<>> /\ toServer = <<>>
        /\ toClient = <<>> /\ peer = NoPeer /\ roster = Empty /\ nplaces = 0 /\ opened = 0
        /\ greeted = 0 /\ listed = FALSE /\ events = 0 /\ on = TRUE /\ up = TRUE
    BY DEF Init
  <1>2. ~ \E j : j \in DOMAIN <<>>
    OBVIOUS
  <1>3. /\ place.chan = 0 /\ place.state = "NONE" /\ place.our_id = 0 /\ place.members = Empty
        /\ place \in PlaceRecord /\ peer.chan = 0 /\ peer.joined = FALSE
        /\ peer \in [chan : {0} \cup Chans, joined : BOOLEAN] /\ roster \in Tables
        /\ \A i \in Ids : roster[i] = Nobody
    BY <1>1 DEF NoPlace, NoPeer, PlaceRecord, mwPlaceState, Empty, Tables
  <1>4. Typed
    <2>1. {on, up, copen, listed} \subseteq BOOLEAN
      BY <1>1, Zenon
    <2>2. outq \in Seq(Written) /\ toServer \in Seq(Written) /\ toClient \in Seq(Told)
      BY <1>1, NoMessage
    <2> QED
      BY <1>1, <1>3, <2>1, <2>2, BoundsAssumption DEF Typed
  <1>5. Seated
    BY <1>3, UsersAssumption DEF Seated
  <1>6. Wired
    BY <1>1, <1>2, <1>3 DEF Wired, Line, Lined, Ahead
  <1>7. Stage
    BY <1>1, <1>2, <1>3 DEF Stage
  <1>8. Conversing /\ Following
    BY <1>3 DEF Conversing, Talk, Following, Follows
  <1> QED
    BY <1>4, <1>5, <1>6, <1>7, <1>8 DEF Inv

LEMMA NextInv ==
    ASSUME Inv, [Next]_vars
    PROVE  Inv'
  <1>1. CASE UNCHANGED vars
    <2>1. UNCHANGED <<on, up, place, copen, outq, toServer, toClient, peer, roster, nplaces,
                      opened, greeted, listed, events>>
      BY <1>1 DEF vars, server, history
    <2>2. Typed' /\ Seated' /\ Stage'
      BY <2>1 DEF Inv, Typed, Seated, Stage
    <2>3. Wired'
      BY <2>1, NextWired DEF Inv, Wired
    <2>4. Conversing' /\ Following'
      BY <2>1, NextConversing, NextFollowing DEF Inv, Conversing, Following
    <2> QED
      BY <2>2, <2>3, <2>4 DEF Inv
  <1>2. CASE mwPlace_new
    BY <1>2, NewKeeps
  <1>3. CASE mwPlace_open
    BY <1>3, OpenKeeps
  <1>4. CASE mwPlace_destroy
    BY <1>4, DestroyKeeps
  <1>5. CASE \/ mwPlace_sendText \/ mwPlace_setAttribute
             \/ mwPlace_unsetAttribute \/ mwPlace_legacyInvite
    BY <1>5, CallKeeps DEF mwPlace_unsetAttribute
  <1>6. CASE Handle
    BY <1>6, HandleKeeps
  <1>7. CASE ServerReads
    BY <1>7, ReadsKeeps
  <1>8. CASE \E u \in Peers : PeerJoins(u) \/ PeerParts(u) \/ PeerActs(u)
    BY <1>8, PeerJoinsKeeps, PeerPartsKeeps, PeerActsKeeps
  <1>9. CASE ServerInforms
    BY <1>9, InformsKeeps
  <1>10. CASE ServerKicks \/ ServerGreets
    BY <1>10, KicksKeeps, GreetsKeeps
  <1>11. CASE LinkBreaks
    BY <1>11, BreaksKeeps
  <1>12. CASE stop
    BY <1>12, StopKeeps
  <1> QED
    BY <1>1, <1>2, <1>3, <1>4, <1>5, <1>6, <1>7, <1>8, <1>9, <1>10, <1>11, <1>12 DEF Next

-----------------------------------------------------------------------------
(* Who speaks.  Each message of a member on its way is vouched for by what *)
(* is before it: read up to there, the table says who has its id, or the   *)
(* list is still to come.                                                  *)

Upto(q, k) == [j \in {i \in DOMAIN q : i < k} |-> q[j]]
Vouched(q, p, li, m) ==
    \/ Learns(q, p.chan, m.id, p.members[m.id], m.who)
    \/ ~li /\ \A k \in DOMAIN q : ~Is(q[k], p, "SECTION_LIST")
Hears(q, p, li) ==
    \A k \in DOMAIN q :
        q[k].chan = p.chan /\ q[k].type \in Acts => Vouched(Upto(q, k), p, li, q[k])
Hearing == Hears(toClient, place, listed)

LEMMA NextHearing ==
    ASSUME NEW q, NEW p, NEW li, q = toClient', p = place', li = listed', Hears(q, p, li)
    PROVE  Hearing'
  BY DEF Hearing

LEMMA ActsTold ==
    ASSUME NEW m \in Told, m.type \in Acts
    PROVE  m.id \in Ids
  BY DEF Told, Acts

LEMMA HearsRead ==
    ASSUME NEW q \in Seq(Told), NEW z, NEW p, NEW r, NEW li, NEW lj,
           Hears(q, p, li), Shifted(z, q), r.chan = p.chan,
           \A i \in Ids :
              /\ Mute(q[1], p.chan, i) => r.members[i] = p.members[i]
              /\ Mute(q[1], p.chan, i) \/ Says(q[1], p.chan, i, r.members[i]),
           lj => li \/ Is(q[1], p, "SECTION_LIST")
    PROVE  Hears(z, r, lj)
  <1> SUFFICES ASSUME NEW k \in DOMAIN z, z[k].chan = p.chan, z[k].type \in Acts
               PROVE  Vouched(Upto(z, k), r, lj, z[k])
    BY DEF Hears
  <1>1. k \in Nat \ {0} /\ k + 1 \in DOMAIN q /\ z[k] = q[k + 1] /\ 1 \in DOMAIN q
    BY DEF Shifted
  <1>2. PICK n \in Nat : n = k + 1
    BY <1>1
  <1>3. PICK a, b, m : a = Upto(q, n) /\ b = Upto(z, k) /\ m = z[k]
    OBVIOUS
  <1>4. Vouched(a, p, li, m) /\ m.id \in Ids
    <2>1. m = q[n] /\ n \in DOMAIN q /\ m \in Told
      BY <1>1, <1>2, <1>3, ElementOfSeq
    <2> QED
      BY <1>3, <2>1, ActsTold DEF Hears
  <1>5. /\ \A j : j \in DOMAIN a <=> j \in DOMAIN q /\ j < n
        /\ \A j \in DOMAIN a : a[j] = q[j]
        /\ \A j : j \in DOMAIN b <=> j \in DOMAIN z /\ j < k
        /\ \A j \in DOMAIN b : b[j] = z[j]
    BY <1>3 DEF Upto
  <1>6. 1 \in DOMAIN a /\ a[1] = q[1]
    BY <1>1, <1>2, <1>5
  <1>7. Shifted(b, a)
    <2>1. ASSUME NEW i \in DOMAIN b
          PROVE  i \in Nat \ {0} /\ i \in DOMAIN a /\ i + 1 \in DOMAIN a /\ b[i] = a[i + 1]
      <3>1. i \in DOMAIN z /\ i < k /\ b[i] = z[i]
        BY <1>5
      <3>2. i \in Nat \ {0} /\ i \in DOMAIN q /\ i + 1 \in DOMAIN q /\ z[i] = q[i + 1]
        BY <3>1 DEF Shifted
      <3>3. i < n /\ i + 1 < n
        BY <1>1, <1>2, <3>1, <3>2
      <3> QED
        BY <1>5, <3>1, <3>2, <3>3
    <2>2. ASSUME NEW j \in DOMAIN a
          PROVE  j \in Nat \ {0} /\ (j = 1 \/ (j - 1 \in DOMAIN b /\ b[j - 1] = a[j]))
      <3>1. j \in DOMAIN q /\ j < n /\ a[j] = q[j]
        BY <1>5
      <3>2. j \in Nat \ {0} /\ (j = 1 \/ (j - 1 \in DOMAIN z /\ z[j - 1] = q[j]))
        BY <3>1 DEF Shifted
      <3>3. j - 1 < k
        BY <1>1, <1>2, <3>1, <3>2
      <3> QED
        BY <1>5, <3>1, <3>2, <3>3
    <2> QED
      BY <1>6, <2>1, <2>2 DEF Shifted
  <1>8. CASE Learns(a, p.chan, m.id, p.members[m.id], m.who)
    <2>1. Learns(b, p.chan, m.id, r.members[m.id], m.who)
      BY <1>4, <1>6, <1>7, <1>8, LearnsRead
    <2> QED
      BY <1>3, <2>1 DEF Vouched
  <1>9. CASE ~li /\ \A j \in DOMAIN a : ~Is(a[j], p, "SECTION_LIST")
    <2>1. ~lj
      BY <1>6, <1>9
    <2>2. \A j \in DOMAIN b : ~Is(b[j], r, "SECTION_LIST")
      BY <1>7, <1>9 DEF Shifted, Is
    <2> QED
      BY <1>3, <2>1, <2>2 DEF Vouched
  <1> QED
    BY <1>4, <1>8, <1>9 DEF Vouched

LEMMA HearsTold ==
    ASSUME NEW q \in Seq(Told), NEW z, NEW m, NEW p, NEW li, Hears(q, p, li), Behind(z, q, m),
           \A j \in DOMAIN m : m[j].chan = p.chan /\ m[j].type \in Acts =>
              j = 1 /\ Vouched(q, p, li, m[j])
    PROVE  Hears(z, p, li)
  <1> SUFFICES ASSUME NEW k \in DOMAIN z, z[k].chan = p.chan, z[k].type \in Acts
               PROVE  Vouched(Upto(z, k), p, li, z[k])
    BY DEF Hears
  <1>1. Len(q) \in Nat /\ DOMAIN q = 1..Len(q) /\ q = [j \in DOMAIN q |-> q[j]]
    BY LenProperties
  <1>2. ASSUME NEW j \in DOMAIN z, j <= Len(q)
        PROVE  j \in DOMAIN q /\ z[j] = q[j]
    BY <1>1, <1>2, BehindEach
  <1>3. CASE k \in DOMAIN q
    <2>1. {i \in DOMAIN z : i < k} = {i \in DOMAIN q : i < k}
      <3>1. ASSUME NEW i \in DOMAIN z, i < k PROVE i \in DOMAIN q
        <4>1. i \in Int
          BY <1>1, BehindEach
        <4>2. i <= Len(q)
          BY <1>1, <1>3, <3>1, <4>1
        <4> QED
          BY <1>2, <4>2
      <3>2. \A i \in DOMAIN q : i \in DOMAIN z
        BY DEF Behind
      <3> QED
        BY <3>1, <3>2
    <2>2. Upto(z, k) = Upto(q, k)
      <3>1. \A i \in {i \in DOMAIN q : i < k} : z[i] = q[i]
        BY DEF Behind
      <3> QED
        BY <2>1, <3>1 DEF Upto
    <2>3. z[k] = q[k]
      BY <1>3 DEF Behind
    <2> QED
      BY <1>3, <2>2, <2>3 DEF Hears
  <1>4. CASE k \notin DOMAIN q
    <2>1. PICK j \in DOMAIN m : k = Len(q) + j /\ z[k] = m[j]
      BY <1>4, BehindEach
    <2>2. j = 1 /\ Vouched(q, p, li, z[k])
      BY <2>1
    <2>3. \A i \in DOMAIN z : i \in DOMAIN q <=> i < k
      <3>1. ASSUME NEW i \in DOMAIN z, i < k PROVE i \in DOMAIN q
        <4>1. i \in Int
          BY <1>1, BehindEach
        <4>2. i <= Len(q)
          BY <1>1, <2>1, <2>2, <3>1, <4>1
        <4> QED
          BY <1>2, <4>2
      <3>2. \A i \in DOMAIN q : i < k
        BY <1>1, <2>1, <2>2
      <3> QED
        BY <3>1, <3>2
    <2>4. {i \in DOMAIN z : i < k} = DOMAIN q /\ \A i \in DOMAIN q : z[i] = q[i]
      <3>1. \A i \in DOMAIN q : i \in DOMAIN z /\ z[i] = q[i]
        BY DEF Behind
      <3> QED
        BY <2>3, <3>1
    <2>5. Upto(z, k) = q
      BY <1>1, <2>4 DEF Upto
    <2> QED
      BY <2>2, <2>5
  <1> QED
    BY <1>3, <1>4

LEMMA HearsNone ==
    ASSUME NEW q, NEW p, NEW li, \A k \in DOMAIN q : q[k].chan # p.chan
    PROVE  Hears(q, p, li)
  BY DEF Hears

\* What the server has is what the place will know: it may say who acts.
LEMMA TellHears ==
    ASSUME Inv, Hearing, NEW m \in Seq(Told), Tells(m), UNCHANGED <<place, listed>>,
           \A j \in DOMAIN m : m[j].type \in Acts =>
              /\ j = 1 /\ m[j].chan = peer.chan /\ peer.joined
              /\ m[j].id \in Ids /\ roster[m[j].id] = m[j].who
    PROVE  Hearing'
  <1>1. /\ toClient \in Seq(Told) /\ Hears(toClient, place, listed)
        /\ Follows(toClient, place, peer, roster, listed)
    BY DEF Inv, Typed, Following, Hearing
  <1>2. toClient' \in Seq(Told) /\ Behind(toClient', toClient, m)
    BY <1>1, TellsBehind
  <1>3. ASSUME NEW j \in DOMAIN m, m[j].chan = place.chan, m[j].type \in Acts
        PROVE  Vouched(toClient, place, listed, m[j])
    <2>1. peer.joined /\ peer.chan = place.chan /\ m[j].id \in Ids /\ roster[m[j].id] = m[j].who
      BY <1>3
    <2>2. \/ Learns(toClient, place.chan, m[j].id, place.members[m[j].id], roster[m[j].id])
          \/ ~listed /\ \A k \in DOMAIN toClient : ~Is(toClient[k], place, "SECTION_LIST")
      BY <1>1, <2>1 DEF Follows
    <2> QED
      BY <2>1, <2>2 DEF Vouched
  <1>4. \A j \in DOMAIN m : m[j].chan = place.chan /\ m[j].type \in Acts =>
          j = 1 /\ Vouched(toClient, place, listed, m[j])
    BY <1>3
  <1>5. Hears(toClient', place, listed)
    BY <1>1, <1>2, <1>4, HearsTold
  <1> QED
    BY <1>5, NextHearing

\* One message of a member, or one of another kind.
LEMMA TellOneHears ==
    ASSUME Inv, Hearing, NEW m \in Told, Tells(<<m>>), UNCHANGED <<place, listed>>,
           m.type \in Acts =>
              /\ m.chan = peer.chan /\ peer.joined
              /\ m.id \in Ids /\ roster[m.id] = m.who
    PROVE  Hearing'
  <1>1. PICK s : s = <<m>>
    OBVIOUS
  <1>2. s \in Seq(Told) /\ DOMAIN s = {1} /\ s[1] = m
    BY <1>1, OneMessage
  <1>3. \A j \in DOMAIN s : s[j].type \in Acts =>
          /\ j = 1 /\ s[j].chan = peer.chan /\ peer.joined
          /\ s[j].id \in Ids /\ roster[s[j].id] = s[j].who
    BY <1>2
  <1>4. Tells(s)
    BY <1>1
  <1> QED
    BY <1>2, <1>3, <1>4, TellHears

LEMMA TellNoneHears ==
    ASSUME Inv, Hearing, Tells(<<>>), UNCHANGED <<place, listed>>
    PROVE  Hearing'
  <1>1. PICK s : s = <<>>
    OBVIOUS
  <1>2. s \in Seq(Told) /\ (\A j \in DOMAIN s : FALSE) /\ Tells(s)
    BY <1>1, NoMessage
  <1> QED
    BY <1>2, TellHears

\* The client reads a message, which makes it place r: gone, or as it is told.
LEMMA TakeHears ==
    ASSUME Inv, Hearing, NEW y, Receives(y), NEW r, place' = r,
           \/ r.chan = 0
           \/ /\ r.chan = place.chan
              /\ \A i \in Ids :
                    /\ Mute(Got, place.chan, i) => r.members[i] = place.members[i]
                    /\ Mute(Got, place.chan, i) \/ Says(Got, place.chan, i, r.members[i])
              /\ listed' => listed \/ Is(Got, place, "SECTION_LIST")
    PROVE  Hearing'
  <1>1. /\ toClient \in Seq(Told) /\ Hears(toClient, place, listed) /\ Got = toClient[1]
        /\ toClient' \in Seq(Told) /\ Shifted(toClient', toClient)
    BY Takes DEF Inv, Typed, Hearing
  <1>2. PICK z, lj : z = toClient' /\ lj = listed'
    OBVIOUS
  <1>3. CASE r.chan = 0
    <2>1. \A k \in DOMAIN z : z[k].chan # 0
      BY <1>1, <1>2, ElementOfSeq DEF Told, Chans
    <2> QED
      BY <1>2, <1>3, <2>1, HearsNone, NextHearing
  <1>4. CASE r.chan # 0
    <2>1. Hears(z, r, lj)
      BY <1>1, <1>2, <1>4, HearsRead
    <2> QED
      BY <1>2, <2>1, NextHearing
  <1> QED
    BY <1>3, <1>4

\* What is no news of members, or of another channel.
LEMMA MuteHears ==
    ASSUME Inv, Hearing, NEW y, Receives(y), ~Known \/ y \notin News,
           place'.chan = place.chan, place'.members = place.members, UNCHANGED listed
    PROVE  Hearing'
  <1>1. \A i \in Ids : Mute(Got, place.chan, i)
    BY DEF Receives, Known, Mute, Says, News
  <1> QED
    BY <1>1, TakeHears

\* A member came or went.
LEMMA MemberHears ==
    ASSUME Inv, Hearing, NEW y \in {"PEER_JOIN", "PEER_PART", "SECTION_PART"}, Receives(y), Known,
           NEW v, v = IF y = "PEER_JOIN" THEN Got.who ELSE Nobody,
           y = "PEER_JOIN" => Got.section # 0,
           place'.chan = place.chan, place'.members = [place.members EXCEPT ![Got.id] = v],
           UNCHANGED listed
    PROVE  Hearing'
  <1>1. Got.type = y /\ Got.chan = place.chan /\ place.members \in Tables
    BY DEF Receives, Known, Inv, Typed, PlaceRecord
  <1>2. PICK r : r = place'
    OBVIOUS
  <1>3. \A i \in Ids : r.members[i] = IF i = Got.id THEN v ELSE place.members[i]
    BY <1>1, <1>2 DEF Tables
  <1>4. ASSUME NEW i \in Ids
        PROVE  /\ Mute(Got, place.chan, i) => r.members[i] = place.members[i]
               /\ Mute(Got, place.chan, i) \/ Says(Got, place.chan, i, r.members[i])
    <2>1. CASE i = Got.id
      <3>1. Says(Got, place.chan, i, r.members[i])
        BY <1>1, <1>3, <2>1 DEF Says
      <3> QED
        BY <3>1 DEF Mute
    <2>2. CASE i # Got.id
      BY <1>1, <1>3, <2>2 DEF Mute, Says
    <2> QED
      BY <2>1, <2>2
  <1>5. place' = r /\ r.chan = place.chan
    BY <1>2
  <1> QED
    BY <1>4, <1>5, TakeHears

LEMMA ListHears ==
    ASSUME Inv, Hearing, Receives("SECTION_LIST"), Known, recv_SECTION_LIST
    PROVE  Hearing'
  <1>1. Got.type = "SECTION_LIST" /\ Got.chan = place.chan /\ place \in PlaceRecord
    BY DEF Receives, Known, Inv, Typed
  <1>2. CASE Got.section # place.section
    <2>1. place' = place /\ UNCHANGED listed
      BY <1>2 DEF recv_SECTION_LIST, history
    <2>2. Got \in Told /\ place.section = Section
      BY <1>1, Takes, Told1
    <2> QED
      BY <1>1, <1>2, <2>2 DEF Told
  <1>3. CASE Got.section = place.section
    <2>1. PICK r, t : /\ r = place'
                      /\ t = [i \in Ids |-> IF Got.members[i] # Nobody THEN Got.members[i]
                                                                      ELSE place.members[i]]
      OBVIOUS
    <2>2. PICK p : p = [place EXCEPT !.members =
                          [i \in Ids |-> IF Got.members[i] # Nobody THEN Got.members[i] ELSE @[i]]]
      OBVIOUS
    <2>3. p.chan = place.chan /\ p.members = t /\ DOMAIN p = DOMAIN place
      BY <1>1, <2>1, <2>2 DEF PlaceRecord
    <2>4. r = p \/ r = [p EXCEPT !.state = "OPEN"]
      BY <1>3, <2>1, <2>2 DEF recv_SECTION_LIST, place_opened
    <2>5. r.chan = place.chan /\ r.members = t
      <3>1. r = p => r.chan = place.chan /\ r.members = t
        BY <2>3
      <3>2. r = [p EXCEPT !.state = "OPEN"] => r.chan = place.chan /\ r.members = t
        BY <1>1, <2>1, <2>2 DEF PlaceRecord
      <3> QED
        BY <2>4, <3>1, <3>2
    <2>6. ASSUME NEW i \in Ids
          PROVE  /\ Mute(Got, place.chan, i) => r.members[i] = place.members[i]
                 /\ Mute(Got, place.chan, i) \/ Says(Got, place.chan, i, r.members[i])
      <3>1. CASE Got.members[i] # Nobody
        <4>1. Says(Got, place.chan, i, r.members[i])
          BY <1>1, <2>1, <2>5, <3>1 DEF Says
        <4> QED
          BY <4>1 DEF Mute
      <3>2. CASE Got.members[i] = Nobody
        BY <1>1, <2>1, <2>5, <3>2 DEF Mute, Says
      <3> QED
        BY <3>1, <3>2
    <2>7. Is(Got, place, "SECTION_LIST") /\ place' = r
      BY <1>1, <2>1 DEF Is
    <2> QED
      BY <2>5, <2>6, <2>7, TakeHears
  <1> QED
    BY <1>2, <1>3

LEMMA HandleHears ==
    ASSUME Inv, Hearing, Handle
    PROVE  Hearing'
  <1>1. place \in PlaceRecord
    BY DEF Inv, Typed
  <1>2. ASSUME NEW y, Receives(y), ~Known, UNCHANGED <<place, copen, outq, toServer, history>>
        PROVE  Hearing'
    BY <1>2, MuteHears DEF history
  <1>3. ASSUME NEW y, y \notin News, Receives(y), UNCHANGED <<place, history>>
        PROVE  Hearing'
    BY <1>3, MuteHears DEF history
  <1>4. CASE recv_channelAccept
    <2>1. ASSUME Receives("ACCEPT"), send_JOIN_PLACE PROVE Hearing'
      <3>1. place'.chan = place.chan /\ place'.members = place.members /\ UNCHANGED listed
        BY <1>1, <2>1 DEF send_JOIN_PLACE, history, PlaceRecord
      <3> QED
        BY <2>1, <3>1, MuteHears DEF News
    <2> QED
      BY <1>2, <1>4, <2>1 DEF recv_channelAccept, Dispatch
  <1>5. CASE recv_channelDestroy
    <2>1. ASSUME Receives("DESTROY"), place_free PROVE Hearing'
      <3>1. PICK r : r = place'
        OBVIOUS
      <3>2. r.chan = 0
        BY <2>1, <3>1 DEF place_free, NoPlace
      <3> QED
        BY <2>1, <3>1, <3>2, TakeHears
    <2> QED
      BY <1>2, <1>5, <2>1 DEF recv_channelDestroy, Dispatch
  <1>6. CASE Dispatch("JOIN_RESPONSE", recv_JOIN_RESPONSE)
    <2>1. ASSUME Receives("JOIN_RESPONSE"), recv_JOIN_RESPONSE PROVE Hearing'
      <3>1. place'.chan = place.chan /\ place'.members = place.members /\ UNCHANGED listed
        BY <1>1, <2>1 DEF recv_JOIN_RESPONSE, history, PlaceRecord
      <3> QED
        BY <2>1, <3>1, MuteHears DEF News
    <2> QED
      BY <1>2, <1>6, <2>1 DEF Dispatch
  <1>7. CASE Dispatch("INFO", recv_INFO)
    <2>1. ASSUME Receives("INFO"), recv_INFO PROVE Hearing'
      <3>1. place'.chan = place.chan /\ place'.members = place.members /\ UNCHANGED listed
        BY <1>1, <2>1 DEF recv_INFO, send_SECTION_LIST, history, PlaceRecord
      <3> QED
        BY <2>1, <3>1, MuteHears DEF News
    <2> QED
      BY <1>2, <1>7, <2>1 DEF Dispatch
  <1>8. CASE \/ Dispatch("MESSAGE", recv_MESSAGE)
             \/ Dispatch("PEER_SET_ATTR", recv_SECTION_PEER_SET_ATTR)
             \/ Dispatch("PEER_CLEAR_ATTR", recv_SECTION_PEER_CLEAR_ATTR)
    BY <1>2, <1>3, <1>8 DEF Dispatch, recv_MESSAGE, recv_SECTION_PEER_SET_ATTR,
                            recv_SECTION_PEER_CLEAR_ATTR, News
  <1>9. CASE Dispatch("SECTION_LIST", recv_SECTION_LIST)
    BY <1>2, <1>9, ListHears DEF Dispatch
  <1>10. CASE Dispatch("SECTION_PART", recv_SECTION_PART)
    <2>1. ASSUME Receives("SECTION_PART"), Known, recv_SECTION_PART PROVE Hearing'
      <3>1. /\ place'.chan = place.chan /\ UNCHANGED listed
            /\ place'.members = [place.members EXCEPT ![Got.id] = Nobody]
        BY <1>1, <2>1 DEF recv_SECTION_PART, history, PlaceRecord
      <3> QED
        BY <2>1, <3>1, MemberHears
    <2> QED
      BY <1>2, <1>10, <2>1 DEF Dispatch
  <1>11. CASE Dispatch("PEER_PART", recv_SECTION_PEER_PART)
    <2>1. ASSUME Receives("PEER_PART"), Known, recv_SECTION_PEER_PART PROVE Hearing'
      <3>1. Got.section = Section /\ place.section = Section
        <4>1. Got \in Told /\ Got.type = "PEER_PART"
          BY <2>1, Takes
        <4>2. place.section = Section
          BY <2>1, Told1
        <4> QED
          BY <4>1, <4>2 DEF Told
      <3>2. /\ place'.chan = place.chan /\ UNCHANGED listed
            /\ place'.members = [place.members EXCEPT ![Got.id] = Nobody]
        BY <1>1, <2>1, <3>1 DEF recv_SECTION_PEER_PART, history, PlaceRecord
      <3> QED
        BY <2>1, <3>2, MemberHears
    <2> QED
      BY <1>2, <1>11, <2>1 DEF Dispatch
  <1>12. CASE Dispatch("PEER_JOIN", recv_SECTION_PEER_JOIN)
    <2>1. ASSUME Receives("PEER_JOIN"), Known, recv_SECTION_PEER_JOIN, Got.section # 0
          PROVE  Hearing'
      <3>1. PICK p : p = [place EXCEPT !.members[Got.id] = Got.who]
        OBVIOUS
      <3>2. /\ p.chan = place.chan /\ p.members = [place.members EXCEPT ![Got.id] = Got.who]
            /\ DOMAIN p = DOMAIN place
        BY <1>1, <3>1 DEF PlaceRecord
      <3>3. (place' = p \/ place' = [p EXCEPT !.state = "OPEN"]) /\ UNCHANGED listed
        BY <2>1, <3>1 DEF recv_SECTION_PEER_JOIN, OpenedIfSelf, place_opened
      <3>4. /\ place'.chan = place.chan /\ UNCHANGED listed
            /\ place'.members = [place.members EXCEPT ![Got.id] = Got.who]
        BY <1>1, <3>2, <3>3 DEF PlaceRecord
      <3> QED
        BY <2>1, <3>4, MemberHears
    <2>2. ASSUME Receives("PEER_JOIN"), recv_SECTION_PEER_JOIN, Got.section = 0
          PROVE  Hearing'
      <3>1. \A i \in Ids : Mute(Got, place.chan, i)
        BY <2>2 DEF Receives, Mute, Says
      <3>2. UNCHANGED <<place, listed>>
        BY <2>2 DEF recv_SECTION_PEER_JOIN
      <3> QED
        BY <2>2, <3>1, <3>2, TakeHears
    <2> QED
      BY <1>2, <1>12, <2>1, <2>2 DEF Dispatch
  <1> QED
    BY <1>4, <1>5, <1>6, <1>7, <1>8, <1>9, <1>10, <1>11, <1>12
       DEF Handle, recv, recv_SECTION, recv_SECTION_PEER

LEMMA ReadsHear ==
    ASSUME Inv, Hearing, ServerReads
    PROVE  Hearing'
  <1>1. /\ toServer[1] = Head(toServer) /\ toServer[1].chan \in Chans /\ UNCHANGED <<place, listed>>
        /\ roster \in Tables
    BY Reading DEF Inv, Typed, history
  <1>2. PICK h : h = toServer[1] /\ h = Head(toServer) /\ h.chan \in Chans
    BY <1>1
  <1>3. ASSUME UNCHANGED toClient PROVE Hearing'
    BY <1>1, <1>3, NextHearing DEF Hearing
  <1>4. CASE \E y \in {"ACCEPT", "DESTROY"} : Tells(<<Msg(y, h.chan)>>)
    <2>1. PICK y \in {"ACCEPT", "DESTROY"} : Tells(<<Msg(y, h.chan)>>)
      BY <1>4
    <2>2. Msg(y, h.chan) \in Told /\ Msg(y, h.chan).type \notin Acts
      BY <1>2 DEF Msg, Told, Acts
    <2> QED
      BY <1>1, <2>1, <2>2, TellOneHears
  <1>5. CASE Tells(<<SectionList(h.chan, roster)>>)
    <2>1. SectionList(h.chan, roster) \in Told /\ SectionList(h.chan, roster).type \notin Acts
      BY <1>1, <1>2 DEF SectionList, Told, Acts
    <2> QED
      BY <1>1, <1>5, <2>1, TellOneHears
  <1>6. CASE h.chan = peer.chan /\ peer.joined /\ Tells(<<Peer("MESSAGE", h.chan, IdOf(Me), Me)>>)
    <2>1. Inside(Me)
      BY <1>6 DEF Inv, Seated, Inside
    <2>2. PICK m : m = Peer("MESSAGE", h.chan, IdOf(Me), Me)
      OBVIOUS
    <2>3. m \in Told /\ m.chan = peer.chan /\ m.id \in Ids /\ roster[m.id] = m.who
      BY <1>2, <1>6, <2>1, <2>2, IdOfUser DEF Peer, Told
    <2>4. Tells(<<m>>)
      BY <1>6, <2>2
    <2> QED
      BY <1>1, <1>6, <2>3, <2>4, TellOneHears
  <1>7. CASE h.type = "JOIN_PLACE" /\ h.chan = peer.chan /\ ServerJoins(h.chan)
    <2>1. PICK c, f : c = h.chan /\ f = FreeId
      OBVIOUS
    <2>2. PICK echo \in {<<>>} \cup {<<g>> : g \in Greetings(c, f)} :
            Tells(<<JoinResponse(c, f)>> \o echo \o <<OnSection("INFO", c, 0)>>)
      BY <1>7, <2>1 DEF ServerJoins
    <2>3. PICK m : m = <<JoinResponse(c, f)>> \o echo \o <<OnSection("INFO", c, 0)>>
      OBVIOUS
    <2>4. f \in Ids
      <3>1. ~peer.joined
        BY <1>2, <1>7, Reading
      <3>2. \A i \in Ids : roster[i] # Me
        BY <3>1 DEF Inv, Seated
      <3> QED
        BY <1>1, <2>1, <3>2, SeatFree DEF Inv, Seated
    <2>5. PICK a, b : a = JoinResponse(c, f) /\ b = OnSection("INFO", c, 0)
      OBVIOUS
    <2>6. a \in Told /\ a.type \notin Acts /\ b \in Told /\ b.type \notin Acts
      BY <1>2, <2>1, <2>4, <2>5 DEF JoinResponse, OnSection, Told, Acts
    <2>7. m \in Seq(Told) /\ \A j \in DOMAIN m : m[j].type \notin Acts
      <3>1. CASE echo = <<>>
        <4>1. m = <<a>> \o <<>> \o <<b>>
          BY <2>3, <2>5, <3>1
        <4>2. m \in Seq(Told) /\ DOMAIN m = {1, 2} /\ m[1] = a /\ m[2] = b
          BY <2>6, <4>1
        <4> QED
          BY <2>6, <4>2
      <3>2. CASE \E g \in Greetings(c, f) : echo = <<g>>
        <4>1. PICK d \in Greetings(c, f) : echo = <<d>>
          BY <3>2
        <4>2. d \in Told /\ d.type \notin Acts
          BY <1>2, <2>1, <2>4, <4>1, GreetingsTold DEF Acts
        <4>3. m = <<a>> \o <<d>> \o <<b>>
          BY <2>3, <2>5, <4>1
        <4>4. m \in Seq(Told) /\ DOMAIN m = {1, 2, 3} /\ m[1] = a /\ m[2] = d /\ m[3] = b
          BY <2>6, <4>2, <4>3
        <4> QED
          BY <2>6, <4>2, <4>4
      <3> QED
        BY <2>2, <3>1, <3>2
    <2> QED
      BY <1>1, <2>2, <2>3, <2>7, TellHears
  <1>8. CASE ServerDrops(<<>>)
    BY <1>1, <1>8, TellNoneHears DEF ServerDrops
  <1> QED
    BY <1>2, <1>3, <1>4, <1>5, <1>6, <1>7, <1>8 DEF ServerReads

LEMMA NextHears ==
    ASSUME Inv, Hearing, [Next]_vars
    PROVE  Hearing'
  <1>1. /\ place \in PlaceRecord /\ toClient \in Seq(Told) /\ roster \in Tables
        /\ Hears(toClient, place, listed) /\ Line(toServer, toClient, place, peer, nplaces)
        /\ \A k \in DOMAIN toClient : toClient[k].chan # 0
    <2>1. toClient \in Seq(Told)
      BY DEF Inv, Typed
    <2>2. \A k \in DOMAIN toClient : toClient[k].chan # 0
      BY <2>1, ElementOfSeq DEF Told, Chans
    <2> QED
      BY <2>1, <2>2 DEF Inv, Typed, Wired, Hearing
  <1>2. ASSUME UNCHANGED <<toClient, place, listed>> PROVE Hearing'
    BY <1>1, <1>2, NextHearing
  <1>3. ASSUME toClient' = toClient \/ toClient' = <<>>, place'.chan = 0 PROVE Hearing'
    <2>1. PICK q, p, li : q = toClient' /\ p = place' /\ li = listed'
      OBVIOUS
    <2>2. \A k \in DOMAIN q : q[k].chan # p.chan
      <3>1. CASE q = toClient
        BY <1>1, <1>3, <2>1, <3>1
      <3>2. CASE q = <<>>
        BY <3>2, NoMessage
      <3> QED
        BY <1>3, <2>1, <3>1, <3>2
    <2> QED
      BY <2>1, <2>2, HearsNone, NextHearing
  <1>4. CASE UNCHANGED vars
    BY <1>2, <1>4 DEF vars, history
  <1>5. CASE mwPlace_new
    <2>1. UNCHANGED toClient /\ place'.chan = 0
      BY <1>5 DEF mwPlace_new, NoPlace
    <2> QED
      BY <1>3, <2>1
  <1>6. CASE mwPlace_open
    <2>1. PICK q, p, li : q = toClient' /\ p = place' /\ li = listed'
      OBVIOUS
    <2>2. q = toClient /\ p.chan \in {place.chan, nplaces} /\ place.state = "NEW"
      BY <1>1, <1>6, <2>1 DEF mwPlace_open, PlaceRecord
    <2>3. place.chan = 0
      BY <2>2 DEF Inv, Stage
    <2>4. \A k \in DOMAIN toClient : toClient[k].chan # nplaces
      <3>1. nplaces \in Nat
        BY BoundsAssumption DEF Inv, Typed
      <3>2. \A k \in DOMAIN toClient : toClient[k].chan < nplaces
        BY <1>1, <2>2 DEF Line
      <3> QED
        BY <3>1, <3>2
    <2>5. \A k \in DOMAIN q : q[k].chan # p.chan
      BY <1>1, <2>2, <2>3, <2>4
    <2> QED
      BY <2>1, <2>5, HearsNone, NextHearing
  <1>7. CASE mwPlace_destroy \/ stop
    <2>1. (toClient' = toClient \/ toClient' = <<>>) /\ place'.chan = 0
      BY <1>7 DEF mwPlace_destroy, stop, place_free, NoPlace
    <2> QED
      BY <1>3, <2>1
  <1>8. CASE \/ mwPlace_sendText \/ mwPlace_setAttribute
             \/ mwPlace_unsetAttribute \/ mwPlace_legacyInvite
    <2>1. UNCHANGED <<toClient, place, listed>>
      BY <1>8 DEF mwPlace_sendText, mwPlace_setAttribute, mwPlace_unsetAttribute,
                  mwPlace_legacyInvite, history
    <2> QED
      BY <1>2, <2>1
  <1>9. ASSUME Event
        PROVE  /\ UNCHANGED <<place, listed>> /\ (peer.joined => peer.chan \in Chans)
               /\ peer \in [chan : {0} \cup Chans, joined : BOOLEAN]
    BY <1>9, EventKeeps DEF history
  <1>10. CASE \E u \in Peers : PeerJoins(u)
    <2>1. PICK u \in Peers : PeerJoins(u)
      BY <1>10
    <2>2. CASE peer.joined
      <3>1. PICK m : m = PeerJoin(peer.chan, FreeId, u, Section)
        OBVIOUS
      <3>2. Event /\ Tells(<<m>>) /\ FreeId \in Ids
        <4>1. \A i \in Ids : roster[i] # u
          BY <2>1 DEF PeerJoins, Inside
        <4>2. FreeId \in Ids
          BY <1>1, <4>1, SeatFree DEF Inv, Seated
        <4> QED
          BY <2>1, <2>2, <3>1, <4>2 DEF PeerJoins, TellsMember
      <3>3. m \in Told /\ m.type \notin Acts
        BY <1>9, <2>2, <3>1, <3>2 DEF PeerJoin, Told, Acts
      <3> QED
        BY <1>9, <3>2, <3>3, TellOneHears
    <2>3. CASE ~peer.joined
      <3>1. Event /\ Tells(<<>>)
        BY <2>1, <2>3 DEF PeerJoins, TellsMember
      <3> QED
        BY <1>9, <3>1, TellNoneHears
    <2> QED
      BY <2>2, <2>3
  <1>11. CASE \E u \in Peers : PeerParts(u)
    <2>1. PICK u \in Peers : PeerParts(u)
      BY <1>11
    <2>2. CASE peer.joined
      <3>1. PICK a, b : /\ a = Peer("SECTION_PART", peer.chan, IdOf(u), u)
                        /\ b = [type |-> "PEER_PART", chan |-> peer.chan,
                                id |-> IdOf(u), who |-> u, section |-> Section]
        OBVIOUS
      <3>2. Event /\ Tells(<<a, b>>) /\ IdOf(u) \in Ids
        BY <2>1, <2>2, <3>1, IdOfUser DEF PeerParts, TellsMember
      <3>3. a \in Told /\ a.type \notin Acts /\ b \in Told /\ b.type \notin Acts
        BY <1>9, <2>2, <3>1, <3>2 DEF Peer, Told, Acts
      <3>4. PICK s : s = <<a, b>>
        OBVIOUS
      <3>5. s \in Seq(Told) /\ DOMAIN s = {1, 2} /\ s[1] = a /\ s[2] = b
        BY <3>3, <3>4
      <3>6. (\A j \in DOMAIN s : s[j].type \notin Acts) /\ Tells(s)
        BY <3>2, <3>3, <3>4, <3>5
      <3> QED
        BY <1>9, <3>2, <3>5, <3>6, TellHears
    <2>3. CASE ~peer.joined
      <3>1. Event /\ Tells(<<>>)
        BY <2>1, <2>3 DEF PeerParts, TellsMember
      <3> QED
        BY <1>9, <3>1, TellNoneHears
    <2> QED
      BY <2>2, <2>3
  <1>12. CASE \E u \in Peers : PeerActs(u)
    <2>1. PICK u \in Peers : PeerActs(u)
      BY <1>12
    <2>2. PICK y \in Acts : Tells(<<Peer(y, peer.chan, IdOf(u), u)>>)
      BY <2>1 DEF PeerActs
    <2>3. Event /\ peer.joined /\ IdOf(u) \in Ids /\ roster[IdOf(u)] = u
      BY <2>1, IdOfUser DEF PeerActs
    <2>4. PICK m : m = Peer(y, peer.chan, IdOf(u), u)
      OBVIOUS
    <2>5. m \in Told /\ m.chan = peer.chan /\ m.id \in Ids /\ roster[m.id] = m.who
      BY <1>9, <2>3, <2>4 DEF Peer, Told, Acts
    <2>6. Tells(<<m>>)
      BY <2>2, <2>4
    <2> QED
      BY <1>9, <2>3, <2>5, <2>6, TellOneHears
  <1>13. CASE ServerInforms
    <2>1. PICK sec \in {0, Section} : Tells(<<OnSection("INFO", peer.chan, sec)>>)
      BY <1>13 DEF ServerInforms
    <2>2. Event /\ peer.joined
      BY <1>13 DEF ServerInforms
    <2>3. PICK m : m = OnSection("INFO", peer.chan, sec)
      OBVIOUS
    <2>4. m \in Told /\ m.type \notin Acts /\ Tells(<<m>>)
      BY <1>9, <2>1, <2>2, <2>3 DEF OnSection, Told, Acts
    <2> QED
      BY <1>9, <2>2, <2>4, TellOneHears
  <1>14. CASE ServerGreets
    <2>1. PICK g \in Greetings(peer.chan, IdOf(Me)) : Tells(<<g>>)
      BY <1>14 DEF ServerGreets
    <2>2. Event /\ peer.joined /\ IdOf(Me) \in Ids
      BY <1>14, IdOfUser DEF ServerGreets, Inv, Seated, Inside
    <2>3. g \in Told /\ g.type = "PEER_JOIN"
      BY <1>9, <2>1, <2>2, GreetingsTold
    <2>4. g.type \notin Acts
      BY <2>3 DEF Acts
    <2> QED
      BY <1>9, <2>1, <2>2, <2>3, <2>4, TellOneHears
  <1>15. CASE ServerKicks
    <2>1. Event /\ peer.chan # 0 /\ Tells(<<Msg("DESTROY", peer.chan)>>)
      BY <1>15 DEF ServerKicks, ServerDrops
    <2>2. Msg("DESTROY", peer.chan) \in Told /\ Msg("DESTROY", peer.chan).type \notin Acts
      BY <1>9, <2>1 DEF Msg, Told, Acts
    <2> QED
      BY <1>9, <2>1, <2>2, TellOneHears
  <1>16. CASE LinkBreaks
    BY <1>9, <1>16, TellNoneHears DEF LinkBreaks, ServerDrops
  <1> QED
    BY <1>4, <1>5, <1>6, <1>7, <1>8, <1>10, <1>11, <1>12, <1>13, <1>14, <1>15, <1>16,
       HandleHears, ReadsHear DEF Next

\* The place, its channel and the queue of the channel fit together in every
\* state, and between two descriptions of the place (recv_INFO) no more than one
\* SECTION_LIST makes place_opened call handler->opened, wherever the PEER_JOINs
\* of ourselves come: before the INFO, before the list or behind it.
THEOREM PlaceCorrect == Spec => []PlaceConsistent
  <1>1. Inv => PlaceConsistent
    <2> SUFFICES ASSUME Inv PROVE PlaceConsistent
      OBVIOUS
    <2>1. Typed /\ Stage
      BY DEF Inv
    <2>2. TypeOK
      BY <2>1 DEF Typed, Stage, TypeOK
    <2>3. OpenedOnce
      <3>1. place.state \in mwPlaceState \cup {"NONE"} /\ opened \in Nat /\ greeted \in Nat
        BY <2>1 DEF Typed, PlaceRecord
      <3> QED
        BY <2>1, <3>1 DEF Stage, OpenedOnce
    <2> QED
      BY <2>2, <2>3 DEF PlaceConsistent
  <1> QED
    BY <1>1, InitInv, NextInv, PTL DEF Spec

\* When a place was sent the list of its members, and no more news of members
\* is on its way, its table (recv_SECTION_LIST, recv_SECTION_PEER_JOIN,
\* recv_SECTION_PART) is the server's, for any number of users, places and
\* events.
THEOREM MembersCorrect == Spec => []MembersAgree
  <1>1. Inv => MembersAgree
    <2> SUFFICES ASSUME Inv, listed, peer.joined, peer.chan = place.chan,
                        \A i \in DOMAIN toClient : toClient[i].type \notin News
                 PROVE  place.members = roster
      BY DEF MembersAgree
    <2>1. place.members \in Tables /\ roster \in Tables
      BY DEF Inv, Typed, PlaceRecord
    <2>2. Follows(toClient, place, peer, roster, listed)
      BY DEF Inv, Following
    <2>3. ASSUME NEW i \in Ids PROVE place.members[i] = roster[i]
      <3>1. Learns(toClient, place.chan, i, place.members[i], roster[i])
        BY <2>2 DEF Follows
      <3>2. \A k \in DOMAIN toClient : \A v : ~Says(toClient[k], place.chan, i, v)
        BY DEF Says, News
      <3> QED
        BY <3>1, <3>2 DEF Learns, LastSaid
    <2> QED
      BY <2>1, <2>3 DEF Tables
  <1> QED
    BY <1>1, InitInv, NextInv, PTL DEF Spec

\* Who speaks, or sets or clears an attribute, is found under its id
\* (GET_MEMBER in recv_MESSAGE, recv_SECTION_PEER_SET_ATTR and
\* recv_SECTION_PEER_CLEAR_ATTR) once the list came, however joins and parts
\* crossed the list and ids were used again.
THEOREM SpeakerCorrect == Spec => []SpeakerKnown
  <1>1. Inv /\ Hearing => SpeakerKnown
    <2> SUFFICES ASSUME Inv, Hearing, toClient # <<>>, Known, listed, Got.type \in Acts
                 PROVE  place.members[Got.id] = Got.who
      BY DEF SpeakerKnown
    <2>1. toClient \in Seq(Told) /\ Hears(toClient, place, listed)
      BY DEF Inv, Typed, Hearing
    <2>2. Got = toClient[1] /\ 1 \in DOMAIN toClient
      BY <2>1, TailShifted DEF Got
    <2>3. Vouched(Upto(toClient, 1), place, listed, Got)
      BY <2>1, <2>2 DEF Hears, Known
    <2>4. ~ \E j : j \in DOMAIN Upto(toClient, 1)
      <3>1. DOMAIN toClient = 1..Len(toClient)
        BY <2>1, LenProperties
      <3> QED
        BY <3>1 DEF Upto
    <2> QED
      BY <2>3, <2>4 DEF Vouched, Learns, LastSaid
  <1>2. Init => Hearing
    <2>1. ASSUME Init PROVE Hearing
      <3>1. \A k \in DOMAIN toClient : FALSE
        BY <2>1, NoMessage DEF Init
      <3> QED
        BY <3>1, HearsNone DEF Hearing
    <2> QED
      BY <2>1
  <1> QED
    BY <1>1, <1>2, InitInv, NextInv, NextHears, PTL DEF Spec

=============================================================================
