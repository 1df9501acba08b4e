--------------------------- MODULE SessionProofs ---------------------------
(***************************************************************************)
(* Proofs about the session and the channels of its services.              *)
(*                                                                         *)
(* SessionConsistent and ChannelsAgree are not inductive.  That a LOGIN_ACK*)
(* starts the services of a session that is waiting for it, and of no      *)
(* other, rests on what else may be on the wire (Login); that an accept    *)
(* finds its channel waiting, and that a quiet connection leaves no        *)
(* channel at one end only, on what the messages in flight say of each     *)
(* channel (Agree); that stopping the registered services leaves no        *)
(* channel behind, on whose every channel is (Owned).  Typed and Wired     *)
(* complete the inductive invariant Inv.                                   *)
(*                                                                         *)
(* Agree is a statement about one channel (AgreeOn), and every step of     *)
(* client, server or network writes, answers, takes or loses messages: the *)
(* lemmas of the first half say, for values, what each of these does to    *)
(* one channel and to the login, and those of the second half put them     *)
(* together for each action.                                               *)
(*                                                                         *)
(* The theorems are about clients that stop a service before they remove   *)
(* it (StopBeforeRemove): a live service that is removed is none of those  *)
(* mwSession_stop stops.                                                   *)
(***************************************************************************)
EXTENDS Session, SequenceTheorems, FunctionTheorems, FiniteSetTheorems, TLAPS

-----------------------------------------------------------------------------
(* The inductive invariant, in five parts.                                 *)

LoginType == {"HANDSHAKE_ACK", "LOGIN_ACK", "LOGIN_REDIRECT"}

\* What the client may have written, and the server.
Written ==
    {Master(t) : t \in {"HANDSHAKE", "LOGIN", "LOGIN_CONTINUE"}}
      \cup {Msg("SENSE", None, s) : s \in Services}
      \cup {Msg("DESTROY", c, None) : c \in Chan}
      \cup [type : {"CREATE"}, chan : Chan, srvc : Channelled]
Answered ==
    {Master(t) : t \in LoginType \cup {"DESTROY"}}
      \cup {Msg("SENSE", None, s) : s \in Services}
      \cup [type : {"ACCEPT", "DESTROY"}, chan : Chan, srvc : {None}]

\* TypeOK without the messages.
Typed ==
    /\ state \in SessionState
    /\ services \subseteq Services
    /\ sstate \in [Services -> ServiceState]
    /\ schan \in [Services -> Chan \cup {None}]
    /\ chan \in [Chan -> [st : {"none", "WAIT", "OPEN"},
                         srvc : Channelled \cup {None}]]
    /\ conn \in {"closed", "up", "broken"}
    /\ srvChans \subseteq Chan
    /\ breaks \in 0..MaxBreaks

\* A session has a connection unless it is STOPPED; one that is not up carries
\* nothing to the server, and the server knows of no channel on it.
Wired ==
    /\ toServer \in Seq(Written) /\ toClient \in Seq(Answered)
    /\ state = "STOPPED" <=> conn = "closed"
    /\ conn # "up" => toServer = <<>> /\ srvChans = {}
    /\ conn = "closed" => toClient = <<>>

\* A channel belongs to the service that points to it, and a channelled
\* service that is live points to one; only registered services of a STARTED
\* session are live.
Owned ==
    /\ \A c \in Chan : chan[c] # NoChan =>
          /\ chan[c].srvc \in Channelled
          /\ schan[chan[c].srvc] = c
          /\ \/ chan[c].st = "WAIT" /\ sstate[chan[c].srvc] = "STARTING"
             \/ chan[c].st = "OPEN" /\ sstate[chan[c].srvc] = "STARTED"
    /\ \A s \in Services :
          /\ s \in Channelled /\ sstate[s] \in Live =>
                /\ schan[s] \in Chan
                /\ chan[schan[s]].srvc = s /\ chan[schan[s]] # NoChan
          /\ s \in Plain \/ sstate[s] \notin Live => schan[s] = None
          /\ sstate[s] \in Live => s \in services /\ state = "STARTED"

\* The question of the login that a state waits for an answer to.
Question(st) ==
    CASE st = "HANDSHAKE" -> {"HANDSHAKE"}
      [] st = "LOGIN" -> {"LOGIN"}
      [] st = "LOGIN_CONT" -> {"LOGIN_CONTINUE"}
      [] OTHER -> {}

Answers(st) ==
    CASE st = "HANDSHAKE" -> {"HANDSHAKE_ACK"}
      [] st = "LOGIN" -> {"LOGIN_ACK", "LOGIN_REDIRECT"}
      [] st = "LOGIN_CONT" -> {"HANDSHAKE_ACK", "LOGIN_ACK"}
      [] OTHER -> {}

\* The login is a sequence of questions and answers: until it is over nothing
\* else is sent, and the answers on their way are those to the last question.
LoginOK(st, ts, tc) ==
    /\ \A i \in DOMAIN tc : tc[i].type \in LoginType =>
          /\ tc[i].type \in Answers(st)
          /\ ts = <<>>
          /\ \A j \in DOMAIN tc : tc[j].type \in LoginType /\ j # i =>
                /\ st = "LOGIN_CONT"
                /\ j < i => tc[j].type = "HANDSHAKE_ACK" /\ tc[i].type = "LOGIN_ACK"
    /\ st = "STARTED" =>
          \A i \in DOMAIN ts : ts[i].type \in {"SENSE", "CREATE", "DESTROY"}
    /\ st # "STARTED" =>
          /\ \A i \in DOMAIN ts : DOMAIN ts = {1} /\ ts[i].type \in Question(st)
          /\ \A i \in DOMAIN tc :
                tc[i].type \in LoginType \cup {"DESTROY"} /\ tc[i].chan = None

\* A message of this type about channel c.
In(q, type, c) == \E i \in DOMAIN q : q[i].type = type /\ q[i].chan = c

\* What the client, the queues and the server hold of channel c.
AgreeOn(c, x, ts, tc, S, u) ==
    /\ In(ts, "DESTROY", c) => x = "none"
    /\ \A i \in DOMAIN ts : ts[i].type = "CREATE" /\ ts[i].chan = c =>
          /\ c \notin S
          /\ \A j \in DOMAIN tc : tc[j].chan # c
          /\ \A j \in DOMAIN ts : ts[j].chan = c /\ j # i =>
                j > i /\ ts[j].type = "DESTROY"
          /\ x = "WAIT" \/ In(ts, "DESTROY", c)
    /\ u = "up" /\ x # "none" =>
          In(ts, "CREATE", c) \/ c \in S \/ In(tc, "DESTROY", c)
    /\ c \in S => /\ x # "none" \/ In(ts, "DESTROY", c)
                  /\ ~In(tc, "DESTROY", c)
    /\ u = "up" /\ x = "WAIT" =>
          In(ts, "CREATE", c) \/ In(tc, "ACCEPT", c) \/ In(tc, "DESTROY", c)
    /\ \A i \in DOMAIN tc : tc[i].type = "ACCEPT" /\ tc[i].chan = c =>
          /\ x \in {"none", "WAIT"}
          /\ \A j \in DOMAIN tc : tc[j].type = "ACCEPT" /\ tc[j].chan = c => j = i

Login == LoginOK(state, toServer, toClient)
Agree == \A c \in Chan : AgreeOn(c, chan[c].st, toServer, toClient, srvChans, conn)

Inv == Typed /\ Wired /\ Owned /\ Login /\ Agree

-----------------------------------------------------------------------------
(* What a step does to a queue: something is put behind it, its first      *)
(* message is taken off, or only its beginning is left.                    *)

Behind(t, s, m) ==
    /\ Len(s) \in Nat
    /\ \A i \in DOMAIN s : i \in 1..Len(s) /\ i \in DOMAIN t /\ t[i] = s[i]
    /\ \A j \in DOMAIN m : j \in Nat \ {0} /\ Len(s) + j \in DOMAIN t /\ t[Len(s) + j] = m[j]
    /\ \A i \in DOMAIN t : i \in DOMAIN s \/ \E j \in DOMAIN m : i = Len(s) + j

Shifted(t, s) ==
    /\ 1 \in DOMAIN s
    /\ \A i \in DOMAIN t : i \in Nat \ {0} /\ i + 1 \in DOMAIN s /\ t[i] = s[i + 1]
    /\ \A j \in DOMAIN s :
         j \in Nat \ {0} /\ (j = 1 \/ (j - 1 \in DOMAIN t /\ t[j - 1] = s[j]))

Begins(t, s) == \A i \in DOMAIN t : i \in DOMAIN s /\ t[i] = s[i]

LEMMA ConcatBehind ==
    ASSUME NEW A, NEW s \in Seq(A), NEW m \in Seq(A)
    PROVE  s \o m \in Seq(A) /\ Behind(s \o m, s, m)
  <1>1. /\ s \o m \in Seq(A) /\ Len(s \o m) = Len(s) + Len(m)
        /\ \A i \in 1..(Len(s) + Len(m)) :
             (s \o m)[i] = IF i <= Len(s) THEN s[i] ELSE m[i - Len(s)]
    BY ConcatProperties
  <1>2. /\ Len(s) \in Nat /\ DOMAIN s = 1..Len(s)
        /\ Len(m) \in Nat /\ DOMAIN m = 1..Len(m)
        /\ DOMAIN (s \o m) = 1..(Len(s) + Len(m))
    BY <1>1, LenProperties
  <1>3. PICK t : t = s \o m
    OBVIOUS
  <1>4. ASSUME NEW i \in DOMAIN t
        PROVE  i \in DOMAIN s \/ \E j \in DOMAIN m : i = Len(s) + j
    <2>1. CASE i > Len(s)
      <3>1. i - Len(s) \in DOMAIN m /\ i = Len(s) + (i - Len(s))
        BY <1>2, <1>3, <1>4, <2>1
      <3> QED
        BY <3>1
    <2> QED
      BY <1>2, <1>3, <1>4, <2>1
  <1>5. Behind(t, s, m)
    BY <1>1, <1>2, <1>3, <1>4 DEF Behind
  <1> QED
    BY <1>1, <1>3, <1>5

LEMMA TailShifted ==
    ASSUME NEW A, NEW s \in Seq(A), s # <<>>
    PROVE  /\ Tail(s) \in Seq(A) /\ Shifted(Tail(s), s)
           /\ Head(s) = s[1] /\ s[1] \in A /\ 1 \in DOMAIN s
  <1>1. /\ Len(s) \in Nat \ {0} /\ DOMAIN s = 1..Len(s)
        /\ Tail(s) \in Seq(A) /\ DOMAIN Tail(s) = 1..(Len(s) - 1)
        /\ Head(s) = s[1]
        /\ \A i \in DOMAIN Tail(s) : i + 1 \in DOMAIN s /\ Tail(s)[i] = s[i + 1]
    BY HeadTailProperties, LenProperties, EmptySeq
  <1>2. \A j \in DOMAIN s :
          j = 1 \/ (j - 1 \in DOMAIN Tail(s) /\ Tail(s)[j - 1] = s[j])
    BY <1>1
  <1>3. s[1] \in A
    BY <1>1, ElementOfSeq
  <1> QED
    BY <1>1, <1>2, <1>3 DEF Shifted

LEMMA SubSeqBegins ==
    ASSUME NEW A, NEW s \in Seq(A), NEW n \in 0..Len(s)
    PROVE  SubSeq(s, 1, n) \in Seq(A) /\ Begins(SubSeq(s, 1, n), s)
  <1>1. /\ Len(s) \in Nat /\ DOMAIN s = 1..Len(s)
        /\ \A i \in 1..Len(s) : s[i] \in A
    BY LenProperties, ElementOfSeq
  <1>2. SubSeq(s, 1, n) = [i \in 1..n |-> s[i]]
    BY <1>1, SubSeqProperties
  <1>3. [i \in 1..n |-> s[i]] \in Seq(A)
    BY <1>1, IsASeq
  <1> QED
    BY <1>1, <1>2, <1>3 DEF Begins

-----------------------------------------------------------------------------
(* One channel.  What each kind of step does to what the client (x), the   *)
(* queues (ts, tc) and the server (S) hold of it.                          *)

\* Messages about other channels do not matter.
LEMMA OtherWritten ==
    ASSUME NEW c, NEW x, NEW ts, NEW tc, NEW S, NEW u, NEW t, NEW m,
           AgreeOn(c, x, ts, tc, S, u), Behind(t, ts, m),
           \A j \in DOMAIN m : m[j].chan # c
    PROVE  AgreeOn(c, x, t, tc, S, u)
  <1>1. \A i \in DOMAIN t : t[i].chan = c => i \in DOMAIN ts /\ t[i] = ts[i]
    BY DEF Behind
  <1>2. \A i \in DOMAIN ts : i \in DOMAIN t /\ t[i] = ts[i]
    BY DEF Behind
  <1> QED
    BY <1>1, <1>2 DEF AgreeOn, In

LEMMA OtherAnswered ==
    ASSUME NEW c, NEW x, NEW ts, NEW tc, NEW S, NEW u, NEW t, NEW m,
           AgreeOn(c, x, ts, tc, S, u), Behind(t, tc, m),
           \A j \in DOMAIN m : m[j].chan # c
    PROVE  AgreeOn(c, x, ts, t, S, u)
  <1>1. \A i \in DOMAIN t : t[i].chan = c => i \in DOMAIN tc /\ t[i] = tc[i]
    BY DEF Behind
  <1>2. \A i \in DOMAIN tc : i \in DOMAIN t /\ t[i] = tc[i]
    BY DEF Behind
  <1> QED
    BY <1>1, <1>2 DEF AgreeOn, In

LEMMA OtherRead ==
    ASSUME NEW c, NEW x, NEW ts, NEW tc, NEW S, NEW u, NEW t,
           AgreeOn(c, x, ts, tc, S, u), Shifted(t, ts), ts[1].chan # c
    PROVE  AgreeOn(c, x, t, tc, S, u)
  <1>1. \A y : In(t, y, c) <=> In(ts, y, c)
    BY DEF In, Shifted
  <1>2. ASSUME NEW i \in DOMAIN t, t[i].type = "CREATE", t[i].chan = c
        PROVE  /\ c \notin S
               /\ \A j \in DOMAIN tc : tc[j].chan # c
               /\ \A j \in DOMAIN t : t[j].chan = c /\ j # i =>
                     j > i /\ t[j].type = "DESTROY"
               /\ x = "WAIT" \/ In(t, "DESTROY", c)
    <2>1. i + 1 \in DOMAIN ts /\ ts[i + 1].type = "CREATE" /\ ts[i + 1].chan = c /\ i \in Nat
      BY <1>2 DEF Shifted
    <2>2. \A j \in DOMAIN t : j + 1 \in DOMAIN ts /\ ts[j + 1] = t[j] /\ j \in Nat
      BY DEF Shifted
    <2> QED
      BY <1>1, <2>1, <2>2 DEF AgreeOn
  <1> QED
    BY <1>1, <1>2 DEF AgreeOn

LEMMA OtherReceived ==
    ASSUME NEW c, NEW x, NEW ts, NEW tc, NEW S, NEW u, NEW t,
           AgreeOn(c, x, ts, tc, S, u), Shifted(t, tc), tc[1].chan # c
    PROVE  AgreeOn(c, x, ts, t, S, u)
  <1>1. \A y : In(t, y, c) <=> In(tc, y, c)
    BY DEF In, Shifted
  <1>2. ASSUME NEW i \in DOMAIN t, t[i].type = "ACCEPT", t[i].chan = c
        PROVE  /\ x \in {"none", "WAIT"}
               /\ \A j \in DOMAIN t : t[j].type = "ACCEPT" /\ t[j].chan = c => j = i
    BY <1>2 DEF AgreeOn, Shifted
  <1>3. ASSUME \A j \in DOMAIN tc : tc[j].chan # c
        PROVE  \A j \in DOMAIN t : t[j].chan # c
    BY <1>3 DEF Shifted
  <1> QED
    BY <1>1, <1>2, <1>3 DEF AgreeOn

\* No end and no message uses c.
Unused(c, ts, tc, S) ==
    /\ c \notin S
    /\ \A i \in DOMAIN ts : ts[i].chan # c
    /\ \A i \in DOMAIN tc : tc[i].chan # c

\* One of the messages m is about c, and it creates it.
Creates(m, c) ==
    \E k \in DOMAIN m : /\ m[k].type = "CREATE" /\ m[k].chan = c
                        /\ \A j \in DOMAIN m : m[j].chan = c => j = k

\* mwChannel_create on an id nobody uses.
LEMMA OneCreated ==
    ASSUME NEW c, NEW ts, NEW tc, NEW S, NEW t, NEW m,
           Behind(t, ts, m), Unused(c, ts, tc, S), Creates(m, c)
    PROVE  AgreeOn(c, "WAIT", t, tc, S, "up")
  <1>1. PICK k \in DOMAIN m : /\ m[k].type = "CREATE" /\ m[k].chan = c
                              /\ \A j \in DOMAIN m : m[j].chan = c => j = k
    BY DEF Creates
  <1>2. /\ Len(ts) + k \in DOMAIN t
        /\ t[Len(ts) + k].type = "CREATE" /\ t[Len(ts) + k].chan = c
    BY <1>1 DEF Behind, Unused
  <1>3. \A i \in DOMAIN t : t[i].chan = c => i = Len(ts) + k
    BY <1>1 DEF Behind, Unused
  <1> QED
    BY <1>1, <1>2, <1>3 DEF AgreeOn, In, Unused

\* The client destroys it and tells the server.
LEMMA OneStopped ==
    ASSUME NEW c, NEW x, NEW ts, NEW tc, NEW S, NEW u, NEW t, NEW m,
           AgreeOn(c, x, ts, tc, S, u), Behind(t, ts, m), 1 \in DOMAIN m,
           \A j \in DOMAIN m : m[j].type = "DESTROY" /\ m[j].chan = c
    PROVE  AgreeOn(c, "none", t, tc, S, u)
  <1>1. Len(ts) + 1 \in DOMAIN t /\ In(t, "DESTROY", c)
    BY DEF Behind, In
  <1>2. ASSUME NEW i \in DOMAIN t, t[i].type = "CREATE", t[i].chan = c
        PROVE  /\ c \notin S
               /\ \A j \in DOMAIN tc : tc[j].chan # c
               /\ \A j \in DOMAIN t : t[j].chan = c /\ j # i =>
                     j > i /\ t[j].type = "DESTROY"
    <2>1. i \in DOMAIN ts /\ ts[i] = t[i] /\ i \in 1..Len(ts) /\ Len(ts) \in Nat
      BY <1>2 DEF Behind
    <2>2. \A j \in DOMAIN t : \/ j \in DOMAIN ts /\ t[j] = ts[j]
                              \/ j > i /\ t[j].type = "DESTROY"
      BY <2>1 DEF Behind
    <2> QED
      BY <1>2, <2>1, <2>2 DEF AgreeOn
  <1>3. c \in S => ~In(tc, "DESTROY", c)
    BY DEF AgreeOn
  <1>4. \A i \in DOMAIN tc : tc[i].type = "ACCEPT" /\ tc[i].chan = c =>
          \A j \in DOMAIN tc : tc[j].type = "ACCEPT" /\ tc[j].chan = c => j = i
    BY DEF AgreeOn
  <1> QED
    BY <1>1, <1>2, <1>3, <1>4 DEF AgreeOn

\* The client is told of an acceptance, which opens the channel if it is there.
LEMMA OneAccepted ==
    ASSUME NEW c, NEW x, NEW ts, NEW tc, NEW S, NEW u, NEW t,
           AgreeOn(c, x, ts, tc, S, u), Shifted(t, tc),
           tc[1].type = "ACCEPT", tc[1].chan = c
    PROVE  /\ x \in {"none", "WAIT"}
           /\ x = "WAIT" => AgreeOn(c, "OPEN", ts, t, S, u)
           /\ x = "none" => AgreeOn(c, "none", ts, t, S, u)
  <1>1. x \in {"none", "WAIT"} /\ 1 \in DOMAIN tc
    BY DEF AgreeOn, Shifted
  <1>2. \A i \in DOMAIN ts : ~(ts[i].type = "CREATE" /\ ts[i].chan = c)
    BY <1>1 DEF AgreeOn
  <1>3. \A i \in DOMAIN t : ~(t[i].type = "ACCEPT" /\ t[i].chan = c)
    BY <1>1 DEF AgreeOn, Shifted
  <1>4. In(t, "DESTROY", c) <=> In(tc, "DESTROY", c)
    BY DEF In, Shifted
  <1> QED
    BY <1>1, <1>2, <1>3, <1>4 DEF AgreeOn, In

\* The client is told that the server destroyed it.
LEMMA OneGone ==
    ASSUME NEW c, NEW x, NEW ts, NEW tc, NEW S, NEW u, NEW t,
           AgreeOn(c, x, ts, tc, S, u), Shifted(t, tc),
           tc[1].type = "DESTROY", tc[1].chan = c
    PROVE  AgreeOn(c, "none", ts, t, S, u)
  <1>1. 1 \in DOMAIN tc /\ In(tc, "DESTROY", c)
    BY DEF Shifted, In
  <1>2. \A i \in DOMAIN ts : ~(ts[i].type = "CREATE" /\ ts[i].chan = c)
    BY <1>1 DEF AgreeOn
  <1>3. c \notin S
    BY <1>1 DEF AgreeOn
  <1>4. ASSUME NEW i \in DOMAIN t, NEW j \in DOMAIN t,
               t[i].type = "ACCEPT", t[i].chan = c, t[j].type = "ACCEPT", t[j].chan = c
        PROVE  j = i
    BY <1>4 DEF AgreeOn, Shifted
  <1> QED
    BY <1>2, <1>3, <1>4 DEF AgreeOn, In

\* The server reads the request to create it, and accepts or refuses.
LEMMA OneOffered ==
    ASSUME NEW c, NEW x, NEW ts, NEW tc, NEW S, NEW u, NEW t, NEW q, NEW m,
           AgreeOn(c, x, ts, tc, S, u), Shifted(t, ts), Behind(q, tc, m),
           ts[1].type = "CREATE", ts[1].chan = c,
           DOMAIN m = {1}, m[1].chan = c
    PROVE  /\ m[1].type = "ACCEPT" => AgreeOn(c, x, t, q, S \cup {c}, u)
           /\ m[1].type = "DESTROY" => AgreeOn(c, x, t, q, S, u)
  <1>1. 1 \in DOMAIN ts /\ c \notin S /\ \A j \in DOMAIN tc : tc[j].chan # c
    BY DEF AgreeOn, Shifted
  <1>2. \A i \in DOMAIN t : t[i].chan = c => t[i].type = "DESTROY"
    BY <1>1 DEF AgreeOn, Shifted
  <1>3. In(t, "DESTROY", c) <=> In(ts, "DESTROY", c)
    BY DEF In, Shifted
  <1>4. /\ x = "WAIT" \/ In(ts, "DESTROY", c)
        /\ In(ts, "DESTROY", c) => x = "none"
    BY <1>1 DEF AgreeOn
  <1>5. /\ Len(tc) + 1 \in DOMAIN q /\ q[Len(tc) + 1] = m[1]
        /\ \A i \in DOMAIN q : q[i].chan = c => i = Len(tc) + 1
    BY <1>1 DEF Behind
  <1>6. ~In(t, "CREATE", c)
    BY <1>2 DEF In
  <1>7. \A y : In(q, y, c) <=> m[1].type = y
    BY <1>5 DEF In
  <1> QED
    BY <1>1, <1>2, <1>3, <1>4, <1>5, <1>6, <1>7 DEF AgreeOn

\* The server reads that the client destroyed it.
LEMMA OneReleased ==
    ASSUME NEW c, NEW x, NEW ts, NEW tc, NEW S, NEW u, NEW t,
           AgreeOn(c, x, ts, tc, S, u), Shifted(t, ts),
           ts[1].type = "DESTROY", ts[1].chan = c
    PROVE  AgreeOn(c, x, t, tc, S \ {c}, u)
  <1>1. 1 \in DOMAIN ts /\ x = "none"
    BY DEF AgreeOn, In, Shifted
  <1>2. \A i \in DOMAIN ts : ts[i].chan = c => ts[i].type # "CREATE"
    <2> SUFFICES ASSUME NEW i \in DOMAIN ts, ts[i].chan = c, ts[i].type = "CREATE"
                 PROVE  FALSE
      OBVIOUS
    <2>1. i \in Nat \ {0} /\ i # 1
      BY <1>1 DEF Shifted
    <2>2. 1 > i
      BY <1>1, <2>1 DEF AgreeOn
    <2> QED
      BY <2>1, <2>2
  <1>3. \A i \in DOMAIN t : t[i].chan = c => t[i].type # "CREATE"
    BY <1>2 DEF Shifted
  <1> QED
    BY <1>1, <1>3 DEF AgreeOn

\* The server destroys it.
LEMMA OneRevoked ==
    ASSUME NEW c, NEW x, NEW ts, NEW tc, NEW S, NEW u, NEW q, NEW m,
           AgreeOn(c, x, ts, tc, S, u), Behind(q, tc, m), c \in S,
           1 \in DOMAIN m, \A j \in DOMAIN m : m[j].type = "DESTROY" /\ m[j].chan = c
    PROVE  AgreeOn(c, x, ts, q, S \ {c}, u)
  <1>1. In(q, "DESTROY", c)
    BY DEF In, Behind
  <1>2. \A i \in DOMAIN ts : ~(ts[i].type = "CREATE" /\ ts[i].chan = c)
    BY DEF AgreeOn
  <1>3. \A i \in DOMAIN q : q[i].type = "ACCEPT" => i \in DOMAIN tc /\ q[i] = tc[i]
    BY DEF Behind
  <1> QED
    BY <1>1, <1>2, <1>3 DEF AgreeOn

\* Another one is closed at the server.
LEMMA OtherRevoked ==
    ASSUME NEW c, NEW d, NEW x, NEW ts, NEW tc, NEW S, NEW u, c # d,
           AgreeOn(c, x, ts, tc, S, u)
    PROVE  /\ AgreeOn(c, x, ts, tc, S \ {d}, u)
           /\ AgreeOn(c, x, ts, tc, S \cup {d}, u)
  BY DEF AgreeOn

\* The connection breaks.
LEMMA OneBroken ==
    ASSUME NEW c, NEW x, NEW ts, NEW tc, NEW S, NEW u, NEW q, NEW v,
           AgreeOn(c, x, ts, tc, S, u), Begins(q, tc), v # "up"
    PROVE  AgreeOn(c, x, <<>>, q, {}, v)
  <1>1. ~ \E i : i \in DOMAIN <<>>
    OBVIOUS
  <1> QED
    BY <1>1 DEF AgreeOn, In, Begins

\* Nothing is left of it.
LEMMA OneForgotten ==
    ASSUME NEW c, NEW u
    PROVE  AgreeOn(c, "none", <<>>, <<>>, {}, u)
  <1>1. ~ \E i : i \in DOMAIN <<>>
    OBVIOUS
  <1> QED
    BY <1>1 DEF AgreeOn, In

\* The client destroys it on a connection that is gone.
LEMMA OneAbandoned ==
    ASSUME NEW c, NEW x, NEW tc, NEW u, AgreeOn(c, x, <<>>, tc, {}, u)
    PROVE  AgreeOn(c, "none", <<>>, tc, {}, u)
  <1>1. ~ \E i : i \in DOMAIN <<>>
    OBVIOUS
  <1> QED
    BY <1>1 DEF AgreeOn, In

-----------------------------------------------------------------------------
(* The login.                                                              *)

LEMMA LoginSteps ==
    /\ Answers("HANDSHAKE") = {"HANDSHAKE_ACK"}
    /\ Answers("LOGIN") = {"LOGIN_ACK", "LOGIN_REDIRECT"}
    /\ Answers("LOGIN_CONT") = {"HANDSHAKE_ACK", "LOGIN_ACK"}
    /\ \A st : st \notin {"HANDSHAKE", "LOGIN", "LOGIN_CONT"} =>
          Answers(st) = {} /\ Question(st) = {}
    /\ Question("HANDSHAKE") = {"HANDSHAKE"}
    /\ Question("LOGIN") = {"LOGIN"}
    /\ Question("LOGIN_CONT") = {"LOGIN_CONTINUE"}
  BY DEF Answers, Question

\* Once it is over there are no more answers.
LEMMA LoginWritten ==
    ASSUME NEW ts, NEW tc, NEW t, NEW m,
           LoginOK("STARTED", ts, tc), Behind(t, ts, m),
           \A j \in DOMAIN m : m[j].type \in {"SENSE", "CREATE", "DESTROY"}
    PROVE  LoginOK("STARTED", t, tc)
  <1>1. \A i \in DOMAIN tc : tc[i].type \notin LoginType
    BY LoginSteps DEF LoginOK
  <1>2. \A i \in DOMAIN t : t[i].type \in {"SENSE", "CREATE", "DESTROY"}
    BY DEF LoginOK, Behind
  <1> QED
    BY <1>1, <1>2 DEF LoginOK

LEMMA LoginReceived ==
    ASSUME NEW st, NEW ts, NEW tc, NEW t, LoginOK(st, ts, tc), Shifted(t, tc)
    PROVE  LoginOK(st, ts, t)
  <1>1. \A i \in DOMAIN t : i \in Nat \ {0} /\ i + 1 \in DOMAIN tc /\ t[i] = tc[i + 1]
    BY DEF Shifted
  <1>2. ASSUME NEW i \in DOMAIN t, t[i].type \in LoginType
        PROVE  /\ t[i].type \in Answers(st)
               /\ ts = <<>>
               /\ \A j \in DOMAIN t : t[j].type \in LoginType /\ j # i =>
                     /\ st = "LOGIN_CONT"
                     /\ j < i => t[j].type = "HANDSHAKE_ACK" /\ t[i].type = "LOGIN_ACK"
    <2>1. /\ tc[i + 1].type \in Answers(st)
          /\ ts = <<>>
          /\ \A j \in DOMAIN tc : tc[j].type \in LoginType /\ j # i + 1 =>
                /\ st = "LOGIN_CONT"
                /\ j < i + 1 =>
                      tc[j].type = "HANDSHAKE_ACK" /\ tc[i + 1].type = "LOGIN_ACK"
      BY <1>1, <1>2 DEF LoginOK
    <2> QED
      BY <1>1, <2>1
  <1>3. st = "STARTED" =>
          \A i \in DOMAIN ts : ts[i].type \in {"SENSE", "CREATE", "DESTROY"}
    BY DEF LoginOK
  <1>4. st # "STARTED" =>
          /\ \A i \in DOMAIN ts : DOMAIN ts = {1} /\ ts[i].type \in Question(st)
          /\ \A i \in DOMAIN t :
                t[i].type \in LoginType \cup {"DESTROY"} /\ t[i].chan = None
    BY <1>1 DEF LoginOK
  <1> QED
    BY <1>2, <1>3, <1>4 DEF LoginOK

\* The head of the queue is the only answer there is, or it is the first of two.
LEMMA LoginLast ==
    ASSUME NEW st, NEW ts, NEW tc, NEW t, LoginOK(st, ts, tc), Shifted(t, tc),
           tc[1].type \in LoginType
    PROVE  /\ tc[1].type \in Answers(st) /\ ts = <<>>
           /\ st # "LOGIN_CONT" => \A i \in DOMAIN t : t[i].type \notin LoginType
           /\ \A i \in DOMAIN t : t[i].type \in LoginType => t[i].type = "LOGIN_ACK"
           /\ \A i, j \in DOMAIN t :
                t[i].type \in LoginType /\ t[j].type \in LoginType => i = j
           /\ tc[1].type = "LOGIN_ACK" => \A i \in DOMAIN t : t[i].type \notin LoginType
           /\ \A i \in DOMAIN t : t[i].type \in LoginType \cup {"DESTROY"} /\ t[i].chan = None
  <1>1. /\ 1 \in DOMAIN tc
        /\ \A i \in DOMAIN t : i \in Nat \ {0} /\ i + 1 \in DOMAIN tc /\ t[i] = tc[i + 1]
    BY DEF Shifted
  <1>2. tc[1].type \in Answers(st) /\ ts = <<>>
    BY <1>1 DEF LoginOK
  <1>3. st # "STARTED"
    BY <1>2, LoginSteps
  <1>4. ASSUME NEW i \in DOMAIN t, t[i].type \in LoginType
        PROVE  /\ st = "LOGIN_CONT" /\ tc[1].type = "HANDSHAKE_ACK"
               /\ t[i].type = "LOGIN_ACK"
    <2>1. /\ i + 1 \in DOMAIN tc /\ tc[i + 1].type \in LoginType
          /\ 1 # i + 1 /\ 1 < i + 1 /\ t[i] = tc[i + 1]
      BY <1>1, <1>4
    <2> QED
      BY <1>1, <2>1 DEF LoginOK
  <1>5. ASSUME NEW i \in DOMAIN t, NEW j \in DOMAIN t,
               t[i].type \in LoginType, t[j].type \in LoginType
        PROVE  i = j
    <2>1. t[i].type = "LOGIN_ACK" /\ t[j].type = "LOGIN_ACK"
      BY <1>4, <1>5
    <2>2. /\ i + 1 \in DOMAIN tc /\ j + 1 \in DOMAIN tc /\ i \in Nat /\ j \in Nat
          /\ tc[i + 1] = t[i] /\ tc[j + 1] = t[j]
      BY <1>1
    <2>3. ASSUME NEW a \in DOMAIN tc, NEW b \in DOMAIN tc, a \in Nat, b \in Nat, a < b,
                 tc[a].type = "LOGIN_ACK", tc[b].type = "LOGIN_ACK"
          PROVE  FALSE
      BY <2>3 DEF LoginOK, LoginType
    <2> QED
      BY <2>1, <2>2, <2>3
  <1>6. \A i \in DOMAIN t : t[i].type \in LoginType \cup {"DESTROY"} /\ t[i].chan = None
    BY <1>1, <1>3 DEF LoginOK
  <1> QED
    BY <1>2, <1>4, <1>5, <1>6

\* The server says something that is no answer.
LEMMA LoginAnswered ==
    ASSUME NEW st, NEW ts, NEW tc, NEW q, NEW m,
           LoginOK(st, ts, tc), Behind(q, tc, m),
           \A j \in DOMAIN m : m[j].type \notin LoginType,
           st # "STARTED" => \A j \in DOMAIN m : m[j].type = "DESTROY" /\ m[j].chan = None
    PROVE  LoginOK(st, ts, q)
  <1>1. \A i \in DOMAIN q : q[i].type \in LoginType => i \in DOMAIN tc /\ q[i] = tc[i]
    BY DEF Behind
  <1>2. \A i \in DOMAIN q :
          (i \in DOMAIN tc /\ q[i] = tc[i]) \/ \E j \in DOMAIN m : q[i] = m[j]
    BY DEF Behind
  <1>3. ASSUME NEW i \in DOMAIN q, q[i].type \in LoginType
        PROVE  /\ q[i].type \in Answers(st)
               /\ ts = <<>>
               /\ \A j \in DOMAIN q : q[j].type \in LoginType /\ j # i =>
                     /\ st = "LOGIN_CONT"
                     /\ j < i => q[j].type = "HANDSHAKE_ACK" /\ q[i].type = "LOGIN_ACK"
    BY <1>1, <1>3 DEF LoginOK
  <1>4. st # "STARTED" =>
          \A i \in DOMAIN q : q[i].type \in LoginType \cup {"DESTROY"} /\ q[i].chan = None
    BY <1>2 DEF LoginOK
  <1> QED
    BY <1>3, <1>4 DEF LoginOK

\* The server reads something.
LEMMA LoginRead ==
    ASSUME NEW st, NEW ts, NEW tc, NEW t, LoginOK(st, ts, tc), Shifted(t, ts)
    PROVE  /\ \A i \in DOMAIN tc : tc[i].type \notin LoginType
           /\ st = "STARTED" => LoginOK(st, t, tc)
           /\ st # "STARTED" => /\ ts[1].type \in Question(st)
                                /\ \A i \in DOMAIN t : FALSE
  <1>1. 1 \in DOMAIN ts /\ ts # <<>>
    BY DEF Shifted
  <1>2. \A i \in DOMAIN tc : tc[i].type \notin LoginType
    BY <1>1 DEF LoginOK
  <1>3. st = "STARTED" => \A i \in DOMAIN t : t[i].type \in {"SENSE", "CREATE", "DESTROY"}
    BY DEF LoginOK, Shifted
  <1>4. ASSUME st # "STARTED", NEW i \in DOMAIN t
        PROVE  FALSE
    <2>1. DOMAIN ts = {1}
      BY <1>1, <1>4 DEF LoginOK
    <2> QED
      BY <1>4, <2>1 DEF Shifted
  <1>5. st # "STARTED" => ts[1].type \in Question(st)
    BY <1>1 DEF LoginOK
  <1> QED
    BY <1>2, <1>3, <1>4, <1>5 DEF LoginOK

LEMMA LoginBroken ==
    ASSUME NEW st, NEW ts, NEW tc, NEW q, LoginOK(st, ts, tc), Begins(q, tc)
    PROVE  LoginOK(st, <<>>, q)
  <1>1. ~ \E i : i \in DOMAIN <<>>
    OBVIOUS
  <1>2. \A i \in DOMAIN q : i \in DOMAIN tc /\ q[i] = tc[i]
    BY DEF Begins
  <1> QED
    BY <1>1, <1>2 DEF LoginOK

LEMMA LoginForgotten ==
    ASSUME NEW st
    PROVE  LoginOK(st, <<>>, <<>>)
  <1>1. ~ \E i : i \in DOMAIN <<>>
    OBVIOUS
  <1> QED
    BY <1>1 DEF LoginOK

-----------------------------------------------------------------------------
(* The messages.                                                           *)

LEMMA WrittenFacts ==
    /\ \A m \in Written :
          /\ m.type \in {"HANDSHAKE", "LOGIN", "LOGIN_CONTINUE", "SENSE", "DESTROY", "CREATE"}
          /\ m.type \in {"CREATE", "DESTROY"} => m.chan \in Chan
          /\ m.type \notin {"CREATE", "DESTROY"} => m.chan = None
          /\ m.type = "SENSE" => m \in Answered
          /\ m \in Messages
    /\ \A t \in {"HANDSHAKE", "LOGIN", "LOGIN_CONTINUE"} : Master(t) \in Written
    /\ \A s \in Services : Msg("SENSE", None, s) \in Written
    /\ \A c \in Chan : Msg("DESTROY", c, None) \in Written
    /\ \A c \in Chan, s \in Channelled : Msg("CREATE", c, s) \in Written
  BY DEF Written, Answered, Master, Msg, Messages, MsgType, Services

LEMMA AnsweredFacts ==
    /\ \A m \in Answered :
          /\ m.type \in LoginType \cup {"DESTROY", "SENSE", "ACCEPT"}
          /\ m.type \in {"ACCEPT", "DESTROY"} => m.chan \in Chan \cup {None}
          /\ m.type = "ACCEPT" => m.chan \in Chan
          /\ m.type \in LoginType \cup {"SENSE"} => m.chan = None
          /\ m.type = "SENSE" => m.srvc \in Services
          /\ m \in Messages
    /\ \A t \in LoginType \cup {"DESTROY"} : Master(t) \in Answered
    /\ \A c \in Chan : /\ Msg("DESTROY", c, None) \in Answered
                       /\ Msg("ACCEPT", c, None) \in Answered
  BY DEF Answered, Master, Msg, Messages, MsgType, Services, LoginType

LEMMA MsgFacts ==
    ASSUME NEW y, NEW c, NEW s
    PROVE  /\ Msg(y, c, s).type = y /\ Msg(y, c, s).chan = c /\ Msg(y, c, s).srvc = s
           /\ Master(y).type = y /\ Master(y).chan = None
  BY DEF Msg, Master

LEMMA OneMessage ==
    ASSUME NEW A, NEW m \in A
    PROVE  /\ <<m>> \in Seq(A)
           /\ DOMAIN <<m>> = {1} /\ <<m>>[1] = m
           /\ \A j \in DOMAIN <<m>> : <<m>>[j] = m
  OBVIOUS

LEMMA NoChanFacts ==
    NoChan.st = "none" /\ NoChan.srvc = None
  BY DEF NoChan

\* A channel that is there is waiting or open.
LEMMA ChanFacts ==
    ASSUME Typed, Owned, NEW c \in Chan
    PROVE  /\ chan[c].st = "none" <=> chan[c] = NoChan
           /\ chan[c] = NoChan \/ chan[c].st \in {"WAIT", "OPEN"}
  BY DEF Typed, Owned, NoChan

LEMMA InvType == Inv => TypeOK
  <1> SUFFICES ASSUME Inv PROVE TypeOK
    OBVIOUS
  <1>1. Typed /\ toServer \in Seq(Written) /\ toClient \in Seq(Answered)
    BY DEF Inv, Wired
  <1>2. \A A, B : A \subseteq B => Seq(A) \subseteq Seq(B)
    OBVIOUS
  <1>3. toServer \in Seq(Messages)
    BY <1>1, <1>2, WrittenFacts
  <1>4. toClient \in Seq(Messages)
    BY <1>1, <1>2, AnsweredFacts
  <1> QED
    BY <1>1, <1>3, <1>4 DEF Typed, TypeOK

\* What the invariant says of the session.
LEMMA InvConsistent == Inv => SessionConsistent
  <1> SUFFICES ASSUME Inv PROVE SessionConsistent
    OBVIOUS
  <1>1. TypeOK
    BY InvType
  <1>2. NoServiceWithoutSession
    BY DEF NoServiceWithoutSession, Inv, Owned
  <1>3. OneChannelPerService
    BY DEF OneChannelPerService, Inv, Owned
  <1> QED
    BY <1>1, <1>2, <1>3 DEF SessionConsistent

LEMMA InvAgree == Inv => ChannelsAgree
  <1> SUFFICES ASSUME Inv, conn = "up", toServer = <<>>, toClient = <<>>
               PROVE  /\ {c \in Chan : chan[c] # NoChan} = srvChans
                      /\ \A s \in Channelled :
                            sstate[s] = "STARTED" <=> schan[s] \in srvChans
    BY DEF ChannelsAgree
  <1>1. Typed /\ Owned /\ Agree
    BY DEF Inv
  <1>2. \A y, c : ~In(toServer, y, c) /\ ~In(toClient, y, c)
    BY DEF In
  <1>3. \A c \in Chan : chan[c].st = "none" <=> c \notin srvChans
    BY <1>1, <1>2 DEF Agree, AgreeOn
  <1>4. \A c \in Chan : chan[c].st # "WAIT"
    BY <1>1, <1>2 DEF Agree, AgreeOn
  <1>5. srvChans \subseteq Chan
    BY <1>1 DEF Typed
  <1>6. \A c \in Chan : chan[c] # NoChan <=> c \in srvChans
    BY <1>1, <1>3, ChanFacts
  <1>7. ASSUME NEW s \in Channelled
        PROVE  sstate[s] = "STARTED" <=> schan[s] \in srvChans
    <2>1. s \in Services
      BY <1>7 DEF Services
    <2>2. ASSUME sstate[s] = "STARTED"
          PROVE  schan[s] \in srvChans
      <3>1. schan[s] \in Chan /\ chan[schan[s]] # NoChan
        BY <1>1, <1>7, <2>1, <2>2 DEF Owned, Live
      <3> QED
        BY <1>6, <3>1
    <2>3. ASSUME schan[s] \in srvChans
          PROVE  sstate[s] = "STARTED"
      <3>1. schan[s] \in Chan /\ chan[schan[s]] # NoChan
        BY <1>5, <1>6, <2>3
      <3>2. chan[schan[s]].st = "OPEN"
        BY <1>1, <1>4, <3>1, ChanFacts
      <3>3. schan[s] # None
        BY <3>1, ChanAssumption
      <3>4. sstate[s] \in Live
        BY <1>1, <2>1, <3>3 DEF Owned
      <3>5. chan[schan[s]].srvc = s
        BY <1>1, <1>7, <2>1, <3>4 DEF Owned
      <3> QED
        BY <1>1, <3>1, <3>2, <3>5 DEF Owned
    <2> QED
      BY <2>2, <2>3
  <1> QED
    BY <1>5, <1>6, <1>7

LEMMA InvInit == Init => Inv
  <1> SUFFICES ASSUME Init PROVE Inv
    OBVIOUS
  <1>1. Typed
    BY ServicesAssumption, ChanAssumption, BoundsAssumption
       DEF Init, Typed, SessionState, ServiceState, NoChan
  <1>2. Wired
    BY DEF Init, Wired
  <1>3. Owned
    BY DEF Init, Owned, Live
  <1>4. Login
    BY LoginForgotten DEF Init, Login
  <1>5. Agree
    BY OneForgotten, NoChanFacts DEF Init, Agree
  <1> QED
    BY <1>1, <1>2, <1>3, <1>4, <1>5 DEF Inv

-----------------------------------------------------------------------------
(* Each action keeps the invariant.  The parts about messages are stated   *)
(* for values, so the values after the step are given names.               *)

LEMMA LoginNext ==
    ASSUME NEW st, NEW ts, NEW tc, st = state', ts = toServer', tc = toClient',
           LoginOK(st, ts, tc)
    PROVE  Login'
  BY DEF Login, LoginOK, Answers, Question, LoginType

LEMMA AgreeNext ==
    ASSUME NEW ts, NEW tc, NEW S, NEW u,
           ts = toServer', tc = toClient', S = srvChans', u = conn',
           \A c \in Chan : \E x : x = chan'[c].st /\ AgreeOn(c, x, ts, tc, S, u)
    PROVE  Agree'
  BY DEF Agree, AgreeOn, In

LEMMA StoppedEffect ==
    ASSUME Typed, Owned, NEW S \in SUBSET Services, Stopped(S)
    PROVE  /\ sstate' \in [Services -> ServiceState]
           /\ schan' \in [Services -> Chan \cup {None}]
           /\ chan' \in [Chan -> [st : {"none", "WAIT", "OPEN"},
                                  srvc : Channelled \cup {None}]]
           /\ \A s \in Services : s \in S /\ sstate[s] \in Live =>
                 sstate'[s] \notin Live /\ schan'[s] = None
           /\ \A s \in Services : ~(s \in S /\ sstate[s] \in Live) =>
                 sstate'[s] = sstate[s] /\ schan'[s] = schan[s]
           /\ \A c \in Chan : chan[c] # NoChan /\ chan[c].srvc \in S => chan'[c] = NoChan
           /\ \A c \in Chan : chan[c] = NoChan \/ chan[c].srvc \notin S => chan'[c] = chan[c]
  <1> DEFINE live == {s \in S : sstate[s] \in Live}
  <1>1. /\ sstate' = [s \in Services |-> IF s \in live THEN AfterStop(s) ELSE sstate[s]]
        /\ schan' = [s \in Services |-> IF s \in live THEN None ELSE schan[s]]
        /\ chan' = [c \in Chan |->
                      IF \E s \in live : schan[s] = c THEN NoChan ELSE chan[c]]
    BY DEF Stopped
  <1>2. \A s \in Services : AfterStop(s) \in ServiceState \ Live
    BY DEF AfterStop, ServiceState, Live
  <1>3. /\ sstate' \in [Services -> ServiceState]
        /\ schan' \in [Services -> Chan \cup {None}]
    BY <1>1, <1>2 DEF Typed
  <1>4. chan' \in [Chan -> [st : {"none", "WAIT", "OPEN"}, srvc : Channelled \cup {None}]]
    BY <1>1 DEF Typed, NoChan
  <1>5. ASSUME NEW s \in Services
        PROVE  /\ s \in S /\ sstate[s] \in Live => sstate'[s] \notin Live /\ schan'[s] = None
               /\ ~(s \in S /\ sstate[s] \in Live) =>
                     sstate'[s] = sstate[s] /\ schan'[s] = schan[s]
    BY <1>1, <1>2
  <1>6. ASSUME NEW c \in Chan, chan[c] # NoChan, chan[c].srvc \in S
        PROVE  chan'[c] = NoChan
    <2>1. schan[chan[c].srvc] = c /\ sstate[chan[c].srvc] \in Live
      BY <1>6 DEF Owned, Live
    <2> QED
      BY <1>1, <1>6, <2>1
  <1>7. ASSUME NEW c \in Chan, chan[c] = NoChan \/ chan[c].srvc \notin S
        PROVE  chan'[c] = chan[c]
    <2>1. ASSUME NEW s \in live, schan[s] = c
          PROVE  chan[c] = NoChan
      <3>1. s \in Services /\ s \notin Plain
        BY <2>1, <1>7, ChanAssumption DEF Owned
      <3>2. s \in Channelled
        BY <3>1 DEF Services
      <3>3. chan[c].srvc = s
        BY <2>1, <3>1, <3>2 DEF Owned
      <3> QED
        BY <1>7, <2>1, <3>3
    <2> QED
      BY <1>1, <1>7, <2>1
  <1> QED
    BY <1>3, <1>4, <1>5, <1>6, <1>7

LEMMA StoppedOwned ==
    ASSUME Typed, Owned, NEW S \in SUBSET Services, Stopped(S),
           \A s \in Services : s \notin S /\ sstate[s] \in Live =>
              s \in services' /\ state' = "STARTED"
    PROVE  Owned'
  <1>1. /\ \A s \in Services : s \in S /\ sstate[s] \in Live =>
                 sstate'[s] \notin Live /\ schan'[s] = None
        /\ \A s \in Services : ~(s \in S /\ sstate[s] \in Live) =>
                 sstate'[s] = sstate[s] /\ schan'[s] = schan[s]
        /\ \A c \in Chan : chan[c] # NoChan /\ chan[c].srvc \in S => chan'[c] = NoChan
        /\ \A c \in Chan : chan[c] = NoChan \/ chan[c].srvc \notin S => chan'[c] = chan[c]
    BY StoppedEffect
  <1>2. ASSUME NEW c \in Chan, chan'[c] # NoChan
        PROVE  /\ chan'[c].srvc \in Channelled
               /\ schan'[chan'[c].srvc] = c
               /\ \/ chan'[c].st = "WAIT" /\ sstate'[chan'[c].srvc] = "STARTING"
                  \/ chan'[c].st = "OPEN" /\ sstate'[chan'[c].srvc] = "STARTED"
    <2>1. chan'[c] = chan[c] /\ chan[c].srvc \notin S /\ chan[c] # NoChan
      BY <1>1, <1>2
    <2>2. chan[c].srvc \in Channelled /\ chan[c].srvc \in Services
      BY <2>1 DEF Owned, Services
    <2> QED
      BY <1>1, <2>1, <2>2 DEF Owned
  <1>3. ASSUME NEW s \in Services
        PROVE  /\ s \in Channelled /\ sstate'[s] \in Live =>
                     /\ schan'[s] \in Chan
                     /\ chan'[schan'[s]].srvc = s /\ chan'[schan'[s]] # NoChan
               /\ s \in Plain \/ sstate'[s] \notin Live => schan'[s] = None
               /\ sstate'[s] \in Live => s \in services' /\ state' = "STARTED"
    <2>1. CASE s \in S /\ sstate[s] \in Live
      BY <1>1, <2>1
    <2>2. CASE ~(s \in S /\ sstate[s] \in Live)
      <3>1. sstate'[s] = sstate[s] /\ schan'[s] = schan[s]
        BY <1>1, <2>2
      <3>2. s \in Channelled /\ sstate[s] \in Live =>
              /\ schan[s] \in Chan /\ chan[schan[s]].srvc = s
              /\ chan[schan[s]] # NoChan
        BY DEF Owned
      <3>3. s \in Channelled /\ sstate[s] \in Live => chan'[schan[s]] = chan[schan[s]]
        BY <1>1, <2>2, <3>2
      <3>4. s \in Plain \/ sstate[s] \notin Live => schan[s] = None
        BY DEF Owned
      <3> QED
        BY <2>2, <3>1, <3>2, <3>3, <3>4
    <2> QED
      BY <2>1, <2>2
  <1> QED
    BY <1>2, <1>3 DEF Owned

\* mwSession_stop
LEMMA StopKeeps ==
    ASSUME Inv, StopSession
    PROVE  Inv'
  <1> USE DEF Inv
  <1>1. /\ state' = "STOPPED" /\ Stopped(services) /\ conn' = "closed"
        /\ toServer' = <<>> /\ toClient' = <<>> /\ srvChans' = {}
        /\ services' = services /\ breaks' = breaks
    BY DEF StopSession
  <1>2. services \in SUBSET Services
    BY DEF Typed
  <1>3. Typed'
    BY <1>1, <1>2, StoppedEffect DEF Typed, SessionState
  <1>4. Wired'
    BY <1>1 DEF Wired
  <1>5. Owned'
    <2>1. \A s \in Services : sstate[s] \in Live => s \in services
      BY DEF Owned
    <2> QED
      BY <1>1, <1>2, <2>1, StoppedOwned
  <1>6. Login'
    BY <1>1, LoginForgotten, LoginNext
  <1>7. ASSUME NEW c \in Chan
        PROVE  chan'[c] = NoChan
    <2>1. chan[c] = NoChan \/ chan[c].srvc \in services
      BY DEF Owned, Live, Services
    <2> QED
      BY <1>1, <1>2, <2>1, StoppedEffect
  <1>8. Agree'
    <2>1. \A c \in Chan : \E x : x = chan'[c].st /\ AgreeOn(c, x, <<>>, <<>>, {}, "closed")
      BY <1>7, OneForgotten, NoChanFacts
    <2> QED
      BY <1>1, <2>1, AgreeNext
  <1> QED
    BY <1>3, <1>4, <1>5, <1>6, <1>8

\* mwSession_start, the handshake written
LEMMA StartKeeps ==
    ASSUME Inv, mwSession_start
    PROVE  Inv'
  <1>1. CASE StopSession
    BY <1>1, StopKeeps
  <1>2. CASE /\ state' = "HANDSHAKE"
             /\ conn' = "up"
             /\ toServer' = <<Master("HANDSHAKE")>>
             /\ UNCHANGED <<services, sstate, schan, chan, toClient, srvChans, breaks>>
    <2> USE DEF Inv
    <2>1. state = "STOPPED"
      BY DEF mwSession_start
    <2>2. conn = "closed" /\ toClient = <<>> /\ toServer = <<>> /\ srvChans = {}
      BY <2>1 DEF Wired
    <2>3. \A s \in Services : sstate[s] \notin Live
      BY <2>1 DEF Owned
    <2>4. \A c \in Chan : chan[c] = NoChan
      BY <2>3 DEF Owned, Live, Services
    <2>5. Master("HANDSHAKE") \in Written
      BY WrittenFacts
    <2>6. PICK ts \in Seq(Written) : /\ ts = <<Master("HANDSHAKE")>>
                                     /\ DOMAIN ts = {1} /\ ts[1] = Master("HANDSHAKE")
      BY <2>5, OneMessage
    <2>7. Typed'
      BY <1>2 DEF Typed, SessionState, Starting
    <2>8. Wired'
      BY <1>2, <2>2, <2>6 DEF Wired
    <2>9. Owned'
      BY <1>2, <2>3, <2>4 DEF Owned
    <2>10. ts[1].type = "HANDSHAKE" /\ ts[1].chan = None
      BY <2>6, MsgFacts
    <2>11. ~ \E i : i \in DOMAIN <<>>
      OBVIOUS
    <2>12. LoginOK("HANDSHAKE", ts, <<>>)
      BY <2>6, <2>10, <2>11, LoginSteps DEF LoginOK
    <2>13. Login'
      BY <1>2, <2>2, <2>6, <2>12, LoginNext
    <2>14. ASSUME NEW c \in Chan
           PROVE  AgreeOn(c, "none", ts, <<>>, {}, "up")
      BY <2>6, <2>10, <2>11, <2>14, ChanAssumption DEF AgreeOn, In
    <2>15. Agree'
      <3>1. \A c \in Chan : chan'[c].st = "none"
        BY <1>2, <2>4, NoChanFacts
      <3> QED
        BY <1>2, <2>2, <2>6, <2>14, <3>1, AgreeNext
    <2> QED
      BY <2>7, <2>8, <2>9, <2>13, <2>15
  <1> QED
    BY <1>1, <1>2 DEF mwSession_start

\* What mwSession_send leaves in the queue.
LEMMA Sent ==
    ASSUME Wired, NEW m \in Seq(Written), mwSession_send(m) \/ toServer' = toServer
    PROVE  \E t \in Seq(Written) :
              /\ t = toServer'
              /\ t = toServer \/ (conn = "up" /\ Behind(t, toServer, m))
              /\ conn # "up" => t = <<>>
              /\ conn = "up" /\ mwSession_send(m) => t = toServer \o m /\ Behind(t, toServer, m)
  <1>1. toServer \in Seq(Written) /\ (conn # "up" => toServer = <<>>)
    BY DEF Wired
  <1>2. toServer \o m \in Seq(Written) /\ Behind(toServer \o m, toServer, m)
    BY <1>1, ConcatBehind
  <1>3. toServer' = toServer \/ (conn = "up" /\ toServer' = toServer \o m)
    BY DEF mwSession_send
  <1>4. conn = "up" /\ mwSession_send(m) => toServer' = toServer \o m
    BY DEF mwSession_send
  <1>5. PICK t \in Seq(Written) : t = toServer'
    BY <1>1, <1>2, <1>3
  <1> QED
    BY <1>1, <1>2, <1>3, <1>4, <1>5

\* What a handler leaves in the other.
LEMMA Taken ==
    ASSUME Wired, toClient # <<>>
    PROVE  /\ Tail(toClient) \in Seq(Answered) /\ Shifted(Tail(toClient), toClient)
           /\ Head(toClient) = toClient[1] /\ toClient[1] \in Answered
           /\ state # "STOPPED"
  <1>1. toClient \in Seq(Answered)
    BY DEF Wired
  <1> QED
    BY <1>1, TailShifted DEF Wired

\* Messages that are about no channel change nothing between the ends.
LEMMA QuietAgree ==
    ASSUME Wired, Agree, NEW m \in Seq(Written), \A j \in DOMAIN m : m[j].chan = None,
           mwSession_send(m) \/ toServer' = toServer,
           \/ toClient' = toClient
           \/ toClient # <<>> /\ Head(toClient).chan = None /\ toClient' = Tail(toClient),
           chan' = chan, srvChans' = srvChans, conn' = conn
    PROVE  Agree'
  <1>1. PICK t \in Seq(Written) :
          t = toServer' /\ (t = toServer \/ Behind(t, toServer, m))
    BY Sent
  <1>2. PICK q : /\ q = toClient'
                 /\ q = toClient \/ (Shifted(q, toClient) /\ toClient[1].chan = None)
    BY Taken
  <1>3. PICK S, u : S = srvChans' /\ u = conn'
    OBVIOUS
  <1>4. ASSUME NEW c \in Chan
        PROVE  \E x : x = chan'[c].st /\ AgreeOn(c, x, t, q, S, u)
    <2>1. c # None
      BY ChanAssumption
    <2>2. PICK x : x = chan'[c].st
      OBVIOUS
    <2>3. AgreeOn(c, x, toServer, toClient, S, u)
      BY <1>3, <2>2 DEF Agree
    <2>4. AgreeOn(c, x, t, toClient, S, u)
      BY <1>1, <2>1, <2>3, OtherWritten
    <2>5. AgreeOn(c, x, t, q, S, u)
      BY <1>2, <2>1, <2>4, OtherReceived
    <2> QED
      BY <2>2, <2>5
  <1> QED
    BY <1>1, <1>2, <1>3, <1>4, AgreeNext

\* The login asks its next question, or has none.
LEMMA LoginAsk ==
    ASSUME NEW st, NEW t, NEW tc, st # "STARTED",
           \A i \in DOMAIN tc : tc[i].type = "DESTROY" /\ tc[i].chan = None,
           \A i \in DOMAIN t : DOMAIN t = {1} /\ t[i].type \in Question(st)
    PROVE  LoginOK(st, t, tc)
  BY DEF LoginOK, LoginType

\* Only services of a STARTED session are live: a session that is not may go
\* to another state.
LEMMA OwnedQuiet ==
    ASSUME Owned, sstate' = sstate, schan' = schan, chan' = chan,
           services \subseteq services',
           state' = state \/ state # "STARTED"
    PROVE  Owned'
  BY DEF Owned

LEMMA ForceLoginKeeps ==
    ASSUME Inv, mwSession_forceLogin
    PROVE  Inv'
  <1> USE DEF Inv
  <1>1. /\ state = "LOGIN_REDIR" /\ state' = "LOGIN_CONT"
        /\ mwSession_send(<<Master("LOGIN_CONTINUE")>>)
        /\ services' = services /\ sstate' = sstate /\ schan' = schan /\ chan' = chan
        /\ conn' = conn /\ toClient' = toClient /\ srvChans' = srvChans
        /\ breaks' = breaks
    BY DEF mwSession_forceLogin
  <1>2. Master("LOGIN_CONTINUE") \in Written
    BY WrittenFacts
  <1>3. PICK m \in Seq(Written) :
          m = <<Master("LOGIN_CONTINUE")>> /\ DOMAIN m = {1} /\ m[1] = Master("LOGIN_CONTINUE")
    BY <1>2, OneMessage
  <1>4. m[1].type = "LOGIN_CONTINUE" /\ m[1].chan = None
    BY <1>3, MsgFacts
  <1>5. toServer = <<>>
    <2>1. toServer \in Seq(Written) /\ LoginOK("LOGIN_REDIR", toServer, toClient)
      BY <1>1 DEF Wired, Login
    <2>2. ~ \E i : i \in DOMAIN toServer
      BY <2>1, LoginSteps DEF LoginOK
    <2> QED
      BY <2>1, <2>2, TailShifted
  <1>6. PICK t \in Seq(Written) : t = toServer' /\ (t = <<>> \/ t = m) /\ (conn # "up" => t = <<>>)
    <2>1. <<>> \o m = m
      BY ConcatEmptySeq
    <2>2. \/ conn = "up" /\ toServer' = <<>> \o m
          \/ toServer' = <<>>
      BY <1>1, <1>3, <1>5 DEF mwSession_send
    <2>3. PICK t : t = toServer'
      OBVIOUS
    <2>4. <<>> \in Seq(Written)
      OBVIOUS
    <2> QED
      BY <1>3, <2>1, <2>2, <2>3, <2>4
  <1>7. Typed'
    BY <1>1 DEF Typed, SessionState, Starting
  <1>8. Wired'
    BY <1>1, <1>6 DEF Wired
  <1>9. Owned'
    BY <1>1, OwnedQuiet
  <1>10. LoginOK("LOGIN_CONT", t, toClient)
    <2>1. \A i \in DOMAIN toClient : toClient[i].type = "DESTROY" /\ toClient[i].chan = None
      BY <1>1, LoginSteps DEF Login, LoginOK
    <2>2. \A i \in DOMAIN t : DOMAIN t = {1} /\ t[i].type \in Question("LOGIN_CONT")
      BY <1>3, <1>4, <1>6, LoginSteps
    <2> QED
      BY <2>1, <2>2, LoginAsk
  <1>11. Login'
    BY <1>1, <1>6, <1>10, LoginNext
  <1>12. Agree'
    BY <1>1, <1>3, <1>4, QuietAgree
  <1> QED
    BY <1>7, <1>8, <1>9, <1>11, <1>12

LEMMA AddKeeps ==
    ASSUME Inv, NEW s \in Services, mwSession_addService(s)
    PROVE  Inv'
  <1> USE DEF Inv
  <1>1. /\ services' = services \cup {s}
        /\ state' = state /\ sstate' = sstate /\ schan' = schan /\ chan' = chan
        /\ conn' = conn /\ toClient' = toClient /\ srvChans' = srvChans
        /\ breaks' = breaks
    BY DEF mwSession_addService
  <1>2. \/ state = "STARTED" /\ mwSession_send(<<Msg("SENSE", None, s)>>)
        \/ toServer' = toServer
    BY DEF mwSession_addService
  <1>3. Msg("SENSE", None, s) \in Written
    BY WrittenFacts
  <1>4. PICK m \in Seq(Written) :
          m = <<Msg("SENSE", None, s)>> /\ \A j \in DOMAIN m : m[j] = Msg("SENSE", None, s)
    BY <1>3, OneMessage
  <1>5. \A j \in DOMAIN m : m[j].type = "SENSE" /\ m[j].chan = None
    BY <1>4, MsgFacts
  <1>6. PICK t \in Seq(Written) : /\ t = toServer'
                                  /\ t = toServer \/ (state = "STARTED" /\ Behind(t, toServer, m))
                                  /\ conn # "up" => t = <<>>
    <2>1. CASE toServer' = toServer
      BY <2>1 DEF Wired
    <2>2. CASE state = "STARTED" /\ mwSession_send(m)
      BY <2>2, Sent
    <2> QED
      BY <1>2, <1>4, <2>1, <2>2
  <1>7. Typed'
    BY <1>1 DEF Typed
  <1>8. Wired'
    BY <1>1, <1>6 DEF Wired
  <1>9. Owned'
    BY <1>1, OwnedQuiet
  <1>10. Login'
    <2>1. CASE t = toServer
      BY <1>1, <1>6, <2>1, LoginNext DEF Login
    <2>2. CASE state = "STARTED" /\ Behind(t, toServer, m)
      <3>1. LoginOK("STARTED", t, toClient)
        BY <1>5, <2>2, LoginWritten DEF Login
      <3> QED
        BY <1>1, <1>6, <2>2, <3>1, LoginNext
    <2> QED
      BY <1>6, <2>1, <2>2
  <1>11. Agree'
    BY <1>1, <1>2, <1>4, <1>5, QuietAgree
  <1> QED
    BY <1>7, <1>8, <1>9, <1>10, <1>11

\* mwService_stop and mwSession_removeService
LEMMA RemoveKeeps ==
    ASSUME StopBeforeRemove, Inv, NEW s \in Services, mwSession_removeService(s)
    PROVE  Inv'
  <1> USE DEF Inv
  <1>1. /\ services' = services \ {s}
        /\ Stopped({s}) /\ mwSession_send(StopMessages(s))
        /\ state' = state /\ conn' = conn /\ toClient' = toClient
        /\ srvChans' = srvChans /\ breaks' = breaks
    BY DEF mwSession_removeService
  <1>2. {s} \in SUBSET Services
    OBVIOUS
  <1>3. Typed'
    BY <1>1, <1>2, StoppedEffect DEF Typed
  <1>4. Owned'
    <2>1. \A r \in Services : r \notin {s} /\ sstate[r] \in Live =>
             r \in services' /\ state' = "STARTED"
      BY <1>1 DEF Owned
    <2> QED
      BY <1>1, <1>2, <2>1, StoppedOwned
  <1>5. CASE sstate[s] \in Live /\ schan[s] # None
    <2>1. PICK d \in Chan : /\ d = schan[s] /\ s \in Channelled
                            /\ chan[d].srvc = s /\ chan[d] # NoChan
      BY <1>5 DEF Owned, Services
    <2>2. Msg("DESTROY", d, None) \in Written
      BY WrittenFacts
    <2>3. PICK m \in Seq(Written) : /\ m = <<Msg("DESTROY", d, None)>> /\ 1 \in DOMAIN m
                                    /\ \A j \in DOMAIN m : m[j] = Msg("DESTROY", d, None)
      BY <2>2, OneMessage
    <2>4. \A j \in DOMAIN m : m[j].type = "DESTROY" /\ m[j].chan = d
      BY <2>3, MsgFacts
    <2>5. mwSession_send(m)
      BY <1>1, <1>5, <2>1, <2>3 DEF StopMessages
    <2>6. PICK t \in Seq(Written) : /\ t = toServer'
                                    /\ conn # "up" => t = <<>> /\ toServer = <<>>
                                    /\ conn = "up" => Behind(t, toServer, m)
      BY <2>5, Sent DEF Wired
    <2>7. state = "STARTED"
      BY <1>5 DEF Owned
    <2>8. Wired'
      BY <1>1, <2>6 DEF Wired
    <2>9. Login'
      <3>1. LoginOK("STARTED", t, toClient)
        BY <2>4, <2>6, <2>7, LoginWritten DEF Login
      <3> QED
        BY <1>1, <2>6, <2>7, <3>1, LoginNext
    <2>10. chan'[d] = NoChan /\ \A c \in Chan : c # d => chan'[c] = chan[c]
      <3>1. \A c \in Chan : c # d => chan[c] = NoChan \/ chan[c].srvc \notin {s}
        BY <2>1 DEF Owned
      <3> QED
        BY <1>1, <1>2, <2>1, <3>1, StoppedEffect
    <2>11. ASSUME NEW c \in Chan
           PROVE  \E x : x = chan'[c].st /\ AgreeOn(c, x, t, toClient, srvChans, conn)
      <3>1. AgreeOn(c, chan[c].st, toServer, toClient, srvChans, conn)
        BY DEF Agree
      <3>2. CASE c = d
        <4>1. chan'[c].st = "none"
          BY <2>10, <3>2, NoChanFacts
        <4>2. CASE conn = "up"
          BY <2>3, <2>4, <2>6, <3>1, <3>2, <4>1, <4>2, OneStopped
        <4>3. CASE conn # "up"
          <5>1. srvChans = {} /\ toServer = <<>> /\ t = <<>>
            BY <2>6, <4>3 DEF Wired
          <5> QED
            BY <3>1, <4>1, <5>1, OneAbandoned
        <4> QED
          BY <4>2, <4>3
      <3>3. CASE c # d
        <4>1. chan'[c].st = chan[c].st
          BY <2>10, <3>3
        <4>2. CASE conn = "up"
          <5>1. AgreeOn(c, chan[c].st, t, toClient, srvChans, conn)
            BY <2>4, <2>6, <3>1, <3>3, <4>2, OtherWritten
          <5> QED
            BY <4>1, <5>1
        <4>3. CASE conn # "up"
          BY <2>6, <3>1, <4>1, <4>3
        <4> QED
          BY <4>2, <4>3
      <3> QED
        BY <3>2, <3>3
    <2>12. Agree'
      BY <1>1, <2>6, <2>11, AgreeNext
    <2> QED
      BY <1>3, <1>4, <2>8, <2>9, <2>12
  <1>6. CASE ~(sstate[s] \in Live /\ schan[s] # None)
    <2>1. <<>> \in Seq(Written) /\ StopMessages(s) = <<>>
      BY <1>6 DEF StopMessages
    <2>2. toServer' = toServer
      <3>1. toServer \o <<>> = toServer
        BY ConcatEmptySeq DEF Wired
      <3> QED
        BY <1>1, <2>1, <3>1 DEF mwSession_send
    <2>3. \A c \in Chan : chan'[c] = chan[c]
      <3>1. \A c \in Chan : chan[c] = NoChan \/ chan[c].srvc \notin {s}
        BY <1>6, ChanAssumption DEF Owned, Live
      <3> QED
        BY <1>1, <1>2, <3>1, StoppedEffect
    <2>4. Wired'
      BY <1>1, <2>2 DEF Wired
    <2>5. Login'
      BY <1>1, <2>2, LoginNext DEF Login
    <2>6. Agree'
      BY <1>1, <2>2, <2>3, AgreeNext DEF Agree
    <2> QED
      BY <1>3, <1>4, <2>4, <2>5, <2>6
  <1> QED
    BY <1>5, <1>6

-----------------------------------------------------------------------------
(* The handlers.                                                           *)

LEMMA HandshakeKeeps ==
    ASSUME Inv, HANDSHAKE_ACK_recv
    PROVE  Inv'
  <1> USE DEF Inv
  <1>1. /\ toClient # <<>> /\ Head(toClient).type = "HANDSHAKE_ACK"
        /\ toClient' = Tail(toClient) /\ services' = services /\ conn' = conn
        /\ srvChans' = srvChans /\ breaks' = breaks
        /\ sstate' = sstate /\ schan' = schan /\ chan' = chan
    BY DEF HANDSHAKE_ACK_recv, Receives, Rest
  <1>2. PICK q \in Seq(Answered) :
          /\ q = toClient' /\ Shifted(q, toClient)
          /\ toClient[1].type = "HANDSHAKE_ACK" /\ toClient[1].chan = None
          /\ Head(toClient) = toClient[1]
    BY <1>1, Taken, AnsweredFacts DEF LoginType
  <1>3. LoginOK(state, toServer, toClient)
    BY DEF Login
  <1>4. /\ toServer = <<>>
        /\ state \in {"HANDSHAKE", "LOGIN_CONT"}
        /\ state # "LOGIN_CONT" => \A i \in DOMAIN q : q[i].type \notin LoginType
        /\ \A i \in DOMAIN q : q[i].type \in LoginType => q[i].type = "LOGIN_ACK"
        /\ \A i, j \in DOMAIN q :
              q[i].type \in LoginType /\ q[j].type \in LoginType => i = j
        /\ \A i \in DOMAIN q : q[i].type \in LoginType \cup {"DESTROY"} /\ q[i].chan = None
    <2>1. toClient[1].type \in LoginType
      BY <1>2 DEF LoginType
    <2>2. "HANDSHAKE_ACK" \in Answers(state) => state \in {"HANDSHAKE", "LOGIN_CONT"}
      BY LoginSteps
    <2> QED
      BY <1>2, <1>3, <2>1, <2>2, LoginLast
  <1>5. Master("LOGIN") \in Written
    BY WrittenFacts
  <1>6. PICK m \in Seq(Written) :
          m = <<Master("LOGIN")>> /\ DOMAIN m = {1} /\ m[1] = Master("LOGIN")
    BY <1>5, OneMessage
  <1>7. m[1].type = "LOGIN" /\ m[1].chan = None
    BY <1>6, MsgFacts
  <1>8. \/ state = "LOGIN_CONT" /\ state' = "LOGIN" /\ toServer' = toServer
        \/ /\ state = "HANDSHAKE"
           /\ state' = IF conn = "up" THEN "LOGIN" ELSE "HANDSHAKE_ACK"
           /\ mwSession_send(m)
    BY <1>4, <1>6 DEF HANDSHAKE_ACK_recv
  <1>9. state' \in {"LOGIN", "HANDSHAKE_ACK"}
    BY <1>8
  <1>10. Agree'
    BY <1>1, <1>2, <1>6, <1>7, <1>8, QuietAgree
  <1>11. Owned'
    BY <1>1, <1>4, OwnedQuiet
  <1>12. Typed'
    BY <1>1, <1>9 DEF Typed, SessionState, Starting
  <1>13. CASE state = "LOGIN_CONT"
    <2>1. state' = "LOGIN" /\ toServer' = <<>>
      BY <1>4, <1>8, <1>13
    <2>2. Wired'
      BY <1>1, <1>2, <1>13, <2>1 DEF Wired
    <2>3. ~ \E i : i \in DOMAIN <<>>
      OBVIOUS
    <2>4. LoginOK("LOGIN", <<>>, q)
      BY <1>4, <2>3, LoginSteps DEF LoginOK
    <2>5. Login'
      BY <1>2, <2>1, <2>4, LoginNext
    <2> QED
      BY <1>10, <1>11, <1>12, <2>2, <2>5
  <1>14. CASE state = "HANDSHAKE"
    <2>1. PICK t \in Seq(Written) : /\ t = toServer'
                                    /\ conn = "up" => t = m
                                    /\ conn # "up" => t = <<>>
      <3>1. <<>> \o m = m /\ <<>> \in Seq(Written)
        BY ConcatEmptySeq
      <3>2. toServer' = IF conn = "up" THEN <<>> \o m ELSE <<>>
        BY <1>4, <1>8, <1>14 DEF mwSession_send
      <3> QED
        BY <3>1, <3>2
    <2>2. PICK st : /\ st = state'
                    /\ conn = "up" => st = "LOGIN"
                    /\ conn # "up" => st = "HANDSHAKE_ACK"
      BY <1>8, <1>14
    <2>3. Wired'
      BY <1>1, <1>2, <1>9, <1>14, <2>1 DEF Wired
    <2>4. \A i \in DOMAIN q : q[i].type = "DESTROY" /\ q[i].chan = None
      BY <1>4, <1>14
    <2>5. \A i \in DOMAIN t : DOMAIN t = {1} /\ t[i].type \in Question(st)
      <3>1. CASE conn = "up"
        BY <1>6, <1>7, <2>1, <2>2, <3>1, LoginSteps
      <3>2. CASE conn # "up"
        BY <2>1, <3>2
      <3> QED
        BY <3>1, <3>2
    <2>6. LoginOK(st, t, q)
      BY <2>2, <2>4, <2>5, LoginAsk
    <2>7. Login'
      BY <1>2, <2>1, <2>2, <2>6, LoginNext
    <2> QED
      BY <1>10, <1>11, <1>12, <2>3, <2>7
  <1> QED
    BY <1>4, <1>13, <1>14

LEMMA RedirectKeeps ==
    ASSUME Inv, LOGIN_REDIRECT_recv
    PROVE  Inv'
  <1> USE DEF Inv
  <1>1. /\ toClient # <<>> /\ Head(toClient).type = "LOGIN_REDIRECT"
        /\ state' = "LOGIN_REDIR"
        /\ toClient' = Tail(toClient) /\ services' = services /\ conn' = conn
        /\ srvChans' = srvChans /\ breaks' = breaks /\ toServer' = toServer
        /\ sstate' = sstate /\ schan' = schan /\ chan' = chan
    BY DEF LOGIN_REDIRECT_recv, Receives, Rest
  <1>2. PICK q \in Seq(Answered) :
          /\ q = toClient' /\ Shifted(q, toClient)
          /\ toClient[1].type = "LOGIN_REDIRECT" /\ toClient[1].chan = None
          /\ Head(toClient) = toClient[1] /\ state # "STOPPED"
    BY <1>1, Taken, AnsweredFacts DEF LoginType
  <1>3. /\ toServer = <<>> /\ state = "LOGIN"
        /\ \A i \in DOMAIN q : q[i].type = "DESTROY" /\ q[i].chan = None
    <2>1. toClient[1].type \in LoginType /\ LoginOK(state, toServer, toClient)
      BY <1>2 DEF LoginType, Login
    <2>2. /\ toClient[1].type \in Answers(state) /\ toServer = <<>>
          /\ state # "LOGIN_CONT" => \A i \in DOMAIN q : q[i].type \notin LoginType
          /\ \A i \in DOMAIN q : q[i].type \in LoginType \cup {"DESTROY"} /\ q[i].chan = None
      BY <1>2, <2>1, LoginLast
    <2>3. state = "LOGIN"
      BY <1>2, <2>2, LoginSteps
    <2> QED
      BY <2>2, <2>3
  <1>4. Typed'
    BY <1>1 DEF Typed, SessionState, Starting
  <1>5. Wired'
    BY <1>1, <1>2 DEF Wired
  <1>6. Owned'
    BY <1>1, <1>3, OwnedQuiet
  <1>7. LoginOK("LOGIN_REDIR", <<>>, q)
    BY <1>3, LoginAsk
  <1>8. Login'
    BY <1>1, <1>2, <1>3, <1>7, LoginNext
  <1>9. Agree'
    <2>1. <<>> \in Seq(Written) /\ \A j \in DOMAIN <<>> : <<>>[j].chan = None
      OBVIOUS
    <2> QED
      BY <1>1, <1>2, <2>1, QuietAgree
  <1> QED
    BY <1>4, <1>5, <1>6, <1>8, <1>9

\* A message that nobody waits for is dropped.
LEMMA IgnoredKeeps ==
    ASSUME Inv, Ignored, toClient # <<>>,
           Head(toClient).chan = None \/ (/\ Head(toClient).chan \in Chan
                                          /\ chan[Head(toClient).chan] = NoChan
                                          /\ Head(toClient).type \in {"ACCEPT", "DESTROY"})
    PROVE  Inv'
  <1> USE DEF Inv
  <1>1. /\ toClient' = Tail(toClient) /\ services' = services /\ conn' = conn
        /\ srvChans' = srvChans /\ breaks' = breaks
        /\ state' = state /\ toServer' = toServer
        /\ sstate' = sstate /\ schan' = schan /\ chan' = chan
    BY DEF Ignored, Rest
  <1>2. PICK q \in Seq(Answered) :
          /\ q = toClient' /\ Shifted(q, toClient)
          /\ Head(toClient) = toClient[1] /\ state # "STOPPED"
    BY <1>1, Taken
  <1>3. Typed'
    BY <1>1 DEF Typed
  <1>4. Wired'
    BY <1>1, <1>2 DEF Wired
  <1>5. Owned'
    BY <1>1, OwnedQuiet
  <1>6. LoginOK(state, toServer, q)
    BY <1>2, LoginReceived DEF Login
  <1>7. Login'
    BY <1>1, <1>2, <1>6, LoginNext
  <1>8. ASSUME NEW c \in Chan
        PROVE  AgreeOn(c, chan[c].st, toServer, q, srvChans, conn)
    <2>1. AgreeOn(c, chan[c].st, toServer, toClient, srvChans, conn)
      BY DEF Agree
    <2>2. CASE toClient[1].chan # c
      BY <1>2, <2>1, <2>2, OtherReceived
    <2>3. CASE toClient[1].chan = c
      <3>1. c # None
        BY ChanAssumption
      <3>2. chan[c].st = "none" /\ toClient[1].type \in {"ACCEPT", "DESTROY"}
        BY <1>2, <2>3, <3>1, NoChanFacts
      <3>3. CASE toClient[1].type = "ACCEPT"
        <4>1. AgreeOn(c, "none", toServer, q, srvChans, conn)
          BY <1>2, <2>1, <2>3, <3>2, <3>3, OneAccepted
        <4> QED
          BY <3>2, <4>1
      <3>4. CASE toClient[1].type = "DESTROY"
        <4>1. AgreeOn(c, "none", toServer, q, srvChans, conn)
          BY <1>2, <2>1, <2>3, <3>4, OneGone
        <4> QED
          BY <3>2, <4>1
      <3> QED
        BY <3>2, <3>3, <3>4
    <2> QED
      BY <2>2, <2>3
  <1>9. Agree'
    BY <1>1, <1>2, <1>8, AgreeNext
  <1> QED
    BY <1>3, <1>4, <1>5, <1>7, <1>9

\* A service is started by the acceptance of its channel.
LEMMA AcceptKeeps ==
    ASSUME Inv, CHANNEL_ACCEPT_recv
    PROVE  Inv'
  <1> USE DEF Inv
  <1>1. toClient # <<>> /\ Head(toClient).type = "ACCEPT"
    BY DEF CHANNEL_ACCEPT_recv, Receives
  <1>2. PICK d \in Chan : /\ d = Head(toClient).chan /\ Head(toClient) = toClient[1]
                          /\ toClient[1].type = "ACCEPT" /\ toClient[1].chan = d
    BY <1>1, Taken, AnsweredFacts
  <1>3. PICK q \in Seq(Answered) :
          q = Tail(toClient) /\ Shifted(q, toClient) /\ state # "STOPPED"
    BY <1>1, Taken
  <1>4. /\ AgreeOn(d, chan[d].st, toServer, toClient, srvChans, conn)
        /\ chan[d].st \in {"none", "WAIT"}
    <2>1. AgreeOn(d, chan[d].st, toServer, toClient, srvChans, conn)
      BY DEF Agree
    <2> QED
      BY <1>2, <1>3, <2>1, OneAccepted
  <1>5. chan[d] = NoChan \/ chan[d].st = "WAIT"
    BY <1>4, ChanFacts
  <1>6. CASE chan[d] = NoChan
    <2>1. chan[d].st # "WAIT"
      BY <1>6, NoChanFacts
    <2>2. Ignored
      BY <1>2, <1>6, <2>1 DEF CHANNEL_ACCEPT_recv, Ignored
    <2> QED
      BY <1>1, <1>2, <1>6, <2>2, IgnoredKeeps
  <1>7. CASE chan[d].st = "WAIT"
    <2>1. PICK s \in Channelled :
            /\ s = chan[d].srvc /\ s \in Services /\ schan[s] = d
            /\ sstate[s] = "STARTING" /\ s \in services /\ state = "STARTED"
      <3>1. chan[d] # NoChan
        BY <1>7, NoChanFacts
      <3> QED
        BY <1>7, <3>1 DEF Owned, Live, Services
    <2>2. /\ chan' = [chan EXCEPT ![d].st = "OPEN"]
          /\ sstate' = [sstate EXCEPT ![s] = "STARTED"]
          /\ toServer' = toServer /\ state' = state /\ schan' = schan
          /\ toClient' = q /\ services' = services /\ conn' = conn
          /\ srvChans' = srvChans /\ breaks' = breaks
      <3>1. chan[d] # NoChan
        BY <1>7, NoChanFacts
      <3>2. CHANNEL_ACCEPT_recv
        OBVIOUS
      <3> QED
        BY <1>2, <1>3, <1>7, <2>1, <3>1, <3>2 DEF CHANNEL_ACCEPT_recv, Rest
    <2>3. /\ chan'[d] = [st |-> "OPEN", srvc |-> s]
          /\ \A c \in Chan : c # d => chan'[c] = chan[c]
          /\ chan' \in [Chan -> [st : {"none", "WAIT", "OPEN"},
                                 srvc : Channelled \cup {None}]]
      BY <2>1, <2>2 DEF Typed
    <2>4. /\ sstate' \in [Services -> ServiceState]
          /\ sstate'[s] = "STARTED"
          /\ \A r \in Services : r # s => sstate'[r] = sstate[r]
      BY <2>1, <2>2 DEF Typed, ServiceState
    <2>5. Typed'
      BY <2>2, <2>3, <2>4 DEF Typed
    <2>6. Wired'
      BY <1>3, <2>2 DEF Wired
    <2>7. Owned'
      <3>1. ASSUME NEW c \in Chan, chan'[c] # NoChan
            PROVE  /\ chan'[c].srvc \in Channelled
                   /\ schan'[chan'[c].srvc] = c
                   /\ \/ chan'[c].st = "WAIT" /\ sstate'[chan'[c].srvc] = "STARTING"
                      \/ chan'[c].st = "OPEN" /\ sstate'[chan'[c].srvc] = "STARTED"
        <4>1. CASE c = d
          <5>1. chan'[c].srvc = s /\ chan'[c].st = "OPEN"
            BY <2>3, <4>1
          <5>2. schan'[s] = c /\ sstate'[s] = "STARTED"
            BY <2>1, <2>2, <2>4, <4>1
          <5> QED
            BY <2>1, <5>1, <5>2
        <4>2. CASE c # d
          <5>1. chan'[c] = chan[c] /\ schan[chan[c].srvc] = c /\ chan[c].srvc \in Services
            BY <2>3, <3>1, <4>2 DEF Owned, Services
          <5>2. chan[c].srvc # s
            BY <2>1, <4>2, <5>1
          <5>3. /\ sstate'[chan[c].srvc] = sstate[chan[c].srvc]
                /\ schan'[chan[c].srvc] = c
            BY <2>2, <2>4, <5>1, <5>2
          <5>4. /\ chan[c].srvc \in Channelled
                /\ \/ chan[c].st = "WAIT" /\ sstate[chan[c].srvc] = "STARTING"
                   \/ chan[c].st = "OPEN" /\ sstate[chan[c].srvc] = "STARTED"
            BY <3>1, <5>1 DEF Owned
          <5> QED
            BY <5>1, <5>3, <5>4
        <4> QED
          BY <4>1, <4>2
      <3>2. ASSUME NEW r \in Services
            PROVE  /\ r \in Channelled /\ sstate'[r] \in Live =>
                         /\ schan'[r] \in Chan
                         /\ chan'[schan'[r]].srvc = r /\ chan'[schan'[r]] # NoChan
                   /\ r \in Plain \/ sstate'[r] \notin Live => schan'[r] = None
                   /\ sstate'[r] \in Live => r \in services' /\ state' = "STARTED"
        <4>1. CASE r = s
          <5>1. s \notin Plain
            BY <2>1, ServicesAssumption
          <5>2. chan'[d].st = "OPEN" /\ chan'[d].srvc = s
            BY <2>3
          <5>3. chan'[d] # NoChan
            BY <5>2, NoChanFacts
          <5> QED
            BY <2>1, <2>2, <2>4, <4>1, <5>1, <5>2, <5>3 DEF Live
        <4>2. CASE r # s
          <5>1. sstate'[r] = sstate[r] /\ schan'[r] = schan[r]
            BY <2>2, <2>4, <4>2
          <5>2. r \in Channelled /\ sstate[r] \in Live =>
                  /\ schan[r] \in Chan /\ chan[schan[r]].srvc = r
                  /\ chan[schan[r]] # NoChan
            BY DEF Owned
          <5>3. r \in Channelled /\ sstate[r] \in Live => chan'[schan[r]] = chan[schan[r]]
            BY <2>1, <2>3, <4>2, <5>2
          <5>4. /\ r \in Plain \/ sstate[r] \notin Live => schan[r] = None
                /\ sstate[r] \in Live => r \in services /\ state = "STARTED"
            BY DEF Owned
          <5> QED
            BY <2>2, <5>1, <5>2, <5>3, <5>4
        <4> QED
          BY <4>1, <4>2
      <3> QED
        BY <3>1, <3>2 DEF Owned
    <2>8. LoginOK(state, toServer, q)
      BY <1>3, LoginReceived DEF Login
    <2>9. Login'
      BY <2>2, <2>8, LoginNext
    <2>10. ASSUME NEW c \in Chan
           PROVE  \E x : x = chan'[c].st /\ AgreeOn(c, x, toServer, q, srvChans, conn)
      <3>1. CASE c = d
        <4>1. chan'[c].st = "OPEN"
          BY <2>3, <3>1
        <4>2. AgreeOn(c, "OPEN", toServer, q, srvChans, conn)
          BY <1>2, <1>3, <1>4, <1>7, <3>1, OneAccepted
        <4> QED
          BY <4>1, <4>2
      <3>2. CASE c # d
        <4>1. chan'[c].st = chan[c].st
          BY <2>3, <3>2
        <4>2. AgreeOn(c, chan[c].st, toServer, q, srvChans, conn)
          BY <1>2, <1>3, <3>2, OtherReceived DEF Agree
        <4> QED
          BY <4>1, <4>2
      <3> QED
        BY <3>1, <3>2
    <2>11. Agree'
      BY <2>2, <2>10, AgreeNext
    <2> QED
      BY <2>5, <2>6, <2>7, <2>9, <2>11
  <1> QED
    BY <1>5, <1>6, <1>7

\* A service is stopped by the destruction of its channel.
LEMMA DestroyKeeps ==
    ASSUME Inv, CHANNEL_DESTROY_recv
    PROVE  Inv'
  <1> USE DEF Inv
  <1>1. toClient # <<>> /\ Head(toClient).type = "DESTROY"
    BY DEF CHANNEL_DESTROY_recv, Receives
  <1>2. /\ Head(toClient) = toClient[1] /\ toClient[1].type = "DESTROY"
        /\ toClient[1].chan \in Chan \cup {None}
    BY <1>1, Taken, AnsweredFacts
  <1>3. CASE toClient[1].chan = None
    <2>1. StopSession
      BY <1>2, <1>3 DEF CHANNEL_DESTROY_recv
    <2> QED
      BY <2>1, StopKeeps
  <1>4. CASE toClient[1].chan # None /\ chan[toClient[1].chan] = NoChan
    <2>1. Ignored
      BY <1>2, <1>4 DEF CHANNEL_DESTROY_recv
    <2> QED
      BY <1>1, <1>2, <1>4, <2>1, IgnoredKeeps
  <1>5. CASE toClient[1].chan # None /\ chan[toClient[1].chan] # NoChan
    <2>1. PICK d \in Chan : d = toClient[1].chan /\ chan[d] # NoChan
      BY <1>2, <1>5
    <2>2. PICK q \in Seq(Answered) :
            q = Tail(toClient) /\ Shifted(q, toClient) /\ state # "STOPPED"
      BY <1>1, Taken
    <2>3. PICK s \in Channelled :
            /\ s = chan[d].srvc /\ s \in Services /\ schan[s] = d
            /\ sstate[s] \in Live /\ s \in services /\ state = "STARTED"
      BY <2>1 DEF Owned, Live, Services
    <2>4. /\ chan' = [chan EXCEPT ![d] = NoChan]
          /\ schan' = [schan EXCEPT ![s] = None]
          /\ sstate' = [sstate EXCEPT ![s] = AfterStop(s)]
          /\ mwSession_send(SenseMessages(s))
          /\ toClient' = q /\ services' = services /\ conn' = conn
          /\ srvChans' = srvChans /\ breaks' = breaks /\ state' = state
      <3>1. CHANNEL_DESTROY_recv
        OBVIOUS
      <3> QED
        BY <1>2, <1>5, <2>1, <2>2, <2>3, <3>1 DEF CHANNEL_DESTROY_recv, Rest
    <2>5. PICK m \in Seq(Written) :
            /\ m = SenseMessages(s)
            /\ \A j \in DOMAIN m : m[j].type = "SENSE" /\ m[j].chan = None
      <3>1. Msg("SENSE", None, s) \in Written
        BY <2>3, WrittenFacts
      <3>2. SenseMessages(s) \in {<<>>, <<Msg("SENSE", None, s)>>}
        BY DEF SenseMessages
      <3>3. <<>> \in Seq(Written) /\ ~ \E j : j \in DOMAIN <<>>
        OBVIOUS
      <3>4. CASE SenseMessages(s) = <<>>
        BY <3>3, <3>4
      <3>5. CASE SenseMessages(s) = <<Msg("SENSE", None, s)>>
        <4>1. PICK m : m = SenseMessages(s)
          OBVIOUS
        <4>2. m \in Seq(Written) /\ \A j \in DOMAIN m : m[j] = Msg("SENSE", None, s)
          BY <3>1, <3>5, <4>1, OneMessage
        <4>3. \A j \in DOMAIN m : m[j].type = "SENSE" /\ m[j].chan = None
          BY <4>2, MsgFacts
        <4> QED
          BY <4>1, <4>2, <4>3
      <3> QED
        BY <3>2, <3>4, <3>5
    <2>6. PICK t \in Seq(Written) : /\ t = toServer'
                                    /\ t = toServer \/ Behind(t, toServer, m)
                                    /\ conn # "up" => t = <<>>
      BY <2>4, <2>5, Sent
    <2>7. Stopped({s})
      <3>1. {r \in {s} : sstate[r] \in Live} = {s}
        BY <2>3
      <3>2. sstate' = [r \in Services |-> IF r \in {s} THEN AfterStop(r) ELSE sstate[r]]
        BY <2>3, <2>4 DEF Typed
      <3>3. schan' = [r \in Services |-> IF r \in {s} THEN None ELSE schan[r]]
        BY <2>3, <2>4 DEF Typed
      <3>4. chan' = [c \in Chan |-> IF \E r \in {s} : schan[r] = c THEN NoChan ELSE chan[c]]
        BY <2>3, <2>4 DEF Typed
      <3> QED
        BY <3>1, <3>2, <3>3, <3>4 DEF Stopped
    <2>8. {s} \in SUBSET Services
      BY <2>3
    <2>9. Typed'
      BY <2>4, <2>7, <2>8, StoppedEffect DEF Typed
    <2>10. Wired'
      BY <2>2, <2>4, <2>6 DEF Wired
    <2>11. Owned'
      <3>1. \A r \in Services : r \notin {s} /\ sstate[r] \in Live =>
               r \in services' /\ state' = "STARTED"
        BY <2>4 DEF Owned
      <3> QED
        BY <2>7, <2>8, <3>1, StoppedOwned
    <2>12. LoginOK("STARTED", t, q)
      <3>1. LoginOK("STARTED", toServer, q)
        BY <2>2, <2>3, LoginReceived DEF Login
      <3> QED
        BY <2>5, <2>6, <3>1, LoginWritten
    <2>13. Login'
      BY <2>3, <2>4, <2>6, <2>12, LoginNext
    <2>14. ASSUME NEW c \in Chan
           PROVE  \E x : x = chan'[c].st /\ AgreeOn(c, x, t, q, srvChans, conn)
      <3>1. AgreeOn(c, chan[c].st, toServer, toClient, srvChans, conn)
        BY DEF Agree
      <3>2. c # None
        BY ChanAssumption
      <3>3. AgreeOn(c, chan[c].st, t, toClient, srvChans, conn)
        BY <2>5, <2>6, <3>1, <3>2, OtherWritten
      <3>4. CASE c = d
        <4>1. chan'[c].st = "none"
          BY <2>4, <3>4, NoChanFacts DEF Typed
        <4>2. AgreeOn(c, "none", t, q, srvChans, conn)
          BY <1>2, <2>1, <2>2, <3>3, <3>4, OneGone
        <4> QED
          BY <4>1, <4>2
      <3>5. CASE c # d
        <4>1. chan'[c].st = chan[c].st
          BY <2>4, <3>5 DEF Typed
        <4>2. AgreeOn(c, chan[c].st, t, q, srvChans, conn)
          BY <2>1, <2>2, <3>3, <3>5, OtherReceived
        <4> QED
          BY <4>1, <4>2
      <3> QED
        BY <3>4, <3>5
    <2>15. Agree'
      BY <2>4, <2>6, <2>14, AgreeNext
    <2> QED
      BY <2>9, <2>10, <2>11, <2>13, <2>15
  <1> QED
    BY <1>3, <1>4, <1>5

-----------------------------------------------------------------------------
(* mwService_start.                                                        *)

LEMMA InjectionExists ==
    ASSUME NEW A, NEW B, IsFiniteSet(A), IsFiniteSet(B),
           Cardinality(A) <= Cardinality(B)
    PROVE  \E f \in [A -> B] : IsInjective(f)
  <1>1. /\ Cardinality(A) \in Nat /\ ExistsBijection(1..Cardinality(A), A)
        /\ Cardinality(B) \in Nat /\ ExistsBijection(1..Cardinality(B), B)
    BY FS_CardinalityType
  <1>2. ExistsBijection(A, 1..Cardinality(A))
    BY <1>1, Fun_ExistsBijSymmetric
  <1>3. PICK g \in [A -> 1..Cardinality(A)] : IsInjective(g)
    BY <1>2 DEF ExistsBijection, Bijection, Injection
  <1>4. PICK h \in [1..Cardinality(B) -> B] : IsInjective(h)
    BY <1>1 DEF ExistsBijection, Bijection, Injection
  <1>5. \A a \in A : g[a] \in 1..Cardinality(B)
    BY <1>1, <1>3
  <1>6. PICK f : f = [a \in A |-> h[g[a]]]
    OBVIOUS
  <1>7. f \in [A -> B]
    BY <1>4, <1>5, <1>6
  <1>8. IsInjective(f)
    <2> SUFFICES ASSUME NEW a \in A, NEW b \in A, f[a] = f[b]
                 PROVE  a = b
      BY <1>7 DEF IsInjective
    <2>1. h[g[a]] = h[g[b]]
      BY <1>6
    <2>2. g[a] = g[b]
      BY <1>4, <1>5, <2>1 DEF IsInjective
    <2> QED
      BY <1>3, <2>2 DEF IsInjective
  <1> QED
    BY <1>7, <1>8

LEMMA SetToSeqFacts ==
    ASSUME NEW A, IsFiniteSet(A)
    PROVE  /\ SetToSeq(A) \in [1..Cardinality(A) -> A] /\ Cardinality(A) \in Nat
           /\ IsInjective(SetToSeq(A))
           /\ \A a \in A : \E i \in 1..Cardinality(A) : SetToSeq(A)[i] = a
  <1>1. Cardinality(A) \in Nat /\ ExistsBijection(1..Cardinality(A), A)
    BY FS_CardinalityType
  <1>2. \E f \in [1..Cardinality(A) -> A] : IsInjective(f)
    BY <1>1 DEF ExistsBijection, Bijection, Injection
  <1>3. SetToSeq(A) \in [1..Cardinality(A) -> A] /\ IsInjective(SetToSeq(A))
    BY <1>2 DEF SetToSeq
  <1>4. PICK f : f = SetToSeq(A)
    OBVIOUS
  <1>5. f \in Injection(1..Cardinality(A), A)
    BY <1>3, <1>4 DEF Injection
  <1>6. IsFiniteSet(1..Cardinality(A)) /\ Cardinality(1..Cardinality(A)) = Cardinality(A)
    BY <1>1, FS_Interval
  <1>7. f \in Surjection(1..Cardinality(A), A)
    BY <1>5, <1>6, FS_Injection
  <1>8. \A a \in A : \E i \in 1..Cardinality(A) : f[i] = a
    BY <1>7 DEF Surjection
  <1> QED
    BY <1>1, <1>3, <1>4, <1>8

\* The services in making get channels of their own, and one message is
\* written for each.
Made(making, id, m) ==
    /\ \A a, b \in making : id[a] = id[b] => a = b
    /\ \A j \in DOMAIN m : \E s \in making : m[j] = Msg("CREATE", id[s], s)
    /\ \A s \in making : \E j \in DOMAIN m : m[j] = Msg("CREATE", id[s], s)
    /\ \A i, j \in DOMAIN m : m[i].chan = m[j].chan => i = j

LEMMA StartEffect ==
    ASSUME Typed, NEW S \in SUBSET Services, mwService_start(S)
    PROVE  \E making \in SUBSET (Idle(S) \cap Channelled) :
           \E id \in [making -> FreshIds], m \in Seq(Written) :
              /\ Made(making, id, m)
              /\ conn # "up" => making = {}
              /\ mwSession_send(m)
              /\ sstate' = [s \in Services |->
                              IF s \in making THEN "STARTING"
                              ELSE IF s \in Idle(S) \cap Plain THEN "STARTED"
                              ELSE sstate[s]]
              /\ schan' = [s \in Services |-> IF s \in making THEN id[s] ELSE schan[s]]
              /\ chan' \in [Chan -> [st : {"none", "WAIT", "OPEN"},
                                     srvc : Channelled \cup {None}]]
              /\ \A s \in making : chan'[id[s]] = [st |-> "WAIT", srvc |-> s]
              /\ \A c \in Chan : (\A s \in making : id[s] # c) => chan'[c] = chan[c]
  <1>1. PICK making : making = IF conn = "up" THEN Idle(S) \cap Channelled ELSE {}
    OBVIOUS
  <1>2. making \in SUBSET (Idle(S) \cap Channelled) /\ (conn # "up" => making = {})
    BY <1>1
  <1>3. PICK id : id = CHOOSE f \in [making -> FreshIds] : IsInjective(f)
    OBVIOUS
  <1>4. PICK order : order = SetToSeq(making)
    OBVIOUS
  <1>5. PICK m : m = [i \in DOMAIN order |-> Msg("CREATE", id[order[i]], order[i])]
    OBVIOUS
  <1>6. /\ Cardinality(making) <= Cardinality(FreshIds)
        /\ sstate' = [s \in Services |->
                        IF s \in making THEN "STARTING"
                        ELSE IF s \in Idle(S) \cap Plain THEN "STARTED"
                        ELSE sstate[s]]
        /\ schan' = [s \in Services |-> IF s \in making THEN id[s] ELSE schan[s]]
        /\ chan' = [c \in Chan |->
                      IF \E s \in making : id[s] = c
                         THEN [st |-> "WAIT", srvc |-> CHOOSE s \in making : id[s] = c]
                         ELSE chan[c]]
        /\ mwSession_send(m)
    BY <1>1, <1>3, <1>4, <1>5 DEF mwService_start
  <1>7. IsFiniteSet(making) /\ IsFiniteSet(FreshIds)
    <2>1. making \in SUBSET Services /\ FreshIds \in SUBSET Chan
      BY <1>2 DEF Idle, FreshIds, Services
    <2> QED
      BY <2>1, ServicesAssumption, ChanAssumption, FS_Subset
  <1>8. id \in [making -> FreshIds] /\ IsInjective(id)
    <2>1. \E f \in [making -> FreshIds] : IsInjective(f)
      BY <1>6, <1>7, InjectionExists
    <2> QED
      BY <1>3, <2>1
  <1>9. \A a, b \in making : id[a] = id[b] => a = b
    BY <1>8 DEF IsInjective
  <1>10. PICK k \in Nat : /\ order \in [1..k -> making]
                          /\ \A i, j \in 1..k : order[i] = order[j] => i = j
                          /\ \A s \in making : \E i \in 1..k : order[i] = s
    BY <1>4, <1>7, SetToSeqFacts DEF IsInjective
  <1>11. /\ DOMAIN m = 1..k
         /\ \A i \in 1..k : m[i] = Msg("CREATE", id[order[i]], order[i]) /\ order[i] \in making
    BY <1>5, <1>10
  <1>12. FreshIds \subseteq Chan
    BY DEF FreshIds
  <1>13. \A s \in making : id[s] \in Chan /\ s \in Channelled
    BY <1>2, <1>8, <1>12
  <1>14. m \in Seq(Written)
    <2>1. \A i \in 1..k : m[i] \in Written
      BY <1>11, <1>13, WrittenFacts
    <2>2. m = [i \in 1..k |-> m[i]]
      BY <1>5, <1>10, <1>11
    <2> QED
      BY <2>1, <2>2, IsASeq
  <1>15. Made(making, id, m)
    <2>1. \A i \in DOMAIN m : m[i].chan = id[order[i]]
      BY <1>11, MsgFacts
    <2>2. \A i, j \in DOMAIN m : m[i].chan = m[j].chan => i = j
      BY <1>9, <1>10, <1>11, <2>1
    <2>3. \A s \in making : \E j \in DOMAIN m : m[j] = Msg("CREATE", id[s], s)
      BY <1>10, <1>11
    <2>4. \A j \in DOMAIN m : \E s \in making : m[j] = Msg("CREATE", id[s], s)
      BY <1>11
    <2> QED
      BY <1>9, <2>2, <2>3, <2>4 DEF Made
  <1>16. ASSUME NEW s \in making
         PROVE  chan'[id[s]] = [st |-> "WAIT", srvc |-> s]
    <2>1. id[s] \in Chan
      BY <1>13
    <2>2. (CHOOSE r \in making : id[r] = id[s]) = s
      BY <1>9
    <2> QED
      BY <1>6, <2>1, <2>2
  <1>17. \A c \in Chan : (\A s \in making : id[s] # c) => chan'[c] = chan[c]
    BY <1>6
  <1>18. chan' \in [Chan -> [st : {"none", "WAIT", "OPEN"}, srvc : Channelled \cup {None}]]
    <2>1. ASSUME NEW c \in Chan
          PROVE  chan'[c] \in [st : {"none", "WAIT", "OPEN"}, srvc : Channelled \cup {None}]
      <3>1. CASE \E s \in making : id[s] = c
        <4>1. PICK s \in making : id[s] = c
          BY <3>1
        <4>2. chan'[c] = [st |-> "WAIT", srvc |-> s] /\ s \in Channelled
          BY <1>13, <1>16, <4>1
        <4> QED
          BY <4>2
      <3>2. CASE \A s \in making : id[s] # c
        BY <1>17, <3>2 DEF Typed
      <3> QED
        BY <3>1, <3>2
    <2> QED
      BY <1>6, <2>1
  <1> QED
    BY <1>2, <1>6, <1>8, <1>14, <1>15, <1>16, <1>17, <1>18

\* The services in S are started, by the end of the login or by the server.
LEMMA ServicesStartKeeps ==
    ASSUME Inv, NEW S \in SUBSET services, mwService_start(S), Rest,
           toClient # <<>>, Head(toClient).chan = None, state' = "STARTED",
           state = "STARTED" \/ (state = "LOGIN" /\ Head(toClient).type = "LOGIN_ACK")
    PROVE  Inv'
  <1> USE DEF Inv
  <1>1. /\ toClient' = Tail(toClient) /\ services' = services /\ conn' = conn
        /\ srvChans' = srvChans /\ breaks' = breaks
    BY DEF Rest
  <1>2. PICK q \in Seq(Answered) :
          /\ q = toClient' /\ Shifted(q, toClient)
          /\ Head(toClient) = toClient[1] /\ toClient[1].chan = None
    BY <1>1, Taken
  <1>3. S \in SUBSET Services
    BY DEF Typed
  <1>4. PICK making \in SUBSET (Idle(S) \cap Channelled) :
        \E id \in [making -> FreshIds], m \in Seq(Written) :
          /\ Made(making, id, m)
          /\ conn # "up" => making = {}
          /\ mwSession_send(m)
          /\ sstate' = [s \in Services |->
                          IF s \in making THEN "STARTING"
                          ELSE IF s \in Idle(S) \cap Plain THEN "STARTED"
                          ELSE sstate[s]]
          /\ schan' = [s \in Services |-> IF s \in making THEN id[s] ELSE schan[s]]
          /\ chan' \in [Chan -> [st : {"none", "WAIT", "OPEN"},
                                 srvc : Channelled \cup {None}]]
          /\ \A s \in making : chan'[id[s]] = [st |-> "WAIT", srvc |-> s]
          /\ \A c \in Chan : (\A s \in making : id[s] # c) => chan'[c] = chan[c]
    BY <1>3, StartEffect
  <1>5. PICK id \in [making -> FreshIds], m \in Seq(Written) :
          /\ Made(making, id, m)
          /\ conn # "up" => making = {}
          /\ mwSession_send(m)
          /\ sstate' = [s \in Services |->
                          IF s \in making THEN "STARTING"
                          ELSE IF s \in Idle(S) \cap Plain THEN "STARTED"
                          ELSE sstate[s]]
          /\ schan' = [s \in Services |-> IF s \in making THEN id[s] ELSE schan[s]]
          /\ chan' \in [Chan -> [st : {"none", "WAIT", "OPEN"},
                                 srvc : Channelled \cup {None}]]
          /\ \A s \in making : chan'[id[s]] = [st |-> "WAIT", srvc |-> s]
          /\ \A c \in Chan : (\A s \in making : id[s] # c) => chan'[c] = chan[c]
    BY <1>4
  <1>6. PICK t \in Seq(Written) :
          /\ t = toServer'
          /\ conn # "up" => t = <<>> /\ t = toServer
          /\ conn = "up" => Behind(t, toServer, m)
    BY <1>5, Sent DEF Wired
  <1>7. \A s \in making : /\ s \in Channelled /\ s \in Services /\ s \in services
                          /\ s \notin Plain /\ sstate[s] = "STOPPED"
    BY <1>3, <1>4, ServicesAssumption DEF Idle, Services
  <1>8. \A s \in making : /\ id[s] \in Chan /\ id[s] \in FreshIds /\ id[s] \notin srvChans
                          /\ chan[id[s]] = NoChan /\ id[s] \notin InFlight
    BY <1>5 DEF FreshIds
  <1>9. \A s \in Services :
          /\ s \in making => sstate'[s] = "STARTING" /\ schan'[s] = id[s]
          /\ s \notin making => schan'[s] = schan[s]
          /\ s \notin making /\ s \in Idle(S) /\ s \in Plain => sstate'[s] = "STARTED"
          /\ s \notin making /\ ~(s \in Idle(S) /\ s \in Plain) => sstate'[s] = sstate[s]
    BY <1>5
  <1>10. \A s \in making : chan'[id[s]].st = "WAIT" /\ chan'[id[s]].srvc = s
    <2>1. \A s \in making : chan'[id[s]] = [st |-> "WAIT", srvc |-> s]
      BY <1>5, Zenon
    <2>2. ASSUME NEW s \in making
          PROVE  chan'[id[s]].st = "WAIT" /\ chan'[id[s]].srvc = s
      <3>1. PICK r : r = chan'[id[s]] /\ r = [st |-> "WAIT", srvc |-> s]
        BY <2>1, Zenon
      <3>2. r.st = "WAIT" /\ r.srvc = s
        BY <3>1
      <3> QED
        BY <3>1, <3>2, Zenon
    <2> QED
      BY <2>2, Zenon
  <1>11. making # {} => conn = "up" /\ Behind(t, toServer, m)
    <2>1. conn # "up" => making = {}
      BY <1>5, Zenon
    <2> QED
      BY <1>6, <2>1
  <1>12. Typed'
    <2>1. sstate' \in [Services -> ServiceState]
      BY <1>5 DEF Typed, ServiceState
    <2>2. schan' \in [Services -> Chan \cup {None}]
      BY <1>5, <1>8 DEF Typed
    <2> QED
      BY <1>1, <1>5, <2>1, <2>2 DEF Typed, SessionState
  <1>13. Wired'
    <2>1. state # "STOPPED"
      OBVIOUS
    <2> QED
      BY <1>1, <1>2, <1>6, <2>1 DEF Wired
  <1>14. Owned'
    <2>1. ASSUME NEW c \in Chan, chan'[c] # NoChan
          PROVE  /\ chan'[c].srvc \in Channelled
                 /\ schan'[chan'[c].srvc] = c
                 /\ \/ chan'[c].st = "WAIT" /\ sstate'[chan'[c].srvc] = "STARTING"
                    \/ chan'[c].st = "OPEN" /\ sstate'[chan'[c].srvc] = "STARTED"
      <3>1. CASE \E s \in making : id[s] = c
        <4>1. PICK s \in making : id[s] = c
          BY <3>1
        <4>2. chan'[c].st = "WAIT" /\ chan'[c].srvc = s
          BY <1>10, <4>1
        <4> QED
          BY <1>7, <1>9, <4>1, <4>2
      <3>2. CASE \A s \in making : id[s] # c
        <4>1. chan'[c] = chan[c]
          BY <1>5, <3>2
        <4>2. PICK s \in Channelled :
                /\ s = chan[c].srvc /\ schan[s] = c /\ s \in Services
                /\ \/ chan[c].st = "WAIT" /\ sstate[s] = "STARTING"
                   \/ chan[c].st = "OPEN" /\ sstate[s] = "STARTED"
          BY <2>1, <4>1 DEF Owned, Services
        <4>3. s \notin making /\ s \notin Plain
          BY <1>7, <4>2, ServicesAssumption
        <4>4. sstate'[s] = sstate[s] /\ schan'[s] = schan[s]
          BY <1>9, <4>2, <4>3
        <4> QED
          BY <4>1, <4>2, <4>4
      <3> QED
        BY <3>1, <3>2
    <2>2. ASSUME NEW s \in Services
          PROVE  /\ s \in Channelled /\ sstate'[s] \in Live =>
                       /\ schan'[s] \in Chan
                       /\ chan'[schan'[s]].srvc = s /\ chan'[schan'[s]] # NoChan
                 /\ s \in Plain \/ sstate'[s] \notin Live => schan'[s] = None
                 /\ sstate'[s] \in Live => s \in services' /\ state' = "STARTED"
      <3>1. CASE s \in making
        <4>1. chan'[id[s]].st = "WAIT" /\ chan'[id[s]].srvc = s
          BY <1>10, <3>1
        <4>2. chan'[id[s]] # NoChan
          BY <4>1, NoChanFacts
        <4> QED
          BY <1>1, <1>7, <1>8, <1>9, <3>1, <4>1, <4>2 DEF Live
      <3>2. CASE s \notin making /\ s \in Idle(S) /\ s \in Plain
        <4>1. s \notin Channelled /\ s \in services
          BY <3>2, ServicesAssumption DEF Idle
        <4>2. schan'[s] = None
          BY <1>9, <3>2 DEF Owned
        <4> QED
          BY <1>1, <4>1, <4>2
      <3>3. CASE s \notin making /\ ~(s \in Idle(S) /\ s \in Plain)
        <4>1. sstate'[s] = sstate[s] /\ schan'[s] = schan[s]
          BY <1>9, <3>3
        <4>2. s \in Channelled /\ sstate[s] \in Live =>
                /\ schan[s] \in Chan /\ chan[schan[s]].srvc = s
                /\ chan[schan[s]] # NoChan
          BY DEF Owned
        <4>3. s \in Channelled /\ sstate[s] \in Live => chan'[schan[s]] = chan[schan[s]]
          BY <1>5, <1>8, <4>2
        <4>4. /\ s \in Plain \/ sstate[s] \notin Live => schan[s] = None
              /\ sstate[s] \in Live => s \in services
          BY DEF Owned
        <4> QED
          BY <1>1, <4>1, <4>2, <4>3, <4>4
      <3> QED
        BY <3>1, <3>2, <3>3
    <2> QED
      BY <2>1, <2>2 DEF Owned
  <1>15. LoginOK("STARTED", toServer, q)
    <2>1. LoginOK(state, toServer, toClient)
      BY DEF Login
    <2>2. CASE state = "STARTED"
      BY <1>2, <2>1, <2>2, LoginReceived
    <2>3. CASE state = "LOGIN" /\ toClient[1].type = "LOGIN_ACK"
      <3>1. toClient[1].type \in LoginType
        BY <2>3 DEF LoginType
      <3>2. toServer = <<>> /\ \A i \in DOMAIN q : q[i].type \notin LoginType
        BY <1>2, <2>1, <2>3, <3>1, LoginLast
      <3>3. ~ \E i : i \in DOMAIN <<>>
        OBVIOUS
      <3> QED
        BY <3>2, <3>3 DEF LoginOK
    <2> QED
      BY <1>2, <2>2, <2>3
  <1>16. \A j \in DOMAIN m : m[j].type = "CREATE"
    BY <1>5, MsgFacts DEF Made
  <1>17. LoginOK("STARTED", t, q)
    <2>1. CASE conn = "up"
      BY <1>6, <1>15, <1>16, <2>1, LoginWritten
    <2>2. CASE conn # "up"
      BY <1>6, <1>15, <2>2
    <2> QED
      BY <2>1, <2>2
  <1>18. Login'
    BY <1>2, <1>6, <1>17, LoginNext
  <1>19. ASSUME NEW c \in Chan
         PROVE  \E x : x = chan'[c].st /\ AgreeOn(c, x, t, q, srvChans, conn)
    <2>1. CASE \E s \in making : id[s] = c
      <3>1. PICK s \in making : id[s] = c
        BY <2>1
      <3>2. chan'[c].st = "WAIT" /\ conn = "up" /\ Behind(t, toServer, m)
        BY <1>10, <1>11, <3>1
      <3>3. PICK k \in DOMAIN m : m[k] = Msg("CREATE", c, s)
        BY <1>5, <3>1 DEF Made
      <3>4. m[k].type = "CREATE" /\ m[k].chan = c
        BY <3>3, MsgFacts
      <3>5. \A j \in DOMAIN m : m[j].chan = c => j = k
        BY <1>5, <3>4 DEF Made
      <3>6. Creates(m, c)
        BY <3>3, <3>4, <3>5 DEF Creates
      <3>7. c \notin srvChans /\ c \notin InFlight
        BY <1>8, <3>1
      <3>8. Unused(c, toServer, toClient, srvChans)
        BY <3>7 DEF InFlight, Unused
      <3>9. Unused(c, toServer, q, srvChans)
        BY <1>2, <3>8 DEF Shifted, Unused
      <3>10. AgreeOn(c, "WAIT", t, q, srvChans, "up")
        BY <3>2, <3>6, <3>9, OneCreated
      <3> QED
        BY <3>2, <3>10
    <2>2. CASE \A s \in making : id[s] # c
      <3>1. chan'[c].st = chan[c].st
        BY <1>5, <2>2
      <3>2. AgreeOn(c, chan[c].st, toServer, q, srvChans, conn)
        BY <1>2, ChanAssumption, OtherReceived DEF Agree
      <3>3. \A j \in DOMAIN m : m[j].chan # c
        BY <1>5, <2>2, MsgFacts DEF Made
      <3>4. AgreeOn(c, chan[c].st, t, q, srvChans, conn)
        <4>1. CASE conn = "up"
          BY <1>6, <3>2, <3>3, <4>1, OtherWritten
        <4>2. CASE conn # "up"
          BY <1>6, <3>2, <4>2
        <4> QED
          BY <4>1, <4>2
      <3> QED
        BY <3>1, <3>4
    <2> QED
      BY <2>1, <2>2
  <1>20. Agree'
    BY <1>1, <1>2, <1>6, <1>19, AgreeNext
  <1> QED
    BY <1>12, <1>13, <1>14, <1>18, <1>20

LEMMA LoginAckKeeps ==
    ASSUME Inv, LOGIN_ACK_recv
    PROVE  Inv'
  <1>1. /\ toClient # <<>> /\ Head(toClient).type = "LOGIN_ACK"
        /\ \/ /\ state = "LOGIN" /\ state' = "STARTED"
              /\ mwService_start(services) /\ Rest
           \/ Ignored
    BY DEF LOGIN_ACK_recv, Receives
  <1>2. Head(toClient).chan = None
    BY <1>1, Taken, AnsweredFacts DEF Inv, LoginType
  <1>3. services \in SUBSET services
    OBVIOUS
  <1> QED
    BY <1>1, <1>2, <1>3, ServicesStartKeeps, IgnoredKeeps

LEMMA SenseKeeps ==
    ASSUME Inv, SENSE_SERVICE_recv
    PROVE  Inv'
  <1>1. toClient # <<>> /\ Head(toClient).type = "SENSE"
    BY DEF SENSE_SERVICE_recv, Receives
  <1>2. /\ Head(toClient).chan = None /\ toClient[1].type = "SENSE"
        /\ 1 \in DOMAIN toClient
    BY <1>1, Taken, AnsweredFacts DEF Inv, Shifted
  <1>3. state = "STARTED"
    <2>1. LoginOK(state, toServer, toClient)
      BY DEF Inv, Login
    <2> QED
      BY <1>2, <2>1 DEF LoginOK, LoginType
  <1>4. CASE Head(toClient).srvc \in services
    <2>1. {Head(toClient).srvc} \in SUBSET services
      BY <1>4
    <2>2. mwService_start({Head(toClient).srvc}) /\ Rest /\ state' = "STARTED"
      BY <1>3, <1>4 DEF SENSE_SERVICE_recv
    <2> QED
      BY <1>1, <1>2, <1>3, <2>1, <2>2, ServicesStartKeeps
  <1>5. CASE Head(toClient).srvc \notin services
    <2>1. Ignored
      BY <1>5 DEF SENSE_SERVICE_recv
    <2> QED
      BY <1>1, <1>2, <2>1, IgnoredKeeps
  <1> QED
    BY <1>4, <1>5

-----------------------------------------------------------------------------
(* The server and the network.                                             *)

\* The answer, or the two, to the question of the login.
LEMMA LoginReply ==
    ASSUME NEW st, NEW ts, NEW tc, NEW t, NEW q, NEW m, st # "STARTED",
           LoginOK(st, ts, tc), Shifted(t, ts), Behind(q, tc, m),
           \A j \in DOMAIN m :
              m[j].chan = None /\ m[j].type \in Answers(st) \cup {"DESTROY"},
           \A i, j \in DOMAIN m : i # j =>
              /\ st = "LOGIN_CONT"
              /\ j < i => m[j].type = "HANDSHAKE_ACK" /\ m[i].type = "LOGIN_ACK"
    PROVE  LoginOK(st, <<>>, q)
  <1>1. \A i \in DOMAIN tc : tc[i].type = "DESTROY" /\ tc[i].chan = None
    <2>1. \A i \in DOMAIN tc : tc[i].type \notin LoginType
      BY LoginRead
    <2>2. \A i \in DOMAIN tc : tc[i].type \in LoginType \cup {"DESTROY"} /\ tc[i].chan = None
      BY DEF LoginOK
    <2> QED
      BY <2>1, <2>2
  <1>2. Answers(st) \subseteq LoginType /\ "DESTROY" \notin LoginType
    BY LoginSteps DEF LoginType
  <1>3. \A i \in DOMAIN q : \/ q[i].type = "DESTROY" /\ q[i].chan = None
                            \/ \E j \in DOMAIN m : i = Len(tc) + j /\ q[i] = m[j]
    BY <1>1 DEF Behind
  <1>4. \A i \in DOMAIN q : q[i].type \in LoginType \cup {"DESTROY"} /\ q[i].chan = None
    BY <1>2, <1>3
  <1>5. ASSUME NEW i \in DOMAIN q, q[i].type \in LoginType
        PROVE  /\ q[i].type \in Answers(st)
               /\ \A j \in DOMAIN q : q[j].type \in LoginType /\ j # i =>
                     /\ st = "LOGIN_CONT"
                     /\ j < i => q[j].type = "HANDSHAKE_ACK" /\ q[i].type = "LOGIN_ACK"
    <2>1. PICK k \in DOMAIN m : i = Len(tc) + k /\ q[i] = m[k]
      BY <1>2, <1>3, <1>5
    <2>2. q[i].type \in Answers(st)
      BY <1>2, <1>5, <2>1
    <2>3. ASSUME NEW j \in DOMAIN q, q[j].type \in LoginType, j # i
          PROVE  /\ st = "LOGIN_CONT"
                 /\ j < i => q[j].type = "HANDSHAKE_ACK" /\ q[i].type = "LOGIN_ACK"
      <3>1. PICK l \in DOMAIN m : j = Len(tc) + l /\ q[j] = m[l]
        BY <1>2, <1>3, <2>3
      <3>2. Len(tc) \in Nat /\ k \in Nat /\ l \in Nat
        BY <2>1, <3>1 DEF Behind
      <3>3. l # k /\ (j < i => l < k)
        BY <2>1, <2>3, <3>1, <3>2
      <3> QED
        BY <2>1, <3>1, <3>3
    <2> QED
      BY <2>2, <2>3
  <1>6. ~ \E i : i \in DOMAIN <<>>
    OBVIOUS
  <1> QED
    BY <1>4, <1>5, <1>6 DEF LoginOK

\* The server takes the first message and puts m behind what it sent.
LEMMA ServerTakes ==
    ASSUME Inv, toServer # <<>>, NEW m \in Seq(Answered), Reply(m),
           srvChans' \in SUBSET Chan
    PROVE  /\ conn = "up" /\ conn' = conn /\ Typed' /\ Wired' /\ Owned'
           /\ Head(toServer) = toServer[1] /\ toServer[1] \in Written
           /\ state' = state /\ chan' = chan
           /\ \E t \in Seq(Written), q \in Seq(Answered) :
                /\ t = toServer' /\ Shifted(t, toServer)
                /\ q = toClient' /\ Behind(q, toClient, m)
  <1> USE DEF Inv
  <1>1. /\ toServer' = Tail(toServer) /\ toClient' = toClient \o m
        /\ conn' = conn /\ breaks' = breaks /\ state' = state
        /\ services' = services /\ sstate' = sstate /\ schan' = schan /\ chan' = chan
    BY DEF Reply, clientVars
  <1>2. conn = "up"
    BY DEF Wired
  <1>3. /\ Tail(toServer) \in Seq(Written) /\ Shifted(Tail(toServer), toServer)
        /\ Head(toServer) = toServer[1] /\ toServer[1] \in Written
    BY TailShifted DEF Wired
  <1>4. toClient \o m \in Seq(Answered) /\ Behind(toClient \o m, toClient, m)
    BY ConcatBehind DEF Wired
  <1>5. Typed'
    BY <1>1 DEF Typed
  <1>6. Wired'
    BY <1>1, <1>2, <1>3, <1>4 DEF Wired
  <1>7. Owned'
    BY <1>1, OwnedQuiet
  <1> QED
    BY <1>1, <1>2, <1>3, <1>4, <1>5, <1>6, <1>7

\* An answer of the login.
LEMMA ServerLogs ==
    ASSUME Inv, toServer # <<>>, NEW m \in Seq(Answered), Reply(m),
           srvChans' = srvChans,
           Head(toServer).type \in {"HANDSHAKE", "LOGIN", "LOGIN_CONTINUE"},
           \A j \in DOMAIN m : m[j].chan = None,
           Head(toServer).type \in Question(state) =>
             /\ \A j \in DOMAIN m : m[j].type \in Answers(state) \cup {"DESTROY"}
             /\ \A i, j \in DOMAIN m : i # j =>
                  /\ state = "LOGIN_CONT"
                  /\ j < i => m[j].type = "HANDSHAKE_ACK" /\ m[i].type = "LOGIN_ACK"
    PROVE  Inv'
  <1>1. srvChans' \in SUBSET Chan
    BY DEF Inv, Typed
  <1>2. /\ conn = "up" /\ conn' = conn /\ Typed' /\ Wired' /\ Owned'
        /\ Head(toServer) = toServer[1] /\ toServer[1] \in Written
        /\ state' = state /\ chan' = chan
    BY <1>1, ServerTakes
  <1>3. PICK t \in Seq(Written), q \in Seq(Answered) :
          /\ t = toServer' /\ Shifted(t, toServer)
          /\ q = toClient' /\ Behind(q, toClient, m)
    BY <1>1, ServerTakes
  <1>4. LoginOK(state, toServer, toClient) /\ 1 \in DOMAIN toServer
    BY <1>3 DEF Inv, Login, Shifted
  <1>5. state # "STARTED"
    BY <1>2, <1>4 DEF LoginOK
  <1>6. toServer[1].type \in Question(state) /\ \A i \in DOMAIN t : FALSE
    BY <1>3, <1>4, <1>5, LoginRead
  <1>7. t = <<>>
    <2>1. Len(t) \in Nat /\ DOMAIN t = 1..Len(t)
      BY LenProperties
    <2>2. Len(t) = 0
      BY <1>6, <2>1
    <2> QED
      BY <2>2, EmptySeq
  <1>8. /\ \A j \in DOMAIN m : m[j].type \in Answers(state) \cup {"DESTROY"}
        /\ \A i, j \in DOMAIN m : i # j =>
             /\ state = "LOGIN_CONT"
             /\ j < i => m[j].type = "HANDSHAKE_ACK" /\ m[i].type = "LOGIN_ACK"
    BY <1>2, <1>6
  <1>9. LoginOK(state, t, q)
    BY <1>3, <1>4, <1>5, <1>7, <1>8, LoginReply
  <1>10. Login'
    BY <1>2, <1>3, <1>9, LoginNext
  <1>11. toServer[1].chan = None
    BY <1>2, WrittenFacts
  <1>12. ASSUME NEW c \in Chan
         PROVE  AgreeOn(c, chan[c].st, t, q, srvChans, conn)
    <2>1. AgreeOn(c, chan[c].st, toServer, toClient, srvChans, conn) /\ c # None
      BY ChanAssumption DEF Inv, Agree
    <2>2. AgreeOn(c, chan[c].st, t, toClient, srvChans, conn)
      BY <1>3, <1>11, <2>1, OtherRead
    <2> QED
      BY <1>3, <2>1, <2>2, OtherAnswered
  <1>13. Agree'
    BY <1>2, <1>3, <1>12, AgreeNext
  <1> QED
    BY <1>2, <1>10, <1>13 DEF Inv

\* What the server does about a service or a channel, once the login is over.
LEMMA ServerServes ==
    ASSUME Inv, toServer # <<>>, NEW m \in Seq(Answered), Reply(m),
           srvChans' \in SUBSET Chan,
           Head(toServer).type \in {"SENSE", "CREATE", "DESTROY"},
           \A j \in DOMAIN m : m[j].type \notin LoginType
    PROVE  Login'
  <1>1. /\ Head(toServer) = toServer[1] /\ state' = state
    BY ServerTakes
  <1>2. PICK t \in Seq(Written), q \in Seq(Answered) :
          /\ t = toServer' /\ Shifted(t, toServer)
          /\ q = toClient' /\ Behind(q, toClient, m)
    BY ServerTakes
  <1>3. LoginOK(state, toServer, toClient) /\ 1 \in DOMAIN toServer
    BY <1>2 DEF Inv, Login, Shifted
  <1>4. state = "STARTED"
    <2> SUFFICES ASSUME state # "STARTED" PROVE FALSE
      OBVIOUS
    <2>1. toServer[1].type \in Question(state)
      BY <1>2, <1>3, LoginRead
    <2> QED
      BY <1>1, <2>1, LoginSteps
  <1>5. LoginOK(state, t, toClient)
    BY <1>2, <1>3, <1>4, LoginRead
  <1>6. LoginOK(state, t, q)
    BY <1>2, <1>4, <1>5, LoginAnswered
  <1> QED
    BY <1>1, <1>2, <1>6, LoginNext

LEMMA ServerAnswersKeeps ==
    ASSUME Inv, ServerAnswers
    PROVE  Inv'
  <1>1. toServer # <<>>
    BY DEF ServerAnswers
  <1>2. PICK h \in Written : h = Head(toServer) /\ h = toServer[1]
    BY <1>1, TailShifted DEF Inv, Wired
  <1>3. h.type \in {"HANDSHAKE", "LOGIN", "LOGIN_CONTINUE", "SENSE", "DESTROY", "CREATE"}
    BY <1>2, WrittenFacts
  <1>4. srvChans \in SUBSET Chan
    BY DEF Inv, Typed
  <1>5. CASE h.type = "HANDSHAKE"
    <2>1. Reply(<<Master("HANDSHAKE_ACK")>>) /\ srvChans' = srvChans
      BY <1>2, <1>5 DEF ServerAnswers
    <2>2. Master("HANDSHAKE_ACK") \in Answered
      BY AnsweredFacts DEF LoginType
    <2>3. PICK m \in Seq(Answered) :
            /\ m = <<Master("HANDSHAKE_ACK")>>
            /\ DOMAIN m = {1} /\ m[1] = Master("HANDSHAKE_ACK")
      BY <2>2, OneMessage
    <2>4. m[1].type = "HANDSHAKE_ACK" /\ m[1].chan = None
      BY <2>3, MsgFacts
    <2>5. h.type \in Question(state) => "HANDSHAKE_ACK" \in Answers(state)
      BY <1>5, LoginSteps
    <2>6. Reply(m)
      BY <2>1, <2>3
    <2> QED
      BY <1>1, <1>2, <1>5, <2>1, <2>3, <2>4, <2>5, <2>6, ServerLogs
  <1>6. CASE h.type = "LOGIN"
    <2>1. srvChans' = srvChans
      BY <1>2, <1>6 DEF ServerAnswers
    <2>2. PICK answer \in {"LOGIN_ACK", "LOGIN_REDIRECT", "DESTROY"} :
            Reply(<<Master(answer)>>)
      BY <1>2, <1>6 DEF ServerAnswers
    <2>3. Master(answer) \in Answered
      BY AnsweredFacts DEF LoginType
    <2>4. PICK m \in Seq(Answered) :
            m = <<Master(answer)>> /\ DOMAIN m = {1} /\ m[1] = Master(answer)
      BY <2>3, OneMessage
    <2>5. m[1].type = answer /\ m[1].chan = None
      BY <2>4, MsgFacts
    <2>6. h.type \in Question(state) => answer \in Answers(state) \cup {"DESTROY"}
      BY <1>6, LoginSteps
    <2>7. Reply(m)
      BY <2>2, <2>4
    <2> QED
      BY <1>1, <1>2, <1>6, <2>1, <2>4, <2>5, <2>6, <2>7, ServerLogs
  <1>7. CASE h.type = "LOGIN_CONTINUE"
    <2>1. /\ Reply(<<Master("HANDSHAKE_ACK"), Master("LOGIN_ACK")>>)
          /\ srvChans' = srvChans
      BY <1>2, <1>7 DEF ServerAnswers
    <2>2. Master("HANDSHAKE_ACK") \in Answered /\ Master("LOGIN_ACK") \in Answered
      BY AnsweredFacts DEF LoginType
    <2>3. PICK a, b : a = Master("HANDSHAKE_ACK") /\ b = Master("LOGIN_ACK")
      OBVIOUS
    <2>4. PICK m \in Seq(Answered) :
            m = <<a, b>> /\ DOMAIN m = {1, 2} /\ m[1] = a /\ m[2] = b
      <3>1. a \in Answered /\ b \in Answered
        BY <2>2, <2>3
      <3>2. <<a, b>> \in Seq(Answered) /\ DOMAIN <<a, b>> = {1, 2}
        BY <3>1
      <3> QED
        BY <3>2
    <2>5. /\ m[1].type = "HANDSHAKE_ACK" /\ m[1].chan = None
          /\ m[2].type = "LOGIN_ACK" /\ m[2].chan = None
      BY <2>3, <2>4, MsgFacts
    <2>6. h.type \in Question(state) =>
            /\ state = "LOGIN_CONT"
            /\ "HANDSHAKE_ACK" \in Answers(state) /\ "LOGIN_ACK" \in Answers(state)
      BY <1>7, LoginSteps
    <2>7. Reply(m)
      BY <2>1, <2>3, <2>4
    <2>8. \A j \in DOMAIN m : m[j].chan = None
      BY <2>4, <2>5
    <2>9. \A i, j \in DOMAIN m : j < i => j = 1 /\ i = 2
      BY <2>4
    <2>10. h.type \in Question(state) =>
             /\ \A j \in DOMAIN m : m[j].type \in Answers(state) \cup {"DESTROY"}
             /\ \A i, j \in DOMAIN m : i # j =>
                  /\ state = "LOGIN_CONT"
                  /\ j < i => m[j].type = "HANDSHAKE_ACK" /\ m[i].type = "LOGIN_ACK"
      BY <2>4, <2>5, <2>6, <2>9
    <2> QED
      BY <1>1, <1>2, <1>7, <2>1, <2>7, <2>8, <2>10, ServerLogs
  <1>8. CASE h.type = "SENSE"
    <2>1. Reply(<<h>>) /\ srvChans' = srvChans
      BY <1>2, <1>8 DEF ServerAnswers
    <2>2. h \in Answered /\ h.chan = None
      BY <1>2, <1>8, WrittenFacts
    <2>3. PICK m \in Seq(Answered) : m = <<h>> /\ DOMAIN m = {1} /\ m[1] = h
      BY <2>2, OneMessage
    <2>4. Reply(m) /\ srvChans' \in SUBSET Chan
      BY <1>4, <2>1, <2>3
    <2>5. \A j \in DOMAIN m : m[j].type \notin LoginType /\ m[j].chan = None
      BY <1>8, <2>2, <2>3 DEF LoginType
    <2>6. /\ conn' = conn /\ Typed' /\ Wired' /\ Owned' /\ chan' = chan
      BY <1>1, <2>4, ServerTakes
    <2>7. PICK t \in Seq(Written), q \in Seq(Answered) :
            /\ t = toServer' /\ Shifted(t, toServer)
            /\ q = toClient' /\ Behind(q, toClient, m)
      BY <1>1, <2>4, ServerTakes
    <2>8. Login'
      BY <1>1, <1>2, <1>8, <2>4, <2>5, ServerServes
    <2>9. ASSUME NEW c \in Chan
          PROVE  AgreeOn(c, chan[c].st, t, q, srvChans, conn)
      <3>1. AgreeOn(c, chan[c].st, toServer, toClient, srvChans, conn) /\ c # None
        BY ChanAssumption DEF Inv, Agree
      <3>2. AgreeOn(c, chan[c].st, t, toClient, srvChans, conn)
        BY <1>2, <2>2, <2>7, <3>1, OtherRead
      <3> QED
        BY <2>5, <2>7, <3>1, <3>2, OtherAnswered
    <2>10. Agree'
      BY <2>1, <2>6, <2>7, <2>9, AgreeNext
    <2> QED
      BY <2>6, <2>8, <2>10 DEF Inv
  <1>9. CASE h.type = "CREATE"
    <2>1. PICK d \in Chan : d = h.chan
      BY <1>2, <1>9, WrittenFacts
    <2>2. PICK y \in {"ACCEPT", "DESTROY"} :
            /\ Reply(<<Msg(y, d, None)>>)
            /\ y = "ACCEPT" => srvChans' = srvChans \cup {d}
            /\ y = "DESTROY" => srvChans' = srvChans
      <3>1. \/ Reply(<<Msg("ACCEPT", d, None)>>) /\ srvChans' = srvChans \cup {d}
            \/ Reply(<<Msg("DESTROY", d, None)>>) /\ srvChans' = srvChans
        BY <1>2, <1>9, <2>1 DEF ServerAnswers
      <3> QED
        BY <3>1
    <2>3. Msg(y, d, None) \in Answered
      BY AnsweredFacts
    <2>4. PICK m \in Seq(Answered) :
            m = <<Msg(y, d, None)>> /\ DOMAIN m = {1} /\ m[1] = Msg(y, d, None)
      BY <2>3, OneMessage
    <2>5. m[1].type = y /\ m[1].chan = d
      BY <2>4, MsgFacts
    <2>6. Reply(m) /\ srvChans' \in SUBSET Chan
      BY <1>4, <2>2, <2>4
    <2>7. \A j \in DOMAIN m : m[j].type \notin LoginType /\ m[j].chan = d
      BY <2>4, <2>5 DEF LoginType
    <2>8. /\ conn' = conn /\ Typed' /\ Wired' /\ Owned' /\ chan' = chan
      BY <1>1, <2>6, ServerTakes
    <2>9. PICK t \in Seq(Written), q \in Seq(Answered) :
            /\ t = toServer' /\ Shifted(t, toServer)
            /\ q = toClient' /\ Behind(q, toClient, m)
      BY <1>1, <2>6, ServerTakes
    <2>10. Login'
      BY <1>1, <1>2, <1>9, <2>6, <2>7, ServerServes
    <2>11. PICK S : /\ S = srvChans'
                    /\ y = "ACCEPT" => S = srvChans \cup {d}
                    /\ y = "DESTROY" => S = srvChans
      BY <2>2
    <2>12. ASSUME NEW c \in Chan
           PROVE  AgreeOn(c, chan[c].st, t, q, S, conn)
      <3>1. AgreeOn(c, chan[c].st, toServer, toClient, srvChans, conn)
        BY DEF Inv, Agree
      <3>2. CASE c = d
        <4>1. toServer[1].type = "CREATE" /\ toServer[1].chan = c /\ m[1].chan = c
          BY <1>2, <1>9, <2>1, <2>5, <3>2
        <4>2. /\ m[1].type = "ACCEPT" => AgreeOn(c, chan[c].st, t, q, srvChans \cup {c}, conn)
              /\ m[1].type = "DESTROY" => AgreeOn(c, chan[c].st, t, q, srvChans, conn)
          BY <2>4, <2>9, <3>1, <4>1, OneOffered
        <4> QED
          BY <2>2, <2>5, <2>11, <3>2, <4>2
      <3>3. CASE c # d
        <4>1. AgreeOn(c, chan[c].st, t, toClient, srvChans, conn)
          BY <1>2, <2>1, <2>9, <3>1, <3>3, OtherRead
        <4>2. AgreeOn(c, chan[c].st, t, q, srvChans, conn)
          BY <2>7, <2>9, <3>3, <4>1, OtherAnswered
        <4>3. AgreeOn(c, chan[c].st, t, q, srvChans \cup {d}, conn)
          BY <3>3, <4>2, OtherRevoked
        <4> QED
          BY <2>2, <2>11, <4>2, <4>3
      <3> QED
        BY <3>2, <3>3
    <2>13. Agree'
      BY <2>8, <2>9, <2>11, <2>12, AgreeNext
    <2> QED
      BY <2>8, <2>10, <2>13 DEF Inv
  <1>10. CASE h.type = "DESTROY"
    <2>1. PICK d \in Chan : d = h.chan
      BY <1>2, <1>10, WrittenFacts
    <2>2. Reply(<<>>) /\ srvChans' = srvChans \ {d}
      BY <1>2, <1>10, <2>1 DEF ServerAnswers
    <2>3. PICK m \in Seq(Answered) : m = <<>> /\ \A j \in DOMAIN m : FALSE
      <3>1. <<>> \in Seq(Answered) /\ ~ \E j : j \in DOMAIN <<>>
        OBVIOUS
      <3> QED
        BY <3>1
    <2>4. Reply(m) /\ srvChans' \in SUBSET Chan
      BY <1>4, <2>2, <2>3
    <2>5. /\ conn' = conn /\ Typed' /\ Wired' /\ Owned' /\ chan' = chan
      BY <1>1, <2>4, ServerTakes
    <2>6. PICK t \in Seq(Written), q \in Seq(Answered) :
            /\ t = toServer' /\ Shifted(t, toServer)
            /\ q = toClient' /\ Behind(q, toClient, m)
      BY <1>1, <2>4, ServerTakes
    <2>7. Login'
      BY <1>1, <1>2, <1>10, <2>3, <2>4, ServerServes
    <2>8. ASSUME NEW c \in Chan
          PROVE  AgreeOn(c, chan[c].st, t, q, srvChans \ {d}, conn)
      <3>1. AgreeOn(c, chan[c].st, toServer, toClient, srvChans, conn)
        BY DEF Inv, Agree
      <3>2. AgreeOn(c, chan[c].st, t, toClient, srvChans \ {d}, conn)
        <4>1. CASE c = d
          BY <1>2, <1>10, <2>1, <2>6, <3>1, <4>1, OneReleased
        <4>2. CASE c # d
          <5>1. AgreeOn(c, chan[c].st, t, toClient, srvChans, conn)
            BY <1>2, <2>1, <2>6, <3>1, <4>2, OtherRead
          <5> QED
            BY <4>2, <5>1, OtherRevoked
        <4> QED
          BY <4>1, <4>2
      <3> QED
        BY <2>3, <2>6, <3>2, OtherAnswered
    <2>9. Agree'
      BY <2>2, <2>5, <2>6, <2>8, AgreeNext
    <2> QED
      BY <2>5, <2>7, <2>9 DEF Inv
  <1> QED
    BY <1>3, <1>5, <1>6, <1>7, <1>8, <1>9, <1>10

\* A channel the server has open is one of a STARTED session.
LEMMA ServedStarted ==
    ASSUME Inv, NEW c \in srvChans
    PROVE  state = "STARTED"
  <1> USE DEF Inv
  <1>1. c \in Chan /\ AgreeOn(c, chan[c].st, toServer, toClient, srvChans, conn)
    BY DEF Typed, Agree
  <1>2. chan[c].st # "none" \/ In(toServer, "DESTROY", c)
    BY <1>1 DEF AgreeOn
  <1>3. CASE chan[c].st # "none"
    <2>1. chan[c] # NoChan
      BY <1>3, NoChanFacts
    <2>2. chan[c].srvc \in Services /\ sstate[chan[c].srvc] \in Live
      BY <1>1, <2>1 DEF Owned, Live, Services
    <2> QED
      BY <2>2 DEF Owned
  <1>4. CASE In(toServer, "DESTROY", c)
    <2>1. PICK i \in DOMAIN toServer : toServer[i].type = "DESTROY"
      BY <1>4 DEF In
    <2>2. state # "STARTED" => toServer[i].type \in Question(state)
      BY <2>1 DEF Login, LoginOK
    <2>3. "DESTROY" \notin Question(state)
      BY LoginSteps
    <2> QED
      BY <2>1, <2>2, <2>3
  <1> QED
    BY <1>2, <1>3, <1>4

LEMMA ServerDestroysKeeps ==
    ASSUME Inv, NEW d \in Chan \cup {None}, ServerDestroysChannel(d)
    PROVE  Inv'
  <1> USE DEF Inv
  <1>1. /\ conn = "up" /\ d \in srvChans \cup {None} /\ srvChans' = srvChans \ {d}
        /\ toClient' = Append(toClient, Msg("DESTROY", d, None))
        /\ toServer' = toServer /\ conn' = conn /\ breaks' = breaks /\ state' = state
        /\ services' = services /\ sstate' = sstate /\ schan' = schan /\ chan' = chan
    BY DEF ServerDestroysChannel, clientVars
  <1>2. Msg("DESTROY", d, None) \in Answered
    <2>1. Msg("DESTROY", None, None) = Master("DESTROY")
      BY DEF Master
    <2> QED
      BY <2>1, AnsweredFacts
  <1>3. PICK m \in Seq(Answered) : /\ m = <<Msg("DESTROY", d, None)>>
                                   /\ DOMAIN m = {1} /\ m[1] = Msg("DESTROY", d, None)
    BY <1>2, OneMessage
  <1>4. \A j \in DOMAIN m : m[j].type = "DESTROY" /\ m[j].chan = d
    BY <1>3, MsgFacts
  <1>5. PICK q \in Seq(Answered) : q = toClient' /\ Behind(q, toClient, m)
    <2>1. toClient \in Seq(Answered)
      BY DEF Wired
    <2>2. toClient \o m \in Seq(Answered) /\ Behind(toClient \o m, toClient, m)
      BY <2>1, ConcatBehind
    <2>3. Append(toClient, Msg("DESTROY", d, None)) = toClient \o m
      BY <1>2, <1>3, <2>1
    <2> QED
      BY <1>1, <2>2, <2>3
  <1>6. Typed'
    BY <1>1 DEF Typed
  <1>7. Wired'
    BY <1>1, <1>5 DEF Wired
  <1>8. Owned'
    BY <1>1, OwnedQuiet
  <1>9. LoginOK(state, toServer, q)
    <2>1. state # "STARTED" => d = None
      BY <1>1, ServedStarted
    <2>2. \A j \in DOMAIN m : m[j].type \notin LoginType
      BY <1>4 DEF LoginType
    <2> QED
      BY <1>4, <1>5, <2>1, <2>2, LoginAnswered DEF Login
  <1>10. Login'
    BY <1>1, <1>5, <1>9, LoginNext
  <1>11. ASSUME NEW c \in Chan
         PROVE  AgreeOn(c, chan[c].st, toServer, q, srvChans \ {d}, conn)
    <2>1. AgreeOn(c, chan[c].st, toServer, toClient, srvChans, conn) /\ c # None
      BY ChanAssumption DEF Agree
    <2>2. CASE c = d
      BY <1>1, <1>3, <1>4, <1>5, <2>1, <2>2, OneRevoked
    <2>3. CASE c # d
      <3>1. AgreeOn(c, chan[c].st, toServer, q, srvChans, conn)
        BY <1>4, <1>5, <2>1, <2>3, OtherAnswered
      <3> QED
        BY <2>3, <3>1, OtherRevoked
    <2> QED
      BY <2>2, <2>3
  <1>12. Agree'
    BY <1>1, <1>5, <1>11, AgreeNext
  <1> QED
    BY <1>6, <1>7, <1>8, <1>10, <1>12

LEMMA BreaksKeeps ==
    ASSUME Inv, ConnectionBreaks
    PROVE  Inv'
  <1> USE DEF Inv
  <1>1. /\ conn = "up" /\ breaks < MaxBreaks /\ breaks' = breaks + 1 /\ conn' = "broken"
        /\ toServer' = <<>> /\ srvChans' = {} /\ state' = state
        /\ services' = services /\ sstate' = sstate /\ schan' = schan /\ chan' = chan
    BY DEF ConnectionBreaks, clientVars
  <1>2. PICK n \in 0..Len(toClient) : toClient' = SubSeq(toClient, 1, n)
    BY DEF ConnectionBreaks
  <1>3. PICK q \in Seq(Answered) : q = toClient' /\ Begins(q, toClient)
    BY <1>2, SubSeqBegins DEF Wired
  <1>4. Typed'
    <2>1. breaks' \in 0..MaxBreaks
      BY <1>1, BoundsAssumption DEF Typed
    <2> QED
      BY <1>1, <2>1 DEF Typed
  <1>5. Wired'
    <2>1. <<>> \in Seq(Written)
      OBVIOUS
    <2> QED
      BY <1>1, <1>3, <2>1 DEF Wired
  <1>6. Owned'
    BY <1>1, OwnedQuiet
  <1>7. LoginOK(state, <<>>, q)
    BY <1>3, LoginBroken DEF Login
  <1>8. Login'
    BY <1>1, <1>3, <1>7, LoginNext
  <1>9. \A c \in Chan : AgreeOn(c, chan[c].st, <<>>, q, {}, "broken")
    BY <1>3, OneBroken DEF Agree
  <1>10. Agree'
    BY <1>1, <1>3, <1>9, AgreeNext
  <1> QED
    BY <1>4, <1>5, <1>6, <1>8, <1>10

-----------------------------------------------------------------------------
(* The theorems.                                                           *)

LEMMA InvStep ==
    ASSUME StopBeforeRemove, Inv, [Next]_vars
    PROVE  Inv'
  <1>1. CASE mwSession_start
    BY <1>1, StartKeeps
  <1>2. CASE mwSession_stop
    BY <1>2, StopKeeps DEF mwSession_stop
  <1>3. CASE mwSession_forceLogin
    BY <1>3, ForceLoginKeeps
  <1>4. CASE \E s \in Services : mwSession_addService(s)
    BY <1>4, AddKeeps
  <1>5. CASE \E s \in Services : mwSession_removeService(s)
    BY <1>5, RemoveKeeps
  <1>6. CASE ConnectionLost
    BY <1>6, StopKeeps DEF ConnectionLost
  <1>7. CASE HANDSHAKE_ACK_recv
    BY <1>7, HandshakeKeeps
  <1>8. CASE LOGIN_ACK_recv
    BY <1>8, LoginAckKeeps
  <1>9. CASE LOGIN_REDIRECT_recv
    BY <1>9, RedirectKeeps
  <1>10. CASE SENSE_SERVICE_recv
    BY <1>10, SenseKeeps
  <1>11. CASE CHANNEL_ACCEPT_recv
    BY <1>11, AcceptKeeps
  <1>12. CASE CHANNEL_DESTROY_recv
    BY <1>12, DestroyKeeps
  <1>13. CASE ServerAnswers
    BY <1>13, ServerAnswersKeeps
  <1>14. CASE \E c \in Chan \cup {None} : ServerDestroysChannel(c)
    BY <1>14, ServerDestroysKeeps
  <1>15. CASE ConnectionBreaks
    BY <1>15, BreaksKeeps
  <1>16. CASE UNCHANGED vars
    <2>1. /\ state' = state /\ services' = services /\ sstate' = sstate
          /\ schan' = schan /\ chan' = chan /\ conn' = conn /\ toServer' = toServer
          /\ toClient' = toClient /\ srvChans' = srvChans /\ breaks' = breaks
      BY <1>16 DEF vars, clientVars
    <2>2. Typed' /\ Wired' /\ Owned'
      BY <2>1 DEF Inv, Typed, Wired, Owned
    <2>3. Login' /\ Agree'
      BY <2>1, LoginNext, AgreeNext DEF Inv, Login, Agree
    <2> QED
      BY <2>2, <2>3 DEF Inv
  <1> QED
    BY <1>1, <1>2, <1>3, <1>4, <1>5, <1>6, <1>7, <1>8, <1>9, <1>10, <1>11,
       <1>12, <1>13, <1>14, <1>15, <1>16 DEF Next, ClientCall, Receive

\* With a client that stops a service before it removes it, whatever the order
\* of calls, messages and failures: no service is live unless the session is
\* STARTED, so mwSession_stop leaves none behind and nothing starts before the
\* login is acknowledged, and no channel has a service that points elsewhere.
THEOREM SessionCorrect ==
    ASSUME StopBeforeRemove
    PROVE  Spec => []SessionConsistent
  <1>1. Init => Inv
    BY InvInit
  <1>2. Inv /\ [Next]_vars => Inv'
    BY InvStep
  <1>3. Inv => SessionConsistent
    BY InvConsistent
  <1> QED
    BY <1>1, <1>2, <1>3, PTL DEF Spec

\* With such a client the two ends of a quiet connection agree: a channel is in
\* the channel set exactly if the server has it open, and the services started
\* are those that point to one, however creates, accepts and destroys of both
\* ends crossed before.
THEOREM ChannelsAgreeCorrect ==
    ASSUME StopBeforeRemove
    PROVE  Spec => []ChannelsAgree
  <1>1. Init => Inv
    BY InvInit
  <1>2. Inv /\ [Next]_vars => Inv'
    BY InvStep
  <1>3. Inv => ChannelsAgree
    BY InvAgree
  <1> QED
    BY <1>1, <1>2, <1>3, PTL DEF Spec

=============================================================================
