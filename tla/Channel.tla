------------------------------ MODULE Channel ------------------------------
(***************************************************************************)
(* One channel between two sessions (channel.c): the end that creates it,  *)
(* and the end it is offered to.  The server between them is external; it  *)
(* relays the messages of each direction in order and turns the loss of    *)
(* one end's connection into the destruction of the channel at the other.  *)
(* A creator that is not this library may be eager: it sends data behind   *)
(* its offer without waiting for the channel to be accepted.               *)
(*                                                                         *)
(* What a service puts on the channel is numbered per end.  A message is   *)
(* encrypted when it is composed, if the service asks for it and with the  *)
(* cipher of the channel, if it has one by then.                           *)
(***************************************************************************)
EXTENDS Integers, Sequences, FiniteSets

CONSTANTS
    Ciphers,    \* cipher types
    Plaintext,  \* no cipher
    Known,      \* Known[e]: the ciphers added to the session of end e
    MaxSends    \* bound: messages a service sends at each end

Ends == {"out", "inc"}
Other(e) == IF e = "out" THEN "inc" ELSE "out"

ASSUME CipherAssumption ==
    /\ IsFiniteSet(Ciphers)
    /\ Plaintext \notin Ciphers
    /\ Known \in [Ends -> SUBSET Ciphers]
ASSUME SendsAssumption == MaxSends \in Nat

VARIABLES
    eager,      \* the creator does not wait to be accepted
    up,         \* up[e]: end e can write to its connection
    st,         \* st[e]: chan->state; "none" before, "gone" after it existed
    cipher,     \* cipher[e]: chan->cipher
    supported,  \* supported[e]: the keys of chan->supported
    policy,     \* chan->offered_policy of the end the channel is offered to
    outq,       \* outq[e]: chan->outgoing_queue
    inq,        \* inq[e]: chan->incoming_queue
    net,        \* net[e]: messages on their way to end e
    sent,       \* sent[e]: how many messages the service of e sent
    early,      \* early[e]: those it sent while the channel was being opened
    got         \* got[e]: the messages handed to the service of e, in order

vars == <<eager, up, st, cipher, supported, policy, outq, inq, net, sent,
          early, got>>

\* mwEncryptPolicy: a cipher stands for the policy that demands it
Policy == {"NONE", "WHATEVER", "ALL"} \cup Ciphers

\* message n of its end, encrypted with enc; asked: the service wanted it so
Data(n, asked, c) == [type |-> "SEND", n |-> n, asked |-> asked,
                      enc |-> IF asked THEN c ELSE Plaintext]
Offer(cs, p) == [type |-> "CREATE", offer |-> cs, mode |-> p]
Accept(c) == [type |-> "ACCEPT", item |-> c]
Destroy == [type |-> "DESTROY"]

DataMsg == [type : {"SEND"}, n : 1..MaxSends, asked : BOOLEAN,
            enc : Ciphers \cup {Plaintext}]
Message ==
    DataMsg \cup [type : {"CREATE"}, offer : SUBSET Ciphers, mode : Policy]
            \cup [type : {"ACCEPT"}, item : Ciphers \cup {Plaintext}]
            \cup [type : {"DESTROY"}]

Held == {"WAIT", "OPEN", "ERROR"}    \* in the channel set

Init ==
    /\ eager \in BOOLEAN
    /\ up = [e \in Ends |-> TRUE]
    /\ st = [e \in Ends |-> "none"]
    /\ cipher = [e \in Ends |-> Plaintext]
    /\ supported = [e \in Ends |-> {}]
    /\ policy = "NONE"
    /\ outq = [e \in Ends |-> <<>>]
    /\ inq = [e \in Ends |-> <<>>]
    /\ net = [e \in Ends |-> <<>>]
    /\ sent = [e \in Ends |-> 0]
    /\ early = [e \in Ends |-> {}]
    /\ got = [e \in Ends |-> <<>>]

-----------------------------------------------------------------------------
\* mwSession_send by end e after it has taken its input to be rest: nothing is
\* written when its connection is gone, and the server drops what is meant for
\* an end whose connection is.
Sends(e, rest, msgs) ==
    net' = [net EXCEPT ![e] = rest,
                       ![Other(e)] = IF up["out"] /\ up["inc"]
                                        THEN @ \o msgs ELSE @]

\* mutant: a message is encrypted with a cipher that was only offered
ComposedAsOffered(e, k, asked, c) ==
    [i \in 1..k |->
       Data(sent[e] + i, asked,
            IF supported[e] = {} THEN c ELSE CHOOSE x \in supported[e] : TRUE)]

\* The k messages a service of e composes from sent[e] + 1 on under cipher c.
Composed(e, k, asked, c) == [i \in 1..k |-> Data(sent[e] + i, asked, c)]

\* mutant: g_slist_prepend
QueuedInFront(q, msgs) == msgs \o q

\* mutant: nothing is queued
QueuedNowhere(q, msgs) == q

\* queue_outgoing and queue_incoming
Queued(q, msgs) == q \o msgs

\* Numbers of the messages in a queue.
Numbers(q) == [i \in DOMAIN q |-> q[i].n]

\* The channel leaves the channel set: it is freed with what it queues.
Removed(e) ==
    /\ st' = [st EXCEPT ![e] = "gone"]
    /\ outq' = [outq EXCEPT ![e] = <<>>]
    /\ inq' = [inq EXCEPT ![e] = <<>>]

-----------------------------------------------------------------------------
\* mwChannel_create.  If the offer cannot be written the channel stays in the
\* channel set, in ERROR.  This library leaves the choice of the cipher to the
\* other end; other creators have other policies.
OfferedPolicies ==
    IF eager THEN Policy
             ELSE {IF Known["out"] = {} THEN "NONE" ELSE "WHATEVER"}

mwChannel_create ==
    /\ st["out"] = "none"
    /\ st' = [st EXCEPT !["out"] = IF up["out"] THEN "WAIT" ELSE "ERROR"]
    /\ supported' = [supported EXCEPT !["out"] = Known["out"]]
    /\ \E p \in OfferedPolicies :
         Sends("out", net["out"], <<Offer(Known["out"], p)>>)
    /\ UNCHANGED <<eager, up, cipher, policy, outq, inq, sent, early, got>>

\* The instances of the other ciphers are freed.  The policy the code notes
\* for the cipher is not read again.
mwChannel_selectCipherInstance(e, c) ==
    /\ cipher' = [cipher EXCEPT ![e] = c]
    /\ supported' = [supported EXCEPT ![e] = {}]

\* channel_open and flush_channel: the queued input goes to the service,
\* then the queued output is written.  While it is told of the acceptance, or
\* handed queued input, the service may send k messages, which go first.
channel_open(e, c, k, rest, first) ==
    /\ sent[e] + k <= MaxSends
    /\ k = 0 \/ e = "out" \/ inq[e] # <<>>
    /\ st' = [st EXCEPT ![e] = "OPEN"]
    /\ mwChannel_selectCipherInstance(e, c)
    /\ got' = [got EXCEPT ![e] = @ \o Numbers(inq[e])]
    /\ inq' = [inq EXCEPT ![e] = <<>>]
    /\ outq' = [outq EXCEPT ![e] = <<>>]
    /\ sent' = [sent EXCEPT ![e] = @ + k]
    /\ early' = [early EXCEPT ![e] = @ \cup (sent[e] + 1)..(sent[e] + k)]
    /\ \E asked \in BOOLEAN :
         Sends(e, rest, first \o Composed(e, k, asked, c) \o outq[e])
    /\ UNCHANGED <<eager, up, policy>>

\* mwChannel_accept: the policy the channel
\* was offered with says which of the ciphers both ends know is selected; with
\* none of them the channel is not encrypted, whatever the policy.
Selectable ==
    LET common == supported["inc"]
        wanted == CASE policy = "NONE" -> {}
                    [] policy \in Ciphers -> common \cap {policy}
                    [] OTHER -> common
    IN  IF wanted = {} THEN {Plaintext} ELSE wanted

\* If the acceptance cannot be written the channel is in ERROR.
mwChannel_accept(k) ==
    /\ st["inc"] = "WAIT"
    /\ \E c \in Selectable :
         \/ /\ up["inc"]
            /\ channel_open("inc", c, k, net["inc"], <<Accept(c)>>)
         \/ /\ ~up["inc"]
            /\ k = 0
            /\ st' = [st EXCEPT !["inc"] = "ERROR"]
            /\ mwChannel_selectCipherInstance("inc", c)
            /\ UNCHANGED <<eager, up, policy, outq, inq, net, sent, early, got>>

\* mutant: the other end is not told
DestroySilently(e) ==
    /\ st[e] \in Held
    /\ Removed(e)
    /\ UNCHANGED <<eager, up, cipher, supported, policy, net, sent, early, got>>

\* mwChannel_destroy, by the service.
mwChannel_destroy(e) ==
    /\ st[e] \in Held
    /\ Removed(e)
    /\ Sends(e, net[e], <<Destroy>>)
    /\ UNCHANGED <<eager, up, cipher, supported, policy, sent, early, got>>

\* mutant: an open channel is written to only while that can succeed
WritesIfUp(e) == st[e] = "OPEN" /\ up[e]

\* channel_send: written at once on an OPEN channel, queued otherwise.  An
\* eager creator writes either way.
Writes(e) == st[e] = "OPEN" \/ (e = "out" /\ eager /\ st[e] = "WAIT")

\* mwChannel_sendEncrypted, and mwChannel_send, which is the same with asked.
mwChannel_sendEncrypted(e, asked) ==
    LET m == Composed(e, 1, asked, cipher[e]) IN
    /\ st[e] \in Held
    /\ sent[e] < MaxSends
    /\ sent' = [sent EXCEPT ![e] = @ + 1]
    /\ IF Writes(e)
          THEN Sends(e, net[e], m) /\ UNCHANGED outq
          ELSE outq' = [outq EXCEPT ![e] = Queued(@, m)] /\ UNCHANGED net
    /\ UNCHANGED <<eager, up, st, cipher, supported, policy, inq, early, got>>

-----------------------------------------------------------------------------
Receives(e, type) == net[e] # <<>> /\ Head(net[e]).type = type

\* CHANNEL_CREATE_recv and mwChannel_recvCreate.  The service either keeps the
\* channel, to accept or destroy it later, or there is no such service.
mwChannel_recvCreate ==
    /\ Receives("inc", "CREATE")
    /\ \/ /\ st' = [st EXCEPT !["inc"] = "WAIT"]
          /\ supported' = [supported EXCEPT
                             !["inc"] = Head(net["inc"]).offer \cap Known["inc"]]
          /\ policy' = Head(net["inc"]).mode
          /\ Sends("inc", Tail(net["inc"]), <<>>)
       \/ /\ st' = [st EXCEPT !["inc"] = "gone"]
          /\ Sends("inc", Tail(net["inc"]), <<Destroy>>)
          /\ UNCHANGED <<supported, policy>>
    /\ UNCHANGED <<eager, up, cipher, outq, inq, sent, early, got>>

\* CHANNEL_ACCEPT_recv and mwChannel_recvAccept.  The service hears of it on a
\* channel that is already OPEN: it may send k messages, or destroy the
\* channel, before the queue is flushed.
mwChannel_recvAccept(k) ==
    LET c == Head(net["out"]).item
        rest == Tail(net["out"])
    IN  /\ Receives("out", "ACCEPT")
        /\ \/ /\ st["out"] = "WAIT"
              /\ c \in supported["out"] \cup {Plaintext}
              /\ channel_open("out", c, k, rest, <<>>)
           \/ /\ st["out"] \in Held
              /\ Removed("out")
              /\ Sends("out", rest, <<Destroy>>)
              /\ UNCHANGED <<eager, up, cipher, supported, policy, sent, early, got>>
           \/ /\ st["out"] \notin Held
              /\ Sends("out", rest, <<>>)
              /\ UNCHANGED <<eager, up, st, cipher, supported, policy, outq, inq,
                             sent, early, got>>

\* CHANNEL_SEND_recv and mwChannel_recv: queued unless the channel is OPEN,
\* dropped if there is no such channel.
mwChannel_recv(e) ==
    LET m == Head(net[e]) IN
    /\ Receives(e, "SEND")
    /\ \/ /\ st[e] = "OPEN"
          /\ got' = [got EXCEPT ![e] = Append(@, m.n)]
          /\ UNCHANGED inq
       \/ /\ st[e] \in Held \ {"OPEN"}
          /\ inq' = [inq EXCEPT ![e] = Queued(@, <<m>>)]
          /\ UNCHANGED got
       \/ /\ st[e] \notin Held
          /\ UNCHANGED <<inq, got>>
    /\ Sends(e, Tail(net[e]), <<>>)
    /\ UNCHANGED <<eager, up, st, cipher, supported, policy, outq, sent, early>>

\* CHANNEL_DESTROY_recv and mwChannel_recvDestroy.
mwChannel_recvDestroy(e) ==
    /\ Receives(e, "DESTROY")
    /\ \/ /\ st[e] \in Held
          /\ Removed(e)
       \/ /\ st[e] \notin Held
          /\ UNCHANGED <<st, outq, inq>>
    /\ Sends(e, Tail(net[e]), <<>>)
    /\ UNCHANGED <<eager, up, cipher, supported, policy, sent, early, got>>

\* The connection of end e breaks (external).  What was on its way to e, and
\* some of what e wrote last, is lost; the server destroys the channel towards
\* the other end.
LinkBreaks(e) ==
    /\ up["out"] /\ up["inc"]
    /\ up' = [up EXCEPT ![e] = FALSE]
    /\ \E n \in 0..Len(net[Other(e)]) :
         net' = [net EXCEPT ![e] = <<>>,
                            ![Other(e)] = Append(SubSeq(@, 1, n), Destroy)]
    /\ UNCHANGED <<eager, st, cipher, supported, policy, outq, inq, sent,
                   early, got>>

\* The session of an end without a connection stops, and so do its services:
\* they destroy their channels.  A channel whose offer could not be written
\* belongs to no service any more.
SessionStops(e) ==
    /\ ~up[e]
    /\ ~(e = "out" /\ st[e] = "ERROR")
    /\ mwChannel_destroy(e)

\* A message received by end e: one handler each.
Handle(e) ==
    \/ e = "inc" /\ mwChannel_recvCreate
    \/ e = "out" /\ \E k \in 0..1 : mwChannel_recvAccept(k)
    \/ mwChannel_recv(e)
    \/ mwChannel_recvDestroy(e)

Next ==
    \/ mwChannel_create
    \/ \E k \in 0..1 : mwChannel_accept(k)
    \/ \E e \in Ends : mwChannel_destroy(e)
    \/ \E e \in Ends, asked \in BOOLEAN : mwChannel_sendEncrypted(e, asked)
    \/ \E e \in Ends : Handle(e)
    \/ \E e \in Ends : LinkBreaks(e)
    \/ \E e \in Ends : SessionStops(e)

Spec == Init /\ [][Next]_vars

\* Both clients keep reading, and stop a session that lost its connection.
FairSpec ==
    /\ Spec
    /\ \A e \in Ends : WF_vars(Handle(e)) /\ WF_vars(SessionStops(e))

-----------------------------------------------------------------------------
TypeOK ==
    /\ eager \in BOOLEAN
    /\ up \in [Ends -> BOOLEAN]
    /\ st \in [Ends -> {"none", "WAIT", "OPEN", "ERROR", "gone"}]
    /\ cipher \in [Ends -> Ciphers \cup {Plaintext}]
    /\ supported \in [Ends -> SUBSET Ciphers]
    /\ policy \in Policy
    /\ outq \in [Ends -> Seq(DataMsg)]
    /\ inq \in [Ends -> Seq(DataMsg)]
    /\ net \in [Ends -> Seq(Message)]
    /\ sent \in [Ends -> 0..MaxSends]
    /\ early \in [Ends -> SUBSET (1..MaxSends)]
    /\ got \in [Ends -> Seq(1..MaxSends)]

\* An open channel has nothing left in its queues: both were flushed when it
\* opened and nothing is queued on it since.
OpenIsFlushed ==
    \A e \in Ends : st[e] = "OPEN" => outq[e] = <<>> /\ inq[e] = <<>>

\* The channel is of its type, and nothing waits on it once it is OPEN: all
\* that mwChannel_recvAccept and mwChannel_accept find queued they flush.
ChannelConsistent == TypeOK /\ OpenIsFlushed

\* An encrypted message is read with the cipher it was composed under: on its
\* way to, or queued at, an end that can still open the channel or has.
CipherAgreement ==
    \A e \in Ends : st[e] \in {"WAIT", "OPEN"} =>
        /\ \A i \in DOMAIN inq[e] : inq[e][i].enc = Plaintext
        /\ \A i \in DOMAIN net[e] :
              net[e][i].type = "SEND" /\ net[e][i].enc # Plaintext =>
                  \/ st[e] = "OPEN" /\ net[e][i].enc = cipher[e]
                  \/ \E j \in 1..(i - 1) :
                        net[e][j] = Accept(net[e][i].enc)

\* A service gets the other's messages once each and in the order they were
\* sent; only those sent while the channel was being opened may overtake.
InOrder ==
    \A e \in Ends : \A i, j \in DOMAIN got[e] :
        i < j => got[e][i] < got[e][j] \/ got[e][i] \in early[Other(e)] \ {got[e][j]}

\* Between two open ends nothing is lost: what has not arrived is on its way.
NothingLost ==
    st["out"] = "OPEN" /\ st["inc"] = "OPEN" =>
        \A e \in Ends : \A n \in 1..sent[Other(e)] :
            \/ \E i \in DOMAIN got[e] : got[e][i] = n
            \/ \E i \in DOMAIN net[e] :
                  net[e][i].type = "SEND" /\ net[e][i].n = n
            \/ ~up[e] \/ ~up[Other(e)]

\* When one end has dropped the channel the other end does, whoever else
\* destroyed it, accepted it, or lost its connection at the same time.
BothEndsClose ==
    \A e \in Ends :
        st[e] = "gone" ~> st[Other(e)] \in {"none", "gone"}

=============================================================================
