--------------------------- MODULE ChannelProofs ---------------------------
(***************************************************************************)
(* Proofs about module Channel, for every set of ciphers, whatever the     *)
(* ends know of them, and any number of messages.                          *)
(*                                                                         *)
(* Of the four properties only ChannelConsistent is inductive.  For the    *)
(* others every action is reduced to its effect on states, queues and      *)
(* messages (Effect), and the invariants are carried over each effect:     *)
(* CipherInv adds to CipherAgreement what the ends agreed on while the     *)
(* channel was being opened: which cipher an acceptance names, that it     *)
(* comes before anything encrypted, and that nothing encrypted is queued.  *)
(* Carried says of both ends, open or not, that each message sent is in    *)
(* one of the four places it can be in, of which NothingLost sees two.     *)
(* Ordered compares any two messages wherever they are (Ahead), not only   *)
(* those that InOrder finds delivered.                                     *)
(***************************************************************************)
EXTENDS Channel, SequenceTheorems, TLAPS

\* TypeOK in parts.
FlagsOK == eager \in BOOLEAN /\ up \in [Ends -> BOOLEAN]
StatesOK ==
    /\ st \in [Ends -> {"none", "WAIT", "OPEN", "ERROR", "gone"}]
    /\ cipher \in [Ends -> Ciphers \cup {Plaintext}]
    /\ supported \in [Ends -> SUBSET Ciphers]
    /\ policy \in Policy
QueuesOK ==
    /\ outq \in [Ends -> Seq(DataMsg)]
    /\ inq \in [Ends -> Seq(DataMsg)]
NetOK == net \in [Ends -> Seq(Message)]
CountsOK ==
    /\ sent \in [Ends -> 0..MaxSends]
    /\ early \in [Ends -> SUBSET (1..MaxSends)]
    /\ got \in [Ends -> Seq(1..MaxSends)]

\* Both connections work: what one end writes the other will read.
Both == up["out"] /\ up["inc"]

-----------------------------------------------------------------------------
(* The messages, and what a step does to those on their way.               *)

LEMMA EndsFacts ==
    /\ "out" \in Ends /\ "inc" \in Ends
    /\ Other("out") = "inc" /\ Other("inc") = "out"
    /\ \A e \in Ends : /\ Other(e) \in Ends /\ Other(e) # e /\ Other(Other(e)) = e
                       /\ e = "out" \/ e = "inc"
  BY DEF Ends, Other

LEMMA MessageFacts ==
    ASSUME NEW m \in Message
    PROVE  /\ m.type \in {"SEND", "CREATE", "ACCEPT", "DESTROY"}
           /\ m.type = "SEND" => m \in DataMsg
           /\ m.type = "CREATE" => m.offer \subseteq Ciphers /\ m.mode \in Policy
           /\ m.type = "ACCEPT" => /\ m.item \in Ciphers \cup {Plaintext}
                                   /\ m = Accept(m.item)
  BY DEF Message, DataMsg, Accept

\* Messages a service may compose are data messages with the numbers that
\* follow those it sent.
LEMMA ComposedFacts ==
    ASSUME TypeOK, NEW e \in Ends, NEW k \in Nat, NEW asked \in BOOLEAN,
           NEW c \in Ciphers \cup {Plaintext}, sent[e] + k <= MaxSends
    PROVE  /\ Composed(e, k, asked, c) \in Seq(DataMsg)
           /\ Len(Composed(e, k, asked, c)) = k
           /\ DOMAIN Composed(e, k, asked, c) = 1..k
           /\ \A i \in 1..k :
                /\ Composed(e, k, asked, c)[i].type = "SEND"
                /\ Composed(e, k, asked, c)[i].n = sent[e] + i
                /\ Composed(e, k, asked, c)[i].enc \in {c, Plaintext}
  <1>1. sent[e] \in 0..MaxSends /\ MaxSends \in Nat
    BY SendsAssumption DEF TypeOK
  <1>2. \A i \in 1..k : Data(sent[e] + i, asked, c) \in DataMsg
    BY <1>1 DEF Data, DataMsg
  <1>3. Composed(e, k, asked, c) \in [1..k -> DataMsg]
    BY <1>2 DEF Composed
  <1>4. Composed(e, k, asked, c) \in Seq(DataMsg) /\ Len(Composed(e, k, asked, c)) = k
    BY <1>3
  <1> QED
    BY <1>3, <1>4 DEF Composed, Data

LEMMA DataIsMessage == Seq(DataMsg) \subseteq Seq(Message)
  BY DEF Message

\* What Sends does: the rest stays at the end itself, the messages are
\* appended for the other end if both connections work.
LEMMA SendsNet ==
    ASSUME TypeOK, NEW e \in Ends, NEW rest \in Seq(Message),
           NEW msgs \in Seq(Message), Sends(e, rest, msgs)
    PROVE  /\ net' \in [Ends -> Seq(Message)]
           /\ net'[e] = rest
           /\ net'[Other(e)] = IF Both THEN net[Other(e)] \o msgs ELSE net[Other(e)]
  <1>1. net \in [Ends -> Seq(Message)]
    BY DEF TypeOK
  <1>2. net[Other(e)] \in Seq(Message) /\ net[Other(e)] \o msgs \in Seq(Message)
    BY <1>1, EndsFacts, ConcatProperties
  <1> QED
    BY <1>1, <1>2, EndsFacts DEF Sends, Both

\* The queues of an end and the messages it is to read.
LEMMA QueueFacts ==
    ASSUME TypeOK, NEW e \in Ends
    PROVE  /\ outq[e] \in Seq(DataMsg) /\ inq[e] \in Seq(DataMsg)
           /\ outq[e] \in Seq(Message)
           /\ net[e] \in Seq(Message) /\ got[e] \in Seq(1..MaxSends)
           /\ sent[e] \in 0..MaxSends /\ MaxSends \in Nat
           /\ net[e] # <<>> => /\ Head(net[e]) \in Message
                               /\ Head(net[e]) = net[e][1]
                               /\ Tail(net[e]) \in Seq(Message)
  BY HeadTailProperties, DataIsMessage, SendsAssumption DEF TypeOK

LEMMA IsSeq ==
    ASSUME NEW S, NEW n \in Nat, NEW f \in [1..n -> S]
    PROVE  f \in Seq(S) /\ Len(f) = n /\ DOMAIN f = 1..n
  OBVIOUS

LEMMA NumbersFacts ==
    ASSUME NEW q \in Seq(DataMsg)
    PROVE  Numbers(q) \in Seq(1..MaxSends) /\ Len(Numbers(q)) = Len(q)
  <1>1. /\ Len(q) \in Nat /\ DOMAIN q = 1..Len(q)
        /\ \A i \in 1..Len(q) : q[i] \in DataMsg
    BY ElementOfSeq, LenProperties
  <1>2. Numbers(q) \in [1..Len(q) -> 1..MaxSends]
    BY <1>1 DEF Numbers, DataMsg
  <1> QED
    BY <1>1, <1>2, IsSeq

LEMMA SelectableFacts ==
    ASSUME TypeOK
    PROVE  Selectable \subseteq Ciphers \cup {Plaintext}
  <1>1. supported["inc"] \subseteq Ciphers
    BY EndsFacts DEF TypeOK
  <1> QED
    BY <1>1 DEF Selectable

-----------------------------------------------------------------------------
(* ChannelConsistent is inductive as it stands.                            *)

LEMMA ConsistentInit == Init => ChannelConsistent
  BY CipherAssumption, SendsAssumption
     DEF Init, ChannelConsistent, TypeOK, OpenIsFlushed, Policy

\* A channel that opens flushes both its queues.
LEMMA OpenConsistent ==
    ASSUME ChannelConsistent, NEW e \in Ends, NEW c \in Ciphers \cup {Plaintext},
           NEW k \in 0..1, NEW rest \in Seq(Message), NEW first \in Seq(Message),
           channel_open(e, c, k, rest, first)
    PROVE  ChannelConsistent'
  <1> USE DEF ChannelConsistent
  <1>1. PICK asked \in BOOLEAN :
          Sends(e, rest, first \o Composed(e, k, asked, c) \o outq[e])
    BY DEF channel_open
  <1>2. sent[e] + k <= MaxSends /\ sent[e] \in Nat /\ MaxSends \in Nat
    BY QueueFacts DEF channel_open
  <1>3. Composed(e, k, asked, c) \in Seq(Message)
    BY <1>2, ComposedFacts, DataIsMessage
  <1>4. first \o Composed(e, k, asked, c) \o outq[e] \in Seq(Message)
    BY <1>3, QueueFacts, ConcatProperties
  <1>5. net' \in [Ends -> Seq(Message)]
    BY <1>1, <1>4, SendsNet
  <1>6. got[e] \o Numbers(inq[e]) \in Seq(1..MaxSends)
    BY QueueFacts, NumbersFacts, ConcatProperties
  <1>7. /\ (sent[e] + 1)..(sent[e] + k) \subseteq 1..MaxSends
        /\ sent[e] + k \in 0..MaxSends
    BY <1>2
  <1>8. FlagsOK'
    BY <1>2, <1>5, <1>6, <1>7, Zenon DEF channel_open, mwChannel_selectCipherInstance, FlagsOK, TypeOK
  <1>9. StatesOK'
    BY <1>2, <1>5, <1>6, <1>7 DEF channel_open, mwChannel_selectCipherInstance, StatesOK, TypeOK
  <1>10. QueuesOK'
    BY <1>2, <1>5, <1>6, <1>7 DEF channel_open, mwChannel_selectCipherInstance, QueuesOK, TypeOK
  <1>11. NetOK'
    BY <1>2, <1>5, <1>6, <1>7 DEF channel_open, mwChannel_selectCipherInstance, NetOK, TypeOK
  <1>12. CountsOK'
    BY <1>2, <1>5, <1>6, <1>7 DEF channel_open, mwChannel_selectCipherInstance, CountsOK, TypeOK
  <1>13. TypeOK'
    BY <1>8, <1>9, <1>10, <1>11, <1>12
       DEF TypeOK, FlagsOK, StatesOK, QueuesOK, NetOK, CountsOK
  <1>14. OpenIsFlushed'
    BY DEF channel_open, TypeOK, OpenIsFlushed
  <1> QED
    BY <1>13, <1>14

LEMMA DestroyConsistent ==
    ASSUME ChannelConsistent, NEW e \in Ends, mwChannel_destroy(e)
    PROVE  ChannelConsistent'
  <1> USE DEF ChannelConsistent
  <1>1. net' \in [Ends -> Seq(Message)]
    <2>1. <<Destroy>> \in Seq(Message)
      BY DEF Message, Destroy
    <2> QED
      BY <2>1, SendsNet, QueueFacts DEF mwChannel_destroy
  <1>2. FlagsOK'
    BY <1>1, Zenon DEF mwChannel_destroy, Removed, FlagsOK, TypeOK
  <1>3. StatesOK'
    BY <1>1 DEF mwChannel_destroy, Removed, StatesOK, TypeOK
  <1>4. QueuesOK'
    BY <1>1 DEF mwChannel_destroy, Removed, QueuesOK, TypeOK
  <1>5. NetOK'
    BY <1>1 DEF mwChannel_destroy, Removed, NetOK, TypeOK
  <1>6. CountsOK'
    BY <1>1 DEF mwChannel_destroy, Removed, CountsOK, TypeOK
  <1>7. TypeOK'
    BY <1>2, <1>3, <1>4, <1>5, <1>6
       DEF TypeOK, FlagsOK, StatesOK, QueuesOK, NetOK, CountsOK
  <1>8. OpenIsFlushed'
    BY <1>1 DEF mwChannel_destroy, Removed, TypeOK, OpenIsFlushed
  <1> QED
    BY <1>7, <1>8

LEMMA HandleConsistent ==
    ASSUME ChannelConsistent, NEW e \in Ends, Handle(e)
    PROVE  ChannelConsistent'
  <1> USE DEF ChannelConsistent
  <1>1. <<Destroy>> \in Seq(Message) /\ <<>> \in Seq(Message)
    BY DEF Message, Destroy
  <1>2. CASE e = "inc" /\ mwChannel_recvCreate
    <2>1. /\ Head(net["inc"]) \in Message /\ Tail(net["inc"]) \in Seq(Message)
          /\ Head(net["inc"]).type = "CREATE"
      BY <1>2, EndsFacts, QueueFacts DEF mwChannel_recvCreate, Receives
    <2>2. net' \in [Ends -> Seq(Message)]
      BY <1>1, <1>2, <2>1, EndsFacts, SendsNet DEF mwChannel_recvCreate
    <2>3. /\ Head(net["inc"]).offer \cap Known["inc"] \in SUBSET Ciphers
          /\ Head(net["inc"]).mode \in Policy
      BY <2>1, MessageFacts
    <2>4. FlagsOK'
      BY <1>2, <2>2, <2>3, EndsFacts, Zenon DEF mwChannel_recvCreate, FlagsOK, TypeOK
    <2>5. StatesOK'
      <3>1. /\ st' \in [Ends -> {"none", "WAIT", "OPEN", "ERROR", "gone"}]
            /\ cipher' = cipher
        BY <1>2, EndsFacts DEF mwChannel_recvCreate, TypeOK
      <3>2. supported' \in [Ends -> SUBSET Ciphers] /\ policy' \in Policy
        <4>1. /\ supported \in [Ends -> SUBSET Ciphers] /\ policy \in Policy
              /\ \/ supported' = supported /\ policy' = policy
                 \/ /\ supported' = [supported EXCEPT
                         !["inc"] = Head(net["inc"]).offer \cap Known["inc"]]
                    /\ policy' = Head(net["inc"]).mode
          BY <1>2 DEF mwChannel_recvCreate, TypeOK
        <4> QED
          BY <2>3, <4>1, EndsFacts
      <3> QED
        BY <3>1, <3>2 DEF StatesOK, TypeOK
    <2>6. QueuesOK'
      BY <1>2, <2>2, <2>3, EndsFacts DEF mwChannel_recvCreate, QueuesOK, TypeOK
    <2>7. NetOK'
      BY <1>2, <2>2, <2>3, EndsFacts DEF mwChannel_recvCreate, NetOK, TypeOK
    <2>8. CountsOK'
      BY <1>2, <2>2, <2>3, EndsFacts DEF mwChannel_recvCreate, CountsOK, TypeOK
    <2>9. TypeOK'
      BY <2>4, <2>5, <2>6, <2>7, <2>8
       DEF TypeOK, FlagsOK, StatesOK, QueuesOK, NetOK, CountsOK
    <2>10. OpenIsFlushed'
      BY <1>2, <2>2, <2>3, EndsFacts DEF mwChannel_recvCreate, TypeOK, OpenIsFlushed
    <2> QED
      BY <2>9, <2>10
  <1>3. CASE e = "out" /\ \E k \in 0..1 : mwChannel_recvAccept(k)
    <2>1. PICK k \in 0..1 : mwChannel_recvAccept(k)
      BY <1>3
    <2>2. /\ Head(net["out"]) \in Message /\ Tail(net["out"]) \in Seq(Message)
          /\ Head(net["out"]).type = "ACCEPT"
          /\ Head(net["out"]).item \in Ciphers \cup {Plaintext}
      BY <2>1, EndsFacts, QueueFacts, MessageFacts DEF mwChannel_recvAccept, Receives
    <2>3. CASE channel_open("out", Head(net["out"]).item, k, Tail(net["out"]), <<>>)
      BY <1>1, <2>2, <2>3, EndsFacts, OpenConsistent
    <2>4. CASE /\ Removed("out") /\ Sends("out", Tail(net["out"]), <<Destroy>>)
               /\ UNCHANGED <<eager, up, cipher, supported, policy, sent, early, got>>
      <3>1. net' \in [Ends -> Seq(Message)]
        BY <1>1, <2>2, <2>4, EndsFacts, SendsNet
      <3>2. FlagsOK'
        BY <2>4, <3>1, EndsFacts, Zenon DEF Removed, FlagsOK, TypeOK
      <3>3. StatesOK'
        BY <2>4, <3>1, EndsFacts DEF Removed, StatesOK, TypeOK
      <3>4. QueuesOK'
        BY <2>4, <3>1, EndsFacts DEF Removed, QueuesOK, TypeOK
      <3>5. NetOK'
        BY <2>4, <3>1, EndsFacts DEF Removed, NetOK, TypeOK
      <3>6. CountsOK'
        BY <2>4, <3>1, EndsFacts DEF Removed, CountsOK, TypeOK
      <3>7. TypeOK'
        BY <3>2, <3>3, <3>4, <3>5, <3>6
       DEF TypeOK, FlagsOK, StatesOK, QueuesOK, NetOK, CountsOK
      <3>8. OpenIsFlushed'
        BY <2>4, <3>1, EndsFacts DEF Removed, TypeOK, OpenIsFlushed
      <3> QED
        BY <3>7, <3>8
    <2>5. CASE /\ Sends("out", Tail(net["out"]), <<>>)
               /\ UNCHANGED <<eager, up, st, cipher, supported, policy, outq, inq,
                              sent, early, got>>
      <3>1. net' \in [Ends -> Seq(Message)]
        BY <1>1, <2>2, <2>5, EndsFacts, SendsNet
      <3>2. FlagsOK'
        BY <2>5, <3>1, Zenon DEF FlagsOK, TypeOK
      <3>3. StatesOK'
        BY <2>5, <3>1 DEF StatesOK, TypeOK
      <3>4. QueuesOK'
        BY <2>5, <3>1 DEF QueuesOK, TypeOK
      <3>5. NetOK'
        BY <2>5, <3>1 DEF NetOK, TypeOK
      <3>6. CountsOK'
        BY <2>5, <3>1 DEF CountsOK, TypeOK
      <3>7. TypeOK'
        BY <3>2, <3>3, <3>4, <3>5, <3>6
       DEF TypeOK, FlagsOK, StatesOK, QueuesOK, NetOK, CountsOK
      <3>8. OpenIsFlushed'
        BY <2>5, <3>1 DEF TypeOK, OpenIsFlushed
      <3> QED
        BY <3>7, <3>8
    <2> QED
      BY <2>1, <2>3, <2>4, <2>5 DEF mwChannel_recvAccept
  <1>4. CASE mwChannel_recv(e)
    <2>1. /\ Head(net[e]) \in DataMsg /\ Tail(net[e]) \in Seq(Message)
      BY <1>4, QueueFacts, MessageFacts DEF mwChannel_recv, Receives
    <2>2. net' \in [Ends -> Seq(Message)]
      BY <1>1, <1>4, <2>1, SendsNet DEF mwChannel_recv
    <2>3. Append(got[e], Head(net[e]).n) \in Seq(1..MaxSends)
      BY <2>1, QueueFacts, AppendProperties DEF DataMsg
    <2>4. Queued(inq[e], <<Head(net[e])>>) \in Seq(DataMsg)
      BY <2>1, QueueFacts, ConcatProperties DEF Queued
    <2>5. FlagsOK'
      BY <1>4, <2>2, <2>3, <2>4, Zenon DEF mwChannel_recv, Held, FlagsOK, TypeOK
    <2>6. StatesOK'
      BY <1>4, <2>2, <2>3, <2>4 DEF mwChannel_recv, Held, StatesOK, TypeOK
    <2>7. QueuesOK'
      BY <1>4, <2>2, <2>3, <2>4 DEF mwChannel_recv, Held, QueuesOK, TypeOK
    <2>8. NetOK'
      BY <1>4, <2>2, <2>3, <2>4 DEF mwChannel_recv, Held, NetOK, TypeOK
    <2>9. CountsOK'
      BY <1>4, <2>2, <2>3, <2>4 DEF mwChannel_recv, Held, CountsOK, TypeOK
    <2>10. TypeOK'
      BY <2>5, <2>6, <2>7, <2>8, <2>9
       DEF TypeOK, FlagsOK, StatesOK, QueuesOK, NetOK, CountsOK
    <2>11. OpenIsFlushed'
      BY <1>4, <2>2, <2>3, <2>4 DEF mwChannel_recv, TypeOK, OpenIsFlushed, Held
    <2> QED
      BY <2>10, <2>11
  <1>5. CASE mwChannel_recvDestroy(e)
    <2>1. Tail(net[e]) \in Seq(Message)
      BY <1>5, QueueFacts DEF mwChannel_recvDestroy, Receives
    <2>2. net' \in [Ends -> Seq(Message)]
      BY <1>1, <1>5, <2>1, SendsNet DEF mwChannel_recvDestroy
    <2>3. FlagsOK'
      BY <1>5, <2>2, Zenon DEF mwChannel_recvDestroy, Removed, FlagsOK, TypeOK
    <2>4. StatesOK'
      BY <1>5, <2>2 DEF mwChannel_recvDestroy, Removed, StatesOK, TypeOK
    <2>5. QueuesOK'
      <3>1. CASE Removed(e)
        BY <3>1 DEF Removed, QueuesOK, TypeOK
      <3>2. CASE UNCHANGED <<st, outq, inq>>
        BY <3>2 DEF QueuesOK, TypeOK
      <3> QED
        BY <1>5, <3>1, <3>2 DEF mwChannel_recvDestroy
    <2>6. NetOK'
      BY <1>5, <2>2 DEF mwChannel_recvDestroy, Removed, NetOK, TypeOK
    <2>7. CountsOK'
      BY <1>5, <2>2 DEF mwChannel_recvDestroy, Removed, CountsOK, TypeOK
    <2>8. TypeOK'
      BY <2>3, <2>4, <2>5, <2>6, <2>7
       DEF TypeOK, FlagsOK, StatesOK, QueuesOK, NetOK, CountsOK
    <2>9. OpenIsFlushed'
      BY <1>5, <2>2 DEF mwChannel_recvDestroy, Removed, TypeOK, OpenIsFlushed
    <2> QED
      BY <2>8, <2>9
  <1> QED
    BY <1>2, <1>3, <1>4, <1>5 DEF Handle

LEMMA ConsistentStep == ChannelConsistent /\ [Next]_vars => ChannelConsistent'
  <1> SUFFICES ASSUME ChannelConsistent, [Next]_vars
               PROVE  ChannelConsistent'
    OBVIOUS
  <1> USE DEF ChannelConsistent
  <1>1. CASE mwChannel_create
    <2>1. PICK p \in OfferedPolicies :
            Sends("out", net["out"], <<Offer(Known["out"], p)>>)
      BY <1>1 DEF mwChannel_create
    <2>2. <<Offer(Known["out"], p)>> \in Seq(Message)
      BY EndsFacts, CipherAssumption DEF Offer, Message, OfferedPolicies, Policy
    <2>3. net' \in [Ends -> Seq(Message)]
      BY <2>1, <2>2, EndsFacts, QueueFacts, SendsNet
    <2>4. FlagsOK'
      BY <1>1, <2>3, EndsFacts, CipherAssumption, Zenon DEF mwChannel_create, FlagsOK, TypeOK
    <2>5. StatesOK'
      BY <1>1, <2>3, EndsFacts, CipherAssumption DEF mwChannel_create, StatesOK, TypeOK
    <2>6. QueuesOK'
      BY <1>1, <2>3, EndsFacts, CipherAssumption DEF mwChannel_create, QueuesOK, TypeOK
    <2>7. NetOK'
      BY <1>1, <2>3, EndsFacts, CipherAssumption DEF mwChannel_create, NetOK, TypeOK
    <2>8. CountsOK'
      BY <1>1, <2>3, EndsFacts, CipherAssumption DEF mwChannel_create, CountsOK, TypeOK
    <2>9. TypeOK'
      BY <2>4, <2>5, <2>6, <2>7, <2>8
       DEF TypeOK, FlagsOK, StatesOK, QueuesOK, NetOK, CountsOK
    <2>10. OpenIsFlushed'
      BY <1>1, <2>3, EndsFacts, CipherAssumption DEF mwChannel_create, TypeOK, OpenIsFlushed
    <2> QED
      BY <2>9, <2>10
  <1>2. ASSUME NEW k \in 0..1, mwChannel_accept(k)
        PROVE  ChannelConsistent'
    <2>1. PICK c \in Selectable :
            \/ channel_open("inc", c, k, net["inc"], <<Accept(c)>>)
            \/ /\ st' = [st EXCEPT !["inc"] = "ERROR"]
               /\ mwChannel_selectCipherInstance("inc", c)
               /\ UNCHANGED <<eager, up, policy, outq, inq, net, sent, early, got>>
      BY <1>2 DEF mwChannel_accept
    <2>2. c \in Ciphers \cup {Plaintext} /\ <<Accept(c)>> \in Seq(Message)
      BY SelectableFacts DEF Accept, Message
    <2>3. CASE channel_open("inc", c, k, net["inc"], <<Accept(c)>>)
      BY <2>2, <2>3, EndsFacts, QueueFacts, OpenConsistent
    <2>4. CASE /\ st' = [st EXCEPT !["inc"] = "ERROR"]
               /\ mwChannel_selectCipherInstance("inc", c)
               /\ UNCHANGED <<eager, up, policy, outq, inq, net, sent, early, got>>
      <3>1. FlagsOK'
        BY <2>4, Zenon DEF FlagsOK, TypeOK
      <3>2. StatesOK'
        BY <2>2, <2>4, EndsFacts DEF mwChannel_selectCipherInstance, StatesOK, TypeOK
      <3>3. QueuesOK' /\ NetOK' /\ CountsOK'
        BY <2>4 DEF QueuesOK, NetOK, CountsOK, TypeOK
      <3>4. TypeOK'
        BY <3>1, <3>2, <3>3
           DEF TypeOK, FlagsOK, StatesOK, QueuesOK, NetOK, CountsOK
      <3>5. OpenIsFlushed'
        BY <2>4, EndsFacts DEF TypeOK, OpenIsFlushed
      <3> QED
        BY <3>4, <3>5
    <2> QED
      BY <2>1, <2>3, <2>4
  <1>3. ASSUME NEW e \in Ends, mwChannel_destroy(e)
        PROVE  ChannelConsistent'
    BY <1>3, DestroyConsistent
  <1>4. ASSUME NEW e \in Ends, NEW asked \in BOOLEAN,
               mwChannel_sendEncrypted(e, asked)
        PROVE  ChannelConsistent'
    <2> DEFINE m == Composed(e, 1, asked, cipher[e])
    <2>1. sent[e] + 1 <= MaxSends /\ sent[e] \in Nat /\ MaxSends \in Nat
      BY <1>4, QueueFacts DEF mwChannel_sendEncrypted
    <2>2. m \in Seq(DataMsg) /\ m \in Seq(Message)
      BY <2>1, ComposedFacts, DataIsMessage DEF TypeOK
    <2>3. Queued(outq[e], m) \in Seq(DataMsg)
      BY <2>2, QueueFacts, ConcatProperties DEF Queued
    <2>4. net' \in [Ends -> Seq(Message)]
      BY <1>4, <2>2, QueueFacts, SendsNet DEF mwChannel_sendEncrypted, TypeOK
    <2>5. FlagsOK'
      BY <1>4, <2>1, <2>3, <2>4, Zenon DEF mwChannel_sendEncrypted, Writes, FlagsOK, TypeOK
    <2>6. StatesOK'
      BY <1>4, <2>1, <2>3, <2>4 DEF mwChannel_sendEncrypted, Writes, StatesOK, TypeOK
    <2>7. QueuesOK'
      BY <1>4, <2>1, <2>3, <2>4 DEF mwChannel_sendEncrypted, Writes, QueuesOK, TypeOK
    <2>8. NetOK'
      BY <1>4, <2>1, <2>3, <2>4 DEF mwChannel_sendEncrypted, Writes, NetOK, TypeOK
    <2>9. CountsOK'
      BY <1>4, <2>1, <2>3, <2>4 DEF mwChannel_sendEncrypted, Writes, CountsOK, TypeOK
    <2>10. TypeOK'
      BY <2>5, <2>6, <2>7, <2>8, <2>9
       DEF TypeOK, FlagsOK, StatesOK, QueuesOK, NetOK, CountsOK
    <2>11. OpenIsFlushed'
      BY <1>4, <2>1, <2>3, <2>4 DEF mwChannel_sendEncrypted, TypeOK, OpenIsFlushed, Writes
    <2> QED
      BY <2>10, <2>11
  <1>5. ASSUME NEW e \in Ends, Handle(e)
        PROVE  ChannelConsistent'
    BY <1>5, HandleConsistent
  <1>6. ASSUME NEW e \in Ends, LinkBreaks(e)
        PROVE  ChannelConsistent'
    <2>1. PICK n \in 0..Len(net[Other(e)]) :
            net' = [net EXCEPT ![e] = <<>>,
                               ![Other(e)] = Append(SubSeq(@, 1, n), Destroy)]
      BY <1>6 DEF LinkBreaks
    <2>2. net[Other(e)] \in Seq(Message) /\ Destroy \in Message
      BY EndsFacts, QueueFacts DEF Destroy, Message
    <2>3. SubSeq(net[Other(e)], 1, n) \in Seq(Message)
      BY <2>2, LenProperties, ElementOfSeq, SubSeqProperties
    <2>4. Append(SubSeq(net[Other(e)], 1, n), Destroy) \in Seq(Message)
      BY <2>2, <2>3, AppendProperties
    <2>5. FlagsOK'
      BY <1>6, <2>1, <2>4, EndsFacts, Zenon DEF LinkBreaks, FlagsOK, TypeOK
    <2>6. StatesOK'
      BY <1>6, <2>1, <2>4, EndsFacts DEF LinkBreaks, StatesOK, TypeOK
    <2>7. QueuesOK'
      BY <1>6, <2>1, <2>4, EndsFacts DEF LinkBreaks, QueuesOK, TypeOK
    <2>8. NetOK'
      <3>1. net \in [Ends -> Seq(Message)] /\ <<>> \in Seq(Message)
        BY DEF TypeOK
      <3>2. [net EXCEPT ![e] = <<>>] \in [Ends -> Seq(Message)]
        BY <3>1
      <3> QED
        BY <2>1, <2>4, <3>1, <3>2, EndsFacts DEF NetOK
    <2>9. CountsOK'
      BY <1>6, <2>1, <2>4, EndsFacts DEF LinkBreaks, CountsOK, TypeOK
    <2>10. TypeOK'
      BY <2>5, <2>6, <2>7, <2>8, <2>9
       DEF TypeOK, FlagsOK, StatesOK, QueuesOK, NetOK, CountsOK
    <2>11. OpenIsFlushed'
      BY <1>6, <2>1, <2>4, EndsFacts DEF LinkBreaks, TypeOK, OpenIsFlushed
    <2> QED
      BY <2>10, <2>11
  <1>7. ASSUME NEW e \in Ends, SessionStops(e)
        PROVE  ChannelConsistent'
    BY <1>7, DestroyConsistent DEF SessionStops
  <1>8. CASE UNCHANGED vars
    BY <1>8 DEF vars, TypeOK, OpenIsFlushed
  <1> QED
    BY <1>1, <1>2, <1>3, <1>4, <1>5, <1>6, <1>7, <1>8 DEF Next

\* Every queue, message and state of the channel is of its type, and a channel
\* that is OPEN has both queues empty: mwChannel_accept and
\* mwChannel_recvAccept flush what they find, and nothing is queued later.
THEOREM ConsistentCorrect == Spec => []ChannelConsistent
  BY ConsistentInit, ConsistentStep, PTL DEF Spec

-----------------------------------------------------------------------------
(* What a step may do, in one formula per effect.  The other invariants    *)
(* are shown to survive each of them.                                      *)

\* End e goes to state s, leaves rest unread and writes msgs.
Moves(e, s, rest, msgs) ==
    /\ st' = [st EXCEPT ![e] = s]
    /\ net'[e] = rest
    /\ net'[Other(e)] = IF Both THEN net[Other(e)] \o msgs ELSE net[Other(e)]

Created(p) ==
    /\ st["out"] = "none"
    /\ Moves("out", IF up["out"] THEN "WAIT" ELSE "ERROR", net["out"],
             <<Offer(Known["out"], p)>>)
    /\ UNCHANGED <<up, cipher, outq, inq, sent, early, got>>

Opened(e, c, k, asked, rest, first) ==
    /\ st[e] = "WAIT"
    /\ sent[e] + k <= MaxSends
    /\ Moves(e, "OPEN", rest, first \o Composed(e, k, asked, c) \o outq[e])
    /\ cipher' = [cipher EXCEPT ![e] = c]
    /\ got' = [got EXCEPT ![e] = @ \o Numbers(inq[e])]
    /\ inq' = [inq EXCEPT ![e] = <<>>]
    /\ outq' = [outq EXCEPT ![e] = <<>>]
    /\ sent' = [sent EXCEPT ![e] = @ + k]
    /\ early' = [early EXCEPT ![e] = @ \cup (sent[e] + 1)..(sent[e] + k)]
    /\ UNCHANGED up

\* mwChannel_accept
OpenedInc(c, k, asked) ==
    Opened("inc", c, k, asked, net["inc"], <<Accept(c)>>)

\* mwChannel_recvAccept
OpenedOut(k, asked) ==
    /\ Receives("out", "ACCEPT")
    /\ Opened("out", Head(net["out"]).item, k, asked, Tail(net["out"]), <<>>)

Failed(c) ==
    /\ st["inc"] = "WAIT" /\ ~up["inc"]
    /\ st' = [st EXCEPT !["inc"] = "ERROR"]
    /\ cipher' = [cipher EXCEPT !["inc"] = c]
    /\ UNCHANGED <<up, outq, inq, net, sent, early, got>>

Closed(e, rest, msgs) ==
    /\ st[e] \in Held
    /\ Moves(e, "gone", rest, msgs)
    /\ outq' = [outq EXCEPT ![e] = <<>>]
    /\ inq' = [inq EXCEPT ![e] = <<>>]
    /\ UNCHANGED <<up, cipher, sent, early, got>>

Shut(e, msgs) ==
    \/ Closed(e, net[e], msgs)
    \/ net[e] # <<>> /\ Closed(e, Tail(net[e]), msgs)

Written(e, asked) ==
    /\ Writes(e) /\ sent[e] < MaxSends
    /\ Moves(e, st[e], net[e], Composed(e, 1, asked, cipher[e]))
    /\ sent' = [sent EXCEPT ![e] = @ + 1]
    /\ UNCHANGED <<up, cipher, outq, inq, early, got>>

Waits(e, asked) ==
    /\ st[e] \in {"WAIT", "ERROR"} /\ ~Writes(e) /\ sent[e] < MaxSends
    /\ outq' = [outq EXCEPT ![e] = Queued(@, Composed(e, 1, asked, cipher[e]))]
    /\ sent' = [sent EXCEPT ![e] = @ + 1]
    /\ UNCHANGED <<up, st, cipher, inq, net, early, got>>

\* mwChannel_recvCreate
Offered(s, msgs) ==
    /\ Receives("inc", "CREATE")
    /\ Moves("inc", s, Tail(net["inc"]), msgs)
    /\ UNCHANGED <<up, cipher, outq, inq, sent, early, got>>

\* A message for a channel that is not in the channel set.
Dropped(e) ==
    /\ net[e] # <<>> /\ st[e] \notin Held
    /\ Head(net[e]).type # "CREATE"
    /\ Moves(e, st[e], Tail(net[e]), <<>>)
    /\ UNCHANGED <<up, cipher, outq, inq, sent, early, got>>

Handed(e) ==
    /\ Receives(e, "SEND") /\ st[e] = "OPEN"
    /\ Moves(e, st[e], Tail(net[e]), <<>>)
    /\ got' = [got EXCEPT ![e] = Append(@, Head(net[e]).n)]
    /\ UNCHANGED <<up, cipher, outq, inq, sent, early>>

Kept(e) ==
    /\ Receives(e, "SEND") /\ st[e] \in {"WAIT", "ERROR"}
    /\ Moves(e, st[e], Tail(net[e]), <<>>)
    /\ inq' = [inq EXCEPT ![e] = Queued(@, <<Head(net[e])>>)]
    /\ UNCHANGED <<up, cipher, outq, sent, early, got>>

Broken(e, n) ==
    /\ Both
    /\ up' = [up EXCEPT ![e] = FALSE]
    /\ net'[e] = <<>>
    /\ net'[Other(e)] = Append(SubSeq(net[Other(e)], 1, n), Destroy)
    /\ UNCHANGED <<st, cipher, outq, inq, sent, early, got>>

Effect ==
    \/ \E p \in Policy : Created(p)
    \/ \E c \in Ciphers \cup {Plaintext}, k \in 0..1, asked \in BOOLEAN :
         OpenedInc(c, k, asked)
    \/ \E k \in 0..1, asked \in BOOLEAN : OpenedOut(k, asked)
    \/ \E c \in Ciphers \cup {Plaintext} : Failed(c)
    \/ \E e \in Ends, msgs \in {<<>>, <<Destroy>>} : Shut(e, msgs)
    \/ \E e \in Ends, asked \in BOOLEAN : Written(e, asked)
    \/ \E e \in Ends, asked \in BOOLEAN : Waits(e, asked)
    \/ Offered("WAIT", <<>>)
    \/ Offered("gone", <<Destroy>>)
    \/ \E e \in Ends : Dropped(e)
    \/ \E e \in Ends : Handed(e)
    \/ \E e \in Ends : Kept(e)
    \/ \E e \in Ends : \E n \in 0..Len(net[Other(e)]) : Broken(e, n)
    \/ UNCHANGED <<up, st, cipher, outq, inq, net, sent, early, got>>

LEMMA OpenEffect ==
    ASSUME ChannelConsistent, NEW e \in Ends, NEW c \in Ciphers \cup {Plaintext},
           NEW k \in 0..1, NEW rest \in Seq(Message), NEW first \in Seq(Message),
           st[e] = "WAIT", channel_open(e, c, k, rest, first)
    PROVE  \E asked \in BOOLEAN : Opened(e, c, k, asked, rest, first)
  <1>1. PICK asked \in BOOLEAN :
          Sends(e, rest, first \o Composed(e, k, asked, c) \o outq[e])
    BY DEF channel_open
  <1>2. TypeOK /\ sent[e] + k <= MaxSends
    BY DEF channel_open, ChannelConsistent
  <1>3. Composed(e, k, asked, c) \in Seq(Message)
    BY <1>2, ComposedFacts, DataIsMessage
  <1>4. first \o Composed(e, k, asked, c) \o outq[e] \in Seq(Message)
    BY <1>2, <1>3, QueueFacts, ConcatProperties
  <1>5. Moves(e, "OPEN", rest, first \o Composed(e, k, asked, c) \o outq[e])
    BY <1>1, <1>2, <1>4, SendsNet DEF Moves, channel_open
  <1>6. Opened(e, c, k, asked, rest, first)
    BY <1>2, <1>5 DEF Opened, channel_open, mwChannel_selectCipherInstance
  <1> QED
    BY <1>6

LEMMA DestroyEffect ==
    ASSUME ChannelConsistent, NEW e \in Ends, mwChannel_destroy(e)
    PROVE  Closed(e, net[e], <<Destroy>>)
  <1>1. <<Destroy>> \in Seq(Message) /\ TypeOK
    BY DEF Message, Destroy, ChannelConsistent
  <1>2. Moves(e, "gone", net[e], <<Destroy>>)
    BY <1>1, QueueFacts, SendsNet DEF mwChannel_destroy, Removed, Moves
  <1> QED
    BY <1>2 DEF mwChannel_destroy, Removed, Closed

LEMMA HandleEffect ==
    ASSUME ChannelConsistent, NEW e \in Ends, Handle(e)
    PROVE  Effect
  <1>1. <<Destroy>> \in Seq(Message) /\ <<>> \in Seq(Message) /\ TypeOK
    BY DEF Message, Destroy, ChannelConsistent
  <1>2. CASE e = "inc" /\ mwChannel_recvCreate
    <2>1. Tail(net["inc"]) \in Seq(Message)
      BY <1>2, EndsFacts, QueueFacts, <1>1 DEF mwChannel_recvCreate, Receives
    <2>2. \/ Moves("inc", "WAIT", Tail(net["inc"]), <<>>)
          \/ Moves("inc", "gone", Tail(net["inc"]), <<Destroy>>)
      BY <1>1, <1>2, <2>1, EndsFacts, SendsNet DEF mwChannel_recvCreate, Moves
    <2>3. Offered("WAIT", <<>>) \/ Offered("gone", <<Destroy>>)
      BY <1>2, <2>2 DEF mwChannel_recvCreate, Offered
    <2> QED
      BY <2>3 DEF Effect
  <1>3. CASE e = "out" /\ \E k \in 0..1 : mwChannel_recvAccept(k)
    <2>1. PICK k \in 0..1 : mwChannel_recvAccept(k)
      BY <1>3
    <2>2. /\ net["out"] # <<>> /\ Head(net["out"]).type = "ACCEPT"
          /\ Tail(net["out"]) \in Seq(Message)
          /\ Head(net["out"]).item \in Ciphers \cup {Plaintext}
      BY <2>1, EndsFacts, QueueFacts, MessageFacts, <1>1 DEF mwChannel_recvAccept, Receives
    <2>3. CASE /\ st["out"] = "WAIT"
               /\ channel_open("out", Head(net["out"]).item, k, Tail(net["out"]), <<>>)
      <3>1. \E asked \in BOOLEAN :
              Opened("out", Head(net["out"]).item, k, asked, Tail(net["out"]), <<>>)
        <4>1. "out" \in Ends
          BY EndsFacts
        <4> QED
          BY <1>1, <2>2, <2>3, <4>1, OpenEffect, Zenon
      <3> QED
        BY <2>2, <3>1 DEF Effect, OpenedOut, Receives
    <2>4. CASE /\ st["out"] \in Held /\ Removed("out")
               /\ Sends("out", Tail(net["out"]), <<Destroy>>)
               /\ UNCHANGED <<eager, up, cipher, supported, policy, sent, early, got>>
      <3>1. Moves("out", "gone", Tail(net["out"]), <<Destroy>>)
        BY <1>1, <2>2, <2>4, EndsFacts, SendsNet DEF Removed, Moves
      <3>2. Closed("out", Tail(net["out"]), <<Destroy>>)
        BY <2>4, <3>1 DEF Removed, Closed
      <3> QED
        BY <2>2, <3>2, EndsFacts DEF Effect, Shut
    <2>5. CASE /\ st["out"] \notin Held
               /\ Sends("out", Tail(net["out"]), <<>>)
               /\ UNCHANGED <<eager, up, st, cipher, supported, policy, outq, inq,
                              sent, early, got>>
      <3>1. Moves("out", st["out"], Tail(net["out"]), <<>>)
        BY <1>1, <2>2, <2>5, EndsFacts, SendsNet DEF Moves, TypeOK
      <3>2. Dropped("out")
        BY <2>2, <2>5, <3>1 DEF Dropped
      <3> QED
        BY <3>2, EndsFacts DEF Effect
    <2> QED
      BY <2>1, <2>3, <2>4, <2>5 DEF mwChannel_recvAccept
  <1>4. CASE mwChannel_recv(e)
    <2>1. /\ net[e] # <<>> /\ Head(net[e]).type = "SEND"
          /\ Tail(net[e]) \in Seq(Message)
      BY <1>4, QueueFacts, <1>1 DEF mwChannel_recv, Receives
    <2>2. Moves(e, st[e], Tail(net[e]), <<>>)
      BY <1>1, <1>4, <2>1, SendsNet DEF mwChannel_recv, Moves, TypeOK
    <2>3. Handed(e) \/ Kept(e) \/ Dropped(e)
      BY <1>4, <2>1, <2>2 DEF mwChannel_recv, Handed, Kept, Dropped, Held
    <2> QED
      BY <2>3 DEF Effect
  <1>5. CASE mwChannel_recvDestroy(e)
    <2>1. /\ net[e] # <<>> /\ Head(net[e]).type = "DESTROY"
          /\ Tail(net[e]) \in Seq(Message)
      BY <1>5, QueueFacts, <1>1 DEF mwChannel_recvDestroy, Receives
    <2>2. \/ Moves(e, "gone", Tail(net[e]), <<>>) /\ Removed(e) /\ st[e] \in Held
          \/ /\ Moves(e, st[e], Tail(net[e]), <<>>) /\ st[e] \notin Held
             /\ UNCHANGED <<outq, inq>>
      BY <1>1, <1>5, <2>1, SendsNet DEF mwChannel_recvDestroy, Removed, Moves, TypeOK
    <2>3. Closed(e, Tail(net[e]), <<>>) \/ Dropped(e)
      BY <1>5, <2>1, <2>2 DEF mwChannel_recvDestroy, Removed, Closed, Dropped
    <2> QED
      BY <2>1, <2>3 DEF Effect, Shut
  <1> QED
    BY <1>2, <1>3, <1>4, <1>5 DEF Handle

LEMMA StepEffect == ChannelConsistent /\ [Next]_vars => Effect
  <1> SUFFICES ASSUME ChannelConsistent, [Next]_vars
               PROVE  Effect
    OBVIOUS
  <1>1. TypeOK
    BY DEF ChannelConsistent
  <1>2. CASE mwChannel_create
    <2>1. PICK p \in OfferedPolicies :
            Sends("out", net["out"], <<Offer(Known["out"], p)>>)
      BY <1>2 DEF mwChannel_create
    <2>2. p \in Policy /\ <<Offer(Known["out"], p)>> \in Seq(Message)
      BY EndsFacts, CipherAssumption DEF Offer, Message, OfferedPolicies, Policy
    <2>3. Moves("out", IF up["out"] THEN "WAIT" ELSE "ERROR", net["out"],
                <<Offer(Known["out"], p)>>)
      BY <1>1, <1>2, <2>1, <2>2, EndsFacts, QueueFacts, SendsNet
         DEF mwChannel_create, Moves
    <2>4. Created(p)
      BY <1>2, <2>3 DEF mwChannel_create, Created
    <2> QED
      BY <2>2, <2>4 DEF Effect
  <1>3. ASSUME NEW k \in 0..1, mwChannel_accept(k)
        PROVE  Effect
    <2>1. PICK c \in Selectable :
            \/ channel_open("inc", c, k, net["inc"], <<Accept(c)>>)
            \/ /\ ~up["inc"]
               /\ st' = [st EXCEPT !["inc"] = "ERROR"]
               /\ mwChannel_selectCipherInstance("inc", c)
               /\ UNCHANGED <<eager, up, policy, outq, inq, net, sent, early, got>>
      BY <1>3 DEF mwChannel_accept
    <2>2. c \in Ciphers \cup {Plaintext} /\ <<Accept(c)>> \in Seq(Message)
      BY <1>1, SelectableFacts DEF Accept, Message
    <2>3. st["inc"] = "WAIT"
      BY <1>3 DEF mwChannel_accept
    <2>4. CASE channel_open("inc", c, k, net["inc"], <<Accept(c)>>)
      <3>1. \E asked \in BOOLEAN :
              Opened("inc", c, k, asked, net["inc"], <<Accept(c)>>)
        <4>1. "inc" \in Ends /\ net["inc"] \in Seq(Message)
          BY <1>1, EndsFacts, QueueFacts
        <4> QED
          BY <2>2, <2>3, <2>4, <4>1, OpenEffect, Zenon
      <3> QED
        BY <2>2, <3>1 DEF Effect, OpenedInc
    <2>5. CASE /\ ~up["inc"]
               /\ st' = [st EXCEPT !["inc"] = "ERROR"]
               /\ mwChannel_selectCipherInstance("inc", c)
               /\ UNCHANGED <<eager, up, policy, outq, inq, net, sent, early, got>>
      <3>1. Failed(c)
        BY <2>3, <2>5 DEF mwChannel_selectCipherInstance, Failed
      <3> QED
        BY <2>2, <3>1 DEF Effect
    <2> QED
      BY <2>1, <2>4, <2>5
  <1>4. ASSUME NEW e \in Ends, mwChannel_destroy(e)
        PROVE  Effect
    BY <1>4, DestroyEffect DEF Effect, Shut
  <1>5. ASSUME NEW e \in Ends, NEW asked \in BOOLEAN,
               mwChannel_sendEncrypted(e, asked)
        PROVE  Effect
    <2>1. /\ sent[e] + 1 <= MaxSends
          /\ st[e] \in Held /\ sent[e] < MaxSends
      BY <1>1, <1>5, QueueFacts DEF mwChannel_sendEncrypted
    <2>2. Composed(e, 1, asked, cipher[e]) \in Seq(Message)
      BY <1>1, <2>1, ComposedFacts, DataIsMessage DEF TypeOK
    <2>3. CASE Writes(e)
      <3>1. Moves(e, st[e], net[e], Composed(e, 1, asked, cipher[e]))
        BY <1>1, <1>5, <2>2, <2>3, QueueFacts, SendsNet
           DEF mwChannel_sendEncrypted, Moves, TypeOK
      <3>2. Written(e, asked)
        BY <1>5, <2>1, <2>3, <3>1 DEF mwChannel_sendEncrypted, Written
      <3> QED
        BY <3>2 DEF Effect
    <2>4. CASE ~Writes(e)
      <3>1. st[e] \in {"WAIT", "ERROR"}
        BY <2>1, <2>4 DEF Held, Writes
      <3>2. Waits(e, asked)
        BY <1>5, <2>1, <2>4, <3>1 DEF mwChannel_sendEncrypted, Waits
      <3> QED
        BY <3>2 DEF Effect
    <2> QED
      BY <2>3, <2>4
  <1>6. ASSUME NEW e \in Ends, Handle(e)
        PROVE  Effect
    BY <1>6, HandleEffect
  <1>7. ASSUME NEW e \in Ends, LinkBreaks(e)
        PROVE  Effect
    <2>1. PICK n \in 0..Len(net[Other(e)]) :
            net' = [net EXCEPT ![e] = <<>>,
                               ![Other(e)] = Append(SubSeq(@, 1, n), Destroy)]
      BY <1>7 DEF LinkBreaks
    <2>2. /\ net'[e] = <<>>
          /\ net'[Other(e)] = Append(SubSeq(net[Other(e)], 1, n), Destroy)
      BY <1>1, <2>1, EndsFacts DEF TypeOK
    <2>3. Broken(e, n)
      BY <1>7, <2>2 DEF LinkBreaks, Broken, Both
    <2> QED
      BY <2>3 DEF Effect
  <1>8. ASSUME NEW e \in Ends, SessionStops(e)
        PROVE  Effect
    BY <1>8, DestroyEffect DEF SessionStops, Effect, Shut
  <1>9. CASE UNCHANGED vars
    BY <1>9 DEF vars, Effect
  <1> QED
    BY <1>2, <1>3, <1>4, <1>5, <1>6, <1>7, <1>8, <1>9 DEF Next

-----------------------------------------------------------------------------
(* Sequences, element by element.                                          *)

LEMMA TailElems ==
    ASSUME NEW S, NEW s \in Seq(S), s # <<>>
    PROVE  /\ Len(s) \in Nat \ {0} /\ DOMAIN s = 1..Len(s)
           /\ Tail(s) \in Seq(S) /\ DOMAIN Tail(s) = 1..(Len(s) - 1)
           /\ Head(s) = s[1]
           /\ \A i \in DOMAIN Tail(s) : i + 1 \in DOMAIN s /\ Tail(s)[i] = s[i + 1]
           /\ \A j \in DOMAIN s :
                j = 1 \/ (j - 1 \in DOMAIN Tail(s) /\ Tail(s)[j - 1] = s[j])
  BY HeadTailProperties, LenProperties, EmptySeq

LEMMA ConcatElems ==
    ASSUME NEW S, NEW s \in Seq(S), NEW t \in Seq(S)
    PROVE  /\ s \o t \in Seq(S)
           /\ Len(s) \in Nat /\ DOMAIN s = 1..Len(s)
           /\ \A i \in DOMAIN s : i \in DOMAIN (s \o t) /\ (s \o t)[i] = s[i]
           /\ \A j \in DOMAIN t : /\ Len(s) + j \in DOMAIN (s \o t)
                                 /\ (s \o t)[Len(s) + j] = t[j]
           /\ \A i \in DOMAIN (s \o t) :
                \/ i \in DOMAIN s /\ (s \o t)[i] = s[i]
                \/ /\ i > Len(s) /\ i - Len(s) \in DOMAIN t
                   /\ (s \o t)[i] = t[i - Len(s)]
  <1>1. /\ s \o t \in Seq(S) /\ Len(s \o t) = Len(s) + Len(t)
        /\ \A i \in 1..(Len(s) + Len(t)) :
             (s \o t)[i] = IF i <= Len(s) THEN s[i] ELSE t[i - Len(s)]
    BY ConcatProperties
  <1>2. /\ Len(s) \in Nat /\ DOMAIN s = 1..Len(s)
        /\ Len(t) \in Nat /\ DOMAIN t = 1..Len(t)
        /\ DOMAIN (s \o t) = 1..(Len(s) + Len(t))
    BY <1>1, LenProperties
  <1> QED
    BY <1>1, <1>2

LEMMA ConcatNothing ==
    ASSUME NEW S, NEW s \in Seq(S)
    PROVE  s \o <<>> = s
  BY ConcatEmptySeq

LEMMA ConcatMembers ==
    ASSUME NEW S, NEW s \in Seq(S), NEW t \in Seq(S)
    PROVE  /\ s \o t \in Seq(S)
           /\ \A i \in DOMAIN s : i \in DOMAIN (s \o t) /\ (s \o t)[i] = s[i]
           /\ \A j \in DOMAIN t : \E i \in DOMAIN (s \o t) : (s \o t)[i] = t[j]
           /\ \A i \in DOMAIN (s \o t) :
                \/ i \in DOMAIN s /\ (s \o t)[i] = s[i]
                \/ \E j \in DOMAIN t : (s \o t)[i] = t[j]
  <1> DEFINE u == s \o t
  <1>1. /\ u \in Seq(S)
        /\ \A i \in DOMAIN s : i \in DOMAIN u /\ u[i] = s[i]
        /\ \A j \in DOMAIN t : Len(s) + j \in DOMAIN u /\ u[Len(s) + j] = t[j]
        /\ \A i \in DOMAIN u :
             \/ i \in DOMAIN s /\ u[i] = s[i]
             \/ i - Len(s) \in DOMAIN t /\ u[i] = t[i - Len(s)]
    BY ConcatElems
  <1> HIDE DEF u
  <1>2. /\ u \in Seq(S)
        /\ \A i \in DOMAIN s : i \in DOMAIN u /\ u[i] = s[i]
        /\ \A j \in DOMAIN t : \E i \in DOMAIN u : u[i] = t[j]
        /\ \A i \in DOMAIN u :
             \/ i \in DOMAIN s /\ u[i] = s[i]
             \/ \E j \in DOMAIN t : u[i] = t[j]
    BY <1>1
  <1> QED
    BY <1>2 DEF u

\* Sequence t is s with elements of m behind it, or s itself.
Extends(t, s, m) ==
    /\ \A i \in DOMAIN s : i \in DOMAIN t /\ t[i] = s[i]
    /\ \A i \in DOMAIN t :
         \/ i \in DOMAIN s
         \/ /\ \A h \in DOMAIN s : h \in 1..(i - 1)
            /\ \E j \in DOMAIN m : t[i] = m[j]

\* Sequence t is s without its first element.
Shifted(t, s) ==
    /\ 1 \in DOMAIN s
    /\ \A i \in DOMAIN t : i \in Nat \ {0} /\ i + 1 \in DOMAIN s /\ t[i] = s[i + 1]
    /\ \A j \in DOMAIN s :
         j \in Nat /\ (j = 1 \/ (j - 1 \in DOMAIN t /\ t[j - 1] = s[j]))

\* Sequence t is the beginning of s with d behind it.
Cut(t, s, d) ==
    /\ \A i \in DOMAIN t : /\ i \in Nat
                           /\ (i \in DOMAIN s /\ t[i] = s[i]) \/ t[i] = d
                           /\ \A j \in 1..(i - 1) : j \in DOMAIN s /\ t[j] = s[j]

LEMMA ExtendsConcat ==
    ASSUME NEW S, NEW s \in Seq(S), NEW m \in Seq(S)
    PROVE  Extends(s \o m, s, m)
  <1> DEFINE t == s \o m
  <1>1. /\ \A i \in DOMAIN s : i \in DOMAIN t /\ t[i] = s[i]
        /\ \A i \in DOMAIN t :
             i \in DOMAIN s \/ \E j \in DOMAIN m : t[i] = m[j]
    BY ConcatMembers
  <1>2. /\ Len(s) \in Nat /\ DOMAIN s = 1..Len(s) /\ Len(t) \in Nat
        /\ DOMAIN t = 1..Len(t)
    BY ConcatProperties, LenProperties
  <1> HIDE DEF t
  <1>3. \A i \in DOMAIN t : i \in DOMAIN s \/ \A h \in DOMAIN s : h \in 1..(i - 1)
    BY <1>2
  <1>4. Extends(t, s, m)
    BY <1>1, <1>3 DEF Extends
  <1> QED
    BY <1>4 DEF t

LEMMA ExtendsSame ==
    ASSUME NEW S, NEW s \in Seq(S), NEW m
    PROVE  Extends(s, s, m)
  BY DEF Extends

LEMMA ShiftedTail ==
    ASSUME NEW S, NEW s \in Seq(S), s # <<>>
    PROVE  Shifted(Tail(s), s) /\ Head(s) = s[1]
  BY TailElems DEF Shifted

\* What is left when a connection breaks behind n messages.
LEMMA CutElems ==
    ASSUME NEW S, NEW s \in Seq(S), NEW n \in 0..Len(s), NEW d \in S
    PROVE  /\ Append(SubSeq(s, 1, n), d) \in Seq(S)
           /\ DOMAIN Append(SubSeq(s, 1, n), d) = 1..(n + 1)
           /\ n \in Nat /\ DOMAIN s = 1..Len(s) /\ Len(s) \in Nat
           /\ \A i \in 1..n : i \in DOMAIN s /\ Append(SubSeq(s, 1, n), d)[i] = s[i]
           /\ Append(SubSeq(s, 1, n), d)[n + 1] = d
  <1>1. Len(s) \in Nat /\ DOMAIN s = 1..Len(s) /\ \A i \in 1..n : s[i] \in S
    BY LenProperties, ElementOfSeq
  <1>2. /\ SubSeq(s, 1, n) \in Seq(S) /\ Len(SubSeq(s, 1, n)) = n
        /\ \A i \in 1..n : SubSeq(s, 1, n)[i] = s[i]
    BY <1>1, SubSeqProperties
  <1> QED
    BY <1>1, <1>2, AppendProperties

LEMMA CutAppend ==
    ASSUME NEW S, NEW s \in Seq(S), NEW n \in 0..Len(s), NEW d \in S
    PROVE  Cut(Append(SubSeq(s, 1, n), d), s, d)
  <1> DEFINE t == Append(SubSeq(s, 1, n), d)
  <1>1. /\ DOMAIN t = 1..(n + 1) /\ n \in Nat
        /\ \A i \in 1..n : i \in DOMAIN s /\ t[i] = s[i]
        /\ t[n + 1] = d
    BY CutElems
  <1> HIDE DEF t
  <1>2. Cut(t, s, d)
    BY <1>1 DEF Cut
  <1> QED
    BY <1>2 DEF t

\* M consists of the messages of f, of C and of Q; those of f come first.
Joined(M, f, C, Q) ==
    /\ M \in Seq(Message)
    /\ \A i \in DOMAIN f : i \in DOMAIN M /\ M[i] = f[i]
    /\ \A j \in DOMAIN C : \E i \in DOMAIN M : M[i] = C[j]
    /\ \A j \in DOMAIN Q : \E i \in DOMAIN M : M[i] = Q[j]
    /\ \A i \in DOMAIN M :
         \/ i \in DOMAIN f /\ M[i] = f[i]
         \/ \E j \in DOMAIN C : M[i] = C[j]
         \/ \E j \in DOMAIN Q : M[i] = Q[j]

\* The messages a channel writes when it opens.
LEMMA OpenMsgs ==
    ASSUME TypeOK, NEW e \in Ends, NEW k \in 0..1, NEW asked \in BOOLEAN,
           NEW c \in Ciphers \cup {Plaintext}, sent[e] + k <= MaxSends,
           NEW first \in Seq(Message)
    PROVE  Joined(first \o Composed(e, k, asked, c) \o outq[e], first,
                  Composed(e, k, asked, c), outq[e])
  <1> DEFINE C == Composed(e, k, asked, c)
             O == outq[e]
             F == first \o C
  <1>1. C \in Seq(Message) /\ O \in Seq(Message)
    BY ComposedFacts, QueueFacts, DataIsMessage
  <1> HIDE DEF C, O
  <1>2. /\ F \in Seq(Message)
        /\ \A i \in DOMAIN first : i \in DOMAIN F /\ F[i] = first[i]
        /\ \A j \in DOMAIN C : \E i \in DOMAIN F : F[i] = C[j]
        /\ \A i \in DOMAIN F :
             \/ i \in DOMAIN first /\ F[i] = first[i]
             \/ \E j \in DOMAIN C : F[i] = C[j]
    BY <1>1, ConcatMembers
  <1> HIDE DEF F
  <1>3. F \in Seq(Message)
    BY <1>2
  <1>4. /\ F \o O \in Seq(Message)
        /\ \A i \in DOMAIN F : i \in DOMAIN (F \o O) /\ (F \o O)[i] = F[i]
        /\ \A j \in DOMAIN O :
             \E i \in DOMAIN (F \o O) : (F \o O)[i] = O[j]
        /\ \A i \in DOMAIN (F \o O) :
             \/ i \in DOMAIN F /\ (F \o O)[i] = F[i]
             \/ \E j \in DOMAIN O : (F \o O)[i] = O[j]
    BY <1>1, <1>3, ConcatMembers, SMTT(60)
  <1>5. /\ F \o O \in Seq(Message)
        /\ \A i \in DOMAIN first :
             i \in DOMAIN (F \o O) /\ (F \o O)[i] = first[i]
        /\ \A j \in DOMAIN C : \E i \in DOMAIN (F \o O) : (F \o O)[i] = C[j]
        /\ \A j \in DOMAIN O :
             \E i \in DOMAIN (F \o O) : (F \o O)[i] = O[j]
        /\ \A i \in DOMAIN (F \o O) :
             \/ i \in DOMAIN first /\ (F \o O)[i] = first[i]
             \/ \E j \in DOMAIN C : (F \o O)[i] = C[j]
             \/ \E j \in DOMAIN O : (F \o O)[i] = O[j]
    BY <1>2, <1>4
  <1>6. Joined(F \o O, first, C, O)
    BY <1>5 DEF Joined
  <1> QED
    BY <1>6 DEF F, C, O

-----------------------------------------------------------------------------
(* Where an offer and its answer may be on their way.                      *)

\* The offer comes first at the end it is for, and only one comes.
OfferFirst ==
    \A i \in DOMAIN net["inc"] :
        /\ net["inc"][i].type # "ACCEPT"
        /\ net["inc"][i].type = "CREATE" => i = 1 /\ st["inc"] = "none"

\* Nothing but the end of the channel comes back before the offer is read.
NotYetOffered ==
    /\ \A i \in DOMAIN net["out"] :
         /\ net["out"][i].type # "CREATE"
         /\ st["inc"] = "none" => net["out"][i].type = "DESTROY"
    /\ st["inc"] = "none" /\ st["out"] # "none" /\ Both =>
         1 \in DOMAIN net["inc"] /\ net["inc"][1].type = "CREATE"

NotYetCreated ==
    st["out"] = "none" =>
        /\ st["inc"] = "none"
        /\ \A i \in DOMAIN net["inc"] : net["inc"][i].type = "DESTROY"
        /\ Both => net["inc"] = <<>> /\ net["out"] = <<>>

NetShape == OfferFirst /\ NotYetOffered /\ NotYetCreated

LEMMA ShapeInit == Init => NetShape
  BY EndsFacts DEF Init, NetShape, OfferFirst, NotYetOffered, NotYetCreated

\* The two directions, with their types.
LEMMA NetFacts ==
    ASSUME TypeOK
    PROVE  /\ net["out"] \in Seq(Message) /\ net["inc"] \in Seq(Message)
           /\ <<>> \in Seq(Message) /\ <<Destroy>> \in Seq(Message)
           /\ DOMAIN <<Destroy>> = {1} /\ <<Destroy>>[1].type = "DESTROY"
           /\ st \in [Ends -> {"none", "WAIT", "OPEN", "ERROR", "gone"}]
  BY EndsFacts DEF TypeOK, Destroy, Message

\* The messages M are those of first and, behind them, data.
DataBehind(M, first) ==
    /\ M \in Seq(Message)
    /\ \A i \in DOMAIN M :
         (i \in DOMAIN first /\ M[i] = first[i]) \/ M[i].type = "SEND"

\* Nothing but data behind an acceptance is written by an end that opens.
LEMMA OpenTypes ==
    ASSUME TypeOK, NEW e \in Ends, NEW k \in 0..1, NEW asked \in BOOLEAN,
           NEW c \in Ciphers \cup {Plaintext}, sent[e] + k <= MaxSends,
           NEW first \in Seq(Message)
    PROVE  DataBehind(first \o Composed(e, k, asked, c) \o outq[e], first)
  <1>1. \A j \in DOMAIN Composed(e, k, asked, c) :
          Composed(e, k, asked, c)[j].type = "SEND"
    BY ComposedFacts
  <1>2. \A j \in DOMAIN outq[e] : outq[e][j].type = "SEND"
    <2>1. \A j \in DOMAIN outq[e] : outq[e][j] \in DataMsg
      BY QueueFacts, ElementOfSeq, LenProperties
    <2> QED
      BY <2>1 DEF DataMsg
  <1> DEFINE X == first \o Composed(e, k, asked, c) \o outq[e]
  <1>3. Joined(X, first, Composed(e, k, asked, c), outq[e])
    BY OpenMsgs
  <1> HIDE DEF X
  <1>4. DataBehind(X, first)
    BY <1>1, <1>2, <1>3 DEF DataBehind, Joined
  <1> QED
    BY <1>4 DEF X

\* A step that writes extends what is on its way to the other end.
LEMMA MovesElems ==
    ASSUME TypeOK, NEW e \in Ends, NEW s, NEW rest, NEW msgs \in Seq(Message),
           Moves(e, s, rest, msgs)
    PROVE  /\ st' = [st EXCEPT ![e] = s]
           /\ st'[e] = s /\ st'[Other(e)] = st[Other(e)]
           /\ net'[e] = rest
           /\ Extends(net'[Other(e)], net[Other(e)], msgs)
           /\ Both => net'[Other(e)] = net[Other(e)] \o msgs
           /\ ~Both => net'[Other(e)] = net[Other(e)]
  <1>1. net[Other(e)] \in Seq(Message) /\ st' = [st EXCEPT ![e] = s]
    BY EndsFacts, QueueFacts DEF Moves
  <1>2. Extends(net'[Other(e)], net[Other(e)], msgs)
    BY <1>1, ExtendsConcat, ExtendsSame DEF Moves
  <1> QED
    BY <1>1, <1>2, EndsFacts DEF Moves, TypeOK

\* Nothing is written when one message is read.
LEMMA MovesNothing ==
    ASSUME TypeOK, NEW e \in Ends, NEW s, NEW rest, Moves(e, s, rest, <<>>)
    PROVE  /\ st' = [st EXCEPT ![e] = s]
           /\ st'[e] = s /\ st'[Other(e)] = st[Other(e)]
           /\ net'[e] = rest
           /\ net'[Other(e)] = net[Other(e)]
  BY QueueFacts, EndsFacts, ConcatNothing DEF Moves, TypeOK

LEMMA DestroyFacts ==
    ASSUME NEW msgs \in {<<>>, <<Destroy>>}
    PROVE  /\ msgs \in Seq(Message) /\ Destroy \in Message
           /\ Destroy.type = "DESTROY"
           /\ \A j \in DOMAIN msgs : msgs[j] = Destroy
  <1>1. Destroy \in Message /\ Destroy.type = "DESTROY"
    BY DEF Destroy, Message
  <1>2. CASE msgs = <<>>
    BY <1>1, <1>2
  <1>3. CASE msgs = <<Destroy>>
    BY <1>1, <1>3
  <1> QED
    BY <1>2, <1>3

LEMMA ShapeStep ==
    ASSUME TypeOK, NetShape, Effect
    PROVE  NetShape'
  <1>1. /\ net["out"] \in Seq(Message) /\ net["inc"] \in Seq(Message)
        /\ "out" \in Ends /\ "inc" \in Ends
        /\ Other("out") = "inc" /\ Other("inc") = "out"
    BY NetFacts, EndsFacts
  <1>2. ASSUME NEW p \in Policy, Created(p)
        PROVE  NetShape'
    <2> DEFINE m == <<Offer(Known["out"], p)>>
    <2>1. m \in Seq(Message) /\ DOMAIN m = {1} /\ m[1].type = "CREATE"
      BY <1>1, CipherAssumption DEF Offer, Message
    <2> HIDE DEF m
    <2>2. /\ net'["out"] = net["out"]
          /\ Both => net'["inc"] = net["inc"] \o m
          /\ ~Both => net'["inc"] = net["inc"]
          /\ st'["inc"] = st["inc"] /\ st'["out"] # "none" /\ up' = up
          /\ st["out"] = "none"
      <3> DEFINE t == IF up["out"] THEN "WAIT" ELSE "ERROR"
      <3>1. /\ Moves("out", t, net["out"], m) /\ t # "none"
            /\ up' = up /\ st["out"] = "none"
        BY <1>2 DEF Created, m
      <3> HIDE DEF t
      <3> QED
        BY <1>1, <2>1, <3>1, MovesElems, SMTT(60)
    <2>3. Both => net'["inc"] = m
      BY <1>1, <2>1, <2>2, ConcatProperties DEF NetShape, NotYetCreated
    <2> QED
      BY <1>1, <2>1, <2>2, <2>3 DEF NetShape, OfferFirst, NotYetOffered, NotYetCreated, Both
  <1>3. ASSUME NEW c \in Ciphers \cup {Plaintext}, NEW k \in 0..1,
               NEW asked \in BOOLEAN, OpenedInc(c, k, asked)
        PROVE  NetShape'
    <2> DEFINE M == <<Accept(c)>> \o Composed("inc", k, asked, c) \o outq["inc"]
    <2>1. M \in Seq(Message) /\ \A i \in DOMAIN M : M[i].type # "CREATE"
      <3>1. /\ <<Accept(c)>> \in Seq(Message)
            /\ \A i \in DOMAIN <<Accept(c)>> : <<Accept(c)>>[i].type = "ACCEPT"
        BY DEF Accept, Message
      <3>2. sent["inc"] + k <= MaxSends
        BY <1>3 DEF OpenedInc, Opened
      <3>3. DataBehind(M, <<Accept(c)>>)
        BY <1>1, <3>1, <3>2, OpenTypes
      <3> HIDE DEF M
      <3> QED
        BY <3>1, <3>3 DEF DataBehind
    <2>2. /\ st[ "inc"] = "WAIT" /\ up' = up
          /\ Moves("inc", "OPEN", net["inc"], M)
      BY <1>3 DEF OpenedInc, Opened
    <2> HIDE DEF M
    <2>3. /\ net'["inc"] = net["inc"] /\ Extends(net'["out"], net["out"], M)
          /\ st'["out"] = st["out"] /\ st'["inc"] = "OPEN"
      BY <1>1, <2>1, <2>2, MovesElems
    <2> QED
      BY <2>1, <2>2, <2>3 DEF NetShape, OfferFirst, NotYetOffered, NotYetCreated, Extends
  <1>4. ASSUME NEW k \in 0..1, NEW asked \in BOOLEAN, OpenedOut(k, asked)
        PROVE  NetShape'
    <2> DEFINE c == Head(net["out"]).item
               M == <<>> \o Composed("out", k, asked, c) \o outq["out"]
    <2>1. net["out"] # <<>> /\ Head(net["out"]).type = "ACCEPT"
      BY <1>4 DEF OpenedOut, Receives
    <2>2. c \in Ciphers \cup {Plaintext}
      BY <1>1, <2>1, QueueFacts, MessageFacts
    <2>3. /\ st["out"] = "WAIT" /\ up' = up /\ sent["out"] + k <= MaxSends
          /\ Moves("out", "OPEN", Tail(net["out"]), M)
      BY <1>4 DEF OpenedOut, Opened
    <2> HIDE DEF c
    <2>4. M \in Seq(Message) /\ \A i \in DOMAIN M : M[i].type = "SEND"
      <3>1. <<>> \in Seq(Message) /\ DOMAIN <<>> = {}
        OBVIOUS
      <3>2. DataBehind(M, <<>>)
        BY <1>1, <2>2, <2>3, <3>1, OpenTypes
      <3> HIDE DEF M
      <3> QED
        BY <3>1, <3>2 DEF DataBehind
    <2> HIDE DEF M
    <2>5. /\ Shifted(net'["out"], net["out"]) /\ Extends(net'["inc"], net["inc"], M)
          /\ st'["inc"] = st["inc"] /\ st'["out"] = "OPEN"
          /\ net["out"][1].type = "ACCEPT"
      BY <1>1, <2>1, <2>3, <2>4, MovesElems, ShiftedTail
    <2>6. st["inc"] # "none"
      BY <2>5 DEF NetShape, NotYetOffered, Shifted
    <2>7. OfferFirst'
      BY <2>4, <2>5 DEF NetShape, OfferFirst, Extends
    <2>8. NotYetOffered' /\ NotYetCreated'
      BY <2>5, <2>6 DEF NetShape, NotYetOffered, NotYetCreated, Shifted
    <2> QED
      BY <2>7, <2>8 DEF NetShape
  <1>5. ASSUME NEW c \in Ciphers \cup {Plaintext}, Failed(c)
        PROVE  NetShape'
    <2>1. /\ net' = net /\ up' = up /\ st["inc"] = "WAIT"
          /\ st'["inc"] = "ERROR" /\ st'["out"] = st["out"]
      BY <1>1, <1>5 DEF Failed, TypeOK
    <2> QED
      BY <2>1 DEF NetShape, OfferFirst, NotYetOffered, NotYetCreated, Both
  <1>6. ASSUME NEW e \in Ends, NEW msgs \in {<<>>, <<Destroy>>},
               Shut(e, msgs)
        PROVE  NetShape'
    <2>1. /\ msgs \in Seq(Message) /\ \A j \in DOMAIN msgs : msgs[j] = Destroy
          /\ Destroy.type = "DESTROY"
      BY DestroyFacts
    <2>2. /\ net'[e] = net[e] \/ Shifted(net'[e], net[e])
          /\ Extends(net'[Other(e)], net[Other(e)], msgs)
          /\ st'[e] = "gone" /\ st'[Other(e)] = st[Other(e)]
          /\ st[e] # "none" /\ up' = up
      <3>1. \/ Moves(e, "gone", net[e], msgs)
            \/ net[e] # <<>> /\ Moves(e, "gone", Tail(net[e]), msgs)
        BY <1>6 DEF Shut, Closed
      <3>2. net[e] \in Seq(Message)
        BY QueueFacts
      <3>3. st[e] # "none" /\ up' = up
        BY <1>6 DEF Shut, Closed, Held
      <3> QED
        BY <2>1, <3>1, <3>2, <3>3, MovesElems, ShiftedTail
    <2>3. CASE e = "out"
      BY <1>1, <2>1, <2>2, <2>3
         DEF NetShape, OfferFirst, NotYetOffered, NotYetCreated, Extends, Shifted, Both
    <2>4. CASE e = "inc"
      BY <1>1, <2>1, <2>2, <2>4
         DEF NetShape, OfferFirst, NotYetOffered, NotYetCreated, Extends, Shifted, Both
    <2> QED
      BY <2>3, <2>4, EndsFacts
  <1>7. ASSUME NEW e \in Ends, NEW asked \in BOOLEAN, Written(e, asked)
        PROVE  NetShape'
    <2> DEFINE M == Composed(e, 1, asked, cipher[e])
    <2>1. M \in Seq(Message) /\ \A j \in DOMAIN M : M[j].type = "SEND"
      <3>1. sent[e] + 1 <= MaxSends /\ cipher[e] \in Ciphers \cup {Plaintext}
        BY <1>7, QueueFacts DEF Written, TypeOK
      <3> QED
        BY <3>1, ComposedFacts, DataIsMessage
    <2>2. /\ Moves(e, st[e], net[e], M) /\ up' = up /\ st[e] # "none"
      BY <1>7 DEF Written, Writes
    <2> HIDE DEF M
    <2>3. /\ net'[e] = net[e] /\ Extends(net'[Other(e)], net[Other(e)], M)
          /\ st'[e] = st[e] /\ st'[Other(e)] = st[Other(e)]
      BY <2>1, <2>2, MovesElems
    <2>4. CASE e = "out"
      <3>1. OfferFirst'
        BY <1>1, <2>1, <2>3, <2>4 DEF NetShape, OfferFirst, Extends
      <3>2. NotYetOffered' /\ NotYetCreated'
        BY <1>1, <2>2, <2>3, <2>4
           DEF NetShape, NotYetOffered, NotYetCreated, Extends, Both
      <3> QED
        BY <3>1, <3>2 DEF NetShape
    <2>5. CASE e = "inc"
      BY <1>1, <2>1, <2>2, <2>3, <2>5
         DEF NetShape, OfferFirst, NotYetOffered, NotYetCreated, Extends, Both
    <2> QED
      BY <2>4, <2>5, EndsFacts
  <1>8. ASSUME NEW e \in Ends, NEW asked \in BOOLEAN, Waits(e, asked)
        PROVE  NetShape'
    BY <1>8 DEF Waits, NetShape, OfferFirst, NotYetOffered, NotYetCreated, Both
  <1>9. CASE Offered("WAIT", <<>>) \/ Offered("gone", <<Destroy>>)
    <2>1. /\ net["inc"] # <<>> /\ Head(net["inc"]).type = "CREATE" /\ up' = up
          /\ \/ Moves("inc", "WAIT", Tail(net["inc"]), <<>>)
             \/ Moves("inc", "gone", Tail(net["inc"]), <<Destroy>>)
      BY <1>9 DEF Offered, Receives
    <2>2. PICK msgs \in {<<>>, <<Destroy>>}, t \in {"WAIT", "gone"} :
            Moves("inc", t, Tail(net["inc"]), msgs)
      BY <2>1
    <2>3. /\ msgs \in Seq(Message)
          /\ \A j \in DOMAIN msgs : msgs[j] = Destroy
          /\ Destroy.type = "DESTROY"
      BY DestroyFacts
    <2>4. /\ Shifted(net'["inc"], net["inc"])
          /\ net["inc"][1].type = "CREATE"
          /\ Extends(net'["out"], net["out"], msgs)
          /\ st'["inc"] # "none" /\ st'["out"] = st["out"]
      BY <1>1, <2>1, <2>2, <2>3, MovesElems, ShiftedTail
    <2>5. st["out"] # "none"
      BY <2>4 DEF NetShape, NotYetCreated, Shifted
    <2>6. OfferFirst'
      BY <2>4 DEF NetShape, OfferFirst, Shifted
    <2>7. NotYetOffered' /\ NotYetCreated'
      BY <2>3, <2>4, <2>5 DEF NetShape, NotYetOffered, NotYetCreated, Extends
    <2> QED
      BY <2>6, <2>7 DEF NetShape
  <1>10. ASSUME NEW e \in Ends, Dropped(e) \/ Handed(e) \/ Kept(e)
        PROVE  NetShape'
    <2>1. /\ net[e] # <<>> /\ Head(net[e]).type # "CREATE" /\ up' = up
          /\ Moves(e, st[e], Tail(net[e]), <<>>)
      BY <1>10 DEF Dropped, Handed, Kept, Receives
    <2>2. /\ Shifted(net'[e], net[e]) /\ net[e][1].type # "CREATE"
          /\ net'[Other(e)] = net[Other(e)]
          /\ st'[e] = st[e] /\ st'[Other(e)] = st[Other(e)]
      BY <2>1, QueueFacts, MovesNothing, ShiftedTail
    <2>3. CASE e = "out"
      BY <1>1, <2>1, <2>2, <2>3
         DEF NetShape, OfferFirst, NotYetOffered, NotYetCreated, Shifted, Both
    <2>4. CASE e = "inc"
      BY <1>1, <2>1, <2>2, <2>4
         DEF NetShape, OfferFirst, NotYetOffered, NotYetCreated, Shifted, Both
    <2> QED
      BY <2>3, <2>4, EndsFacts
  <1>11. ASSUME NEW e \in Ends, NEW n \in 0..Len(net[Other(e)]), Broken(e, n)
         PROVE  NetShape'
    <2>1. Destroy \in Message /\ Destroy.type = "DESTROY"
      BY DEF Destroy, Message
    <2>2. ~Both'
      BY <1>11, EndsFacts DEF Broken, Both, TypeOK
    <2>3. /\ Cut(net'[Other(e)], net[Other(e)], Destroy) /\ net'[e] = <<>>
          /\ st' = st
      BY <1>11, <2>1, EndsFacts, QueueFacts, CutAppend DEF Broken
    <2>4. CASE e = "out"
      <3>1. Cut(net'["inc"], net["inc"], Destroy) /\ net'["out"] = <<>> /\ st' = st
        BY <2>3, <2>4, EndsFacts
      <3>2. \A i \in DOMAIN net'["inc"] :
              \/ i \in DOMAIN net["inc"] /\ net'["inc"][i] = net["inc"][i]
              \/ net'["inc"][i].type = "DESTROY"
        BY <2>1, <3>1 DEF Cut
      <3>3. ~ \E i : i \in DOMAIN net'["out"]
        BY <3>1
      <3>4. OfferFirst'
        BY <1>1, <3>1, <3>2, <3>3 DEF NetShape, OfferFirst
      <3>5. NotYetOffered'
        BY <1>1, <2>2, <3>1, <3>2, <3>3 DEF NetShape, NotYetOffered
      <3>6. NotYetCreated'
        BY <1>1, <2>2, <3>1, <3>2, <3>3 DEF NetShape, NotYetCreated
      <3> QED
        BY <3>4, <3>5, <3>6 DEF NetShape
    <2>5. CASE e = "inc"
      <3>1. Cut(net'["out"], net["out"], Destroy) /\ net'["inc"] = <<>> /\ st' = st
        BY <2>3, <2>5, EndsFacts
      <3>2. \A i \in DOMAIN net'["out"] :
              \/ i \in DOMAIN net["out"] /\ net'["out"][i] = net["out"][i]
              \/ net'["out"][i].type = "DESTROY"
        BY <2>1, <3>1 DEF Cut
      <3>3. ~ \E i : i \in DOMAIN net'["inc"]
        BY <3>1
      <3>4. OfferFirst'
        BY <1>1, <3>1, <3>2, <3>3 DEF NetShape, OfferFirst
      <3>5. NotYetOffered'
        BY <1>1, <2>2, <3>1, <3>2, <3>3 DEF NetShape, NotYetOffered
      <3>6. NotYetCreated'
        BY <1>1, <2>2, <3>1, <3>2, <3>3 DEF NetShape, NotYetCreated
      <3> QED
        BY <3>4, <3>5, <3>6 DEF NetShape
    <2> QED
      BY <2>4, <2>5, EndsFacts
  <1>12. CASE UNCHANGED <<up, st, cipher, outq, inq, net, sent, early, got>>
    BY <1>12 DEF NetShape, OfferFirst, NotYetOffered, NotYetCreated, Both
  <1> QED
    BY <1>2, <1>3, <1>4, <1>5, <1>6, <1>7, <1>8, <1>9, <1>10, <1>11, <1>12
       DEF Effect

-----------------------------------------------------------------------------
(* CipherAgreement.  It needs to know which cipher an end may have, where  *)
(* an encrypted message may be, and that the acceptance that names the     *)
(* cipher stays in front of what is encrypted with it.                     *)

\* An end the channel does not exist for has nothing queued and sent nothing.
UnbornAt(e) == st[e] = "none" => outq[e] = <<>> /\ inq[e] = <<>> /\ sent[e] = 0

\* A creator has the cipher the other end selected, if any.
CipherSelected ==
    /\ st["inc"] \in {"none", "WAIT"} => cipher["inc"] = Plaintext
    /\ st["out"] \in {"none", "WAIT", "ERROR"} => cipher["out"] = Plaintext
    /\ cipher["out"] # Plaintext =>
         st["inc"] \in {"OPEN", "gone"} /\ cipher["inc"] = cipher["out"]

\* What is queued for sending was composed without a cipher.
QueuedPlain(e) ==
    st[e] # "ERROR" => \A i \in DOMAIN outq[e] : outq[e][i].enc = Plaintext

\* What is queued for the service is not encrypted.
KeptPlain(e) ==
    st[e] \in {"WAIT", "OPEN"} =>
        \A i \in DOMAIN inq[e] : inq[e][i].enc = Plaintext

\* An encrypted message is under the cipher that was selected.
SentUnder(e) ==
    \A i \in DOMAIN net[e] :
        net[e][i].type = "SEND" /\ net[e][i].enc # Plaintext =>
            st["inc"] \in {"OPEN", "gone"} /\ net[e][i].enc = cipher["inc"]

\* An acceptance names that cipher.
AcceptedWith ==
    \A i \in DOMAIN net["out"] :
        net["out"][i].type = "ACCEPT" =>
            st["inc"] \in {"OPEN", "gone"} /\ net["out"][i] = Accept(cipher["inc"])

\* The creator knows the cipher or will hear of it.
Told ==
    Both /\ st["inc"] = "OPEN" /\ st["out"] \in {"WAIT", "OPEN"} =>
        \/ st["out"] = "OPEN" /\ cipher["out"] = cipher["inc"]
        \/ \E j \in DOMAIN net["out"] : net["out"][j] = Accept(cipher["inc"])

\* It hears of it before it reads what is encrypted.
AcceptBefore ==
    st["out"] \in {"WAIT", "OPEN"} =>
        \A i \in DOMAIN net["out"] :
            net["out"][i].type = "SEND" /\ net["out"][i].enc # Plaintext =>
                \/ st["out"] = "OPEN" /\ net["out"][i].enc = cipher["out"]
                \/ \E j \in 1..(i - 1) : net["out"][j] = Accept(net["out"][i].enc)

CipherInv ==
    /\ CipherSelected
    /\ QueuedPlain("out") /\ QueuedPlain("inc")
    /\ KeptPlain("out") /\ KeptPlain("inc")
    /\ SentUnder("out") /\ SentUnder("inc")
    /\ AcceptedWith /\ Told /\ AcceptBefore

Unborn == UnbornAt("out") /\ UnbornAt("inc")

LEMMA CipherImplies == CipherInv => CipherAgreement
  <1> SUFFICES ASSUME CipherInv, NEW e \in Ends, st[e] \in {"WAIT", "OPEN"}
               PROVE  /\ \A i \in DOMAIN inq[e] : inq[e][i].enc = Plaintext
                      /\ \A i \in DOMAIN net[e] :
                            net[e][i].type = "SEND" /\ net[e][i].enc # Plaintext =>
                                \/ st[e] = "OPEN" /\ net[e][i].enc = cipher[e]
                                \/ \E j \in 1..(i - 1) :
                                      net[e][j] = Accept(net[e][i].enc)
    BY DEF CipherAgreement
  <1>1. \A i \in DOMAIN inq[e] : inq[e][i].enc = Plaintext
    BY EndsFacts DEF CipherInv, KeptPlain
  <1>2. CASE e = "out"
    BY <1>1, <1>2 DEF CipherInv, AcceptBefore
  <1>3. CASE e = "inc"
    BY <1>1, <1>3 DEF CipherInv, SentUnder
  <1> QED
    BY <1>2, <1>3, EndsFacts

LEMMA CipherInit == Init => CipherInv /\ Unborn
  BY EndsFacts
     DEF Init, CipherInv, CipherSelected, QueuedPlain, KeptPlain, SentUnder,
         AcceptedWith, Told, AcceptBefore, Unborn, UnbornAt

\* What opening an end changes, end by end: it writes M, which is f, the
\* messages C of the service and what was queued.
OpenedTo(e, c, k, rest, f, C, M) ==
    /\ st[e] = "WAIT" /\ st'[e] = "OPEN" /\ st'[Other(e)] = st[Other(e)]
    /\ net'[e] = rest /\ up' = up
    /\ Extends(net'[Other(e)], net[Other(e)], M)
    /\ Both => net'[Other(e)] = net[Other(e)] \o M
    /\ ~Both => net'[Other(e)] = net[Other(e)]
    /\ Joined(M, f, C, outq[e])
    /\ cipher'[e] = c /\ cipher'[Other(e)] = cipher[Other(e)]
    /\ outq'[e] = <<>> /\ outq'[Other(e)] = outq[Other(e)]
    /\ inq'[e] = <<>> /\ inq'[Other(e)] = inq[Other(e)]
    /\ got'[e] = got[e] \o Numbers(inq[e]) /\ got'[Other(e)] = got[Other(e)]
    /\ sent'[e] = sent[e] + k /\ sent'[Other(e)] = sent[Other(e)]
    /\ early'[e] = early[e] \cup (sent[e] + 1)..(sent[e] + k)
    /\ early'[Other(e)] = early[Other(e)]
    /\ \A j \in DOMAIN C : C[j].type = "SEND" /\ C[j].enc \in {c, Plaintext}
    /\ \A j \in DOMAIN outq[e] : outq[e][j].type = "SEND"

LEMMA OpenedView ==
    ASSUME TypeOK, NEW e \in Ends, NEW c \in Ciphers \cup {Plaintext},
           NEW k \in 0..1, NEW asked \in BOOLEAN, NEW rest,
           NEW first \in Seq(Message), Opened(e, c, k, asked, rest, first)
    PROVE  OpenedTo(e, c, k, rest, first, Composed(e, k, asked, c),
                    first \o Composed(e, k, asked, c) \o outq[e])
  <1> DEFINE M == first \o Composed(e, k, asked, c) \o outq[e]
  <1>1. st[e] = "WAIT" /\ sent[e] + k <= MaxSends /\ Moves(e, "OPEN", rest, M)
    BY DEF Opened
  <1>2. Joined(M, first, Composed(e, k, asked, c), outq[e])
    BY <1>1, OpenMsgs
  <1>3. M \in Seq(Message)
    BY <1>2 DEF Joined
  <1>4. /\ cipher'[e] = c /\ cipher'[Other(e)] = cipher[Other(e)]
        /\ outq'[e] = <<>> /\ outq'[Other(e)] = outq[Other(e)]
        /\ inq'[e] = <<>> /\ inq'[Other(e)] = inq[Other(e)]
    BY EndsFacts DEF Opened, TypeOK
  <1>5. /\ got'[e] = got[e] \o Numbers(inq[e]) /\ got'[Other(e)] = got[Other(e)]
        /\ sent'[e] = sent[e] + k /\ sent'[Other(e)] = sent[Other(e)]
        /\ early'[e] = early[e] \cup (sent[e] + 1)..(sent[e] + k)
        /\ early'[Other(e)] = early[Other(e)] /\ up' = up
    BY EndsFacts DEF Opened, TypeOK
  <1>6. \A j \in DOMAIN Composed(e, k, asked, c) :
          /\ Composed(e, k, asked, c)[j].type = "SEND"
          /\ Composed(e, k, asked, c)[j].enc \in {c, Plaintext}
    BY <1>1, ComposedFacts
  <1>7. \A j \in DOMAIN outq[e] : outq[e][j].type = "SEND"
    <2>1. \A j \in DOMAIN outq[e] : outq[e][j] \in DataMsg
      BY QueueFacts, ElementOfSeq, LenProperties
    <2> QED
      BY <2>1 DEF DataMsg
  <1> HIDE DEF M
  <1>8. /\ st'[e] = "OPEN" /\ st'[Other(e)] = st[Other(e)] /\ net'[e] = rest
        /\ Extends(net'[Other(e)], net[Other(e)], M)
        /\ Both => net'[Other(e)] = net[Other(e)] \o M
        /\ ~Both => net'[Other(e)] = net[Other(e)]
    BY <1>1, <1>3, MovesElems
  <1> QED
    BY <1>1, <1>2, <1>4, <1>5, <1>6, <1>7, <1>8 DEF M, OpenedTo

LEMMA CipherOpenedInc ==
    ASSUME TypeOK, NetShape, CipherInv,
           NEW c \in Ciphers \cup {Plaintext}, NEW k \in 0..1,
           NEW asked \in BOOLEAN, OpenedInc(c, k, asked)
    PROVE  CipherInv'
  <1> DEFINE C == Composed("inc", k, asked, c)
             f == <<Accept(c)>>
             M == f \o C \o outq["inc"]
  <1>1. /\ f \in Seq(Message) /\ DOMAIN f = {1} /\ f[1] = Accept(c)
        /\ Accept(c).type = "ACCEPT"
    BY DEF Accept, Message
  <1>2. /\ st["inc"] = "WAIT" /\ st'["inc"] = "OPEN" /\ st'["out"] = st["out"]
        /\ net'["inc"] = net["inc"] /\ up' = up
        /\ Extends(net'["out"], net["out"], M)
        /\ Both => net'["out"] = net["out"] \o M
        /\ Joined(M, f, C, outq["inc"])
        /\ cipher'["inc"] = c /\ cipher'["out"] = cipher["out"]
        /\ outq'["inc"] = <<>> /\ outq'["out"] = outq["out"]
        /\ inq'["inc"] = <<>> /\ inq'["out"] = inq["out"]
        /\ \A j \in DOMAIN C : C[j].type = "SEND" /\ C[j].enc \in {c, Plaintext}
        /\ \A j \in DOMAIN outq["inc"] : outq["inc"][j].type = "SEND"
    <2>1. OpenedTo("inc", c, k, net["inc"], f, C, M)
      BY <1>1, EndsFacts, OpenedView DEF OpenedInc
    <2> HIDE DEF C, f, M
    <2> QED
      BY <2>1, EndsFacts DEF OpenedTo
  <1> HIDE DEF C, f, M
  <1>3. \A i \in DOMAIN M :
          \/ i = 1 /\ M[i] = Accept(c)
          \/ M[i].type = "SEND" /\ M[i].enc \in {c, Plaintext}
    BY <1>1, <1>2, EndsFacts DEF Joined, CipherInv, QueuedPlain
  <1>4. /\ CipherSelected'
        /\ QueuedPlain("out")' /\ QueuedPlain("inc")'
        /\ KeptPlain("out")' /\ KeptPlain("inc")'
    <2>1. CipherSelected'
      BY <1>2 DEF CipherInv, CipherSelected
    <2>2. QueuedPlain("out")' /\ QueuedPlain("inc")'
      BY <1>2, EndsFacts DEF CipherInv, QueuedPlain
    <2>3. KeptPlain("out")' /\ KeptPlain("inc")'
      BY <1>2, EndsFacts DEF CipherInv, KeptPlain
    <2> QED
      BY <2>1, <2>2, <2>3
  <1>5. SentUnder("out")' /\ SentUnder("inc")'
    <2>1. \A i \in DOMAIN net'["inc"] :
            ~(net'["inc"][i].type = "SEND" /\ net'["inc"][i].enc # Plaintext)
      BY <1>2, EndsFacts DEF CipherInv, SentUnder
    <2>2. \A i \in DOMAIN net'["out"] :
            net'["out"][i].type = "SEND" /\ net'["out"][i].enc # Plaintext =>
                net'["out"][i].enc = c
      BY <1>1, <1>2, <1>3, EndsFacts DEF CipherInv, SentUnder, Extends
    <2> QED
      BY <1>2, <2>1, <2>2, EndsFacts DEF SentUnder
  <1>6. AcceptedWith'
    BY <1>2, <1>3 DEF CipherInv, AcceptedWith, Extends
  <1>7. Both => /\ net["out"] \in Seq(Message) /\ M \in Seq(Message)
                /\ Len(net["out"]) \in Nat
                /\ Len(net["out"]) + 1 \in DOMAIN net'["out"]
                /\ net'["out"][Len(net["out"]) + 1] = Accept(c)
    <2>1. net["out"] \in Seq(Message) /\ M \in Seq(Message) /\ 1 \in DOMAIN M
          /\ M[1] = Accept(c)
      BY <1>1, <1>2, NetFacts DEF Joined
    <2> QED
      BY <1>2, <2>1, ConcatElems
  <1>8. Told'
    BY <1>2, <1>7 DEF Told, Both
  <1>9. AcceptBefore'
    <2>1. CASE Both
      <3> SUFFICES ASSUME NEW i \in DOMAIN net'["out"],
                          net'["out"][i].type = "SEND",
                          net'["out"][i].enc # Plaintext
                   PROVE  \E j \in 1..(i - 1) :
                            net'["out"][j] = Accept(net'["out"][i].enc)
        BY DEF AcceptBefore
      <3>1. i \notin DOMAIN net["out"]
        BY <1>2, EndsFacts DEF CipherInv, SentUnder, Extends
      <3>2. /\ i > Len(net["out"]) /\ i - Len(net["out"]) \in DOMAIN M
            /\ net'["out"][i] = M[i - Len(net["out"])]
            /\ M[1] = Accept(c) /\ DOMAIN M = 1..Len(M) /\ Len(M) \in Nat
            /\ Len(net["out"]) \in Nat /\ DOMAIN net["out"] = 1..Len(net["out"])
            /\ i \in Nat
        <4>1. net'["out"] = net["out"] \o M /\ net["out"] \in Seq(Message)
              /\ M \in Seq(Message) /\ M[1] = Accept(c)
          BY <1>1, <1>2, <1>7, <2>1 DEF Joined
        <4>2. /\ Len(M) \in Nat /\ DOMAIN M = 1..Len(M)
              /\ Len(net["out"]) \in Nat /\ DOMAIN net["out"] = 1..Len(net["out"])
          BY <4>1, LenProperties
        <4>3. /\ i > Len(net["out"]) /\ i - Len(net["out"]) \in DOMAIN M
              /\ net'["out"][i] = M[i - Len(net["out"])]
          BY <3>1, <4>1, ConcatElems
        <4>4. i \in Nat
          BY <4>1, ConcatProperties, LenProperties
        <4> QED
          BY <4>1, <4>2, <4>3, <4>4
      <3>3. i - Len(net["out"]) # 1 /\ net'["out"][i].enc = c
        BY <1>1, <1>3, <3>2
      <3>4. Len(net["out"]) + 1 \in 1..(i - 1)
        BY <3>2, <3>3
      <3> QED
        BY <1>7, <2>1, <3>3, <3>4
    <2>2. CASE ~Both
      <3>1. net'["out"] = net["out"]
        BY <2>2, EndsFacts DEF OpenedInc, Opened, Moves
      <3> QED
        BY <1>2, <3>1, EndsFacts DEF CipherInv, SentUnder, AcceptBefore
    <2> QED
      BY <2>1, <2>2
  <1> QED
    BY <1>4, <1>5, <1>6, <1>8, <1>9 DEF CipherInv

LEMMA CipherOpenedOut ==
    ASSUME TypeOK, NetShape, CipherInv, NEW k \in 0..1, NEW asked \in BOOLEAN,
           OpenedOut(k, asked)
    PROVE  CipherInv'
  <1> DEFINE c == Head(net["out"]).item
             C == Composed("out", k, asked, c)
             M == <<>> \o C \o outq["out"]
  <1>1. /\ net["out"] # <<>> /\ Head(net["out"]).type = "ACCEPT"
        /\ Opened("out", c, k, asked, Tail(net["out"]), <<>>)
    BY DEF OpenedOut, Receives
  <1>2. /\ Shifted(Tail(net["out"]), net["out"]) /\ Head(net["out"]) = net["out"][1]
        /\ net["out"][1] = Accept(c) /\ c \in Ciphers \cup {Plaintext}
    <2>1. net["out"] \in Seq(Message) /\ Head(net["out"]) \in Message
      BY <1>1, EndsFacts, QueueFacts
    <2> QED
      BY <1>1, <2>1, ShiftedTail, MessageFacts
  <1>3. c = cipher["inc"] /\ st["inc"] \in {"OPEN", "gone"}
    BY <1>1, <1>2 DEF CipherInv, AcceptedWith, Shifted, Accept
  <1> HIDE DEF c
  <1>4. /\ st["out"] = "WAIT" /\ st'["out"] = "OPEN" /\ st'["inc"] = st["inc"]
        /\ net'["out"] = Tail(net["out"]) /\ up' = up
        /\ Extends(net'["inc"], net["inc"], M)
        /\ Joined(M, <<>>, C, outq["out"])
        /\ cipher'["out"] = c /\ cipher'["inc"] = cipher["inc"]
        /\ outq'["out"] = <<>> /\ outq'["inc"] = outq["inc"]
        /\ inq'["out"] = <<>> /\ inq'["inc"] = inq["inc"]
        /\ \A j \in DOMAIN C : C[j].type = "SEND" /\ C[j].enc \in {c, Plaintext}
        /\ \A j \in DOMAIN outq["out"] : outq["out"][j].type = "SEND"
    <2>1. <<>> \in Seq(Message)
      OBVIOUS
    <2>2. OpenedTo("out", c, k, Tail(net["out"]), <<>>, C, M)
      BY <1>1, <1>2, <2>1, EndsFacts, OpenedView
    <2> HIDE DEF C, M
    <2> QED
      BY <2>2, EndsFacts DEF OpenedTo
  <1> HIDE DEF C, M
  <1>5. \A i \in DOMAIN M : M[i].type = "SEND" /\ M[i].enc \in {c, Plaintext}
    BY <1>4, EndsFacts DEF Joined, CipherInv, QueuedPlain
  <1>6. /\ CipherSelected'
        /\ QueuedPlain("out")' /\ QueuedPlain("inc")'
        /\ KeptPlain("out")' /\ KeptPlain("inc")'
    <2>1. CipherSelected'
      BY <1>3, <1>4 DEF CipherInv, CipherSelected
    <2>2. QueuedPlain("out")' /\ QueuedPlain("inc")'
      BY <1>4, EndsFacts DEF CipherInv, QueuedPlain
    <2>3. KeptPlain("out")' /\ KeptPlain("inc")'
      BY <1>4, EndsFacts DEF CipherInv, KeptPlain
    <2> QED
      BY <2>1, <2>2, <2>3
  <1>7. SentUnder("out")' /\ SentUnder("inc")'
    <2>1. \A i \in DOMAIN net'["out"] :
            net'["out"][i].type = "SEND" /\ net'["out"][i].enc # Plaintext =>
                net'["out"][i].enc = c
      BY <1>2, <1>3, <1>4, EndsFacts DEF CipherInv, SentUnder, Shifted
    <2>2. \A i \in DOMAIN net'["inc"] :
            net'["inc"][i].type = "SEND" /\ net'["inc"][i].enc # Plaintext =>
                net'["inc"][i].enc = c
      BY <1>3, <1>4, <1>5, EndsFacts DEF CipherInv, SentUnder, Extends
    <2> QED
      BY <1>3, <1>4, <2>1, <2>2, EndsFacts DEF SentUnder
  <1>8. AcceptedWith'
    BY <1>2, <1>4 DEF CipherInv, AcceptedWith, Shifted
  <1>9. Told' /\ AcceptBefore'
    BY <1>3, <1>4, <1>7, EndsFacts DEF Told, AcceptBefore, SentUnder
  <1> QED
    BY <1>6, <1>7, <1>8, <1>9 DEF CipherInv

\* The other effects, end by end.
LEMMA CreatedView ==
    ASSUME TypeOK, NetShape, NEW p \in Policy, Created(p)
    PROVE  /\ st["out"] = "none" /\ st["inc"] = "none" /\ st'["inc"] = "none"
           /\ st'["out"] \in {"WAIT", "ERROR"} /\ up' = up
           /\ net'["out"] = net["out"]
           /\ \A i \in DOMAIN net["out"] : net["out"][i].type = "DESTROY"
           /\ \A i \in DOMAIN net'["inc"] : net'["inc"][i].type \in {"CREATE", "DESTROY"}
           /\ UNCHANGED <<up, cipher, outq, inq, sent, early, got>>
  <1> DEFINE m == <<Offer(Known["out"], p)>>
             t == IF up["out"] THEN "WAIT" ELSE "ERROR"
  <1>1. m \in Seq(Message) /\ DOMAIN m = {1} /\ m[1].type = "CREATE"
    BY EndsFacts, CipherAssumption DEF Offer, Message
  <1>2. /\ Moves("out", t, net["out"], m) /\ t \in {"WAIT", "ERROR"}
        /\ UNCHANGED <<up, cipher, outq, inq, sent, early, got>>
        /\ st["out"] = "none"
    BY DEF Created
  <1> HIDE DEF m, t
  <1>3. /\ st'["out"] = t /\ st'["inc"] = st["inc"] /\ net'["out"] = net["out"]
        /\ Extends(net'["inc"], net["inc"], m)
    BY <1>1, <1>2, EndsFacts, MovesElems, SMTT(30)
  <1> QED
    BY <1>1, <1>2, <1>3 DEF NetShape, NotYetOffered, NotYetCreated, Extends

LEMMA ShutView ==
    ASSUME TypeOK, NEW e \in Ends, NEW msgs \in {<<>>, <<Destroy>>}, Shut(e, msgs)
    PROVE  /\ st[e] \in Held /\ st'[e] = "gone" /\ st'[Other(e)] = st[Other(e)]
           /\ net'[e] = net[e] \/ Shifted(net'[e], net[e])
           /\ Extends(net'[Other(e)], net[Other(e)], msgs)
           /\ \A j \in DOMAIN msgs : msgs[j].type = "DESTROY"
           /\ outq'[e] = <<>> /\ outq'[Other(e)] = outq[Other(e)]
           /\ inq'[e] = <<>> /\ inq'[Other(e)] = inq[Other(e)]
           /\ UNCHANGED <<up, cipher, sent, early, got>>
  <1>1. msgs \in Seq(Message) /\ \A j \in DOMAIN msgs : msgs[j].type = "DESTROY"
    BY DestroyFacts
  <1>2. /\ \/ Moves(e, "gone", net[e], msgs)
           \/ net[e] # <<>> /\ Moves(e, "gone", Tail(net[e]), msgs)
        /\ st[e] \in Held /\ UNCHANGED <<up, cipher, sent, early, got>>
    BY DEF Shut, Closed
  <1>3. /\ outq'[e] = <<>> /\ outq'[Other(e)] = outq[Other(e)]
        /\ inq'[e] = <<>> /\ inq'[Other(e)] = inq[Other(e)]
    BY EndsFacts DEF Shut, Closed, TypeOK
  <1>4. /\ net'[e] = net[e] \/ Shifted(net'[e], net[e])
        /\ Extends(net'[Other(e)], net[Other(e)], msgs)
        /\ st'[e] = "gone" /\ st'[Other(e)] = st[Other(e)]
    BY <1>1, <1>2, QueueFacts, MovesElems, ShiftedTail
  <1> QED
    BY <1>1, <1>2, <1>3, <1>4

WroteTo(e, M) ==
    /\ st' = st /\ net'[e] = net[e]
    /\ st[e] \in {"WAIT", "OPEN"} /\ (e = "inc" => st[e] = "OPEN")
    /\ Extends(net'[Other(e)], net[Other(e)], M)
    /\ Both => net'[Other(e)] = net[Other(e)] \o M
    /\ ~Both => net'[Other(e)] = net[Other(e)]
    /\ M \in Seq(Message) /\ DOMAIN M = 1..1
    /\ \A j \in DOMAIN M : /\ M[j].type = "SEND" /\ M[j].n = sent[e] + 1
                          /\ M[j].enc \in {cipher[e], Plaintext}
    /\ sent'[e] = sent[e] + 1 /\ sent'[Other(e)] = sent[Other(e)]
    /\ UNCHANGED <<up, cipher, outq, inq, early, got>>

LEMMA WrittenView ==
    ASSUME TypeOK, NEW e \in Ends, NEW asked \in BOOLEAN, Written(e, asked)
    PROVE  WroteTo(e, Composed(e, 1, asked, cipher[e]))
  <1> DEFINE M == Composed(e, 1, asked, cipher[e])
  <1>1. sent[e] + 1 <= MaxSends /\ cipher[e] \in Ciphers \cup {Plaintext}
    BY QueueFacts DEF Written, TypeOK
  <1>2. /\ M \in Seq(Message) /\ DOMAIN M = 1..1
        /\ \A j \in 1..1 : /\ M[j].type = "SEND" /\ M[j].n = sent[e] + j
                           /\ M[j].enc \in {cipher[e], Plaintext}
    <2>1. M \in Seq(DataMsg)
      BY <1>1, ComposedFacts
    <2>2. M = [i \in 1..1 |-> Data(sent[e] + i, asked, cipher[e])]
      BY DEF Composed
    <2> HIDE DEF M
    <2>3. DOMAIN M = 1..1 /\ \A j \in 1..1 : M[j] = Data(sent[e] + j, asked, cipher[e])
      BY <2>2
    <2> QED
      BY <2>1, <2>3, DataIsMessage DEF Data
  <1>3. Moves(e, st[e], net[e], M)
    BY DEF Written
  <1>4. /\ st[e] \in {"WAIT", "OPEN"} /\ (e = "inc" => st[e] = "OPEN")
        /\ sent'[e] = sent[e] + 1 /\ sent'[Other(e)] = sent[Other(e)]
        /\ UNCHANGED <<up, cipher, outq, inq, early, got>>
    BY EndsFacts DEF Written, Writes, TypeOK
  <1> HIDE DEF M
  <1>5. /\ st' = [st EXCEPT ![e] = st[e]] /\ net'[e] = net[e]
        /\ Extends(net'[Other(e)], net[Other(e)], M)
        /\ Both => net'[Other(e)] = net[Other(e)] \o M
        /\ ~Both => net'[Other(e)] = net[Other(e)]
    BY <1>2, <1>3, MovesElems, SMTT(30)
  <1>6. st' = st
    BY <1>5 DEF TypeOK
  <1>7. \A j \in DOMAIN M : /\ M[j].type = "SEND" /\ M[j].n = sent[e] + 1
                            /\ M[j].enc \in {cipher[e], Plaintext}
    BY <1>2
  <1> QED
    BY <1>2, <1>4, <1>5, <1>6, <1>7 DEF M, WroteTo

LEMMA OfferedView ==
    ASSUME TypeOK, NetShape, Offered("WAIT", <<>>) \/ Offered("gone", <<Destroy>>)
    PROVE  /\ st["inc"] = "none" /\ st["out"] # "none"
           /\ st'["inc"] \in {"WAIT", "gone"} /\ st'["out"] = st["out"]
           /\ Shifted(net'["inc"], net["inc"]) /\ net["inc"][1].type = "CREATE"
           /\ \A i \in DOMAIN net'["out"] : net'["out"][i].type = "DESTROY"
           /\ UNCHANGED <<up, cipher, outq, inq, sent, early, got>>
  <1>1. /\ net["inc"] # <<>> /\ Head(net["inc"]).type = "CREATE"
        /\ UNCHANGED <<up, cipher, outq, inq, sent, early, got>>
        /\ \/ Moves("inc", "WAIT", Tail(net["inc"]), <<>>)
           \/ Moves("inc", "gone", Tail(net["inc"]), <<Destroy>>)
    BY DEF Offered, Receives
  <1>2. PICK msgs \in {<<>>, <<Destroy>>}, t \in {"WAIT", "gone"} :
          Moves("inc", t, Tail(net["inc"]), msgs)
    BY <1>1
  <1>3. /\ msgs \in Seq(Message)
        /\ \A j \in DOMAIN msgs : msgs[j] = Destroy
        /\ Destroy.type = "DESTROY"
    BY DestroyFacts
  <1>4. /\ Shifted(net'["inc"], net["inc"])
        /\ net["inc"][1].type = "CREATE"
        /\ Extends(net'["out"], net["out"], msgs)
        /\ st'["inc"] = t /\ st'["out"] = st["out"]
    BY <1>1, <1>2, <1>3, EndsFacts, NetFacts, MovesElems, ShiftedTail
  <1>5. st["inc"] = "none" /\ st["out"] # "none"
    BY <1>4 DEF NetShape, OfferFirst, NotYetCreated, Shifted
  <1>6. \A i \in DOMAIN net'["out"] : net'["out"][i].type = "DESTROY"
    BY <1>3, <1>4, <1>5 DEF NetShape, NotYetOffered, Extends
  <1> QED
    BY <1>1, <1>4, <1>5, <1>6

LEMMA ReadView ==
    ASSUME TypeOK, NEW e \in Ends, Dropped(e) \/ Handed(e) \/ Kept(e)
    PROVE  /\ st' = st /\ Shifted(net'[e], net[e]) /\ Head(net[e]) = net[e][1]
           /\ net'[Other(e)] = net[Other(e)]
           /\ net[e] # <<>> /\ net'[e] = Tail(net[e])
           /\ UNCHANGED <<up, cipher, outq, sent, early>>
  <1>1. /\ net[e] # <<>> /\ Moves(e, st[e], Tail(net[e]), <<>>)
        /\ UNCHANGED <<up, cipher, outq, sent, early>>
    BY DEF Dropped, Handed, Kept, Receives
  <1>2. /\ st' = [st EXCEPT ![e] = st[e]]
        /\ net'[e] = Tail(net[e]) /\ net'[Other(e)] = net[Other(e)]
    BY <1>1, MovesNothing
  <1>3. st' = st
    BY <1>2 DEF TypeOK
  <1> QED
    BY <1>1, <1>2, <1>3, QueueFacts, ShiftedTail

LEMMA BrokenView ==
    ASSUME TypeOK, NEW e \in Ends, NEW n \in 0..Len(net[Other(e)]), Broken(e, n)
    PROVE  /\ ~Both' /\ Cut(net'[Other(e)], net[Other(e)], Destroy)
           /\ net'[e] = <<>> /\ Destroy.type = "DESTROY"
           /\ UNCHANGED <<st, cipher, outq, inq, sent, early, got>>
  <1>1. Destroy \in Message /\ Destroy.type = "DESTROY"
    BY DEF Destroy, Message
  <1>2. ~Both'
    BY EndsFacts DEF Broken, Both, TypeOK
  <1>3. /\ Cut(net'[Other(e)], net[Other(e)], Destroy) /\ net'[e] = <<>>
        /\ UNCHANGED <<st, cipher, outq, inq, sent, early, got>>
    BY <1>1, EndsFacts, QueueFacts, CutAppend DEF Broken
  <1> QED
    BY <1>1, <1>2, <1>3

LEMMA UnbornStep ==
    ASSUME TypeOK, NetShape, Unborn, Effect
    PROVE  Unborn'
  <1> USE DEF Unborn, UnbornAt
  <1>1. ASSUME NEW p \in Policy, Created(p) PROVE Unborn'
    BY <1>1, CreatedView
  <1>2. ASSUME NEW c \in Ciphers \cup {Plaintext}, NEW k \in 0..1,
               NEW asked \in BOOLEAN, OpenedInc(c, k, asked)
        PROVE  Unborn'
    BY <1>2, EndsFacts DEF OpenedInc, Opened, Moves, TypeOK
  <1>3. ASSUME NEW k \in 0..1, NEW asked \in BOOLEAN, OpenedOut(k, asked)
        PROVE  Unborn'
    BY <1>3, EndsFacts DEF OpenedOut, Opened, Moves, TypeOK
  <1>4. ASSUME NEW c \in Ciphers \cup {Plaintext}, Failed(c) PROVE Unborn'
    BY <1>4, EndsFacts DEF Failed, TypeOK
  <1>5. ASSUME NEW e \in Ends, NEW msgs \in {<<>>, <<Destroy>>}, Shut(e, msgs)
        PROVE  Unborn'
    BY <1>5, EndsFacts, ShutView
  <1>6. ASSUME NEW e \in Ends, NEW asked \in BOOLEAN, Written(e, asked)
        PROVE  Unborn'
    <2> DEFINE M == Composed(e, 1, asked, cipher[e])
    <2>1. WroteTo(e, M)
      BY <1>6, WrittenView
    <2> HIDE DEF M
    <2>2. /\ st' = st /\ inq' = inq /\ outq' = outq /\ st[e] # "none"
          /\ sent'[Other(e)] = sent[Other(e)]
      BY <2>1 DEF WroteTo
    <2> QED
      BY <2>2, EndsFacts
  <1>7. ASSUME NEW e \in Ends, NEW asked \in BOOLEAN, Waits(e, asked)
        PROVE  Unborn'
    <2>1. /\ st' = st /\ inq' = inq /\ st[e] # "none"
          /\ outq'[Other(e)] = outq[Other(e)] /\ sent'[Other(e)] = sent[Other(e)]
      BY <1>7, EndsFacts DEF Waits, TypeOK
    <2> QED
      BY <2>1, EndsFacts
  <1>8. CASE Offered("WAIT", <<>>) \/ Offered("gone", <<Destroy>>)
    BY <1>8, OfferedView
  <1>9. ASSUME NEW e \in Ends, Dropped(e) \/ Handed(e) \/ Kept(e)
        PROVE  Unborn'
    <2>1. /\ st' = st /\ outq' = outq /\ sent' = sent
          /\ st[e] = "none" => inq'[e] = inq[e]
          /\ inq'[Other(e)] = inq[Other(e)]
      BY <1>9, EndsFacts, ReadView DEF Dropped, Handed, Kept, TypeOK
    <2> QED
      BY <2>1, EndsFacts
  <1>10. ASSUME NEW e \in Ends, NEW n \in 0..Len(net[Other(e)]), Broken(e, n)
         PROVE  Unborn'
    BY <1>10, BrokenView
  <1>11. CASE UNCHANGED <<up, st, cipher, outq, inq, net, sent, early, got>>
    BY <1>11
  <1> HIDE DEF Unborn, UnbornAt
  <1> QED
    BY <1>1, <1>2, <1>3, <1>4, <1>5, <1>6, <1>7, <1>8, <1>9, <1>10, <1>11 DEF Effect

LEMMA CipherStep ==
    ASSUME TypeOK, NetShape, Unborn, CipherInv, Effect
    PROVE  CipherInv'
  <1>1. /\ "out" \in Ends /\ "inc" \in Ends
        /\ Other("out") = "inc" /\ Other("inc") = "out"
        /\ \A e \in Ends : e = "out" \/ e = "inc"
    BY EndsFacts
  <1>2. ASSUME NEW p \in Policy, Created(p) PROVE CipherInv'
    <2>1. /\ st["out"] = "none" /\ st["inc"] = "none" /\ st'["inc"] = "none"
          /\ st'["out"] \in {"WAIT", "ERROR"}
          /\ net'["out"] = net["out"]
          /\ \A i \in DOMAIN net["out"] : net["out"][i].type = "DESTROY"
          /\ \A i \in DOMAIN net'["inc"] : net'["inc"][i].type \in {"CREATE", "DESTROY"}
          /\ UNCHANGED <<up, cipher, outq, inq, sent, early, got>>
      BY <1>2, CreatedView
    <2>2. outq["out"] = <<>> /\ inq["out"] = <<>>
      BY <2>1 DEF Unborn, UnbornAt
    <2> QED
      BY <2>1, <2>2 DEF CipherInv, CipherSelected, QueuedPlain, KeptPlain, SentUnder,
                        AcceptedWith, Told, AcceptBefore
  <1>3. ASSUME NEW c \in Ciphers \cup {Plaintext}, NEW k \in 0..1,
               NEW asked \in BOOLEAN, OpenedInc(c, k, asked)
        PROVE  CipherInv'
    BY <1>3, CipherOpenedInc
  <1>4. ASSUME NEW k \in 0..1, NEW asked \in BOOLEAN, OpenedOut(k, asked)
        PROVE  CipherInv'
    BY <1>4, CipherOpenedOut
  <1>5. ASSUME NEW c \in Ciphers \cup {Plaintext}, Failed(c) PROVE CipherInv'
    <2>1. /\ st["inc"] = "WAIT" /\ st'["inc"] = "ERROR" /\ st'["out"] = st["out"]
          /\ cipher'["out"] = cipher["out"]
          /\ UNCHANGED <<up, outq, inq, net>>
      BY <1>1, <1>5 DEF Failed, TypeOK
    <2>2. /\ CipherSelected'
          /\ QueuedPlain("out")' /\ QueuedPlain("inc")'
          /\ KeptPlain("out")' /\ KeptPlain("inc")'
      BY <2>1 DEF CipherInv, CipherSelected, QueuedPlain, KeptPlain
    <2>3. SentUnder("out")' /\ SentUnder("inc")' /\ AcceptedWith'
      BY <2>1 DEF CipherInv, SentUnder, AcceptedWith
    <2>4. Told' /\ AcceptBefore'
      BY <2>1 DEF CipherInv, Told, AcceptBefore
    <2> QED
      BY <2>2, <2>3, <2>4 DEF CipherInv
  <1>6. ASSUME NEW e \in Ends, NEW msgs \in {<<>>, <<Destroy>>}, Shut(e, msgs)
        PROVE  CipherInv'
    <2>1. /\ st[e] \in Held /\ st'[e] = "gone" /\ st'[Other(e)] = st[Other(e)]
          /\ net'[e] = net[e] \/ Shifted(net'[e], net[e])
          /\ Extends(net'[Other(e)], net[Other(e)], msgs)
          /\ \A j \in DOMAIN msgs : msgs[j].type = "DESTROY"
          /\ outq'[e] = <<>> /\ outq'[Other(e)] = outq[Other(e)]
          /\ inq'[e] = <<>> /\ inq'[Other(e)] = inq[Other(e)]
          /\ UNCHANGED <<up, cipher, sent, early, got>>
      BY <1>6, ShutView
    <2>2. CASE e = "out"
      <3>1. /\ CipherSelected'
            /\ QueuedPlain("out")' /\ QueuedPlain("inc")'
            /\ KeptPlain("out")' /\ KeptPlain("inc")'
        BY <1>1, <2>1, <2>2 DEF CipherInv, CipherSelected, QueuedPlain, KeptPlain
      <3>2. SentUnder("out")' /\ AcceptedWith'
        BY <1>1, <2>1, <2>2 DEF CipherInv, SentUnder, AcceptedWith, Shifted
      <3>3. SentUnder("inc")'
        BY <1>1, <2>1, <2>2 DEF CipherInv, SentUnder, Extends
      <3>4. Told' /\ AcceptBefore'
        BY <2>1, <2>2 DEF Told, AcceptBefore
      <3> QED
        BY <3>1, <3>2, <3>3, <3>4 DEF CipherInv
    <2>3. CASE e = "inc"
      <3>1. /\ CipherSelected'
            /\ QueuedPlain("out")' /\ QueuedPlain("inc")'
            /\ KeptPlain("out")' /\ KeptPlain("inc")'
        <4>1. st["inc"] = "OPEN" \/ cipher["out"] = Plaintext
          BY <2>1, <2>3 DEF Held, CipherInv, CipherSelected
        <4> QED
          BY <1>1, <2>1, <2>3, <4>1 DEF CipherInv, CipherSelected, QueuedPlain, KeptPlain
      <3>2. SentUnder("out")' /\ AcceptedWith'
        BY <1>1, <2>1, <2>3 DEF CipherInv, SentUnder, AcceptedWith, Extends
      <3>3. SentUnder("inc")'
        BY <1>1, <2>1, <2>3 DEF CipherInv, SentUnder, Shifted
      <3>4. Told'
        BY <2>1, <2>3 DEF Told
      <3>5. AcceptBefore'
        <4> SUFFICES ASSUME st'["out"] \in {"WAIT", "OPEN"},
                            NEW i \in DOMAIN net'["out"],
                            net'["out"][i].type = "SEND",
                            net'["out"][i].enc # Plaintext
                     PROVE  \/ st["out"] = "OPEN" /\ net'["out"][i].enc = cipher["out"]
                            \/ \E j \in 1..(i - 1) :
                                 net'["out"][j] = Accept(net'["out"][i].enc)
          BY <1>1, <2>1, <2>3 DEF AcceptBefore
        <4>1. /\ i \in DOMAIN net["out"] /\ net'["out"][i] = net["out"][i]
              /\ st["out"] \in {"WAIT", "OPEN"}
          BY <1>1, <2>1, <2>3 DEF Extends
        <4>2. ASSUME NEW j \in 1..(i - 1), net["out"][j] = Accept(net["out"][i].enc)
              PROVE  net'["out"][j] = Accept(net'["out"][i].enc)
          <5>1. j \in DOMAIN net["out"]
            BY <4>1, NetFacts, LenProperties
          <5> QED
            BY <1>1, <2>1, <2>3, <4>1, <4>2, <5>1 DEF Extends
        <4> QED
          BY <4>1, <4>2 DEF CipherInv, AcceptBefore
      <3> QED
        BY <3>1, <3>2, <3>3, <3>4, <3>5 DEF CipherInv
    <2> QED
      BY <1>1, <2>2, <2>3
  <1>7. ASSUME NEW e \in Ends, NEW asked \in BOOLEAN, Written(e, asked)
        PROVE  CipherInv'
    <2> DEFINE M == Composed(e, 1, asked, cipher[e])
    <2>1. WroteTo(e, M)
      BY <1>7, WrittenView
    <2> HIDE DEF M
    <2>2. /\ CipherSelected'
          /\ QueuedPlain("out")' /\ QueuedPlain("inc")'
          /\ KeptPlain("out")' /\ KeptPlain("inc")'
      BY <2>1 DEF WroteTo, CipherInv, CipherSelected, QueuedPlain, KeptPlain
    <2>3. \A i \in DOMAIN M : M[i].type = "SEND" /\ (M[i].enc # Plaintext =>
            M[i].enc = cipher["inc"] /\ st["inc"] \in {"OPEN", "gone"})
      <3>1. CASE e = "out"
        BY <2>1, <3>1 DEF WroteTo, CipherInv, CipherSelected
      <3>2. CASE e = "inc"
        BY <2>1, <3>2 DEF WroteTo, CipherInv, CipherSelected
      <3> QED
        BY <1>1, <3>1, <3>2
    <2>4. /\ SentUnder("out")' /\ SentUnder("inc")'
      BY <1>1, <2>1, <2>3 DEF WroteTo, CipherInv, SentUnder, Extends
    <2>5. AcceptedWith' /\ Told'
      BY <1>1, <2>1 DEF WroteTo, CipherInv, AcceptedWith, Told, Extends, Both
    <2>6. AcceptBefore'
      <3>1. CASE e = "out"
        BY <1>1, <2>1, <3>1 DEF WroteTo, CipherInv, AcceptBefore
      <3>2. CASE e = "inc" /\ ~Both
        BY <1>1, <2>1, <3>2 DEF WroteTo, CipherInv, AcceptBefore
      <3>3. CASE e = "inc" /\ Both
        <4> SUFFICES ASSUME st["out"] \in {"WAIT", "OPEN"},
                            NEW i \in DOMAIN net'["out"],
                            net'["out"][i].type = "SEND",
                            net'["out"][i].enc # Plaintext
                     PROVE  \/ st["out"] = "OPEN" /\ net'["out"][i].enc = cipher["out"]
                            \/ \E j \in 1..(i - 1) :
                                 net'["out"][j] = Accept(net'["out"][i].enc)
          BY <2>1 DEF WroteTo, AcceptBefore
        <4>1. /\ Extends(net'["out"], net["out"], M) /\ st["inc"] = "OPEN"
          BY <1>1, <2>1, <3>3 DEF WroteTo
        <4>2. CASE i \in DOMAIN net["out"]
          <5>1. net'["out"][i] = net["out"][i]
            BY <4>1, <4>2 DEF Extends
          <5>2. CASE st["out"] = "OPEN" /\ net["out"][i].enc = cipher["out"]
            BY <5>1, <5>2
          <5>3. ASSUME NEW j \in 1..(i - 1), net["out"][j] = Accept(net["out"][i].enc)
                PROVE  net'["out"][j] = Accept(net'["out"][i].enc)
            <6>1. j \in DOMAIN net["out"]
              BY <4>2, NetFacts, LenProperties
            <6> QED
              BY <4>1, <5>1, <5>3, <6>1 DEF Extends
          <5> QED
            BY <4>2, <5>1, <5>2, <5>3 DEF CipherInv, AcceptBefore
        <4>3. CASE i \notin DOMAIN net["out"]
          <5>1. net'["out"][i].enc = cipher["inc"]
            BY <2>3, <4>1, <4>3 DEF Extends
          <5>2. CASE st["out"] = "OPEN" /\ cipher["out"] = cipher["inc"]
            BY <5>1, <5>2
          <5>3. ASSUME NEW j \in DOMAIN net["out"], net["out"][j] = Accept(cipher["inc"])
                PROVE  \E h \in 1..(i - 1) :
                         net'["out"][h] = Accept(net'["out"][i].enc)
            BY <4>1, <4>3, <5>1, <5>3 DEF Extends
          <5> QED
            BY <3>3, <4>1, <5>2, <5>3 DEF CipherInv, Told
        <4> QED
          BY <4>2, <4>3
      <3> QED
        BY <1>1, <3>1, <3>2, <3>3
    <2> QED
      BY <2>2, <2>4, <2>5, <2>6 DEF CipherInv
  <1>8. ASSUME NEW e \in Ends, NEW asked \in BOOLEAN, Waits(e, asked)
        PROVE  CipherInv'
    <2> DEFINE M == Composed(e, 1, asked, cipher[e])
    <2>1. /\ st[e] \in {"WAIT", "ERROR"}
          /\ outq'[e] = outq[e] \o M /\ outq'[Other(e)] = outq[Other(e)]
          /\ UNCHANGED <<up, st, cipher, inq, net>>
      BY <1>1, <1>8, EndsFacts DEF Waits, Queued, TypeOK
    <2>2. outq[e] \in Seq(DataMsg) /\ M \in Seq(DataMsg)
          /\ \A j \in DOMAIN M : M[j].enc \in {cipher[e], Plaintext}
      <3>1. sent[e] + 1 <= MaxSends /\ cipher[e] \in Ciphers \cup {Plaintext}
        BY <1>8, QueueFacts DEF Waits, TypeOK
      <3>2. M \in Seq(DataMsg)
        BY <3>1, ComposedFacts
      <3> QED
        BY <3>2, QueueFacts DEF Composed, Data
    <2> HIDE DEF M
    <2>3. QueuedPlain(e)'
      <3>1. CASE st[e] = "WAIT"
        <4>1. cipher[e] = Plaintext
          BY <1>1, <3>1 DEF CipherInv, CipherSelected
        <4>2. Extends(outq'[e], outq[e], M)
          BY <2>1, <2>2, ExtendsConcat
        <4>3. \A i \in DOMAIN outq[e] : outq[e][i].enc = Plaintext
          BY <1>1, <3>1 DEF CipherInv, QueuedPlain
        <4> QED
          BY <2>2, <4>1, <4>2, <4>3 DEF QueuedPlain, Extends
      <3>2. CASE st[e] = "ERROR"
        BY <2>1, <3>2 DEF QueuedPlain
      <3> QED
        BY <2>1, <3>1, <3>2
    <2>4. QueuedPlain("out")' /\ QueuedPlain("inc")'
      BY <1>1, <2>1, <2>3 DEF CipherInv, QueuedPlain
    <2>5. /\ CipherSelected' /\ KeptPlain("out")' /\ KeptPlain("inc")'
          /\ SentUnder("out")' /\ SentUnder("inc")'
      BY <2>1 DEF CipherInv, CipherSelected, KeptPlain, SentUnder
    <2>6. AcceptedWith' /\ Told' /\ AcceptBefore'
      BY <2>1 DEF CipherInv, AcceptedWith, Told, AcceptBefore, Both
    <2> QED
      BY <2>4, <2>5, <2>6 DEF CipherInv
  <1>9. CASE Offered("WAIT", <<>>) \/ Offered("gone", <<Destroy>>)
    <2>1. /\ st["inc"] = "none" /\ st["out"] # "none"
          /\ st'["inc"] \in {"WAIT", "gone"} /\ st'["out"] = st["out"]
          /\ Shifted(net'["inc"], net["inc"])
          /\ \A i \in DOMAIN net'["out"] : net'["out"][i].type = "DESTROY"
          /\ UNCHANGED <<up, cipher, outq, inq, sent, early, got>>
      BY <1>9, OfferedView
    <2>2. inq["inc"] = <<>> /\ outq["inc"] = <<>>
      BY <2>1 DEF Unborn, UnbornAt
    <2>3. /\ CipherSelected'
          /\ QueuedPlain("out")' /\ QueuedPlain("inc")'
          /\ KeptPlain("out")' /\ KeptPlain("inc")'
      BY <2>1, <2>2 DEF CipherInv, CipherSelected, QueuedPlain, KeptPlain
    <2>4. SentUnder("out")' /\ AcceptedWith' /\ Told' /\ AcceptBefore'
      BY <2>1 DEF SentUnder, AcceptedWith, Told, AcceptBefore
    <2>5. SentUnder("inc")'
      BY <2>1 DEF CipherInv, SentUnder, Shifted
    <2> QED
      BY <2>3, <2>4, <2>5 DEF CipherInv
  <1>10. ASSUME NEW e \in Ends, Dropped(e) \/ Handed(e) \/ Kept(e)
        PROVE  CipherInv'
    <2>1. /\ st' = st /\ Shifted(net'[e], net[e]) /\ Head(net[e]) = net[e][1]
          /\ net'[Other(e)] = net[Other(e)]
          /\ UNCHANGED <<up, cipher, outq, sent, early>>
      BY <1>10, ReadView
    <2>2. /\ CipherSelected' /\ QueuedPlain("out")' /\ QueuedPlain("inc")'
      BY <2>1 DEF CipherInv, CipherSelected, QueuedPlain
    <2>3. KeptPlain("out")' /\ KeptPlain("inc")'
      <3>1. CASE Dropped(e) \/ Handed(e)
        <4>1. inq' = inq
          BY <3>1 DEF Dropped, Handed
        <4> QED
          BY <2>1, <4>1 DEF CipherInv, KeptPlain
      <3>2. CASE Kept(e)
        <4> DEFINE m == Head(net[e])
        <4>1. /\ m.type = "SEND" /\ inq'[e] = inq[e] \o <<m>>
              /\ inq'[Other(e)] = inq[Other(e)] /\ inq[e] \in Seq(DataMsg)
              /\ st[e] \in {"WAIT", "ERROR"} /\ m \in DataMsg
          BY <3>2, EndsFacts, QueueFacts, MessageFacts DEF Kept, Receives, Queued, TypeOK
        <4>2. st[e] = "WAIT" => m.enc = Plaintext
          <5>1. CASE e = "out"
            BY <2>1, <4>1, <5>1 DEF CipherInv, AcceptBefore, Shifted
          <5>2. CASE e = "inc"
            BY <2>1, <4>1, <5>2 DEF CipherInv, SentUnder, Shifted
          <5> QED
            BY <1>1, <5>1, <5>2
        <4> HIDE DEF m
        <4>3. <<m>> \in Seq(DataMsg)
          BY <4>1
        <4>4. Extends(inq'[e], inq[e], <<m>>)
          BY <4>1, <4>3, ExtendsConcat
        <4>5. st[e] = "WAIT" => \A i \in DOMAIN inq'[e] : inq'[e][i].enc = Plaintext
          <5>1. \A j \in DOMAIN <<m>> : <<m>>[j] = m
            OBVIOUS
          <5>2. st[e] = "WAIT" => \A i \in DOMAIN inq[e] : inq[e][i].enc = Plaintext
            BY <1>1 DEF CipherInv, KeptPlain
          <5> QED
            BY <4>2, <4>4, <5>1, <5>2 DEF Extends
        <4> QED
          BY <1>1, <2>1, <4>1, <4>5 DEF CipherInv, KeptPlain
      <3> QED
        BY <1>10, <3>1, <3>2
    <2>4. SentUnder("out")' /\ SentUnder("inc")' /\ AcceptedWith'
      BY <1>1, <2>1 DEF CipherInv, SentUnder, AcceptedWith, Shifted
    <2>5. CASE e = "inc"
      <3>1. Told' /\ AcceptBefore'
        BY <1>1, <2>1, <2>5 DEF CipherInv, Told, AcceptBefore, Both
      <3> QED
        BY <2>2, <2>3, <2>4, <3>1 DEF CipherInv
    <2>6. CASE e = "out" /\ st["out"] \notin Held
      <3>1. Told' /\ AcceptBefore'
        BY <2>1, <2>6 DEF Told, AcceptBefore, Held
      <3> QED
        BY <2>2, <2>3, <2>4, <3>1 DEF CipherInv
    <2>7. CASE e = "out" /\ st["out"] \in Held
      <3>1. net["out"][1].type = "SEND"
        BY <1>10, <2>1, <2>7 DEF Dropped, Handed, Kept, Receives
      <3>2. \A j \in DOMAIN net["out"], c \in Ciphers \cup {Plaintext} :
              net["out"][j] = Accept(c) =>
                  j \in Nat /\ j - 1 \in DOMAIN net'["out"] /\ net'["out"][j - 1] = Accept(c)
        BY <2>1, <2>7, <3>1 DEF Shifted, Accept
      <3>3. Told'
        <4>1. cipher["inc"] \in Ciphers \cup {Plaintext}
          BY <1>1 DEF TypeOK
        <4> QED
          BY <2>1, <3>2, <4>1 DEF CipherInv, Told, Both
      <3>4. AcceptBefore'
        <4> SUFFICES ASSUME st["out"] \in {"WAIT", "OPEN"},
                            NEW i \in DOMAIN net'["out"],
                            net'["out"][i].type = "SEND",
                            net'["out"][i].enc # Plaintext
                     PROVE  \/ st["out"] = "OPEN" /\ net'["out"][i].enc = cipher["out"]
                            \/ \E j \in 1..(i - 1) :
                                 net'["out"][j] = Accept(net'["out"][i].enc)
          BY <2>1 DEF AcceptBefore
        <4>1. /\ i \in Nat \ {0} /\ i + 1 \in DOMAIN net["out"]
              /\ net'["out"][i] = net["out"][i + 1]
          BY <2>1, <2>7 DEF Shifted
        <4>2. CASE st["out"] = "OPEN" /\ net["out"][i + 1].enc = cipher["out"]
          BY <4>1, <4>2
        <4>3. ASSUME NEW j \in 1..((i + 1) - 1),
                     net["out"][j] = Accept(net["out"][i + 1].enc)
              PROVE  \E h \in 1..(i - 1) :
                       net'["out"][h] = Accept(net'["out"][i].enc)
          <5>1. j \in DOMAIN net["out"]
            <6>1. net["out"] \in Seq(Message)
              BY NetFacts
            <6> QED
              BY <4>1, <6>1, LenProperties
          <5>2. j # 1
            BY <3>1, <4>3 DEF Accept
          <5>3. j - 1 \in DOMAIN net'["out"] /\ net'["out"][j - 1] = net["out"][j]
            BY <2>1, <2>7, <5>1, <5>2 DEF Shifted
          <5>4. j - 1 \in 1..(i - 1)
            BY <4>1, <5>2
          <5> QED
            BY <4>1, <4>3, <5>3, <5>4
        <4> QED
          BY <4>1, <4>2, <4>3 DEF CipherInv, AcceptBefore
      <3> QED
        BY <2>2, <2>3, <2>4, <3>3, <3>4 DEF CipherInv
    <2> QED
      BY <1>1, <2>5, <2>6, <2>7
  <1>11. ASSUME NEW e \in Ends, NEW n \in 0..Len(net[Other(e)]), Broken(e, n)
         PROVE  CipherInv'
    <2>1. /\ ~Both' /\ Cut(net'[Other(e)], net[Other(e)], Destroy)
          /\ net'[e] = <<>> /\ Destroy.type = "DESTROY"
          /\ UNCHANGED <<st, cipher, outq, inq, sent, early, got>>
      BY <1>11, BrokenView
    <2>2. /\ CipherSelected'
          /\ QueuedPlain("out")' /\ QueuedPlain("inc")'
          /\ KeptPlain("out")' /\ KeptPlain("inc")' /\ Told'
      BY <2>1 DEF CipherInv, CipherSelected, QueuedPlain, KeptPlain, Told
    <2>3. SentUnder("out")' /\ SentUnder("inc")' /\ AcceptedWith'
      BY <1>1, <2>1 DEF CipherInv, SentUnder, AcceptedWith, Cut
    <2>4. AcceptBefore'
      <3>1. CASE e = "out"
        BY <2>1, <3>1 DEF AcceptBefore
      <3>2. CASE e = "inc"
        BY <1>1, <2>1, <3>2 DEF CipherInv, AcceptBefore, Cut
      <3> QED
        BY <1>1, <3>1, <3>2
    <2> QED
      BY <2>2, <2>3, <2>4 DEF CipherInv
  <1>12. CASE UNCHANGED <<up, st, cipher, outq, inq, net, sent, early, got>>
    <2>1. /\ CipherSelected'
          /\ QueuedPlain("out")' /\ QueuedPlain("inc")'
          /\ KeptPlain("out")' /\ KeptPlain("inc")' /\ Told'
      BY <1>12 DEF CipherInv, CipherSelected, QueuedPlain, KeptPlain, Told, Both
    <2>2. SentUnder("out")' /\ SentUnder("inc")' /\ AcceptedWith' /\ AcceptBefore'
      BY <1>12 DEF CipherInv, SentUnder, AcceptedWith, AcceptBefore
    <2> QED
      BY <2>1, <2>2 DEF CipherInv
  <1> QED
    BY <1>2, <1>3, <1>4, <1>5, <1>6, <1>7, <1>8, <1>9, <1>10, <1>11, <1>12 DEF Effect

\* An encrypted message is read with the cipher it was composed under, for
\* every set of ciphers: the acceptance that names the cipher is written before
\* anything is encrypted with it and read first, and a channel that is not open
\* yet encrypts nothing (mwChannel_accept, mwChannel_recvAccept,
\* mwChannel_sendEncrypted).
THEOREM CipherCorrect == Spec => []CipherAgreement
  <1> DEFINE I == ChannelConsistent /\ NetShape /\ Unborn /\ CipherInv
  <1>1. Init => I
    BY ConsistentInit, ShapeInit, CipherInit
  <1>2. I /\ [Next]_vars => I'
    <2> SUFFICES ASSUME I, [Next]_vars
                 PROVE  I'
      OBVIOUS
    <2>1. ChannelConsistent' /\ Effect /\ TypeOK
      BY ConsistentStep, StepEffect DEF ChannelConsistent
    <2>2. NetShape' /\ Unborn' /\ CipherInv'
      BY <2>1, ShapeStep, UnbornStep, CipherStep
    <2> QED
      BY <2>1, <2>2
  <1>3. I => CipherAgreement
    BY CipherImplies
  <1> QED
    BY <1>1, <1>2, <1>3, PTL DEF Spec

-----------------------------------------------------------------------------
(* NothingLost.  Between two ends that have not given the channel up a     *)
(* message is at its destination, queued there, on its way, or still       *)
(* queued where it was sent.                                               *)

\* The data message number n is among the messages q.
Carries(q, n) == \E i \in DOMAIN q : q[i].type = "SEND" /\ q[i].n = n

Delivered(d, n) == \E i \in DOMAIN got[d] : got[d][i] = n

\* Message n for end d is somewhere between the two services.
OnTheWay(d, n) ==
    \/ Delivered(d, n)
    \/ Carries(inq[d], n)
    \/ Carries(net[d], n)
    \/ Carries(outq[Other(d)], n)

CarriedAt(d) ==
    Both /\ st[d] # "gone" /\ st[Other(d)] # "gone" =>
        \A n \in 1..sent[Other(d)] : OnTheWay(d, n)

Carried == CarriedAt("out") /\ CarriedAt("inc")

LEMMA CarriedEnds ==
    ASSUME NEW e \in Ends
    PROVE  /\ Carried <=> CarriedAt(e) /\ CarriedAt(Other(e))
           /\ Carried' <=> CarriedAt(e)' /\ CarriedAt(Other(e))'
  <1>1. CASE e = "out"
    BY <1>1, EndsFacts DEF Carried
  <1>2. CASE e = "inc"
    BY <1>2, EndsFacts DEF Carried
  <1> QED
    BY <1>1, <1>2, EndsFacts

LEMMA CarriesConcat ==
    ASSUME NEW s \in Seq(Message), NEW m \in Seq(Message), NEW n,
           Carries(s, n) \/ Carries(m, n)
    PROVE  Carries(s \o m, n)
  <1> DEFINE u == s \o m
  <1>1. /\ \A i \in DOMAIN s : i \in DOMAIN u /\ u[i] = s[i]
        /\ \A j \in DOMAIN m : \E i \in DOMAIN u : u[i] = m[j]
    BY ConcatMembers
  <1> HIDE DEF u
  <1>2. Carries(u, n)
    BY <1>1 DEF Carries
  <1> QED
    BY <1>2 DEF u

LEMMA CarriesTail ==
    ASSUME NEW t, NEW s, Shifted(t, s), NEW n, Carries(s, n)
    PROVE  Carries(t, n) \/ (s[1].type = "SEND" /\ s[1].n = n)
  BY DEF Carries, Shifted

LEMMA ComposedCarries ==
    ASSUME NEW e \in Ends, NEW k \in 0..1, NEW asked \in BOOLEAN, NEW c,
           sent[e] \in Nat, NEW n \in (sent[e] + 1)..(sent[e] + k)
    PROVE  Carries(Composed(e, k, asked, c), n)
  <1> DEFINE C == Composed(e, k, asked, c)
  <1>1. C = [i \in 1..k |-> Data(sent[e] + i, asked, c)]
    BY DEF Composed
  <1>2. n = sent[e] + 1 /\ k = 1
    OBVIOUS
  <1>3. 1 \in DOMAIN C /\ C[1] = Data(n, asked, c)
    BY <1>1, <1>2
  <1> HIDE DEF C
  <1>4. Carries(C, n)
    BY <1>3 DEF Carries, Data
  <1> QED
    BY <1>4 DEF C

\* Every element of s is one of u.
Contains(u, s) == \A j \in DOMAIN s : \E i \in DOMAIN u : u[i] = s[j]

LEMMA ConcatContains ==
    ASSUME NEW S, NEW s \in Seq(S), NEW m \in Seq(S)
    PROVE  Contains(s \o m, s) /\ Contains(s \o m, m)
  <1> DEFINE u == s \o m
  <1>1. /\ \A i \in DOMAIN s : i \in DOMAIN u /\ u[i] = s[i]
        /\ \A j \in DOMAIN m : \E i \in DOMAIN u : u[i] = m[j]
    BY ConcatMembers
  <1> HIDE DEF u
  <1>2. Contains(u, s) /\ Contains(u, m)
    BY <1>1 DEF Contains
  <1> QED
    BY <1>2 DEF u

\* What an end delivers when it opens is what was queued for its service.
LEMMA DeliveredQueue ==
    ASSUME TypeOK, NEW e \in Ends, got'[e] = got[e] \o Numbers(inq[e]), NEW n,
           Delivered(e, n) \/ Carries(inq[e], n)
    PROVE  Delivered(e, n)'
  <1> DEFINE N == Numbers(inq[e])
             u == got[e] \o N
  <1>1. /\ N \in Seq(1..MaxSends) /\ got[e] \in Seq(1..MaxSends)
        /\ DOMAIN N = DOMAIN inq[e] /\ \A j \in DOMAIN inq[e] : N[j] = inq[e][j].n
    <2>1. /\ inq[e] \in Seq(DataMsg) /\ Len(inq[e]) \in Nat
          /\ DOMAIN inq[e] = 1..Len(inq[e]) /\ got[e] \in Seq(1..MaxSends)
      BY QueueFacts, LenProperties
    <2>2. N \in Seq(1..MaxSends)
      BY <2>1, NumbersFacts
    <2> QED
      BY <2>1, <2>2 DEF Numbers
  <1> HIDE DEF N
  <1>2. Contains(u, got[e]) /\ Contains(u, N)
    BY <1>1, ConcatContains
  <1>3. got'[e] = u
    BY DEF N
  <1> HIDE DEF u
  <1> QED
    BY <1>1, <1>2, <1>3 DEF Delivered, Carries, Contains

\* What was sent earlier is still on its way, and nothing was sent since.
LEMMA StillCarried ==
    ASSUME NEW d \in Ends, CarriedAt(d), Both' => Both,
           st'[d] # "gone" => st[d] # "gone",
           st'[Other(d)] # "gone" => st[Other(d)] # "gone",
           sent'[Other(d)] = sent[Other(d)],
           Both' => \A n \in 1..sent[Other(d)] : OnTheWay(d, n) => OnTheWay(d, n)'
    PROVE  CarriedAt(d)'
  BY DEF CarriedAt

LEMMA CarriedOpened ==
    ASSUME TypeOK, Carried, NEW e \in Ends, NEW c \in Ciphers \cup {Plaintext},
           NEW k \in 0..1, NEW asked \in BOOLEAN, NEW rest,
           NEW first \in Seq(Message), Opened(e, c, k, asked, rest, first),
           \A n : Carries(net[e], n) => Carries(rest, n)
    PROVE  Carried'
  <1> DEFINE C == Composed(e, k, asked, c)
             M == first \o C \o outq[e]
  <1>1. OpenedTo(e, c, k, rest, first, C, M)
    BY OpenedView
  <1>2. \A n \in (sent[e] + 1)..(sent[e] + k) : Carries(C, n)
    BY QueueFacts, ComposedCarries
  <1>3. C \in Seq(Message)
    BY OpenedView, ComposedFacts, DataIsMessage DEF Opened
  <1> HIDE DEF C, M
  <1>4. /\ st[e] = "WAIT" /\ st'[e] = "OPEN" /\ st'[Other(e)] = st[Other(e)]
        /\ up' = up /\ net'[e] = rest
        /\ outq'[e] = <<>> /\ outq'[Other(e)] = outq[Other(e)]
        /\ inq'[e] = <<>> /\ inq'[Other(e)] = inq[Other(e)]
        /\ got'[e] = got[e] \o Numbers(inq[e]) /\ got'[Other(e)] = got[Other(e)]
        /\ sent'[e] = sent[e] + k /\ sent'[Other(e)] = sent[Other(e)]
        /\ Joined(M, first, C, outq[e])
        /\ Both => net'[Other(e)] = net[Other(e)] \o M
    BY <1>1 DEF OpenedTo
  <1>5. CarriedAt(e)'
    <2>1. ASSUME NEW n, OnTheWay(e, n) PROVE OnTheWay(e, n)'
      <3>1. Delivered(e, n) \/ Carries(inq[e], n) => Delivered(e, n)'
        BY <1>4, DeliveredQueue
      <3>2. Carries(net[e], n) => Carries(net'[e], n)
        BY <1>4
      <3>3. Carries(outq[Other(e)], n) => Carries(outq'[Other(e)], n)
        BY <1>4
      <3> QED
        BY <2>1, <3>1, <3>2, <3>3 DEF OnTheWay
    <2>2. CarriedAt(e)
      BY CarriedEnds
    <2>3. Both' => Both
      BY <1>4 DEF Both
    <2> QED
      BY <1>4, <2>1, <2>2, <2>3, StillCarried
  <1>6. CarriedAt(Other(e))'
    <2> SUFFICES ASSUME Both, st[Other(e)] # "gone", NEW n \in 1..(sent[e] + k)
                 PROVE  OnTheWay(Other(e), n)'
      BY <1>4, EndsFacts DEF CarriedAt, Both
    <2>1. /\ sent[e] \in Nat /\ (n \in 1..sent[e] \/ n \in (sent[e] + 1)..(sent[e] + k))
      BY QueueFacts
    <2>2. M \in Seq(Message) /\ net[Other(e)] \in Seq(Message)
      BY <1>4, EndsFacts, QueueFacts DEF Joined
    <2>3. Carries(M, n) => Carries(net'[Other(e)], n)
      BY <1>4, <2>2, CarriesConcat
    <2>4. Carries(net[Other(e)], n) => Carries(net'[Other(e)], n)
      BY <1>4, <2>2, CarriesConcat
    <2>5. Carries(C, n) \/ Carries(outq[e], n) => Carries(M, n)
      BY <1>4 DEF Joined, Carries
    <2>6. CASE n \in (sent[e] + 1)..(sent[e] + k)
      BY <1>2, <2>3, <2>5, <2>6 DEF OnTheWay
    <2>7. CASE n \in 1..sent[e]
      <3>1. OnTheWay(Other(e), n)
        BY <1>4, <2>7, CarriedEnds, EndsFacts DEF CarriedAt
      <3>2. /\ Delivered(Other(e), n) => Delivered(Other(e), n)'
            /\ Carries(inq[Other(e)], n) => Carries(inq'[Other(e)], n)
        BY <1>4 DEF Delivered
      <3>3. Carries(outq[e], n) => Carries(net'[Other(e)], n)
        BY <2>3, <2>5
      <3> QED
        BY <2>4, <3>1, <3>2, <3>3, EndsFacts DEF OnTheWay
    <2> QED
      BY <2>1, <2>6, <2>7
  <1> QED
    BY <1>5, <1>6, CarriedEnds

LEMMA CarriedOpenedInc ==
    ASSUME TypeOK, Carried, NEW c \in Ciphers \cup {Plaintext},
           NEW k \in 0..1, NEW asked \in BOOLEAN, OpenedInc(c, k, asked)
    PROVE  Carried'
  <1>1. <<Accept(c)>> \in Seq(Message)
    BY DEF Accept, Message
  <1> QED
    BY <1>1, EndsFacts, CarriedOpened DEF OpenedInc

LEMMA CarriedOpenedOut ==
    ASSUME TypeOK, Carried, NEW k \in 0..1, NEW asked \in BOOLEAN,
           OpenedOut(k, asked)
    PROVE  Carried'
  <1> DEFINE c == Head(net["out"]).item
  <1>1. /\ net["out"] # <<>> /\ net["out"] \in Seq(Message)
        /\ Head(net["out"]).type = "ACCEPT"
    BY NetFacts DEF OpenedOut, Receives
  <1>2. c \in Ciphers \cup {Plaintext}
    <2>1. Head(net["out"]) \in Message
      BY <1>1, HeadTailProperties
    <2> QED
      BY <1>1, <2>1, MessageFacts
  <1>3. Shifted(Tail(net["out"]), net["out"]) /\ Head(net["out"]) = net["out"][1]
    BY <1>1, ShiftedTail
  <1>4. \A n : Carries(net["out"], n) => Carries(Tail(net["out"]), n)
    BY <1>1, <1>3, CarriesTail
  <1>5. Opened("out", c, k, asked, Tail(net["out"]), <<>>) /\ <<>> \in Seq(Message)
    BY DEF OpenedOut
  <1> HIDE DEF c
  <1> QED
    BY <1>2, <1>4, <1>5, EndsFacts, CarriedOpened

LEMMA CarriedStep ==
    ASSUME TypeOK, NetShape, Unborn, Carried, Effect
    PROVE  Carried'
  <1>1. /\ "out" \in Ends /\ "inc" \in Ends
        /\ Other("out") = "inc" /\ Other("inc") = "out"
    BY EndsFacts
  <1>2. ASSUME NEW p \in Policy, Created(p) PROVE Carried'
    <2>1. /\ st["out"] = "none" /\ st["inc"] = "none"
          /\ UNCHANGED <<up, cipher, outq, inq, sent, early, got>>
      BY <1>2, CreatedView
    <2> QED
      BY <1>1, <2>1 DEF Unborn, UnbornAt, Carried, CarriedAt
  <1>3. ASSUME NEW c \in Ciphers \cup {Plaintext}, NEW k \in 0..1,
               NEW asked \in BOOLEAN, OpenedInc(c, k, asked)
        PROVE  Carried'
    BY <1>3, CarriedOpenedInc
  <1>4. ASSUME NEW k \in 0..1, NEW asked \in BOOLEAN, OpenedOut(k, asked)
        PROVE  Carried'
    BY <1>4, CarriedOpenedOut
  <1>5. ASSUME NEW c \in Ciphers \cup {Plaintext}, Failed(c) PROVE Carried'
    BY <1>5 DEF Failed, Carried, CarriedAt, Both
  <1>6. ASSUME NEW e \in Ends, NEW msgs \in {<<>>, <<Destroy>>}, Shut(e, msgs)
        PROVE  Carried'
    <2>1. st'[e] = "gone"
      BY <1>6, ShutView
    <2> QED
      BY <2>1, EndsFacts DEF Carried, CarriedAt
  <1>7. ASSUME NEW e \in Ends, NEW asked \in BOOLEAN, Written(e, asked)
        PROVE  Carried'
    <2> DEFINE M == Composed(e, 1, asked, cipher[e])
    <2>1. WroteTo(e, M)
      BY <1>7, WrittenView
    <2> HIDE DEF M
    <2>2. /\ st' = st /\ up' = up /\ net'[e] = net[e]
          /\ outq' = outq /\ inq' = inq /\ got' = got
          /\ sent'[e] = sent[e] + 1 /\ sent'[Other(e)] = sent[Other(e)]
          /\ Both => net'[Other(e)] = net[Other(e)] \o M
          /\ M \in Seq(Message) /\ Carries(M, sent[e] + 1)
      BY <2>1 DEF WroteTo, Carries
    <2>3. CarriedAt(e)'
      <3>1. CarriedAt(e)
        BY CarriedEnds
      <3>2. ASSUME NEW n, OnTheWay(e, n) PROVE OnTheWay(e, n)'
        BY <2>2, <3>2 DEF OnTheWay, Delivered
      <3> QED
        BY <2>2, <3>1, <3>2, StillCarried DEF Both
    <2>4. CarriedAt(Other(e))'
      <3> SUFFICES ASSUME Both, st[e] # "gone", st[Other(e)] # "gone",
                          NEW n \in 1..(sent[e] + 1)
                   PROVE  OnTheWay(Other(e), n)'
        BY <2>2, EndsFacts DEF CarriedAt, Both
      <3>1. Carries(net[Other(e)], n) \/ Carries(M, n) => Carries(net'[Other(e)], n)
        <4>1. net[Other(e)] \in Seq(Message)
          BY EndsFacts, QueueFacts
        <4> QED
          BY <2>2, <4>1, CarriesConcat
      <3>2. CASE n = sent[e] + 1
        BY <2>2, <3>1, <3>2 DEF OnTheWay
      <3>3. CASE n \in 1..sent[e]
        <4>1. OnTheWay(Other(e), n)
          BY <3>3, CarriedEnds, EndsFacts DEF CarriedAt
        <4> QED
          BY <2>2, <3>1, <4>1 DEF OnTheWay, Delivered
      <3> QED
        BY <3>2, <3>3, QueueFacts
    <2> QED
      BY <2>3, <2>4, CarriedEnds
  <1>8. ASSUME NEW e \in Ends, NEW asked \in BOOLEAN, Waits(e, asked)
        PROVE  Carried'
    <2> DEFINE M == Composed(e, 1, asked, cipher[e])
    <2>1. /\ outq'[e] = outq[e] \o M /\ outq'[Other(e)] = outq[Other(e)]
          /\ sent'[e] = sent[e] + 1 /\ sent'[Other(e)] = sent[Other(e)]
          /\ UNCHANGED <<up, st, cipher, inq, net, got>>
      BY <1>8, EndsFacts DEF Waits, Queued, TypeOK
    <2>2. outq[e] \in Seq(Message) /\ M \in Seq(Message)
      <3>1. sent[e] + 1 <= MaxSends /\ cipher[e] \in Ciphers \cup {Plaintext}
        BY <1>8, QueueFacts DEF Waits, TypeOK
      <3> QED
        BY <3>1, QueueFacts, ComposedFacts, DataIsMessage
    <2>3. Carries(M, sent[e] + 1)
      BY QueueFacts, ComposedCarries
    <2> HIDE DEF M
    <2>4. CarriedAt(e)'
      <3>1. CarriedAt(e)
        BY CarriedEnds
      <3>2. ASSUME NEW n, OnTheWay(e, n) PROVE OnTheWay(e, n)'
        BY <2>1, <3>2 DEF OnTheWay, Delivered
      <3> QED
        BY <2>1, <3>1, <3>2, StillCarried DEF Both
    <2>5. CarriedAt(Other(e))'
      <3> SUFFICES ASSUME Both, st[e] # "gone", st[Other(e)] # "gone",
                          NEW n \in 1..(sent[e] + 1)
                   PROVE  OnTheWay(Other(e), n)'
        BY <2>1, EndsFacts DEF CarriedAt, Both
      <3>1. Carries(outq[e], n) \/ Carries(M, n) => Carries(outq'[e], n)
        BY <2>1, <2>2, CarriesConcat
      <3>2. CASE n = sent[e] + 1
        BY <2>3, <3>1, <3>2, EndsFacts DEF OnTheWay
      <3>3. CASE n \in 1..sent[e]
        <4>1. OnTheWay(Other(e), n)
          BY <3>3, CarriedEnds, EndsFacts DEF CarriedAt
        <4> QED
          BY <2>1, <3>1, <4>1, EndsFacts DEF OnTheWay, Delivered
      <3> QED
        BY <3>2, <3>3, QueueFacts
    <2> QED
      BY <2>4, <2>5, CarriedEnds
  <1>9. CASE Offered("WAIT", <<>>) \/ Offered("gone", <<Destroy>>)
    <2>1. /\ st["inc"] = "none" /\ st'["out"] = st["out"]
          /\ Shifted(net'["inc"], net["inc"]) /\ net["inc"][1].type = "CREATE"
          /\ UNCHANGED <<up, cipher, outq, inq, sent, early, got>>
      BY <1>9, OfferedView
    <2>2. CarriedAt("inc")'
      <3>1. ASSUME NEW n, OnTheWay("inc", n) PROVE OnTheWay("inc", n)'
        <4>1. Carries(net["inc"], n) => Carries(net'["inc"], n)
          BY <2>1, CarriesTail
        <4> QED
          BY <2>1, <3>1, <4>1 DEF OnTheWay, Delivered
      <3> QED
        BY <1>1, <2>1, <3>1, StillCarried DEF Carried, Both
    <2>3. CarriedAt("out")'
      BY <1>1, <2>1 DEF CarriedAt, Unborn, UnbornAt
    <2> QED
      BY <2>2, <2>3 DEF Carried
  <1>10. ASSUME NEW e \in Ends, Dropped(e) PROVE Carried'
    <2>1. /\ st' = st /\ Shifted(net'[e], net[e]) /\ Head(net[e]) = net[e][1]
          /\ net'[Other(e)] = net[Other(e)]
          /\ UNCHANGED <<up, cipher, outq, sent, early>>
      BY <1>10, ReadView
    <2>2. /\ inq' = inq /\ got' = got /\ net[e][1].type # "CREATE"
          /\ st[e] \in {"none", "gone"}
      BY <1>10, <2>1, NetFacts DEF Dropped, Held
    <2>3. CarriedAt(e)'
      <3>1. CASE st[e] = "gone"
        BY <2>1, <3>1 DEF CarriedAt
      <3>2. CASE st[e] = "none" /\ ~Both
        BY <2>1, <3>2 DEF CarriedAt, Both
      <3>3. CASE st[e] = "none" /\ Both
        <4>1. st[Other(e)] = "none"
          BY <1>1, <2>2, <3>3, EndsFacts DEF NetShape, NotYetOffered, NotYetCreated
        <4>2. sent[Other(e)] = 0
          BY <4>1, EndsFacts DEF Unborn, UnbornAt
        <4> QED
          BY <2>1, <4>2 DEF CarriedAt
      <3> QED
        BY <2>2, <3>1, <3>2, <3>3
    <2>4. CarriedAt(Other(e))'
      <3>1. CarriedAt(Other(e))
        BY CarriedEnds
      <3>2. ASSUME NEW n, OnTheWay(Other(e), n) PROVE OnTheWay(Other(e), n)'
        BY <2>1, <2>2, <3>2 DEF OnTheWay, Delivered
      <3> QED
        BY <2>1, <3>1, <3>2, StillCarried, EndsFacts DEF Both
    <2> QED
      BY <2>3, <2>4, CarriedEnds
  <1>11. ASSUME NEW e \in Ends, Handed(e) \/ Kept(e) PROVE Carried'
    <2>1. /\ st' = st /\ Shifted(net'[e], net[e]) /\ Head(net[e]) = net[e][1]
          /\ net'[Other(e)] = net[Other(e)]
          /\ UNCHANGED <<up, cipher, outq, sent, early>>
      BY <1>11, ReadView
    <2> DEFINE m == Head(net[e])
    <2>2. /\ inq'[Other(e)] = inq[Other(e)] /\ got'[Other(e)] = got[Other(e)]
          /\ m \in DataMsg /\ m.n \in 1..MaxSends
      <3>1. Receives(e, "SEND")
        BY <1>11 DEF Handed, Kept
      <3>2. m \in Message /\ m.type = "SEND"
        BY <3>1, QueueFacts DEF Receives
      <3>3. m \in DataMsg
        BY <3>2, MessageFacts
      <3> QED
        BY <1>11, <3>3, EndsFacts DEF Handed, Kept, TypeOK, DataMsg
    <2>3. ASSUME NEW n, OnTheWay(e, n) PROVE OnTheWay(e, n)'
      <3>1. Carries(net[e], n) => Carries(net'[e], n) \/ m.n = n
        BY <2>1, CarriesTail
      <3>2. CASE Handed(e)
        <4>1. got'[e] = Append(got[e], m.n) /\ inq' = inq /\ got[e] \in Seq(1..MaxSends)
          BY <3>2, QueueFacts DEF Handed, TypeOK
        <4> HIDE DEF m
        <4>2. Delivered(e, n) \/ m.n = n => Delivered(e, n)'
          BY <2>2, <4>1, AppendProperties, LenProperties DEF Delivered
        <4> QED
          BY <2>1, <2>3, <3>1, <4>1, <4>2 DEF OnTheWay
      <3>3. CASE Kept(e)
        <4>1. inq'[e] = inq[e] \o <<m>> /\ got' = got /\ inq[e] \in Seq(DataMsg)
          BY <3>3, QueueFacts DEF Kept, Queued, TypeOK
        <4> HIDE DEF m
        <4>2. <<m>> \in Seq(Message) /\ inq[e] \in Seq(Message)
          <5>1. <<m>> \in Seq(DataMsg)
            BY <2>2
          <5> QED
            BY <4>1, <5>1, DataIsMessage
        <4>3. m.n = n => Carries(<<m>>, n)
          BY <2>2 DEF Carries, DataMsg
        <4>4. Carries(inq[e], n) \/ m.n = n => Carries(inq'[e], n)
          BY <4>1, <4>2, <4>3, CarriesConcat
        <4> QED
          BY <2>1, <2>3, <3>1, <4>1, <4>4 DEF OnTheWay, Delivered
      <3> QED
        BY <1>11, <3>2, <3>3
    <2>4. CarriedAt(e)'
      <3>1. CarriedAt(e)
        BY CarriedEnds
      <3> QED
        BY <2>1, <2>3, <3>1, StillCarried DEF Both
    <2>5. CarriedAt(Other(e))'
      <3>1. CarriedAt(Other(e))
        BY CarriedEnds
      <3>2. ASSUME NEW n, OnTheWay(Other(e), n) PROVE OnTheWay(Other(e), n)'
        BY <2>1, <2>2, <3>2 DEF OnTheWay, Delivered
      <3> QED
        BY <2>1, <3>1, <3>2, StillCarried, EndsFacts DEF Both
    <2> QED
      BY <2>4, <2>5, CarriedEnds
  <1>12. ASSUME NEW e \in Ends, NEW n \in 0..Len(net[Other(e)]), Broken(e, n)
         PROVE  Carried'
    <2>1. ~Both'
      BY <1>12, BrokenView
    <2> QED
      BY <2>1 DEF Carried, CarriedAt
  <1>13. CASE UNCHANGED <<up, st, cipher, outq, inq, net, sent, early, got>>
    BY <1>13 DEF Carried, CarriedAt, OnTheWay, Delivered, Both
  <1> QED
    BY <1>2, <1>3, <1>4, <1>5, <1>6, <1>7, <1>8, <1>9, <1>10, <1>11, <1>12, <1>13
       DEF Effect

LEMMA CarriedInit == Init => Carried
  BY EndsFacts DEF Init, Carried, CarriedAt

LEMMA CarriedImplies == ChannelConsistent /\ Carried => NothingLost
  <1> SUFFICES ASSUME ChannelConsistent, Carried, st["out"] = "OPEN", st["inc"] = "OPEN",
                      NEW e \in Ends, NEW n \in 1..sent[Other(e)],
                      up[e], up[Other(e)]
               PROVE  Delivered(e, n) \/ Carries(net[e], n)
    BY DEF NothingLost, Delivered, Carries
  <1>1. OnTheWay(e, n)
    <2>1. Both /\ st[e] # "gone" /\ st[Other(e)] # "gone"
      BY EndsFacts DEF Both
    <2> QED
      BY <2>1, CarriedEnds DEF CarriedAt
  <1>2. inq[e] = <<>> /\ outq[Other(e)] = <<>>
    BY EndsFacts DEF ChannelConsistent, OpenIsFlushed
  <1> QED
    BY <1>1, <1>2 DEF OnTheWay, Carries

\* Between two open ends nothing is lost, however often either service sent
\* while the channel was being opened: what has not been handed over is on its
\* way, since both queues are flushed on opening and none is dropped by a
\* handler of an end that still holds the channel (mwChannel_recv,
\* mwChannel_accept, mwChannel_recvAccept).
THEOREM NothingLostCorrect == Spec => []NothingLost
  <1> DEFINE I == ChannelConsistent /\ NetShape /\ Unborn /\ Carried
  <1>1. Init => I
    BY ConsistentInit, ShapeInit, CipherInit, CarriedInit
  <1>2. I /\ [Next]_vars => I'
    <2> SUFFICES ASSUME I, [Next]_vars
                 PROVE  I'
      OBVIOUS
    <2>1. ChannelConsistent' /\ Effect /\ TypeOK
      BY ConsistentStep, StepEffect DEF ChannelConsistent
    <2>2. NetShape' /\ Unborn' /\ Carried'
      BY <2>1, ShapeStep, UnbornStep, CarriedStep
    <2> QED
      BY <2>1, <2>2
  <1>3. I => NothingLost
    BY CarriedImplies
  <1> QED
    BY <1>1, <1>2, <1>3, PTL DEF Spec

-----------------------------------------------------------------------------
(* InOrder.  Seen from a service, all messages for it form one line: those *)
(* it got, then those queued for it, on their way, and queued where they   *)
(* were sent.  No message is ahead of an older one in it, unless the       *)
(* younger was sent while the channel was being opened.                    *)

\* Message a is in front of message b in q.
Precedes(q, a, b) ==
    \E i, j \in DOMAIN q :
        /\ i < j /\ q[i].type = "SEND" /\ q[j].type = "SEND"
        /\ q[i].n = a /\ q[j].n = b

HandedBefore(d, a, b) ==
    \E i, j \in DOMAIN got[d] : i < j /\ got[d][i] = a /\ got[d][j] = b

Ahead(d, a, b) ==
    \/ HandedBefore(d, a, b) \/ Precedes(inq[d], a, b)
    \/ Precedes(net[d], a, b) \/ Precedes(outq[Other(d)], a, b)
    \/ Delivered(d, a) /\ Carries(inq[d], b)
    \/ Delivered(d, a) /\ Carries(net[d], b)
    \/ Delivered(d, a) /\ Carries(outq[Other(d)], b)
    \/ Carries(inq[d], a) /\ Carries(net[d], b)
    \/ Carries(inq[d], a) /\ Carries(outq[Other(d)], b)
    \/ Carries(net[d], a) /\ Carries(outq[Other(d)], b)

OrderedAt(d) ==
    /\ \A a : OnTheWay(d, a) => a \in 1..sent[Other(d)]
    /\ \A a, b : Ahead(d, a, b) => a < b \/ a \in early[Other(d)] \ {b}

Ordered == OrderedAt("out") /\ OrderedAt("inc")

\* Nothing is queued behind the back of a creator that writes before the
\* channel is open.
EagerEmpty == eager /\ st["out"] = "WAIT" => outq["out"] = <<>>

LEMMA OrderedEnds ==
    ASSUME NEW e \in Ends
    PROVE  /\ Ordered <=> OrderedAt(e) /\ OrderedAt(Other(e))
           /\ Ordered' <=> OrderedAt(e)' /\ OrderedAt(Other(e))'
  <1>1. CASE e = "out"
    BY <1>1, EndsFacts DEF Ordered
  <1>2. CASE e = "inc"
    BY <1>2, EndsFacts DEF Ordered
  <1> QED
    BY <1>1, <1>2, EndsFacts

\* The elements of u are those of s and of m.
MadeOf(u, s, m) ==
    \A i \in DOMAIN u : \/ \E j \in DOMAIN s : u[i] = s[j]
                        \/ \E j \in DOMAIN m : u[i] = m[j]

\* Two elements of u are in the order in which they are in s or in m, or the
\* first is of s and the second of m.
OrderOf(u, s, m) ==
    \A i, j \in DOMAIN u : i < j =>
        \/ \E g, h \in DOMAIN s : g < h /\ u[i] = s[g] /\ u[j] = s[h]
        \/ \E g \in DOMAIN s, h \in DOMAIN m : u[i] = s[g] /\ u[j] = m[h]
        \/ \E g, h \in DOMAIN m : g < h /\ u[i] = m[g] /\ u[j] = m[h]

LEMMA ConcatOrder ==
    ASSUME NEW S, NEW s \in Seq(S), NEW m \in Seq(S)
    PROVE  MadeOf(s \o m, s, m) /\ OrderOf(s \o m, s, m)
  <1> DEFINE u == s \o m
             N == Len(s)
  <1>1. /\ N \in Nat /\ DOMAIN s = 1..N
        /\ \A i \in DOMAIN u :
             \/ i \in DOMAIN s /\ u[i] = s[i]
             \/ i - N \in DOMAIN m /\ u[i] = m[i - N]
    BY ConcatElems
  <1>2. /\ u \in Seq(S) /\ Len(u) \in Nat /\ DOMAIN u = 1..Len(u)
        /\ Len(m) \in Nat /\ DOMAIN m = 1..Len(m)
    BY ConcatProperties, LenProperties
  <1> HIDE DEF u, N
  <1>3. MadeOf(u, s, m)
    BY <1>1 DEF MadeOf
  <1>4. OrderOf(u, s, m)
    <2> SUFFICES ASSUME NEW i \in DOMAIN u, NEW j \in DOMAIN u, i < j
                 PROVE  \/ \E g, h \in DOMAIN s : g < h /\ u[i] = s[g] /\ u[j] = s[h]
                        \/ \E g \in DOMAIN s, h \in DOMAIN m : u[i] = s[g] /\ u[j] = m[h]
                        \/ \E g, h \in DOMAIN m : g < h /\ u[i] = m[g] /\ u[j] = m[h]
      BY DEF OrderOf
    <2>1. i \in Int /\ j \in Int
      BY <1>2
    <2>2. CASE j \in DOMAIN s /\ u[j] = s[j]
      <3>1. i \in DOMAIN s /\ i - N \notin DOMAIN m
        BY <1>1, <1>2, <2>1, <2>2
      <3> QED
        BY <1>1, <2>2, <3>1
    <2>3. CASE j - N \in DOMAIN m /\ u[j] = m[j - N]
      <3>1. CASE i \in DOMAIN s /\ u[i] = s[i]
        BY <2>3, <3>1
      <3>2. CASE i - N \in DOMAIN m /\ u[i] = m[i - N]
        <4>1. i - N < j - N
          BY <1>1, <2>1
        <4> QED
          BY <2>3, <3>2, <4>1
      <3> QED
        BY <1>1, <3>1, <3>2
    <2> QED
      BY <1>1, <2>2, <2>3
  <1> QED
    BY <1>3, <1>4 DEF u

LEMMA PrecedesConcat ==
    ASSUME NEW s \in Seq(Message), NEW m \in Seq(Message), NEW a, NEW b
    PROVE  /\ Carries(s \o m, a) => Carries(s, a) \/ Carries(m, a)
           /\ Precedes(s \o m, a, b) =>
                \/ Precedes(s, a, b) \/ Precedes(m, a, b)
                \/ Carries(s, a) /\ Carries(m, b)
  <1> DEFINE u == s \o m
  <1>1. MadeOf(u, s, m) /\ OrderOf(u, s, m)
    BY ConcatOrder
  <1> HIDE DEF u
  <1>2. Carries(u, a) => Carries(s, a) \/ Carries(m, a)
    BY <1>1 DEF MadeOf, Carries
  <1>3. Precedes(u, a, b) =>
          Precedes(s, a, b) \/ Precedes(m, a, b) \/ (Carries(s, a) /\ Carries(m, b))
    <2> SUFFICES ASSUME NEW i \in DOMAIN u, NEW j \in DOMAIN u, i < j,
                        u[i].type = "SEND", u[j].type = "SEND",
                        u[i].n = a, u[j].n = b
                 PROVE  \/ Precedes(s, a, b) \/ Precedes(m, a, b)
                        \/ Carries(s, a) /\ Carries(m, b)
      BY DEF Precedes
    <2> QED
      BY <1>1 DEF OrderOf, Precedes, Carries
  <1> QED
    BY <1>2, <1>3 DEF u

LEMMA PrecedesTail ==
    ASSUME NEW t, NEW s, Shifted(t, s), NEW a, NEW b
    PROVE  /\ Carries(t, a) => Carries(s, a)
           /\ Precedes(t, a, b) => Precedes(s, a, b)
           /\ s[1].type = "SEND" =>
                Carries(s, s[1].n) /\ (Carries(t, b) => Precedes(s, s[1].n, b))
  <1>1. Carries(t, a) => Carries(s, a)
    BY DEF Carries, Shifted
  <1>2. Precedes(t, a, b) => Precedes(s, a, b)
    <2> SUFFICES ASSUME NEW i \in DOMAIN t, NEW j \in DOMAIN t, i < j,
                        t[i].type = "SEND", t[j].type = "SEND",
                        t[i].n = a, t[j].n = b
                 PROVE  Precedes(s, a, b)
      BY DEF Precedes
    <2>1. /\ i + 1 \in DOMAIN s /\ j + 1 \in DOMAIN s /\ i + 1 < j + 1
          /\ t[i] = s[i + 1] /\ t[j] = s[j + 1]
      BY DEF Shifted
    <2> QED
      BY <2>1 DEF Precedes
  <1>3. ASSUME s[1].type = "SEND", Carries(t, b) PROVE Precedes(s, s[1].n, b)
    <2>1. PICK j \in DOMAIN t : t[j].type = "SEND" /\ t[j].n = b
      BY <1>3 DEF Carries
    <2>2. 1 \in DOMAIN s /\ j + 1 \in DOMAIN s /\ 1 < j + 1 /\ t[j] = s[j + 1]
      BY <2>1 DEF Shifted
    <2> QED
      BY <1>3, <2>1, <2>2 DEF Precedes
  <1>4. s[1].type = "SEND" => Carries(s, s[1].n)
    BY DEF Carries, Shifted
  <1> QED
    BY <1>1, <1>2, <1>3, <1>4

LEMMA CarriesCut ==
    ASSUME NEW t, NEW s, NEW x, Cut(t, s, x), x.type # "SEND", NEW a, NEW b
    PROVE  /\ Carries(t, a) => Carries(s, a)
           /\ Precedes(t, a, b) => Precedes(s, a, b)
  BY DEF Cut, Carries, Precedes

LEMMA CarriesNothing ==
    ASSUME NEW q, \A i \in DOMAIN q : q[i].type # "SEND", NEW a, NEW b
    PROVE  ~Carries(q, a) /\ ~Precedes(q, a, b)
  BY DEF Carries, Precedes

\* The line only lost messages, and nothing was sent.
LEMMA StillOrdered ==
    ASSUME NEW d \in Ends, OrderedAt(d),
           sent'[Other(d)] = sent[Other(d)], early[Other(d)] \subseteq early'[Other(d)],
           \A a : OnTheWay(d, a)' => OnTheWay(d, a),
           \A a, b : Ahead(d, a, b)' => Ahead(d, a, b)
    PROVE  OrderedAt(d)'
  BY DEF OrderedAt

\* Handing over the queue keeps the order of the line.
LEMMA HandedQueue ==
    ASSUME TypeOK, NEW e \in Ends, got'[e] = got[e] \o Numbers(inq[e]), NEW a, NEW b
    PROVE  /\ Delivered(e, a)' => Delivered(e, a) \/ Carries(inq[e], a)
           /\ HandedBefore(e, a, b)' =>
                \/ HandedBefore(e, a, b) \/ Precedes(inq[e], a, b)
                \/ Delivered(e, a) /\ Carries(inq[e], b)
  <1> DEFINE N == Numbers(inq[e])
             u == got[e] \o N
  <1>1. /\ N \in Seq(1..MaxSends) /\ got[e] \in Seq(1..MaxSends)
        /\ DOMAIN N = DOMAIN inq[e]
        /\ \A j \in DOMAIN inq[e] : N[j] = inq[e][j].n /\ inq[e][j].type = "SEND"
    <2>1. /\ inq[e] \in Seq(DataMsg) /\ Len(inq[e]) \in Nat
          /\ DOMAIN inq[e] = 1..Len(inq[e]) /\ got[e] \in Seq(1..MaxSends)
          /\ \A j \in DOMAIN inq[e] : inq[e][j] \in DataMsg
      BY QueueFacts, LenProperties, ElementOfSeq
    <2>2. N \in Seq(1..MaxSends)
      BY <2>1, NumbersFacts
    <2> QED
      BY <2>1, <2>2 DEF Numbers, DataMsg
  <1> HIDE DEF N
  <1>2. MadeOf(u, got[e], N) /\ OrderOf(u, got[e], N)
    BY <1>1, ConcatOrder
  <1>3. got'[e] = u
    BY DEF N
  <1> HIDE DEF u
  <1>4. Delivered(e, a)' => Delivered(e, a) \/ Carries(inq[e], a)
    BY <1>1, <1>2, <1>3 DEF MadeOf, Delivered, Carries
  <1>5. HandedBefore(e, a, b)' =>
          \/ HandedBefore(e, a, b) \/ Precedes(inq[e], a, b)
          \/ Delivered(e, a) /\ Carries(inq[e], b)
    <2> SUFFICES ASSUME NEW i \in DOMAIN u, NEW j \in DOMAIN u, i < j,
                        u[i] = a, u[j] = b
                 PROVE  \/ HandedBefore(e, a, b) \/ Precedes(inq[e], a, b)
                        \/ Delivered(e, a) /\ Carries(inq[e], b)
      BY <1>3 DEF HandedBefore
    <2>1. CASE \E g, h \in DOMAIN got[e] : g < h /\ u[i] = got[e][g] /\ u[j] = got[e][h]
      BY <2>1 DEF HandedBefore
    <2>2. CASE \E g \in DOMAIN got[e], h \in DOMAIN N : u[i] = got[e][g] /\ u[j] = N[h]
      BY <1>1, <2>2 DEF Delivered, Carries
    <2>3. CASE \E g, h \in DOMAIN N : g < h /\ u[i] = N[g] /\ u[j] = N[h]
      BY <1>1, <2>3 DEF Precedes
    <2> QED
      BY <1>2, <2>1, <2>2, <2>3 DEF OrderOf
  <1> QED
    BY <1>4, <1>5

\* What an end composes follows on what it sent before.
LEMMA ComposedNumbers ==
    ASSUME NEW e \in Ends, NEW k \in 0..1, NEW asked \in BOOLEAN, NEW c,
           sent[e] \in Nat, NEW a, NEW b
    PROVE  /\ Carries(Composed(e, k, asked, c), a) => a = sent[e] + 1 /\ k = 1
           /\ ~Precedes(Composed(e, k, asked, c), a, b)
  <1> DEFINE C == Composed(e, k, asked, c)
  <1>1. C = [i \in 1..k |-> Data(sent[e] + i, asked, c)]
    BY DEF Composed
  <1>2. DOMAIN C = 1..k /\ \A i \in 1..k : i = 1 /\ k = 1 /\ C[i].n = sent[e] + 1
    BY <1>1 DEF Data
  <1> HIDE DEF C
  <1>3. (Carries(C, a) => a = sent[e] + 1 /\ k = 1) /\ ~Precedes(C, a, b)
    BY <1>2 DEF Carries, Precedes
  <1> QED
    BY <1>3 DEF C

LEMMA OrderedOpened ==
    ASSUME TypeOK, Ordered, NEW e \in Ends, NEW c \in Ciphers \cup {Plaintext},
           NEW k \in 0..1, NEW asked \in BOOLEAN, NEW rest,
           NEW first \in Seq(Message), Opened(e, c, k, asked, rest, first),
           \A i \in DOMAIN first : first[i].type # "SEND",
           \A a : Carries(rest, a) => Carries(net[e], a),
           \A a, b : Precedes(rest, a, b) => Precedes(net[e], a, b)
    PROVE  Ordered'
  <1> DEFINE C == Composed(e, k, asked, c)
             F == first \o C
             M == F \o outq[e]
  <1>1. OpenedTo(e, c, k, rest, first, C, M)
    BY OpenedView
  <1>2. \A a : Carries(C, a) => a = sent[e] + 1 /\ k = 1
    <2> TAKE a
    <2>1. sent[e] \in Nat
      BY QueueFacts
    <2>2. (Carries(C, a) => a = sent[e] + 1 /\ k = 1) /\ ~Precedes(C, a, a)
      BY <2>1, ComposedNumbers
    <2> QED
      BY <2>2
  <1>3. \A a, b : ~Precedes(C, a, b)
    <2> TAKE a, b
    <2>1. sent[e] \in Nat
      BY QueueFacts
    <2> QED
      BY <2>1, ComposedNumbers
  <1>4. C \in Seq(Message) /\ outq[e] \in Seq(Message)
    <2>1. sent[e] + k <= MaxSends
      BY DEF Opened
    <2> QED
      BY <2>1, QueueFacts, ComposedFacts, DataIsMessage
  <1> HIDE DEF C
  <1>5. F \in Seq(Message)
    BY <1>4, ConcatProperties
  <1>6. \A a, b : /\ Carries(F, a) => Carries(C, a)
                  /\ ~Precedes(F, a, b)
    <2> TAKE a, b
    <2>1. ~Carries(first, a) /\ ~Precedes(first, a, b)
      BY CarriesNothing
    <2>2. /\ Carries(F, a) => Carries(first, a) \/ Carries(C, a)
          /\ Precedes(F, a, b) =>
               \/ Precedes(first, a, b) \/ Precedes(C, a, b)
               \/ Carries(first, a) /\ Carries(C, b)
      BY <1>4, PrecedesConcat
    <2> QED
      BY <1>3, <2>1, <2>2
  <1> HIDE DEF F
  <1>7. M \in Seq(Message)
    BY <1>4, <1>5, ConcatProperties
  <1>8. \A a, b : /\ Carries(M, a) => Carries(C, a) \/ Carries(outq[e], a)
                  /\ Precedes(M, a, b) =>
                       \/ Precedes(outq[e], a, b)
                       \/ Carries(C, a) /\ Carries(outq[e], b)
    <2> TAKE a, b
    <2>1. /\ Carries(M, a) => Carries(F, a) \/ Carries(outq[e], a)
          /\ Precedes(M, a, b) =>
               \/ Precedes(F, a, b) \/ Precedes(outq[e], a, b)
               \/ Carries(F, a) /\ Carries(outq[e], b)
      BY <1>4, <1>5, PrecedesConcat
    <2> QED
      BY <1>6, <2>1
  <1> HIDE DEF M
  <1>9. /\ net'[e] = rest
        /\ outq'[e] = <<>> /\ outq'[Other(e)] = outq[Other(e)]
        /\ inq'[e] = <<>> /\ inq'[Other(e)] = inq[Other(e)]
        /\ got'[e] = got[e] \o Numbers(inq[e]) /\ got'[Other(e)] = got[Other(e)]
        /\ sent'[e] = sent[e] + k /\ sent'[Other(e)] = sent[Other(e)]
        /\ early'[e] = early[e] \cup (sent[e] + 1)..(sent[e] + k)
        /\ early'[Other(e)] = early[Other(e)]
        /\ Both => net'[Other(e)] = net[Other(e)] \o M
        /\ ~Both => net'[Other(e)] = net[Other(e)]
    BY <1>1 DEF OpenedTo
  <1>10. \A a, b : ~Carries(<<>>, a) /\ ~Precedes(<<>>, a, b)
    BY DEF Carries, Precedes
  <1>11. OrderedAt(e)'
    <2>1. ASSUME NEW a, OnTheWay(e, a)' PROVE OnTheWay(e, a)
      <3>1. Delivered(e, a)' => Delivered(e, a) \/ Carries(inq[e], a)
        BY <1>9, HandedQueue
      <3> QED
        BY <1>9, <1>10, <2>1, <3>1 DEF OnTheWay
    <2>2. ASSUME NEW a, NEW b, Ahead(e, a, b)' PROVE Ahead(e, a, b)
      <3>1. /\ Delivered(e, a)' => Delivered(e, a) \/ Carries(inq[e], a)
            /\ HandedBefore(e, a, b)' =>
                 \/ HandedBefore(e, a, b) \/ Precedes(inq[e], a, b)
                 \/ Delivered(e, a) /\ Carries(inq[e], b)
        BY <1>9, HandedQueue
      <3> QED
        BY <1>9, <1>10, <2>2, <3>1 DEF Ahead
    <2>3. OrderedAt(e)
      BY OrderedEnds
    <2> QED
      BY <1>9, <2>1, <2>2, <2>3, StillOrdered
  <1>12. OrderedAt(Other(e))'
    <2> DEFINE d == Other(e)
    <2>1. d \in Ends /\ Other(d) = e /\ sent[e] \in Nat /\ net[d] \in Seq(Message)
      BY EndsFacts, QueueFacts
    <2>2. \A a, b : /\ Carries(net'[d], a) => Carries(net[d], a) \/ Carries(M, a)
                    /\ Precedes(net'[d], a, b) =>
                         \/ Precedes(net[d], a, b) \/ Precedes(M, a, b)
                         \/ Carries(net[d], a) /\ Carries(M, b)
      <3> TAKE a, b
      <3>1. CASE Both
        <4>1. net'[d] = net[d] \o M
          BY <1>9, <3>1
        <4>2. ASSUME NEW q \in Seq(Message), NEW m \in Seq(Message)
              PROVE  /\ Carries(q \o m, a) => Carries(q, a) \/ Carries(m, a)
                     /\ Precedes(q \o m, a, b) =>
                          \/ Precedes(q, a, b) \/ Precedes(m, a, b)
                          \/ Carries(q, a) /\ Carries(m, b)
          BY PrecedesConcat
        <4> QED
          BY <1>7, <2>1, <4>1, <4>2, Zenon
      <3>2. CASE ~Both
        BY <1>9, <3>2
      <3> QED
        BY <3>1, <3>2
    <2>3. got'[d] = got[d] /\ inq'[d] = inq[d] /\ outq'[e] = <<>>
      BY <1>9
    <2>4. OrderedAt(d)
      BY OrderedEnds
    <2> HIDE DEF d
    <2>5. \A a : /\ Delivered(d, a)' <=> Delivered(d, a)
                 /\ \A b : HandedBefore(d, a, b)' <=> HandedBefore(d, a, b)
      BY <2>3 DEF Delivered, HandedBefore
    <2>6. ASSUME NEW a, OnTheWay(d, a)' PROVE OnTheWay(d, a) \/ Carries(C, a)
      BY <1>8, <1>10, <2>1, <2>2, <2>3, <2>5, <2>6 DEF OnTheWay
    <2>7. ASSUME NEW a, NEW b, Ahead(d, a, b)'
          PROVE  \/ Ahead(d, a, b)
                 \/ OnTheWay(d, a) /\ Carries(C, b)
                 \/ Carries(C, a) /\ OnTheWay(d, b)
      <3>1. \/ HandedBefore(d, a, b) \/ Precedes(inq[d], a, b)
            \/ Precedes(net'[d], a, b)
            \/ Delivered(d, a) /\ Carries(inq[d], b)
            \/ Delivered(d, a) /\ Carries(net'[d], b)
            \/ Carries(inq[d], a) /\ Carries(net'[d], b)
        BY <1>10, <2>1, <2>3, <2>5, <2>7 DEF Ahead
      <3>2. Carries(net'[d], b) => \/ Carries(net[d], b) \/ Carries(C, b)
                                   \/ Carries(outq[e], b)
        BY <1>8, <2>2
      <3>3. Precedes(net'[d], a, b) =>
              \/ Precedes(net[d], a, b) \/ Precedes(outq[e], a, b)
              \/ Carries(C, a) /\ Carries(outq[e], b)
              \/ Carries(net[d], a) /\ Carries(C, b)
              \/ Carries(net[d], a) /\ Carries(outq[e], b)
        BY <1>8, <2>2
      <3> QED
        BY <2>1, <3>1, <3>2, <3>3 DEF Ahead, OnTheWay
    <2>8. \A a : OnTheWay(d, a) => a \in 1..sent[e]
      BY <2>1, <2>4 DEF OrderedAt
    <2>9. \A a, b : Ahead(d, a, b) => a < b \/ a \in early[e] \ {b}
      BY <2>1, <2>4 DEF OrderedAt
    <2>10. ASSUME NEW a, OnTheWay(d, a)' PROVE a \in 1..sent'[e]
      BY <1>2, <1>9, <2>1, <2>6, <2>8, <2>10
    <2>11. ASSUME NEW a, NEW b, Ahead(d, a, b)'
           PROVE  a < b \/ a \in early'[e] \ {b}
      <3>1. CASE Ahead(d, a, b)
        BY <1>9, <2>9, <3>1
      <3>2. CASE OnTheWay(d, a) /\ Carries(C, b)
        BY <1>2, <2>1, <2>8, <3>2
      <3>3. CASE Carries(C, a) /\ OnTheWay(d, b)
        BY <1>2, <1>9, <2>1, <2>8, <3>3
      <3> QED
        BY <2>7, <2>11, <3>1, <3>2, <3>3
    <2>12. OrderedAt(d)'
      BY <2>1, <2>10, <2>11 DEF OrderedAt
    <2> QED
      BY <2>12 DEF d
  <1> QED
    BY <1>11, <1>12, OrderedEnds

LEMMA OrderedOpenedInc ==
    ASSUME TypeOK, Ordered, NEW c \in Ciphers \cup {Plaintext},
           NEW k \in 0..1, NEW asked \in BOOLEAN, OpenedInc(c, k, asked)
    PROVE  Ordered'
  <1>1. <<Accept(c)>> \in Seq(Message)
    BY DEF Accept, Message
  <1>2. \A i \in DOMAIN <<Accept(c)>> : <<Accept(c)>>[i].type # "SEND"
    BY DEF Accept
  <1>3. Opened("inc", c, k, asked, net["inc"], <<Accept(c)>>)
    BY DEF OpenedInc
  <1> QED
    BY <1>1, <1>2, <1>3, EndsFacts, OrderedOpened

LEMMA OrderedOpenedOut ==
    ASSUME TypeOK, Ordered, NEW k \in 0..1, NEW asked \in BOOLEAN,
           OpenedOut(k, asked)
    PROVE  Ordered'
  <1> DEFINE c == Head(net["out"]).item
             rest == Tail(net["out"])
  <1>1. /\ net["out"] # <<>> /\ net["out"] \in Seq(Message)
        /\ Head(net["out"]).type = "ACCEPT"
    BY NetFacts DEF OpenedOut, Receives
  <1>2. c \in Ciphers \cup {Plaintext}
    <2>1. Head(net["out"]) \in Message
      BY <1>1, HeadTailProperties
    <2> QED
      BY <1>1, <2>1, MessageFacts
  <1>3. Shifted(rest, net["out"])
    BY <1>1, ShiftedTail
  <1>4. Opened("out", c, k, asked, rest, <<>>) /\ <<>> \in Seq(Message)
        /\ \A i \in DOMAIN <<>> : <<>>[i].type # "SEND"
    BY DEF OpenedOut
  <1> HIDE DEF c, rest
  <1>5. /\ \A a : Carries(rest, a) => Carries(net["out"], a)
        /\ \A a, b : Precedes(rest, a, b) => Precedes(net["out"], a, b)
    BY <1>3, PrecedesTail
  <1> QED
    BY <1>2, <1>4, <1>5, EndsFacts, OrderedOpened

\* The data messages of t are some of those of s, in the same order.
Thins(t, s) ==
    /\ \A a : Carries(t, a) => Carries(s, a)
    /\ \A a, b : Precedes(t, a, b) => Precedes(s, a, b)

LEMMA ThinsTail ==
    ASSUME NEW t, NEW s, t = s \/ Shifted(t, s)
    PROVE  Thins(t, s)
  BY PrecedesTail DEF Thins

LEMMA ThinsCut ==
    ASSUME NEW t, NEW s, NEW x, Cut(t, s, x), x.type # "SEND"
    PROVE  Thins(t, s)
  BY CarriesCut DEF Thins

LEMMA ThinsNothing ==
    ASSUME NEW t, NEW s, \A i \in DOMAIN t : t[i].type # "SEND"
    PROVE  Thins(t, s)
  BY CarriesNothing DEF Thins

LEMMA ThinsExtends ==
    ASSUME NEW t, NEW s, NEW m, Extends(t, s, m),
           \A j \in DOMAIN m : m[j].type # "SEND"
    PROVE  Thins(t, s)
  <1>1. \A i \in DOMAIN t : t[i].type = "SEND" => i \in DOMAIN s /\ t[i] = s[i]
    BY DEF Extends
  <1> QED
    BY <1>1 DEF Thins, Carries, Precedes

\* A line that only lost messages is still ordered.
LEMMA ThinnedOrdered ==
    ASSUME NEW d \in Ends, OrderedAt(d), got'[d] = got[d],
           Thins(inq'[d], inq[d]), Thins(net'[d], net[d]),
           Thins(outq'[Other(d)], outq[Other(d)]),
           sent'[Other(d)] = sent[Other(d)], early'[Other(d)] = early[Other(d)]
    PROVE  OrderedAt(d)'
  <1>1. \A a : Delivered(d, a)' <=> Delivered(d, a)
    BY DEF Delivered
  <1>2. \A a, b : HandedBefore(d, a, b)' <=> HandedBefore(d, a, b)
    BY DEF HandedBefore
  <1>3. ASSUME NEW a, OnTheWay(d, a)' PROVE OnTheWay(d, a)
    BY <1>1, <1>3 DEF OnTheWay, Thins
  <1>4. ASSUME NEW a, NEW b, Ahead(d, a, b)' PROVE Ahead(d, a, b)
    BY <1>1, <1>2, <1>4 DEF Ahead, Thins
  <1> QED
    BY <1>3, <1>4, StillOrdered

\* Neither line changes at its sender.
LEMMA OrderedUnsent ==
    ASSUME Ordered, NEW e \in Ends, got' = got, sent' = sent, early' = early,
           Thins(inq'[e], inq[e]), Thins(inq'[Other(e)], inq[Other(e)]),
           Thins(net'[e], net[e]), Thins(net'[Other(e)], net[Other(e)]),
           Thins(outq'[e], outq[e]), Thins(outq'[Other(e)], outq[Other(e)])
    PROVE  Ordered'
  <1>1. OrderedAt(e) /\ OrderedAt(Other(e)) /\ Other(e) \in Ends /\ Other(Other(e)) = e
    BY OrderedEnds, EndsFacts
  <1>2. OrderedAt(e)'
    BY <1>1, ThinnedOrdered
  <1>3. OrderedAt(Other(e))'
    BY <1>1, ThinnedOrdered
  <1> QED
    BY <1>2, <1>3, OrderedEnds

LEMMA OrderedQuiet ==
    ASSUME TypeOK, NetShape, Unborn, Ordered,
           \/ \E p \in Policy : Created(p)
           \/ \E c \in Ciphers \cup {Plaintext} : Failed(c)
           \/ \E e \in Ends, msgs \in {<<>>, <<Destroy>>} : Shut(e, msgs)
           \/ Offered("WAIT", <<>>)
           \/ Offered("gone", <<Destroy>>)
           \/ \E e \in Ends : Dropped(e)
           \/ \E e \in Ends : \E n \in 0..Len(net[Other(e)]) : Broken(e, n)
           \/ UNCHANGED <<up, st, cipher, outq, inq, net, sent, early, got>>
    PROVE  Ordered'
  <1>1. /\ "out" \in Ends /\ "inc" \in Ends
        /\ Other("out") = "inc" /\ Other("inc") = "out"
    BY EndsFacts
  <1>2. \A s : Thins(s, s)
    BY DEF Thins
  <1>3. \A s : Thins(<<>>, s)
    BY DEF Thins, Carries, Precedes
  <1>4. ASSUME NEW p \in Policy, Created(p) PROVE Ordered'
    <2>1. /\ net'["out"] = net["out"]
          /\ \A i \in DOMAIN net'["inc"] : net'["inc"][i].type # "SEND"
          /\ UNCHANGED <<up, cipher, outq, inq, sent, early, got>>
      BY <1>4, CreatedView
    <2>2. Thins(net'["inc"], net["inc"])
      BY <2>1, ThinsNothing
    <2> QED
      BY <1>1, <1>2, <2>1, <2>2, OrderedUnsent
  <1>5. ASSUME NEW c \in Ciphers \cup {Plaintext}, Failed(c) PROVE Ordered'
    <2>1. UNCHANGED <<outq, inq, net, sent, early, got>>
      BY <1>5 DEF Failed
    <2> QED
      BY <1>1, <1>2, <2>1, OrderedUnsent
  <1>6. ASSUME NEW e \in Ends, NEW msgs \in {<<>>, <<Destroy>>}, Shut(e, msgs)
        PROVE  Ordered'
    <2>1. /\ net'[e] = net[e] \/ Shifted(net'[e], net[e])
          /\ Extends(net'[Other(e)], net[Other(e)], msgs)
          /\ \A j \in DOMAIN msgs : msgs[j].type = "DESTROY"
          /\ outq'[e] = <<>> /\ outq'[Other(e)] = outq[Other(e)]
          /\ inq'[e] = <<>> /\ inq'[Other(e)] = inq[Other(e)]
          /\ UNCHANGED <<up, cipher, sent, early, got>>
      BY <1>6, ShutView
    <2>2. Thins(net'[e], net[e])
      BY <2>1, ThinsTail
    <2>3. Thins(net'[Other(e)], net[Other(e)])
      BY <2>1, ThinsExtends
    <2> QED
      BY <1>2, <1>3, <2>1, <2>2, <2>3, OrderedUnsent
  <1>7. CASE Offered("WAIT", <<>>) \/ Offered("gone", <<Destroy>>)
    <2>1. /\ Shifted(net'["inc"], net["inc"])
          /\ \A i \in DOMAIN net'["out"] : net'["out"][i].type = "DESTROY"
          /\ UNCHANGED <<up, cipher, outq, inq, sent, early, got>>
      BY <1>7, OfferedView
    <2>2. Thins(net'["inc"], net["inc"]) /\ Thins(net'["out"], net["out"])
      BY <2>1, ThinsTail, ThinsNothing
    <2> QED
      BY <1>1, <1>2, <2>1, <2>2, OrderedUnsent
  <1>8. ASSUME NEW e \in Ends, Dropped(e) PROVE Ordered'
    <2>1. /\ Shifted(net'[e], net[e]) /\ net'[Other(e)] = net[Other(e)]
          /\ UNCHANGED <<up, cipher, outq, sent, early>>
      BY <1>8, ReadView
    <2>2. inq' = inq /\ got' = got
      BY <1>8 DEF Dropped
    <2>3. Thins(net'[e], net[e])
      BY <2>1, ThinsTail
    <2> QED
      BY <1>2, <2>1, <2>2, <2>3, OrderedUnsent
  <1>9. ASSUME NEW e \in Ends, NEW n \in 0..Len(net[Other(e)]), Broken(e, n)
        PROVE  Ordered'
    <2>1. /\ Cut(net'[Other(e)], net[Other(e)], Destroy)
          /\ net'[e] = <<>> /\ Destroy.type = "DESTROY"
          /\ UNCHANGED <<st, cipher, outq, inq, sent, early, got>>
      BY <1>9, BrokenView
    <2>2. Thins(net'[Other(e)], net[Other(e)])
      BY <2>1, ThinsCut
    <2> QED
      BY <1>2, <1>3, <2>1, <2>2, OrderedUnsent
  <1>10. CASE UNCHANGED <<up, st, cipher, outq, inq, net, sent, early, got>>
    BY <1>1, <1>10, <1>2, OrderedUnsent
  <1> QED
    BY <1>4, <1>5, <1>6, <1>7, <1>8, <1>9, <1>10

LEMMA ComposedOne ==
    ASSUME NEW e \in Ends, NEW asked \in BOOLEAN, NEW c, sent[e] \in Nat, NEW a, NEW b
    PROVE  /\ Carries(Composed(e, 1, asked, c), a) => a = sent[e] + 1
           /\ ~Precedes(Composed(e, 1, asked, c), a, b)
  <1>1. \A k \in 0..1 :
          /\ Carries(Composed(e, k, asked, c), a) => a = sent[e] + 1 /\ k = 1
          /\ ~Precedes(Composed(e, k, asked, c), a, b)
    BY ComposedNumbers
  <1> QED
    BY <1>1

\* One more message, at the end of a line.
LEMMA OrderedSent ==
    ASSUME TypeOK, NEW d \in Ends, OrderedAt(d),
           \A a : OnTheWay(d, a)' => OnTheWay(d, a) \/ a = sent[Other(d)] + 1,
           \A a, b : Ahead(d, a, b)' =>
               \/ Ahead(d, a, b)
               \/ OnTheWay(d, a) /\ b = sent[Other(d)] + 1,
           sent'[Other(d)] = sent[Other(d)] + 1, early'[Other(d)] = early[Other(d)]
    PROVE  OrderedAt(d)'
  <1>1. sent[Other(d)] \in Nat
    BY EndsFacts, QueueFacts
  <1>2. \A a : OnTheWay(d, a) => a \in 1..sent[Other(d)]
    BY DEF OrderedAt
  <1>3. \A a, b : Ahead(d, a, b) => a < b \/ a \in early[Other(d)] \ {b}
    BY DEF OrderedAt
  <1>4. ASSUME NEW a, OnTheWay(d, a)' PROVE a \in 1..sent'[Other(d)]
    BY <1>1, <1>2, <1>4
  <1>5. ASSUME NEW a, NEW b, Ahead(d, a, b)'
        PROVE  a < b \/ a \in early'[Other(d)] \ {b}
    <2>1. CASE Ahead(d, a, b)
      BY <1>3, <2>1
    <2>2. CASE OnTheWay(d, a) /\ b = sent[Other(d)] + 1
      BY <1>1, <1>2, <2>2
    <2> QED
      BY <1>5, <2>1, <2>2
  <1> QED
    BY <1>4, <1>5 DEF OrderedAt

LEMMA OrderedWritten ==
    ASSUME ChannelConsistent, EagerEmpty, Ordered, NEW e \in Ends,
           NEW asked \in BOOLEAN, Written(e, asked)
    PROVE  Ordered'
  <1> DEFINE M == Composed(e, 1, asked, cipher[e])
             d == Other(e)
  <1>1. WroteTo(e, M) /\ TypeOK
    BY WrittenView DEF ChannelConsistent
  <1>2. \A a, b : (Carries(M, a) => a = sent[e] + 1) /\ ~Precedes(M, a, b)
    <2> TAKE a, b
    <2>1. sent[e] \in Nat
      BY <1>1, QueueFacts
    <2> QED
      BY <2>1, ComposedOne
  <1> HIDE DEF M
  <1>3. /\ net'[e] = net[e] /\ outq' = outq /\ inq' = inq /\ got' = got
        /\ sent'[e] = sent[e] + 1 /\ sent'[Other(e)] = sent[Other(e)]
        /\ Both => net'[Other(e)] = net[Other(e)] \o M
        /\ ~Both => net'[Other(e)] = net[Other(e)]
        /\ M \in Seq(Message) /\ early' = early
    BY <1>1 DEF WroteTo
  <1>4. outq[e] = <<>>
    BY EndsFacts DEF Written, Writes, EagerEmpty, ChannelConsistent, OpenIsFlushed
  <1>5. OrderedAt(e)'
    <2>1. OrderedAt(e) /\ \A s : Thins(s, s)
      BY OrderedEnds DEF Thins
    <2> QED
      BY <1>3, <2>1, ThinnedOrdered
  <1>6. OrderedAt(d)'
    <2>1. d \in Ends /\ Other(d) = e /\ net[d] \in Seq(Message)
      BY <1>1, EndsFacts, QueueFacts
    <2>2. \A a, b : /\ Carries(net'[d], a) => Carries(net[d], a) \/ Carries(M, a)
                    /\ Precedes(net'[d], a, b) =>
                         \/ Precedes(net[d], a, b) \/ Precedes(M, a, b)
                         \/ Carries(net[d], a) /\ Carries(M, b)
      <3> TAKE a, b
      <3>1. CASE Both
        <4>1. net'[d] = net[d] \o M
          BY <1>3, <3>1
        <4> QED
          BY <1>3, <2>1, <4>1, PrecedesConcat
      <3>2. CASE ~Both
        BY <1>3, <3>2
      <3> QED
        BY <3>1, <3>2
    <2>3. /\ got'[d] = got[d] /\ inq'[d] = inq[d]
          /\ outq[e] = <<>> /\ outq'[e] = <<>>
      BY <1>3, <1>4
    <2>4. OrderedAt(d) /\ sent'[Other(d)] = sent[Other(d)] + 1
          /\ early'[Other(d)] = early[Other(d)]
      BY <1>3, <2>1, OrderedEnds
    <2> HIDE DEF d
    <2>5. /\ \A a : Delivered(d, a)' <=> Delivered(d, a)
          /\ \A a, b : HandedBefore(d, a, b)' <=> HandedBefore(d, a, b)
      BY <2>3 DEF Delivered, HandedBefore
    <2>6. \A a, b : ~Carries(<<>>, a) /\ ~Precedes(<<>>, a, b)
      BY DEF Carries, Precedes
    <2>7. ASSUME NEW a, OnTheWay(d, a)'
          PROVE  OnTheWay(d, a) \/ a = sent[Other(d)] + 1
      BY <1>2, <2>1, <2>2, <2>3, <2>5, <2>7 DEF OnTheWay
    <2>8. ASSUME NEW a, NEW b, Ahead(d, a, b)'
          PROVE  Ahead(d, a, b) \/ (OnTheWay(d, a) /\ b = sent[Other(d)] + 1)
      <3>1. \/ HandedBefore(d, a, b) \/ Precedes(inq[d], a, b)
            \/ Precedes(net'[d], a, b)
            \/ Delivered(d, a) /\ Carries(inq[d], b)
            \/ Delivered(d, a) /\ Carries(net'[d], b)
            \/ Carries(inq[d], a) /\ Carries(net'[d], b)
        BY <2>1, <2>3, <2>5, <2>6, <2>8 DEF Ahead
      <3>2. Carries(net'[d], b) => Carries(net[d], b) \/ b = sent[Other(d)] + 1
        BY <1>2, <2>1, <2>2
      <3>3. Precedes(net'[d], a, b) =>
              \/ Precedes(net[d], a, b)
              \/ Carries(net[d], a) /\ b = sent[Other(d)] + 1
        BY <1>2, <2>1, <2>2
      <3> QED
        BY <3>1, <3>2, <3>3 DEF Ahead, OnTheWay
    <2>9. OrderedAt(d)'
      BY <1>1, <2>1, <2>4, <2>7, <2>8, OrderedSent
    <2> QED
      BY <2>9
  <1> QED
    BY <1>5, <1>6, OrderedEnds

LEMMA OrderedWaits ==
    ASSUME TypeOK, Ordered, NEW e \in Ends, NEW asked \in BOOLEAN, Waits(e, asked)
    PROVE  Ordered'
  <1> DEFINE M == Composed(e, 1, asked, cipher[e])
             d == Other(e)
  <1>1. /\ outq'[e] = outq[e] \o M /\ outq'[Other(e)] = outq[Other(e)]
        /\ sent'[e] = sent[e] + 1 /\ sent'[Other(e)] = sent[Other(e)]
        /\ inq' = inq /\ net' = net /\ got' = got /\ early' = early
    BY EndsFacts DEF Waits, Queued, TypeOK
  <1>2. outq[e] \in Seq(Message) /\ M \in Seq(Message)
    <2>1. sent[e] + 1 <= MaxSends /\ cipher[e] \in Ciphers \cup {Plaintext}
      BY QueueFacts DEF Waits, TypeOK
    <2> QED
      BY <2>1, QueueFacts, ComposedFacts, DataIsMessage
  <1>3. \A a, b : (Carries(M, a) => a = sent[e] + 1) /\ ~Precedes(M, a, b)
    <2> TAKE a, b
    <2>1. sent[e] \in Nat
      BY QueueFacts
    <2> QED
      BY <2>1, ComposedOne
  <1> HIDE DEF M
  <1>4. OrderedAt(e)'
    <2>1. OrderedAt(e) /\ \A s : Thins(s, s)
      BY OrderedEnds DEF Thins
    <2> QED
      BY <1>1, <2>1, ThinnedOrdered
  <1>5. OrderedAt(d)'
    <2>1. d \in Ends /\ Other(d) = e
      BY EndsFacts
    <2>2. \A a, b : /\ Carries(outq'[e], a) => Carries(outq[e], a) \/ Carries(M, a)
                    /\ Precedes(outq'[e], a, b) =>
                         \/ Precedes(outq[e], a, b) \/ Precedes(M, a, b)
                         \/ Carries(outq[e], a) /\ Carries(M, b)
      <3> TAKE a, b
      <3> QED
        BY <1>1, <1>2, PrecedesConcat
    <2>3. got'[d] = got[d] /\ inq'[d] = inq[d] /\ net'[d] = net[d]
      BY <1>1
    <2>4. OrderedAt(d) /\ sent'[Other(d)] = sent[Other(d)] + 1
          /\ early'[Other(d)] = early[Other(d)]
      BY <1>1, <2>1, OrderedEnds
    <2> HIDE DEF d
    <2>5. /\ \A a : Delivered(d, a)' <=> Delivered(d, a)
          /\ \A a, b : HandedBefore(d, a, b)' <=> HandedBefore(d, a, b)
      BY <2>3 DEF Delivered, HandedBefore
    <2>6. ASSUME NEW a, OnTheWay(d, a)'
          PROVE  OnTheWay(d, a) \/ a = sent[Other(d)] + 1
      BY <1>3, <2>1, <2>2, <2>3, <2>5, <2>6 DEF OnTheWay
    <2>7. ASSUME NEW a, NEW b, Ahead(d, a, b)'
          PROVE  Ahead(d, a, b) \/ (OnTheWay(d, a) /\ b = sent[Other(d)] + 1)
      <3>1. \/ Ahead(d, a, b)
            \/ Precedes(outq'[e], a, b)
            \/ Delivered(d, a) /\ Carries(outq'[e], b)
            \/ Carries(inq[d], a) /\ Carries(outq'[e], b)
            \/ Carries(net[d], a) /\ Carries(outq'[e], b)
        BY <2>1, <2>3, <2>5, <2>7 DEF Ahead
      <3>2. Carries(outq'[e], b) => Carries(outq[e], b) \/ b = sent[Other(d)] + 1
        BY <1>3, <2>1, <2>2
      <3>3. Precedes(outq'[e], a, b) =>
              \/ Precedes(outq[e], a, b)
              \/ Carries(outq[e], a) /\ b = sent[Other(d)] + 1
        BY <1>3, <2>1, <2>2
      <3> QED
        BY <2>1, <3>1, <3>2, <3>3 DEF Ahead, OnTheWay
    <2>8. OrderedAt(d)'
      BY <2>1, <2>4, <2>6, <2>7, OrderedSent
    <2> QED
      BY <2>8
  <1> QED
    BY <1>4, <1>5, OrderedEnds

\* Message h goes from the front of one part of a line to the end of the part
\* before it.
LEMMA OrderedRead ==
    ASSUME ChannelConsistent, Ordered, NEW e \in Ends, Handed(e) \/ Kept(e)
    PROVE  Ordered'
  <1> DEFINE m == Head(net[e])
  <1>1. TypeOK
    BY DEF ChannelConsistent
  <1>2. /\ Shifted(net'[e], net[e]) /\ m = net[e][1]
        /\ net'[Other(e)] = net[Other(e)]
        /\ UNCHANGED <<up, cipher, outq, sent, early>>
    BY <1>1, ReadView
  <1>3. /\ inq'[Other(e)] = inq[Other(e)] /\ got'[Other(e)] = got[Other(e)]
        /\ m \in DataMsg /\ m.type = "SEND"
    <2>1. Receives(e, "SEND")
      BY DEF Handed, Kept
    <2>2. m \in Message /\ m.type = "SEND"
      BY <1>1, <2>1, QueueFacts DEF Receives
    <2>3. m \in DataMsg
      BY <2>2, MessageFacts
    <2> QED
      BY <1>1, <2>2, <2>3, EndsFacts DEF Handed, Kept, TypeOK
  <1> DEFINE h == m.n
  <1>4. /\ Carries(net[e], h)
        /\ \A a : Carries(net'[e], a) => Carries(net[e], a) /\ Precedes(net[e], h, a)
        /\ \A a, b : Precedes(net'[e], a, b) => Precedes(net[e], a, b)
    BY <1>2, <1>3, PrecedesTail
  <1>5. OrderedAt(Other(e))'
    <2>1. /\ OrderedAt(Other(e)) /\ Other(e) \in Ends /\ Other(Other(e)) = e
          /\ \A s : Thins(s, s)
      BY OrderedEnds, EndsFacts DEF Thins
    <2> QED
      BY <1>2, <1>3, <2>1, ThinnedOrdered
  <1>6. OrderedAt(e)
    BY OrderedEnds
  <1>7. CASE Handed(e)
    <2>1. /\ got'[e] = Append(got[e], h) /\ inq' = inq /\ inq[e] = <<>>
          /\ got[e] \in Seq(1..MaxSends) /\ h \in 1..MaxSends
      BY <1>1, <1>3, <1>7, QueueFacts
         DEF Handed, TypeOK, ChannelConsistent, OpenIsFlushed, DataMsg
    <2> HIDE DEF m, h
    <2>2. /\ DOMAIN got'[e] = 1..(Len(got[e]) + 1) /\ Len(got[e]) \in Nat
          /\ DOMAIN got[e] = 1..Len(got[e]) /\ got'[e][Len(got[e]) + 1] = h
          /\ \A i \in 1..Len(got[e]) : got'[e][i] = got[e][i]
      BY <2>1, AppendProperties, LenProperties
    <2>3. \A a : Delivered(e, a)' => Delivered(e, a) \/ a = h
      BY <2>2 DEF Delivered
    <2>4. \A a, b : HandedBefore(e, a, b)' =>
            HandedBefore(e, a, b) \/ (Delivered(e, a) /\ b = h)
      <3> SUFFICES ASSUME NEW a, NEW b, NEW i \in DOMAIN got'[e], NEW j \in DOMAIN got'[e],
                          i < j, got'[e][i] = a, got'[e][j] = b
                   PROVE  HandedBefore(e, a, b) \/ (Delivered(e, a) /\ b = h)
        BY DEF HandedBefore
      <3>1. i \in DOMAIN got[e] /\ got[e][i] = a
        BY <2>2
      <3>2. CASE j \in DOMAIN got[e]
        BY <2>2, <3>1, <3>2 DEF HandedBefore
      <3>3. CASE j = Len(got[e]) + 1
        BY <2>2, <3>1, <3>3 DEF Delivered
      <3> QED
        BY <2>2, <3>2, <3>3
    <2>5. \A a, b : ~Carries(<<>>, a) /\ ~Precedes(<<>>, a, b)
      BY DEF Carries, Precedes
    <2>6. inq'[e] = <<>> /\ outq'[Other(e)] = outq[Other(e)]
      BY <1>2, <2>1
    <2>7. ASSUME NEW a, OnTheWay(e, a)' PROVE OnTheWay(e, a)
      BY <1>4, <2>3, <2>5, <2>6, <2>7 DEF OnTheWay
    <2>8. ASSUME NEW a, NEW b, Ahead(e, a, b)' PROVE Ahead(e, a, b)
      <3>1. \/ HandedBefore(e, a, b)' \/ Precedes(net'[e], a, b)
            \/ Precedes(outq[Other(e)], a, b)
            \/ Delivered(e, a)' /\ Carries(net'[e], b)
            \/ Delivered(e, a)' /\ Carries(outq[Other(e)], b)
            \/ Carries(net'[e], a) /\ Carries(outq[Other(e)], b)
        BY <2>5, <2>6, <2>8 DEF Ahead
      <3> QED
        BY <1>4, <2>3, <2>4, <3>1 DEF Ahead
    <2>9. OrderedAt(e)'
      BY <1>2, <1>6, <2>7, <2>8, StillOrdered
    <2> QED
      BY <1>5, <2>9, OrderedEnds
  <1>8. CASE Kept(e)
    <2>1. inq'[e] = inq[e] \o <<m>> /\ got' = got /\ inq[e] \in Seq(DataMsg)
      BY <1>1, <1>8, QueueFacts DEF Kept, Queued, TypeOK
    <2> HIDE DEF m
    <2>2. <<m>> \in Seq(Message) /\ inq[e] \in Seq(Message)
      <3>1. <<m>> \in Seq(DataMsg)
        BY <1>3
      <3> QED
        BY <2>1, <3>1, DataIsMessage
    <2>3. \A a, b : (Carries(<<m>>, a) => a = h) /\ ~Precedes(<<m>>, a, b)
      BY DEF Carries, Precedes
    <2>4. \A a, b : /\ Carries(inq'[e], a) => Carries(inq[e], a) \/ a = h
                    /\ Precedes(inq'[e], a, b) =>
                         Precedes(inq[e], a, b) \/ (Carries(inq[e], a) /\ b = h)
      <3> TAKE a, b
      <3>1. /\ Carries(inq'[e], a) => Carries(inq[e], a) \/ Carries(<<m>>, a)
            /\ Precedes(inq'[e], a, b) =>
                 \/ Precedes(inq[e], a, b) \/ Precedes(<<m>>, a, b)
                 \/ Carries(inq[e], a) /\ Carries(<<m>>, b)
        BY <2>1, <2>2, PrecedesConcat
      <3> QED
        BY <2>3, <3>1
    <2> HIDE DEF h
    <2>5. /\ \A a : Delivered(e, a)' <=> Delivered(e, a)
          /\ \A a, b : HandedBefore(e, a, b)' <=> HandedBefore(e, a, b)
          /\ outq'[Other(e)] = outq[Other(e)]
      BY <1>2, <2>1 DEF Delivered, HandedBefore
    <2>6. ASSUME NEW a, OnTheWay(e, a)' PROVE OnTheWay(e, a)
      BY <1>4, <2>4, <2>5, <2>6 DEF OnTheWay
    <2>7. ASSUME NEW a, NEW b, Ahead(e, a, b)' PROVE Ahead(e, a, b)
      <3>1. \/ HandedBefore(e, a, b) \/ Precedes(inq'[e], a, b)
            \/ Precedes(net'[e], a, b) \/ Precedes(outq[Other(e)], a, b)
            \/ Delivered(e, a) /\ Carries(inq'[e], b)
            \/ Delivered(e, a) /\ Carries(net'[e], b)
            \/ Delivered(e, a) /\ Carries(outq[Other(e)], b)
            \/ Carries(inq'[e], a) /\ Carries(net'[e], b)
            \/ Carries(inq'[e], a) /\ Carries(outq[Other(e)], b)
            \/ Carries(net'[e], a) /\ Carries(outq[Other(e)], b)
        BY <2>5, <2>7 DEF Ahead
      <3> QED
        BY <1>4, <2>4, <3>1 DEF Ahead
    <2>8. OrderedAt(e)'
      BY <1>2, <1>6, <2>6, <2>7, StillOrdered
    <2> QED
      BY <1>5, <2>8, OrderedEnds
  <1> QED
    BY <1>7, <1>8

LEMMA OrderedStep ==
    ASSUME ChannelConsistent, NetShape, Unborn, EagerEmpty, Ordered, Effect
    PROVE  Ordered'
  <1>1. TypeOK
    BY DEF ChannelConsistent
  <1>2. ASSUME NEW c \in Ciphers \cup {Plaintext}, NEW k \in 0..1,
               NEW asked \in BOOLEAN, OpenedInc(c, k, asked)
        PROVE  Ordered'
    BY <1>1, <1>2, OrderedOpenedInc
  <1>3. ASSUME NEW k \in 0..1, NEW asked \in BOOLEAN, OpenedOut(k, asked)
        PROVE  Ordered'
    BY <1>1, <1>3, OrderedOpenedOut
  <1>4. ASSUME NEW e \in Ends, NEW asked \in BOOLEAN, Written(e, asked)
        PROVE  Ordered'
    BY <1>4, OrderedWritten
  <1>5. ASSUME NEW e \in Ends, NEW asked \in BOOLEAN, Waits(e, asked)
        PROVE  Ordered'
    BY <1>1, <1>5, OrderedWaits
  <1>6. ASSUME NEW e \in Ends, Handed(e) PROVE Ordered'
    BY <1>6, OrderedRead
  <1>7. ASSUME NEW e \in Ends, Kept(e) PROVE Ordered'
    BY <1>7, OrderedRead
  <1>8. CASE \/ \E p \in Policy : Created(p)
             \/ \E c \in Ciphers \cup {Plaintext} : Failed(c)
             \/ \E e \in Ends, msgs \in {<<>>, <<Destroy>>} : Shut(e, msgs)
             \/ Offered("WAIT", <<>>)
             \/ Offered("gone", <<Destroy>>)
             \/ \E e \in Ends : Dropped(e)
             \/ \E e \in Ends : \E n \in 0..Len(net[Other(e)]) : Broken(e, n)
             \/ UNCHANGED <<up, st, cipher, outq, inq, net, sent, early, got>>
    BY <1>1, <1>8, OrderedQuiet
  <1> QED
    BY <1>2, <1>3, <1>4, <1>5, <1>6, <1>7, <1>8 DEF Effect

LEMMA EagerStep ==
    ASSUME ChannelConsistent, NetShape, Unborn, EagerEmpty, Effect, eager' = eager
    PROVE  EagerEmpty'
  <1>1. TypeOK /\ "out" \in Ends /\ "inc" \in Ends /\ Other("inc") = "out"
    BY EndsFacts DEF ChannelConsistent
  <1> SUFFICES ASSUME eager, st'["out"] = "WAIT"
               PROVE  outq'["out"] = <<>>
    BY DEF EagerEmpty
  <1>2. CASE \E p \in Policy : Created(p)
    BY <1>1, <1>2, CreatedView DEF Unborn, UnbornAt
  <1>3. ASSUME NEW c \in Ciphers \cup {Plaintext}, NEW k \in 0..1,
               NEW asked \in BOOLEAN, OpenedInc(c, k, asked)
        PROVE  outq'["out"] = <<>>
    BY <1>1, <1>3 DEF OpenedInc, Opened, Moves, TypeOK, EagerEmpty
  <1>4. ASSUME NEW k \in 0..1, NEW asked \in BOOLEAN, OpenedOut(k, asked)
        PROVE  outq'["out"] = <<>>
    BY <1>1, <1>4 DEF OpenedOut, Opened, TypeOK
  <1>5. ASSUME NEW c \in Ciphers \cup {Plaintext}, Failed(c)
        PROVE  outq'["out"] = <<>>
    BY <1>1, <1>5 DEF Failed, TypeOK, EagerEmpty
  <1>6. ASSUME NEW e \in Ends, NEW msgs \in {<<>>, <<Destroy>>}, Shut(e, msgs)
        PROVE  outq'["out"] = <<>>
    <2>1. /\ st'[e] = "gone" /\ st'[Other(e)] = st[Other(e)]
          /\ outq'[e] = <<>> /\ outq'[Other(e)] = outq[Other(e)]
      BY <1>1, <1>6, ShutView
    <2> QED
      BY <2>1, EndsFacts DEF EagerEmpty
  <1>7. ASSUME NEW e \in Ends, NEW asked \in BOOLEAN, Written(e, asked)
        PROVE  outq'["out"] = <<>>
    <2>1. st' = [st EXCEPT ![e] = st[e]] /\ outq' = outq
      BY <1>7 DEF Written, Moves
    <2> QED
      BY <1>1, <2>1 DEF EagerEmpty, TypeOK
  <1>8. ASSUME NEW e \in Ends, NEW asked \in BOOLEAN, Waits(e, asked)
        PROVE  outq'["out"] = <<>>
    <2>1. st' = st /\ ~(e = "out" /\ eager /\ st[e] = "WAIT")
          /\ (e # "out" => outq'["out"] = outq["out"])
      BY <1>1, <1>8 DEF Waits, Writes, TypeOK
    <2> QED
      BY <2>1 DEF EagerEmpty
  <1>9. CASE Offered("WAIT", <<>>) \/ Offered("gone", <<Destroy>>)
    BY <1>1, <1>9, OfferedView DEF EagerEmpty
  <1>10. ASSUME NEW e \in Ends, Dropped(e) \/ Handed(e) \/ Kept(e)
        PROVE  outq'["out"] = <<>>
    BY <1>1, <1>10, ReadView DEF EagerEmpty
  <1>11. ASSUME NEW e \in Ends, NEW n \in 0..Len(net[Other(e)]), Broken(e, n)
         PROVE  outq'["out"] = <<>>
    BY <1>11 DEF Broken, EagerEmpty
  <1>12. CASE UNCHANGED <<up, st, cipher, outq, inq, net, sent, early, got>>
    BY <1>12 DEF EagerEmpty
  <1> QED
    BY <1>2, <1>3, <1>4, <1>5, <1>6, <1>7, <1>8, <1>9, <1>10, <1>11, <1>12 DEF Effect

LEMMA EagerKept == [Next]_vars => eager' = eager
  BY DEF Next, vars, mwChannel_create, mwChannel_accept, channel_open,
         mwChannel_destroy, mwChannel_sendEncrypted, Handle, mwChannel_recvCreate,
         mwChannel_recvAccept, mwChannel_recv, mwChannel_recvDestroy, LinkBreaks,
         SessionStops

LEMMA OrderedInit == Init => Ordered /\ EagerEmpty
  <1> SUFFICES ASSUME Init PROVE Ordered /\ EagerEmpty
    OBVIOUS
  <1>1. ASSUME NEW d \in Ends PROVE OrderedAt(d)
    <2>1. /\ got[d] = <<>> /\ inq[d] = <<>> /\ net[d] = <<>> /\ outq[Other(d)] = <<>>
      BY EndsFacts DEF Init
    <2>2. \A a, b : /\ ~Carries(<<>>, a) /\ ~Precedes(<<>>, a, b)
                    /\ ~Delivered(d, a) /\ ~HandedBefore(d, a, b)
      BY <2>1 DEF Carries, Precedes, Delivered, HandedBefore
    <2> QED
      BY <2>1, <2>2 DEF OrderedAt, OnTheWay, Ahead
  <1>2. EagerEmpty
    BY EndsFacts DEF Init, EagerEmpty
  <1> QED
    BY <1>1, <1>2, EndsFacts DEF Ordered

LEMMA OrderedImplies == Ordered => InOrder
  <1> SUFFICES ASSUME Ordered, NEW e \in Ends, NEW i \in DOMAIN got[e],
                      NEW j \in DOMAIN got[e], i < j
               PROVE  \/ got[e][i] < got[e][j]
                      \/ got[e][i] \in early[Other(e)] \ {got[e][j]}
    BY DEF InOrder
  <1>1. Ahead(e, got[e][i], got[e][j])
    BY DEF Ahead, HandedBefore
  <1>2. OrderedAt(e)
    BY OrderedEnds
  <1> QED
    BY <1>1, <1>2 DEF OrderedAt

\* A service gets the other's messages once each and in the order they were
\* sent, whatever is queued at either end and wherever a connection breaks;
\* only what is sent while the channel is being opened may overtake what was
\* queued before (flush_channel, queue_outgoing, queue_incoming).
THEOREM InOrderCorrect == Spec => []InOrder
  <1> DEFINE I == ChannelConsistent /\ NetShape /\ Unborn /\ EagerEmpty /\ Ordered
  <1>1. Init => I
    BY ConsistentInit, ShapeInit, CipherInit, OrderedInit
  <1>2. I /\ [Next]_vars => I'
    <2> SUFFICES ASSUME I, [Next]_vars
                 PROVE  I'
      OBVIOUS
    <2>1. ChannelConsistent' /\ Effect /\ TypeOK /\ eager' = eager
      BY ConsistentStep, StepEffect, EagerKept DEF ChannelConsistent
    <2>2. NetShape' /\ Unborn'
      BY <2>1, ShapeStep, UnbornStep
    <2>3. EagerEmpty' /\ Ordered'
      BY <2>1, EagerStep, OrderedStep
    <2> QED
      BY <2>1, <2>2, <2>3
  <1>3. I => InOrder
    BY OrderedImplies
  <1> QED
    BY <1>1, <1>2, <1>3, PTL DEF Spec

=============================================================================
