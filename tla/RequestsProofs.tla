--------------------------- MODULE RequestsProofs ---------------------------
(***************************************************************************)
(* Proofs about the services that ask the server, for every number of      *)
(* calls, refusals and sessions.                                           *)
(*                                                                         *)
(* OwnAnswer speaks of answers given.  It follows from Owned, which speaks *)
(* of those to come: an id that is pending belongs to one call, and so     *)
(* does whatever carries that id on the present channel.  An id is used    *)
(* again only by another channel, which is why messages and requests are   *)
(* compared per channel.  SentInOrder speaks of requests the server has    *)
(* seen; Ordered extends the order to those on their way, queued or cached *)
(* and Ready says when nothing is left behind to be overtaken.             *)
(***************************************************************************)
EXTENDS Requests, SequenceTheorems, TLAPS

-----------------------------------------------------------------------------
(* Types.  A message names a channel that was created; how many there are  *)
(* is bounded by what ended them.                                          *)

Signals(N) == [type : {"SENSE"}, chan : {0}]
                \cup [type : {"CREATE", "ACCEPT", "DESTROY"}, chan : 1..N]
Data(t, N) == [type : {t}, chan : 1..N, id : 1..MaxCalls, action : Actions, n : Calls]

Flags ==
    /\ kind \in {"storage", "resolve"}
    /\ on \in BOOLEAN /\ up \in BOOLEAN /\ open \in BOOLEAN
    /\ sstate \in {"STOPPED", "STARTING", "STARTED"}

Numbers ==
    /\ nchan \in 0..MaxChans /\ chan \in 0..nchan
    /\ counter \in Nat /\ calls \in 0..MaxCalls
    /\ destroys \in 0..MaxDestroys /\ stops \in 0..(MaxStops + 1)

\* Only a service that is not STOPPED has a channel.
Linked ==
    /\ sstate = "STOPPED" => chan = 0
    /\ chan = 0 => sstate = "STOPPED" /\ ~open
    /\ up => on
    /\ on => stops <= MaxStops

\* The server said that it destroys the channel of the service.
Ending == \E i \in DOMAIN toClient : toClient[i] = Destroy(chan)

\* Every channel but the one in use ended with a session or was destroyed.
Counted ==
    /\ nchan <= stops + destroys + 1
    /\ ~on => nchan <= stops + destroys
    /\ chan = 0 => nchan <= stops + destroys
    /\ Ending => nchan <= stops + destroys

\* The ids given out are bounded by the calls.
Ids == counter <= calls + (IF kind = "storage" THEN 0 ELSE 1)

Wired ==
    /\ outq \in Seq(Data("ASK", nchan))
    /\ toServer \in Seq(Signals(nchan) \cup Data("ASK", nchan))
    /\ toClient \in Seq(Signals(nchan) \cup Data("ANSWER", nchan))
    /\ work \subseteq Data("ASK", nchan)

Tables == pending \in Seq(Request)

Histories == fate \in [Calls -> Fate] /\ seen \in Seq(Calls)

Typed == Flags /\ Numbers /\ Linked /\ Counted /\ Ids /\ Wired /\ Tables /\ Histories

LEMMA BoundsFacts ==
    /\ MaxCalls \in Nat /\ MaxDestroys \in Nat /\ MaxStops \in Nat
    /\ MaxChans = MaxDestroys + MaxStops + 1 /\ MaxChans \in Nat
    /\ Calls = 1..MaxCalls
  BY BoundsAssumption DEF MaxChans, Calls

LEMMA TypedInit == Init => Typed
  <1> SUFFICES ASSUME Init PROVE Typed
    OBVIOUS
  <1>1. Flags
    BY Zenon DEF Init, Flags
  <1>2. Numbers /\ Linked /\ Ids
    BY BoundsFacts DEF Init, Numbers, Linked, Ids
  <1>3. Counted
    BY DEF Init, Counted, Ending
  <1>4. Wired /\ Tables
    BY DEF Init, Wired, Tables
  <1>5. Histories
    BY DEF Init, Histories, Fate, Ended
  <1> QED
    BY <1>1, <1>2, <1>3, <1>4, <1>5 DEF Typed

LEMMA TypedImplies == Typed => TypeOK
  <1> SUFFICES ASSUME Typed PROVE TypeOK
    OBVIOUS
  <1>1. {on, up, open} \subseteq BOOLEAN
    BY Zenon DEF Typed, Flags
  <1>2. Signals(nchan) \subseteq Plain /\ Data("ASK", nchan) \subseteq Asked({"ASK"})
        /\ Data("ANSWER", nchan) \subseteq Asked({"ANSWER"})
    BY BoundsFacts DEF Typed, Numbers, Signals, Data, Plain, Asked
  <1>3. /\ outq \in Seq(Asked({"ASK"}))
        /\ toServer \in Seq(Plain \cup Asked({"ASK"}))
        /\ toClient \in Seq(Plain \cup Asked({"ANSWER"}))
        /\ work \subseteq Asked({"ASK"})
    BY <1>2 DEF Typed, Wired
  <1>4. counter \in 0..(MaxCalls + 1)
    BY BoundsFacts DEF Typed, Ids, Numbers
  <1> QED
    BY <1>1, <1>3, <1>4 DEF Typed, Flags, Numbers, Tables, Histories, TypeOK

-----------------------------------------------------------------------------
(* What the client does with a message.                                    *)

Heard(type) == Receives(type) /\ Head(toClient).chan = chan /\ Rest

Opens ==
    /\ Heard("ACCEPT")
    /\ sstate' = "STARTED"
    /\ open' = TRUE
    /\ Storage_recv_accept \/ Resolve_recv_accept
    /\ outq' = <<>>
    /\ UNCHANGED <<chan, nchan, counter, fate>>

Closes ==
    /\ Heard("DESTROY")
    /\ stop
    /\ Sends(<<Sense>>)
    /\ UNCHANGED nchan

Answers ==
    /\ Heard("ANSWER")
    /\ Storage_recv(Head(toClient)) \/ Resolve_recv(Head(toClient))
    /\ UNCHANGED <<sstate, chan, open, nchan, counter, outq, toServer>>

Ignores == toClient # <<>> /\ Dropped

LEMMA HandleCases ==
    ASSUME Handle
    PROVE  Opens \/ Closes \/ Answers \/ Ignores \/ SENSE_SERVICE_recv
  BY DEF Handle, recv_accept, recv_destroy, recv, Opens, Closes, Answers, Ignores,
         Heard, Receives

LEMMA FlagsStep ==
    ASSUME Flags, [Next]_vars
    PROVE  Flags'
  <1>1. CASE Request_made \/ \E i \in DOMAIN pending : cancelResolve(i)
    BY <1>1, Zenon DEF Request_made, cancelResolve, Flags
  <1>2. CASE Handle
    <2>1. CASE Opens
      BY <2>1, Zenon DEF Opens, Heard, Rest, Flags
    <2>2. CASE Closes
      BY <2>2, Zenon DEF Closes, Heard, Rest, stop, Flags
    <2>3. CASE Answers
      BY <2>3, Zenon DEF Answers, Heard, Rest, Flags
    <2>4. CASE Ignores
      BY <2>4, Zenon DEF Ignores, Dropped, Rest, Flags
    <2>5. CASE SENSE_SERVICE_recv
      <3>1. CASE up /\ sstate = "STOPPED"
        BY <2>5, <3>1, Zenon DEF SENSE_SERVICE_recv, start, Rest, Flags
      <3>2. CASE ~(up /\ sstate = "STOPPED")
        BY <2>5, <3>2, Zenon DEF SENSE_SERVICE_recv, start, Rest, Flags
      <3> QED
        BY <3>1, <3>2
    <2> QED
      BY <1>2, <2>1, <2>2, <2>3, <2>4, <2>5, HandleCases
  <1>3. CASE SessionStarts
    BY <1>3, Zenon DEF SessionStarts, Flags
  <1>4. CASE SessionStops
    BY <1>4, Zenon DEF SessionStops, stop, Flags
  <1>5. CASE ServerReads
    BY <1>5, Zenon DEF ServerReads, Flags
  <1>6. CASE \E m \in work : ServerAnswers(m)
    BY <1>6, Zenon DEF ServerAnswers, Flags
  <1>7. CASE ServerDestroys \/ ConnectionBreaks
    BY <1>7, Zenon DEF ServerDestroys, ConnectionBreaks, Flags
  <1>8. CASE UNCHANGED vars
    BY <1>8, Zenon DEF vars, Flags
  <1> QED
    BY <1>1, <1>2, <1>3, <1>4, <1>5, <1>6, <1>7, <1>8 DEF Next

\* Channels and bounds.
Bounds == Numbers /\ Linked /\ Counted /\ Ids

LEMMA BoundsStep ==
    ASSUME Typed, [Next]_vars
    PROVE  Bounds'
  <1> USE BoundsFacts
  <1>1. /\ Numbers /\ Linked /\ Counted /\ Ids
        /\ toClient \in Seq(Signals(nchan) \cup Data("ANSWER", nchan))
        /\ kind \in {"storage", "resolve"}
    BY DEF Typed, Wired, Flags
  <1>2. CASE Request_made
    BY <1>1, <1>2
       DEF Request_made, Storage_request, Resolve_resolve, NextId, SearchId, Bounds,
           Numbers, Linked, Counted, Ids, Ending
  <1>3. CASE \E i \in DOMAIN pending : cancelResolve(i)
    BY <1>1, <1>3 DEF cancelResolve, Bounds, Numbers, Linked, Counted, Ids, Ending
  <1>4. ASSUME toClient # <<>>, toClient' = Tail(toClient), chan' = chan
        PROVE  Ending' => Ending
    <2>1. \A i \in DOMAIN toClient' : i + 1 \in DOMAIN toClient /\ toClient'[i] = toClient[i + 1]
      BY <1>1, <1>4, HeadTailProperties, LenProperties
    <2> QED
      BY <1>4, <2>1 DEF Ending
  <1>5. CASE Handle
    <2>1. CASE Opens
      <3>1. chan # 0
        <4>1. /\ Head(toClient) \in Signals(nchan) \cup Data("ANSWER", nchan)
              /\ Head(toClient).type = "ACCEPT" /\ Head(toClient).chan = chan
          BY <1>1, <2>1, HeadTailProperties DEF Opens, Heard, Receives
        <4> QED
          BY <4>1 DEF Signals, Data
      <3>2. Ending' => Ending
        BY <1>4, <2>1 DEF Opens, Heard, Receives, Rest
      <3> QED
        BY <1>1, <2>1, <3>1, <3>2 DEF Opens, Heard, Rest, Bounds, Numbers, Linked, Counted, Ids
    <2>2. CASE Closes
      <3>1. Ending
        <4>1. /\ 1 \in DOMAIN toClient /\ toClient[1] = Head(toClient)
              /\ Head(toClient) \in Signals(nchan) \cup Data("ANSWER", nchan)
          BY <1>1, <2>2, HeadTailProperties, LenProperties DEF Closes, Heard, Receives
        <4>2. Head(toClient) = Destroy(chan)
          BY <2>2, <4>1 DEF Closes, Heard, Receives, Destroy, Signals, Data
        <4> QED
          BY <4>1, <4>2 DEF Ending
      <3> QED
        BY <1>1, <2>2, <3>1
           DEF Closes, Heard, Rest, stop, Storage_stop, Resolve_stop, Bounds, Numbers,
               Linked, Counted, Ids
    <2>3. CASE Answers
      <3>1. Ending' => Ending
        BY <1>4, <2>3 DEF Answers, Heard, Receives, Rest
      <3> QED
        BY <1>1, <2>3, <3>1 DEF Answers, Heard, Rest, Bounds, Numbers, Linked, Counted, Ids
    <2>4. CASE Ignores
      <3>1. Ending' => Ending
        BY <1>4, <2>4 DEF Ignores, Dropped, Rest
      <3> QED
        BY <1>1, <2>4, <3>1 DEF Ignores, Dropped, Rest, Bounds, Numbers, Linked, Counted, Ids
    <2>5. CASE SENSE_SERVICE_recv
      <3>1. CASE up /\ sstate = "STOPPED"
        <4>1. /\ chan' = nchan + 1 /\ nchan' = nchan + 1 /\ sstate' = "STARTING"
              /\ open' = FALSE /\ UNCHANGED <<kind, on, up, counter, calls, destroys, stops>>
          BY <2>5, <3>1 DEF SENSE_SERVICE_recv, start, Rest
        <4>2. ~Ending'
          <5>1. \A i \in DOMAIN toClient' : i + 1 \in DOMAIN toClient /\ toClient'[i] = toClient[i + 1]
            BY <1>1, <2>5, HeadTailProperties, LenProperties DEF SENSE_SERVICE_recv, Receives, Rest
          <5>2. \A i \in DOMAIN toClient : toClient[i].chan <= nchan /\ toClient[i].chan \in Nat
            BY <1>1, ElementOfSeq, LenProperties DEF Signals, Data, Numbers
          <5> QED
            BY <1>1, <4>1, <5>1, <5>2 DEF Ending, Destroy, Numbers
        <4> QED
          BY <1>1, <3>1, <4>1, <4>2 DEF Bounds, Numbers, Linked, Counted, Ids
      <3>2. CASE ~(up /\ sstate = "STOPPED")
        <4>1. UNCHANGED <<sstate, chan, open, nchan, kind, on, up, counter, calls, destroys, stops>>
          BY <2>5, <3>2 DEF SENSE_SERVICE_recv, start, Rest
        <4>2. Ending' => Ending
          BY <1>4, <2>5, <4>1 DEF SENSE_SERVICE_recv, Receives, Rest
        <4> QED
          BY <1>1, <4>1, <4>2 DEF Bounds, Numbers, Linked, Counted, Ids
      <3> QED
        BY <3>1, <3>2
    <2> QED
      BY <1>5, <2>1, <2>2, <2>3, <2>4, <2>5, HandleCases
  <1>6. CASE SessionStarts
    <2>1. ~Ending'
      <3>1. \A i \in DOMAIN toClient : toClient[i].chan <= nchan /\ toClient[i].chan \in Nat
        BY <1>1, ElementOfSeq, LenProperties DEF Signals, Data, Numbers
      <3> QED
        BY <1>1, <1>6, <3>1 DEF SessionStarts, Ending, Destroy, Numbers
    <2> QED
      BY <1>1, <1>6, <2>1 DEF SessionStarts, Bounds, Numbers, Linked, Counted, Ids
  <1>7. CASE SessionStops
    BY <1>1, <1>7
       DEF SessionStops, stop, Storage_stop, Resolve_stop, Bounds, Numbers, Linked,
           Counted, Ids, Ending
  <1>8. CASE ServerReads
    <2>1. /\ UNCHANGED <<kind, on, up, sstate, chan, open, nchan, counter, calls, stops>>
          /\ destroys' = destroys \/ (destroys < MaxDestroys /\ destroys' = destroys + 1)
      BY <1>8 DEF ServerReads
    <2>2. destroys' = destroys => (Ending' => Ending)
      <3>1. CASE toClient' = toClient
        BY <2>1, <3>1 DEF Ending
      <3>2. ASSUME NEW m, toClient' = toClient \o <<m>>, m.type # "DESTROY"
            PROVE  Ending' => Ending
        <4>1. \A i \in DOMAIN toClient' : \/ toClient'[i] = m
                                          \/ i \in DOMAIN toClient /\ toClient'[i] = toClient[i]
          BY <1>1, <3>2
        <4> QED
          BY <2>1, <3>2, <4>1 DEF Ending, Destroy
      <3>3. ASSUME destroys' = destroys
            PROVE  \/ toClient' = toClient
                   \/ toClient' = toClient \o <<Sense>>
                   \/ toClient' = toClient \o <<Accept(Head(toServer).chan)>>
        BY <1>1, <1>8, <3>3 DEF ServerReads, Numbers
      <3> QED
        BY <3>1, <3>2, <3>3 DEF Sense, Accept
    <2> QED
      BY <1>1, <2>1, <2>2 DEF Bounds, Numbers, Linked, Counted, Ids
  <1>9. CASE \E m \in work : ServerAnswers(m)
    <2>1. PICK m \in work : ServerAnswers(m)
      BY <1>9
    <2>2. /\ UNCHANGED <<kind, on, up, sstate, chan, open, nchan, counter, calls, destroys, stops>>
          /\ toClient' = Append(toClient, Answer(m))
      BY <2>1 DEF ServerAnswers
    <2>3. Ending' => Ending
      <3>1. m \in Data("ASK", nchan)
        BY DEF Typed, Wired
      <3>2. Answer(m).type = "ANSWER"
        BY <3>1 DEF Answer, Data
      <3> QED
        BY <1>1, <2>2, <3>2, AppendProperties, LenProperties DEF Ending, Destroy
    <2> QED
      BY <1>1, <2>2, <2>3 DEF Bounds, Numbers, Linked, Counted, Ids
  <1>10. CASE ServerDestroys
    BY <1>1, <1>10 DEF ServerDestroys, Bounds, Numbers, Linked, Counted, Ids
  <1>11. CASE ConnectionBreaks
    <2>1. /\ UNCHANGED <<kind, on, sstate, chan, open, nchan, counter, calls, destroys, stops>>
          /\ up' = FALSE
      BY <1>11 DEF ConnectionBreaks
    <2>2. PICK n \in 0..Len(toClient) : toClient' = SubSeq(toClient, 1, n)
      BY <1>11 DEF ConnectionBreaks
    <2>3. Ending' => Ending
      BY <1>1, <2>1, <2>2, SubSeqProperties, LenProperties DEF Ending
    <2> QED
      BY <1>1, <2>1, <2>3 DEF Bounds, Numbers, Linked, Counted, Ids
  <1>12. CASE UNCHANGED vars
    BY <1>1, <1>12 DEF vars, Bounds, Numbers, Linked, Counted, Ids, Ending
  <1> QED
    BY <1>2, <1>3, <1>5, <1>6, <1>7, <1>8, <1>9, <1>10, <1>11, <1>12 DEF Next

-----------------------------------------------------------------------------
(* Messages and tables keep their types.                                   *)

\* RemoveAt leaves the other elements, in their order.
LEMMA RemoveAtFacts ==
    ASSUME NEW S, NEW s \in Seq(S), NEW i \in DOMAIN s
    PROVE  /\ RemoveAt(s, i) \in Seq(S)
           /\ Len(RemoveAt(s, i)) = Len(s) - 1
           /\ \A j \in 1..(Len(s) - 1) : RemoveAt(s, i)[j] = IF j < i THEN s[j] ELSE s[j + 1]
  <1>1. i \in 1..Len(s) /\ Len(s) \in Nat
    BY LenProperties
  <1>2. /\ SubSeq(s, 1, i - 1) \in Seq(S) /\ Len(SubSeq(s, 1, i - 1)) = i - 1
        /\ \A j \in 1..(i - 1) : SubSeq(s, 1, i - 1)[j] = s[j]
    BY <1>1, SubSeqProperties
  <1>3. /\ SubSeq(s, i + 1, Len(s)) \in Seq(S) /\ Len(SubSeq(s, i + 1, Len(s))) = Len(s) - i
        /\ \A j \in 1..(Len(s) - i) : SubSeq(s, i + 1, Len(s))[j] = s[i + j]
    BY <1>1, SubSeqProperties
  <1> DEFINE a == SubSeq(s, 1, i - 1)
             b == SubSeq(s, i + 1, Len(s))
  <1>4. RemoveAt(s, i) = a \o b
    BY DEF RemoveAt
  <1>5. /\ a \o b \in Seq(S) /\ Len(a \o b) = (i - 1) + (Len(s) - i)
        /\ \A j \in 1..(Len(s) - 1) : (a \o b)[j] = IF j <= i - 1 THEN a[j] ELSE b[j - (i - 1)]
    BY <1>1, <1>2, <1>3, ConcatProperties
  <1>6. \A j \in 1..(Len(s) - 1) : (a \o b)[j] = IF j < i THEN s[j] ELSE s[j + 1]
    <2> TAKE j \in 1..(Len(s) - 1)
    <2>1. CASE j < i
      <3>1. j \in 1..(i - 1) /\ j <= i - 1
        BY <1>1, <2>1
      <3>2. (a \o b)[j] = a[j]
        BY <1>5, <3>1
      <3>3. a[j] = s[j]
        BY <1>2, <3>1
      <3> QED
        BY <2>1, <3>2, <3>3
    <2>2. CASE ~(j < i)
      <3>1. j - (i - 1) \in 1..(Len(s) - i) /\ i + (j - (i - 1)) = j + 1
        BY <1>1, <2>2
      <3>2. b[j - (i - 1)] = s[j + 1]
        BY <1>3, <3>1
      <3>3. ~(j <= i - 1)
        BY <1>1, <2>2
      <3>4. (a \o b)[j] = b[j - (i - 1)]
        BY <1>5, <3>3
      <3> QED
        BY <2>2, <3>2, <3>4
    <2> QED
      BY <2>1, <2>2
  <1> HIDE DEF a, b
  <1> QED
    BY <1>1, <1>4, <1>5, <1>6

\* What names a channel that was created goes on doing so.
LEMMA Grown ==
    ASSUME NEW N \in Nat, NEW M \in Nat, N <= M, NEW t
    PROVE  /\ Signals(N) \subseteq Signals(M)
           /\ Data(t, N) \subseteq Data(t, M)
           /\ Seq(Data(t, N)) \subseteq Seq(Data(t, M))
           /\ Seq(Signals(N) \cup Data(t, N)) \subseteq Seq(Signals(M) \cup Data(t, M))
  <1>1. Signals(N) \subseteq Signals(M) /\ Data(t, N) \subseteq Data(t, M)
    BY DEF Signals, Data
  <1> QED
    BY <1>1

LEMMA AskTyped ==
    ASSUME NEW N, NEW c \in 1..N, NEW r \in Request
    PROVE  Ask(c, r) \in Data("ASK", N)
  BY BoundsFacts DEF Ask, Data, Request, Calls

\* The sequences of what the service may add to a queue.
LEMMA Added ==
    ASSUME NEW S, NEW s \in Seq(S), NEW m \in S
    PROVE  s \o <<m>> \in Seq(S) /\ Append(s, m) \in Seq(S) /\ <<m>> \in Seq(S)
  <1>1. <<m>> \in Seq(S)
    OBVIOUS
  <1> QED
    BY <1>1, ConcatProperties, AppendProperties

\* The request of a new call.
LEMMA NewRequest ==
    ASSUME Typed, Request_made
    PROVE  /\ calls + 1 \in Calls
           /\ kind = "storage" => NextId \in 1..MaxCalls
           /\ SearchId \in 1..MaxCalls
  BY BoundsFacts DEF Typed, Request_made, Numbers, Ids, NextId, SearchId

LEMMA TablesStep ==
    ASSUME Typed, [Next]_vars
    PROVE  Tables'
  <1>1. pending \in Seq(Request)
    BY DEF Typed, Tables
  <1>2. CASE Request_made
    <2>1. ASSUME NEW action \in {"load", "save"}, Storage_request(action)
          PROVE  pending' \in Seq(Request)
      <3> DEFINE r == [n |-> calls + 1, id |-> NextId, action |-> action,
                       sent |-> sstate = "STARTED" /\ up]
      <3>1. (sstate = "STARTED" /\ up) \in BOOLEAN
        OBVIOUS
      <3>2. action \in Actions /\ calls + 1 \in Calls /\ NextId \in 1..MaxCalls
        BY <1>2, <2>1, NewRequest DEF Actions, Storage_request
      <3>3. r \in Request
        BY <3>1, <3>2, Zenon DEF Request
      <3> HIDE DEF r
      <3>4. pending' = Append(pending, r)
        BY <2>1 DEF Storage_request, Cached, r
      <3> QED
        BY <1>1, <3>3, <3>4, Added
    <2>2. ASSUME Resolve_resolve
          PROVE  pending' \in Seq(Request)
      <3> DEFINE r == [n |-> calls + 1, id |-> SearchId, action |-> "resolve", sent |-> TRUE]
      <3>1. "resolve" \in Actions /\ calls + 1 \in Calls /\ SearchId \in 1..MaxCalls
        BY <1>2, NewRequest DEF Actions
      <3>2. r \in Request
        BY <3>1, Zenon DEF Request
      <3> HIDE DEF r
      <3>3. pending' = Append(pending, r) \/ pending' = pending
        BY <2>2 DEF Resolve_resolve, r
      <3> QED
        BY <1>1, <3>2, <3>3, Added
    <2> QED
      BY <1>2, <2>1, <2>2 DEF Request_made, Tables
  <1>3. ASSUME NEW i \in DOMAIN pending, pending' = RemoveAt(pending, i)
        PROVE  Tables'
    BY <1>1, <1>3, RemoveAtFacts DEF Tables
  <1>4. ASSUME pending' = pending
        PROVE  Tables'
    BY <1>1, <1>4 DEF Tables
  <1>5. ASSUME pending' = <<>>
        PROVE  Tables'
    BY <1>5 DEF Tables
  <1>6. CASE \E i \in DOMAIN pending : cancelResolve(i)
    BY <1>3, <1>6 DEF cancelResolve
  <1>7. CASE Handle
    <2>1. CASE Opens
      <3>1. CASE Resolve_recv_accept
        BY <1>4, <3>1 DEF Resolve_recv_accept
      <3>2. CASE Storage_recv_accept
        <4>1. pending' = [i \in DOMAIN pending |-> [pending[i] EXCEPT !.sent = @ \/ up]]
          BY <3>2 DEF Storage_recv_accept
        <4>2. \A i \in DOMAIN pending : [pending[i] EXCEPT !.sent = @ \/ up] \in Request
          <5> TAKE i \in DOMAIN pending
          <5>1. pending[i] \in Request
            BY <1>1, ElementOfSeq, LenProperties
          <5>2. (pending[i].sent \/ up) \in BOOLEAN
            OBVIOUS
          <5> QED
            BY <5>1, <5>2, Zenon DEF Request
        <4>3. DOMAIN pending = 1..Len(pending) /\ Len(pending) \in Nat
          BY <1>1, LenProperties
        <4> QED
          BY <4>1, <4>2, <4>3 DEF Tables
      <3> QED
        BY <2>1, <3>1, <3>2 DEF Opens
    <2>2. CASE Closes
      BY <1>5, <2>2 DEF Closes, stop, Storage_stop, Resolve_stop, FreePending
    <2>3. CASE Answers
      BY <1>3, <1>4, <2>3 DEF Answers, Storage_recv, Resolve_recv, Answered, Unmatched
    <2>4. CASE Ignores \/ SENSE_SERVICE_recv
      BY <1>4, <2>4 DEF Ignores, Dropped, SENSE_SERVICE_recv
    <2> QED
      BY <1>7, <2>1, <2>2, <2>3, <2>4, HandleCases
  <1>8. CASE SessionStops
    BY <1>4, <1>5, <1>8 DEF SessionStops, stop, Storage_stop, Resolve_stop, FreePending
  <1>9. CASE SessionStarts \/ ServerReads \/ (\E m \in work : ServerAnswers(m))
              \/ ServerDestroys \/ ConnectionBreaks \/ UNCHANGED vars
    BY <1>4, <1>9 DEF SessionStarts, ServerReads, ServerAnswers, ServerDestroys, ConnectionBreaks, vars
  <1> QED
    BY <1>2, <1>6, <1>7, <1>8, <1>9 DEF Next

\* The messages recv_channelAccept of storage writes.
LEMMA BurstTyped ==
    ASSUME Typed, chan \in 1..nchan, NEW k \in 0..Len(pending), NEW at \in [1..k -> Unsent]
    PROVE  [i \in 1..k |-> Ask(chan, pending[at[i]])] \in Seq(Data("ASK", nchan))
  <1>1. \A i \in 1..k : pending[at[i]] \in Request
    BY ElementOfSeq, LenProperties DEF Typed, Tables, Unsent
  <1>2. k \in Nat
    BY LenProperties DEF Typed, Tables
  <1> QED
    BY <1>1, <1>2, AskTyped

\* A message of the channel in use.
LEMMA HeardFacts ==
    ASSUME Typed, NEW t, Heard(t), t # "SENSE"
    PROVE  /\ chan \in 1..nchan
           /\ Head(toClient) \in Signals(nchan) \cup Data("ANSWER", nchan)
           /\ toClient' = Tail(toClient)
           /\ Tail(toClient) \in Seq(Signals(nchan) \cup Data("ANSWER", nchan))
  <1>1. /\ toClient # <<>> /\ toClient \in Seq(Signals(nchan) \cup Data("ANSWER", nchan))
        /\ Head(toClient).type = t /\ Head(toClient).chan = chan
    BY DEF Typed, Wired, Heard, Receives
  <1>2. /\ Head(toClient) \in Signals(nchan) \cup Data("ANSWER", nchan)
        /\ Tail(toClient) \in Seq(Signals(nchan) \cup Data("ANSWER", nchan))
    BY <1>1, HeadTailProperties
  <1>3. chan \in 1..nchan
    BY <1>1, <1>2 DEF Signals, Data
  <1> QED
    BY <1>2, <1>3 DEF Heard, Rest

LEMMA WiredStep ==
    ASSUME Typed, [Next]_vars
    PROVE  Wired'
  <1> DEFINE Q(N) == Seq(Data("ASK", N))
             S(N) == Seq(Signals(N) \cup Data("ASK", N))
             C(N) == Seq(Signals(N) \cup Data("ANSWER", N))
  <1>1. /\ outq \in Q(nchan) /\ toServer \in S(nchan) /\ toClient \in C(nchan)
        /\ work \subseteq Data("ASK", nchan) /\ nchan \in Nat
    BY DEF Typed, Wired, Numbers
  <1>2. /\ Q(nchan) \subseteq Q(nchan + 1) /\ S(nchan) \subseteq S(nchan + 1)
        /\ C(nchan) \subseteq C(nchan + 1) /\ Data("ASK", nchan) \subseteq Data("ASK", nchan + 1)
    <2>1. nchan + 1 \in Nat /\ nchan <= nchan + 1
      BY <1>1
    <2> QED
      BY <1>1, <2>1, Grown
  <1>3. Sense \in Signals(nchan)
    BY DEF Sense, Signals
  <1>4. ASSUME UNCHANGED nchan, NEW m \in Signals(nchan) \cup Data("ASK", nchan), Sends(<<m>>)
        PROVE  toServer' \in S(nchan')
    <2>1. toServer \o <<m>> \in S(nchan)
      BY <1>1, Added
    <2> QED
      BY <1>1, <1>4, <2>1 DEF Sends
  <1>5. ASSUME UNCHANGED nchan, Sends(<<>>)
        PROVE  toServer' \in S(nchan')
    <2>1. toServer \o <<>> = toServer
      BY <1>1
    <2> QED
      BY <1>1, <1>5, <2>1 DEF Sends
  <1>6. CASE Request_made
    <2>1. UNCHANGED <<chan, open, nchan, toClient, work>>
      BY <1>6 DEF Request_made
    <2>2. ASSUME NEW action \in {"load", "save"}, Storage_request(action)
          PROVE  outq' \in Q(nchan') /\ toServer' \in S(nchan')
      <3> DEFINE r == [n |-> calls + 1, id |-> NextId, action |-> action,
                       sent |-> sstate = "STARTED" /\ up]
      <3>1. action \in Actions /\ calls + 1 \in Calls /\ NextId \in 1..MaxCalls
        BY <1>6, <2>2, NewRequest DEF Actions, Storage_request
      <3>2. chan \in 1..nchan => Ask(chan, r) \in Data("ASK", nchan)
        BY <3>1 DEF Ask, Data
      <3>3. outq' = outq /\ Sends(IF sstate = "STARTED" THEN <<Ask(chan, r)>> ELSE <<>>)
        BY <2>2 DEF Storage_request
      <3>4. sstate = "STARTED" => chan \in 1..nchan
        BY DEF Typed, Linked, Numbers
      <3> HIDE DEF r
      <3>5. CASE sstate = "STARTED"
        <4>1. toServer' \in S(nchan')
          BY <1>4, <2>1, <3>2, <3>3, <3>4, <3>5
        <4> QED
          BY <1>1, <2>1, <3>3, <4>1
      <3>6. CASE sstate # "STARTED"
        <4>1. toServer' \in S(nchan')
          BY <1>5, <2>1, <3>3, <3>6
        <4> QED
          BY <1>1, <2>1, <3>3, <4>1
      <3> QED
        BY <3>5, <3>6
    <2>3. ASSUME Resolve_resolve
          PROVE  outq' \in Q(nchan') /\ toServer' \in S(nchan')
      <3> DEFINE r == [n |-> calls + 1, id |-> SearchId, action |-> "resolve", sent |-> TRUE]
      <3>1. "resolve" \in Actions /\ calls + 1 \in Calls /\ SearchId \in 1..MaxCalls
        BY <1>6, NewRequest DEF Actions
      <3>2. chan \in 1..nchan => Ask(chan, r) \in Data("ASK", nchan)
        BY <3>1 DEF Ask, Data
      <3>3. \/ /\ chan # 0 /\ Sends(IF open THEN <<Ask(chan, r)>> ELSE <<>>)
               /\ outq' = IF open THEN outq ELSE Append(outq, Ask(chan, r))
            \/ outq' = outq /\ toServer' = toServer
        BY <2>3, Zenon DEF Resolve_resolve
      <3>4. chan # 0 => chan \in 1..nchan
        BY DEF Typed, Numbers
      <3> HIDE DEF r
      <3>5. CASE outq' = outq /\ toServer' = toServer
        BY <1>1, <2>1, <3>5
      <3>6. CASE open /\ chan # 0 /\ Sends(<<Ask(chan, r)>>) /\ outq' = outq
        <4>1. toServer' \in S(nchan')
          BY <1>4, <2>1, <3>2, <3>4, <3>6
        <4> QED
          BY <1>1, <2>1, <3>6, <4>1
      <3>7. CASE ~open /\ chan # 0 /\ Sends(<<>>) /\ outq' = Append(outq, Ask(chan, r))
        <4>1. toServer' \in S(nchan')
          BY <1>5, <2>1, <3>7
        <4>2. Append(outq, Ask(chan, r)) \in Q(nchan)
          BY <1>1, <3>2, <3>4, <3>7, Added
        <4> QED
          BY <2>1, <3>7, <4>1, <4>2
      <3> QED
        BY <3>3, <3>5, <3>6, <3>7
    <2>4. outq' \in Q(nchan') /\ toServer' \in S(nchan')
      BY <1>6, <2>2, <2>3 DEF Request_made
    <2> QED
      BY <1>1, <2>1, <2>4 DEF Wired
  <1>7. ASSUME UNCHANGED <<nchan, outq, toServer, toClient, work>>
        PROVE  Wired'
    BY <1>1, <1>7 DEF Wired
  <1>8. CASE (\E i \in DOMAIN pending : cancelResolve(i)) \/ UNCHANGED vars
    BY <1>7, <1>8 DEF cancelResolve, vars
  <1>9. CASE Handle
    <2>1. toClient # <<>> => Tail(toClient) \in C(nchan)
      BY <1>1, HeadTailProperties
    <2>2. CASE Opens
      <3>1. /\ UNCHANGED <<nchan, work>> /\ outq' = <<>> /\ toClient' = Tail(toClient)
            /\ chan \in 1..nchan /\ Tail(toClient) \in C(nchan)
        BY <2>2, HeardFacts DEF Opens, Heard, Rest
      <3>2. ASSUME NEW q \in Q(nchan), Sends(q)
            PROVE  toServer' \in S(nchan)
        <4>1. q \in S(nchan)
          OBVIOUS
        <4>2. toServer \o q \in S(nchan)
          BY <1>1, <4>1, ConcatProperties
        <4> QED
          BY <1>1, <3>2, <4>2 DEF Sends
      <3>3. CASE Resolve_recv_accept
        BY <1>1, <3>1, <3>2, <3>3 DEF Resolve_recv_accept, Wired
      <3>4. CASE Storage_recv_accept
        <4>1. PICK k \in 0..Len(pending) : \E at \in [1..k -> Unsent] :
                Sends([i \in 1..k |-> Ask(chan, pending[at[i]])] \o outq)
          BY <3>4 DEF Storage_recv_accept
        <4>2. PICK at \in [1..k -> Unsent] :
                Sends([i \in 1..k |-> Ask(chan, pending[at[i]])] \o outq)
          BY <4>1
        <4>3. [i \in 1..k |-> Ask(chan, pending[at[i]])] \in Q(nchan)
          BY <3>1, BurstTyped
        <4>4. [i \in 1..k |-> Ask(chan, pending[at[i]])] \o outq \in Q(nchan)
          BY <1>1, <4>3, ConcatProperties
        <4>5. toServer' \in S(nchan)
          BY <3>2, <4>2, <4>4
        <4> QED
          BY <1>1, <3>1, <4>5 DEF Wired
      <3> QED
        BY <2>2, <3>3, <3>4 DEF Opens
    <2>3. CASE Closes
      <3>1. UNCHANGED <<nchan, work>> /\ outq' = <<>> /\ toClient' = Tail(toClient) /\ Sends(<<Sense>>)
            /\ toClient # <<>>
        BY <2>3 DEF Closes, Heard, Receives, Rest, stop
      <3>2. toServer' \in S(nchan')
        BY <1>3, <1>4, <3>1
      <3> QED
        BY <1>1, <2>1, <3>1, <3>2 DEF Wired
    <2>4. CASE Answers \/ Ignores
      BY <1>1, <2>1, <2>4 DEF Answers, Ignores, Dropped, Heard, Receives, Rest, Wired
    <2>5. CASE SENSE_SERVICE_recv
      <3>1. toClient # <<>> /\ toClient' = Tail(toClient) /\ UNCHANGED <<work, outq>> /\ start
        BY <2>5 DEF SENSE_SERVICE_recv, Receives, Rest
      <3>2. CASE up /\ sstate = "STOPPED"
        <4>1. nchan' = nchan + 1 /\ toServer' = toServer \o <<Create(nchan + 1)>>
          BY <3>1, <3>2 DEF start, Sends
        <4>2. /\ outq \in Q(nchan + 1) /\ toServer \in S(nchan + 1)
              /\ Tail(toClient) \in C(nchan + 1) /\ work \subseteq Data("ASK", nchan + 1)
          BY <1>1, <1>2, <2>1, <3>1
        <4>3. Create(nchan + 1) \in Signals(nchan + 1)
          BY <1>1 DEF Create, Signals
        <4>4. toServer \o <<Create(nchan + 1)>> \in S(nchan + 1)
          BY <4>2, <4>3, Added
        <4> QED
          BY <3>1, <4>1, <4>2, <4>4 DEF Wired
      <3>3. CASE ~(up /\ sstate = "STOPPED")
        BY <1>1, <2>1, <3>1, <3>3 DEF start, Wired
      <3> QED
        BY <3>2, <3>3
    <2> QED
      BY <1>9, <2>2, <2>3, <2>4, <2>5, HandleCases
  <1>10. CASE SessionStarts
    <2>1. nchan' = nchan + 1 /\ toServer' = <<Create(nchan + 1)>> /\ UNCHANGED <<outq, toClient, work>>
      BY <1>10 DEF SessionStarts
    <2>2. /\ outq \in Q(nchan + 1)
          /\ toClient \in C(nchan + 1) /\ work \subseteq Data("ASK", nchan + 1)
      BY <1>1, <1>2
    <2>3. Create(nchan + 1) \in Signals(nchan + 1)
      BY <1>1 DEF Create, Signals
    <2>4. <<Create(nchan + 1)>> \in S(nchan + 1)
      BY <2>3
    <2> QED
      BY <2>1, <2>2, <2>4 DEF Wired
  <1>11. CASE SessionStops
    <2>1. /\ UNCHANGED nchan /\ toServer' = <<>> /\ toClient' = <<>> /\ work' = {}
          /\ outq' = outq \/ outq' = <<>>
      BY <1>11 DEF SessionStops, stop
    <2>2. <<>> \in Q(nchan) /\ <<>> \in S(nchan) /\ <<>> \in C(nchan)
      OBVIOUS
    <2>3. outq' \in Q(nchan') /\ toServer' \in S(nchan') /\ toClient' \in C(nchan')
      BY <1>1, <2>1, <2>2, Zenon
    <2> QED
      BY <2>1, <2>3 DEF Wired
  <1>12. CASE ServerReads
    <2>1. /\ UNCHANGED <<nchan, outq>> /\ toServer # <<>> /\ toServer' = Tail(toServer)
      BY <1>12 DEF ServerReads
    <2>2. Tail(toServer) \in S(nchan) /\ Head(toServer) \in Signals(nchan) \cup Data("ASK", nchan)
      BY <1>1, <2>1, HeadTailProperties
    <2>3. toClient' \in C(nchan)
      <3>1. \/ toClient' = toClient
            \/ toClient' = toClient \o <<Sense>>
            \/ /\ Head(toServer).type = "CREATE"
               /\ \/ toClient' = toClient \o <<Accept(Head(toServer).chan)>>
                  \/ toClient' = toClient \o <<Destroy(Head(toServer).chan)>>
        BY <1>12 DEF ServerReads
      <3>2. Head(toServer).type = "CREATE" =>
                /\ Accept(Head(toServer).chan) \in Signals(nchan)
                /\ Destroy(Head(toServer).chan) \in Signals(nchan)
        BY <2>2 DEF Signals, Data, Accept, Destroy
      <3> QED
        BY <1>1, <1>3, <3>1, <3>2, Added
    <2>4. work' \subseteq Data("ASK", nchan)
      <3>1. work' = work \/ (Head(toServer).type = "ASK" /\ work' = work \cup {Head(toServer)})
        BY <1>12 DEF ServerReads
      <3>2. Head(toServer).type = "ASK" => Head(toServer) \in Data("ASK", nchan)
        BY <2>2 DEF Signals
      <3> QED
        BY <1>1, <3>1, <3>2
    <2> QED
      BY <1>1, <2>1, <2>2, <2>3, <2>4 DEF Wired
  <1>13. CASE \E m \in work : ServerAnswers(m)
    <2>1. PICK m \in work : ServerAnswers(m)
      BY <1>13
    <2>2. Answer(m) \in Data("ANSWER", nchan)
      BY <1>1 DEF Answer, Data
    <2>3. Append(toClient, Answer(m)) \in C(nchan)
      BY <1>1, <2>2, Added
    <2> QED
      BY <1>1, <2>1, <2>3 DEF ServerAnswers, Wired
  <1>14. CASE ServerDestroys
    <2>1. chan \in 1..nchan
      BY <1>14 DEF ServerDestroys, Typed, Linked, Numbers
    <2>2. Destroy(chan) \in Signals(nchan)
      BY <2>1 DEF Destroy, Signals
    <2>3. Append(toClient, Destroy(chan)) \in C(nchan)
      BY <1>1, <2>2, Added
    <2>4. /\ UNCHANGED <<nchan, outq, toServer>> /\ work' \subseteq work
          /\ toClient' = Append(toClient, Destroy(chan))
      BY <1>14 DEF ServerDestroys
    <2> QED
      BY <1>1, <2>3, <2>4 DEF Wired
  <1>15. CASE ConnectionBreaks
    <2>1. \A n \in 0..Len(toClient) : SubSeq(toClient, 1, n) \in C(nchan)
      BY <1>1, SubSeqProperties, LenProperties
    <2>2. /\ UNCHANGED <<nchan, outq>> /\ toServer' = <<>> /\ work' = {}
          /\ \E n \in 0..Len(toClient) : toClient' = SubSeq(toClient, 1, n)
      BY <1>15 DEF ConnectionBreaks
    <2> QED
      BY <1>1, <2>1, <2>2 DEF Wired
  <1> QED
    BY <1>6, <1>8, <1>9, <1>10, <1>11, <1>12, <1>13, <1>14, <1>15 DEF Next

LEMMA HistoriesStep ==
    ASSUME Typed, [Next]_vars
    PROVE  Histories'
  <1>1. /\ fate \in [Calls -> Fate] /\ seen \in Seq(Calls) /\ pending \in Seq(Request)
        /\ toServer \in Seq(Signals(nchan) \cup Data("ASK", nchan))
    BY DEF Typed, Histories, Tables, Wired
  <1>2. ASSUME NEW n \in Calls, NEW f \in Fate, fate' = [fate EXCEPT ![n] = f], UNCHANGED seen
        PROVE  Histories'
    BY <1>1, <1>2 DEF Histories
  <1>3. ASSUME UNCHANGED history
        PROVE  Histories'
    BY <1>1, <1>3 DEF Histories, history
  <1>4. \A p \in DOMAIN pending : pending[p].n \in Calls
    <2>1. \A p \in DOMAIN pending : pending[p] \in Request
      BY <1>1, ElementOfSeq, LenProperties
    <2> QED
      BY <2>1 DEF Request
  <1>5. ASSUME FreePending, UNCHANGED seen
        PROVE  Histories'
    <2>1. Ended("dropped") \in Fate
      BY DEF Ended, Fate
    <2> QED
      BY <1>1, <1>5, <2>1 DEF FreePending, Histories
  <1>6. CASE Request_made
    <2>1. calls + 1 \in Calls
      BY <1>6, NewRequest
    <2>2. Ended("waiting") \in Fate /\ Ended("refused") \in Fate
      BY DEF Ended, Fate
    <2> QED
      BY <1>2, <1>6, <2>1, <2>2 DEF Request_made, Storage_request, Resolve_resolve
  <1>7. CASE \E i \in DOMAIN pending : cancelResolve(i)
    <2>1. Ended("cancelled") \in Fate
      BY DEF Ended, Fate
    <2> QED
      BY <1>2, <1>4, <1>7, <2>1 DEF cancelResolve
  <1>8. CASE Handle
    <2>1. CASE Opens \/ Ignores \/ SENSE_SERVICE_recv
      BY <1>3, <2>1 DEF Opens, Ignores, Dropped, SENSE_SERVICE_recv, Heard, Rest, history
    <2>2. CASE Closes
      BY <1>5, <2>2 DEF Closes, Heard, Rest, stop, Storage_stop, Resolve_stop
    <2>3. CASE Answers
      <3>1. UNCHANGED seen /\ Head(toClient).type = "ANSWER"
        BY <2>3 DEF Answers, Heard, Receives, Rest
      <3>2. Head(toClient) \in Signals(nchan) \cup Data("ANSWER", nchan)
        BY <2>3, HeardFacts DEF Answers
      <3>3. Head(toClient).n \in Calls
        BY <3>1, <3>2 DEF Signals, Data
      <3>4. [end |-> "answered", n |-> Head(toClient).n] \in Fate
        BY <3>3 DEF Fate
      <3>5. \/ \E i \in DOMAIN pending : Answered(i, Head(toClient))
            \/ UNCHANGED fate
        BY <2>3 DEF Answers, Storage_recv, Resolve_recv, Unmatched
      <3> QED
        BY <1>2, <1>3, <1>4, <3>1, <3>4, <3>5 DEF Answered, history
    <2> QED
      BY <1>8, <2>1, <2>2, <2>3, HandleCases
  <1>9. CASE SessionStops
    BY <1>3, <1>5, <1>9 DEF SessionStops, stop, Storage_stop, Resolve_stop, history
  <1>10. CASE ServerReads
    <2>1. /\ UNCHANGED fate
          /\ \/ UNCHANGED seen
             \/ toServer # <<>> /\ Head(toServer).type = "ASK" /\ seen' = Append(seen, Head(toServer).n)
      BY <1>10 DEF ServerReads
    <2>2. toServer # <<>> => Head(toServer) \in Signals(nchan) \cup Data("ASK", nchan)
      BY <1>1, HeadTailProperties
    <2>3. CASE UNCHANGED seen
      BY <1>3, <2>1, <2>3 DEF history
    <2>4. CASE toServer # <<>> /\ Head(toServer).type = "ASK" /\ seen' = Append(seen, Head(toServer).n)
      <3>1. Head(toServer).n \in Calls
        BY <2>2, <2>4 DEF Signals, Data
      <3>2. seen' \in Seq(Calls)
        BY <1>1, <2>4, <3>1, Added
      <3> QED
        BY <1>1, <2>1, <3>2 DEF Histories
    <2> QED
      BY <2>1, <2>3, <2>4
  <1>11. CASE SessionStarts \/ (\E m \in work : ServerAnswers(m)) \/ ServerDestroys
                \/ ConnectionBreaks \/ UNCHANGED vars
    BY <1>3, <1>11 DEF SessionStarts, ServerAnswers, ServerDestroys, ConnectionBreaks, vars, history
  <1> QED
    BY <1>6, <1>7, <1>8, <1>9, <1>10, <1>11 DEF Next

LEMMA TypedStep ==
    ASSUME Typed, [Next]_vars
    PROVE  Typed'
  <1>1. Flags'
    BY FlagsStep DEF Typed
  <1>2. (Numbers /\ Linked /\ Counted /\ Ids)'
    BY BoundsStep DEF Bounds
  <1> QED
    BY <1>1, <1>2, WiredStep, TablesStep, HistoriesStep DEF Typed

-----------------------------------------------------------------------------
(* Whose answer is it.  On the channel in use an id stands for one call:   *)
(* for what is pending, what was asked and what was answered there.        *)

\* A message of type t in s, on channel c, with id i, of call n.
Carries(s, t, c, i, n) ==
    \E p \in DOMAIN s : s[p].type = t /\ s[p].chan = c /\ s[p].id = i /\ s[p].n = n

Pends(i, n) == \E p \in DOMAIN pending : pending[p].id = i /\ pending[p].n = n

Busy(c, i, n) == \E m \in work : m.chan = c /\ m.id = i /\ m.n = n

\* Call n is on its way to the server or back, with id i on the channel in use.
Flies(i, n) ==
    \/ Carries(outq, "ASK", chan, i, n)
    \/ Carries(toServer, "ASK", chan, i, n)
    \/ Busy(chan, i, n)
    \/ Carries(toClient, "ANSWER", chan, i, n)

\* The id was given out since the service last stopped counting.
Given(i) == IF kind = "storage" THEN i <= counter ELSE i < counter

Owned ==
    /\ \A i, n : Pends(i, n) \/ Flies(i, n) => i \in Nat /\ Given(i)
    /\ \A i, n, k : Pends(i, n) /\ Pends(i, k) => n = k
    /\ \A i, n, k : Flies(i, n) /\ Pends(i, k) => n = k

LEMMA CarriesConcat ==
    ASSUME NEW S, NEW s \in Seq(S), NEW u \in Seq(S), NEW t, NEW c, NEW i, NEW n,
           Carries(s \o u, t, c, i, n)
    PROVE  Carries(s, t, c, i, n) \/ Carries(u, t, c, i, n)
  <1>1. \A p \in DOMAIN (s \o u) :
          \/ p \in DOMAIN s /\ (s \o u)[p] = s[p]
          \/ p - Len(s) \in DOMAIN u /\ (s \o u)[p] = u[p - Len(s)]
    BY ConcatProperties, LenProperties
  <1> QED
    BY <1>1 DEF Carries

LEMMA CarriesAppend ==
    ASSUME NEW S, NEW s \in Seq(S), NEW m, NEW t, NEW c, NEW i, NEW n,
           Carries(Append(s, m), t, c, i, n)
    PROVE  Carries(s, t, c, i, n) \/ (m.type = t /\ m.chan = c /\ m.id = i /\ m.n = n)
  <1>1. \A p \in DOMAIN Append(s, m) :
          \/ p \in DOMAIN s /\ Append(s, m)[p] = s[p]
          \/ Append(s, m)[p] = m
    OBVIOUS
  <1> QED
    BY <1>1 DEF Carries

LEMMA CarriesExtend ==
    ASSUME NEW S, NEW s \in Seq(S), NEW m, NEW t, NEW c, NEW i, NEW n,
           Carries(s \o <<m>>, t, c, i, n)
    PROVE  Carries(s, t, c, i, n) \/ (m.type = t /\ m.chan = c /\ m.id = i /\ m.n = n)
  <1>1. \A p \in DOMAIN (s \o <<m>>) :
          \/ p \in DOMAIN s /\ (s \o <<m>>)[p] = s[p]
          \/ (s \o <<m>>)[p] = m
    OBVIOUS
  <1> QED
    BY <1>1 DEF Carries

LEMMA CarriesTail ==
    ASSUME NEW S, NEW s \in Seq(S), s # <<>>, NEW t, NEW c, NEW i, NEW n
    PROVE  /\ Carries(Tail(s), t, c, i, n) => Carries(s, t, c, i, n)
           /\ Head(s).type = t => Carries(s, t, Head(s).chan, Head(s).id, Head(s).n)
  <1>1. /\ \A p \in DOMAIN Tail(s) : p + 1 \in DOMAIN s /\ Tail(s)[p] = s[p + 1]
        /\ 1 \in DOMAIN s /\ s[1] = Head(s)
    BY HeadTailProperties, LenProperties
  <1> QED
    BY <1>1 DEF Carries

LEMMA CarriesPrefix ==
    ASSUME NEW S, NEW s \in Seq(S), NEW k \in 0..Len(s), NEW t, NEW c, NEW i, NEW n,
           Carries(SubSeq(s, 1, k), t, c, i, n)
    PROVE  Carries(s, t, c, i, n)
  <1>1. \A p \in DOMAIN SubSeq(s, 1, k) : p \in DOMAIN s /\ SubSeq(s, 1, k)[p] = s[p]
    BY SubSeqProperties, LenProperties
  <1> QED
    BY <1>1 DEF Carries

LEMMA CarriesEmpty ==
    ASSUME NEW t, NEW c, NEW i, NEW n
    PROVE  ~Carries(<<>>, t, c, i, n)
  BY DEF Carries

\* No message names a channel that there is not.
LEMMA NoSuchChannel ==
    ASSUME Typed, NEW c, c \notin 1..nchan, NEW i, NEW n
    PROVE  /\ ~Carries(outq, "ASK", c, i, n)
           /\ ~Carries(toServer, "ASK", c, i, n)
           /\ ~Busy(c, i, n)
           /\ ~Carries(toClient, "ANSWER", c, i, n)
  <1>1. \A p \in DOMAIN outq : outq[p].chan \in 1..nchan
    <2>1. \A p \in DOMAIN outq : outq[p] \in Data("ASK", nchan)
      BY ElementOfSeq, LenProperties DEF Typed, Wired
    <2> QED
      BY <2>1 DEF Data
  <1>2. \A p \in DOMAIN toServer : toServer[p].type = "ASK" => toServer[p].chan \in 1..nchan
    <2>1. \A p \in DOMAIN toServer : toServer[p] \in Signals(nchan) \cup Data("ASK", nchan)
      BY ElementOfSeq, LenProperties DEF Typed, Wired
    <2> QED
      BY <2>1 DEF Data, Signals
  <1>3. \A p \in DOMAIN toClient : toClient[p].type = "ANSWER" => toClient[p].chan \in 1..nchan
    <2>1. \A p \in DOMAIN toClient : toClient[p] \in Signals(nchan) \cup Data("ANSWER", nchan)
      BY ElementOfSeq, LenProperties DEF Typed, Wired
    <2> QED
      BY <2>1 DEF Data, Signals
  <1>4. \A m \in work : m.chan \in 1..nchan
    BY DEF Typed, Wired, Data
  <1> QED
    BY <1>1, <1>2, <1>3, <1>4 DEF Carries, Busy

LEMMA NothingFlies == Typed /\ chan = 0 => \A i, n : ~Flies(i, n)
  <1> SUFFICES ASSUME Typed, chan = 0, NEW i, NEW n
               PROVE  ~Flies(i, n)
    OBVIOUS
  <1>1. chan \notin 1..nchan
    OBVIOUS
  <1> QED
    BY <1>1, NoSuchChannel DEF Flies

\* Requests are only moved on.
LEMMA OwnedKept ==
    ASSUME Owned,
           \A i, n : Pends(i, n)' => Pends(i, n),
           \A i, n : Flies(i, n)' => Flies(i, n) \/ Pends(i, n),
           \A i \in Nat : Given(i) => Given(i)'
    PROVE  Owned'
  <1>1. \A i, n : Pends(i, n)' \/ Flies(i, n)' => i \in Nat /\ Given(i)'
    BY DEF Owned
  <1>2. \A i, n, k : Pends(i, n)' /\ Pends(i, k)' => n = k
    BY DEF Owned
  <1>3. \A i, n, k : Flies(i, n)' /\ Pends(i, k)' => n = k
    BY DEF Owned
  <1> QED
    BY <1>1, <1>2, <1>3 DEF Owned

\* A request with an id that was not given out.
LEMMA OwnedNew ==
    ASSUME Owned, NEW x \in Nat, NEW c, ~Given(x), Given(x)',
           \A i, n : Pends(i, n)' => Pends(i, n) \/ (i = x /\ n = c),
           \A i, n : Flies(i, n)' => Flies(i, n) \/ (i = x /\ n = c),
           \A i \in Nat : Given(i) => Given(i)'
    PROVE  Owned'
  <1>1. \A i, n : Pends(i, n)' \/ Flies(i, n)' => i \in Nat /\ Given(i)'
    BY DEF Owned
  <1>2. \A i, n, k : Pends(i, n)' /\ Pends(i, k)' => n = k
    BY DEF Owned
  <1>3. \A i, n, k : Flies(i, n)' /\ Pends(i, k)' => n = k
    BY DEF Owned
  <1> QED
    BY <1>1, <1>2, <1>3 DEF Owned

\* After a stop nothing is on its way.
LEMMA OwnedStopped ==
    ASSUME Owned, Typed', chan' = 0,
           pending' = <<>> \/ UNCHANGED <<kind, counter, pending>>
    PROVE  Owned'
  <1>1. \A i, n : ~Flies(i, n)'
    <2>1. (Typed /\ chan = 0)' => (\A i, n : ~Flies(i, n))'
      BY NothingFlies, PTL
    <2> QED
      BY <2>1
  <1>2. CASE pending' = <<>>
    <2>1. \A i, n : ~Pends(i, n)'
      BY <1>2 DEF Pends
    <2> QED
      BY <1>1, <2>1 DEF Owned
  <1>3. CASE UNCHANGED <<kind, counter, pending>>
    <2>1. /\ \A i, n : Pends(i, n)' => Pends(i, n)
          /\ \A i \in Nat : Given(i) => Given(i)'
      BY <1>3 DEF Pends, Given
    <2> QED
      BY <1>1, <2>1, OwnedKept
  <1> QED
    BY <1>2, <1>3

\* What is removed from the table was there.
LEMMA RemovedPends ==
    ASSUME Typed, NEW p \in DOMAIN pending, pending' = RemoveAt(pending, p), NEW i, NEW n, Pends(i, n)'
    PROVE  Pends(i, n)
  <1>1. pending \in Seq(Request) /\ DOMAIN pending = 1..Len(pending) /\ Len(pending) \in Nat
    BY LenProperties DEF Typed, Tables
  <1>2. /\ pending' \in Seq(Request) /\ Len(pending') = Len(pending) - 1
        /\ \A j \in 1..(Len(pending) - 1) :
             pending'[j] = IF j < p THEN pending[j] ELSE pending[j + 1]
    BY <1>1, RemoveAtFacts
  <1>3. DOMAIN pending' = 1..(Len(pending) - 1)
    BY <1>2, LenProperties
  <1>4. \A j \in DOMAIN pending' : \E q \in DOMAIN pending : pending'[j] = pending[q]
    BY <1>1, <1>2, <1>3
  <1> QED
    BY <1>4 DEF Pends

LEMMA OwnedRequest ==
    ASSUME Typed, Owned, Request_made
    PROVE  Owned'
  <1>1. /\ UNCHANGED <<kind, chan, toClient, work>>
        /\ counter \in Nat /\ pending \in Seq(Request)
        /\ toServer \in Seq(Signals(nchan) \cup Data("ASK", nchan))
        /\ outq \in Seq(Data("ASK", nchan))
    BY DEF Request_made, Typed, Numbers, Tables, Wired
  <1>2. ASSUME NEW r, pending' = Append(pending, r), NEW i, NEW n, Pends(i, n)'
        PROVE  Pends(i, n) \/ (i = r.id /\ n = r.n)
    <2>1. \A p \in DOMAIN pending' : \/ p \in DOMAIN pending /\ pending'[p] = pending[p]
                                     \/ pending'[p] = r
      BY <1>1, <1>2
    <2> QED
      BY <1>2, <2>1 DEF Pends
  <1>3. ASSUME NEW r,
               \/ outq' = outq
               \/ outq' = Append(outq, Ask(chan, r)),
               \/ toServer' = toServer
               \/ toServer' = toServer \o <<Ask(chan, r)>>,
               NEW i, NEW n, Flies(i, n)'
        PROVE  Flies(i, n) \/ (i = r.id /\ n = r.n)
    <2>1. Ask(chan, r).id = r.id /\ Ask(chan, r).n = r.n
      BY DEF Ask
    <2>2. CASE Carries(outq, "ASK", chan, i, n)'
      <3>1. Carries(outq', "ASK", chan, i, n)
        BY <1>1, <2>2 DEF Carries
      <3>2. Carries(Append(outq, Ask(chan, r)), "ASK", chan, i, n)
              => Carries(outq, "ASK", chan, i, n) \/ (i = Ask(chan, r).id /\ n = Ask(chan, r).n)
        BY <1>1, CarriesAppend
      <3>3. Carries(outq, "ASK", chan, i, n) \/ (i = r.id /\ n = r.n)
        BY <1>3, <2>1, <3>1, <3>2
      <3> QED
        BY <3>3 DEF Flies
    <2>3. CASE Carries(toServer, "ASK", chan, i, n)'
      <3>1. Carries(toServer', "ASK", chan, i, n)
        BY <1>1, <2>3 DEF Carries
      <3>2. Carries(toServer \o <<Ask(chan, r)>>, "ASK", chan, i, n)
              => Carries(toServer, "ASK", chan, i, n) \/ (i = Ask(chan, r).id /\ n = Ask(chan, r).n)
        BY <1>1, CarriesExtend
      <3>3. Carries(toServer, "ASK", chan, i, n) \/ (i = r.id /\ n = r.n)
        BY <1>3, <2>1, <3>1, <3>2
      <3> QED
        BY <3>3 DEF Flies
    <2>4. CASE Busy(chan, i, n)'
      BY <1>1, <2>4 DEF Busy, Flies
    <2>5. CASE Carries(toClient, "ANSWER", chan, i, n)'
      BY <1>1, <2>5 DEF Carries, Flies
    <2> QED
      BY <1>3, <2>2, <2>3, <2>4, <2>5 DEF Flies
  <1>4. toServer \o <<>> = toServer
    BY <1>1
  <1>5. ASSUME NEW action \in {"load", "save"}, Storage_request(action)
        PROVE  Owned'
    <2> DEFINE r == [n |-> calls + 1, id |-> NextId, action |-> action,
                     sent |-> sstate = "STARTED" /\ up]
    <2>1. /\ kind = "storage" /\ counter' = counter + 1 /\ pending' = Append(pending, r)
          /\ outq' = outq
          /\ Sends(IF sstate = "STARTED" THEN <<Ask(chan, r)>> ELSE <<>>)
      BY <1>5 DEF Storage_request, Cached, NextId
    <2>2. PICK x, c : x = counter + 1 /\ c = calls + 1
      OBVIOUS
    <2>3. r.id = x /\ r.n = c
      BY <2>2 DEF NextId
    <2> HIDE DEF r
    <2>4. toServer' = toServer \/ toServer' = toServer \o <<Ask(chan, r)>>
      BY <1>4, <2>1 DEF Sends
    <2>5. \A i, n : Pends(i, n)' => Pends(i, n) \/ (i = x /\ n = c)
      BY <1>2, <2>1, <2>3
    <2>6. \A i, n : Flies(i, n)' => Flies(i, n) \/ (i = x /\ n = c)
      BY <1>3, <2>1, <2>3, <2>4
    <2>7. /\ x \in Nat /\ ~Given(x) /\ Given(x)'
          /\ \A i \in Nat : Given(i) => Given(i)'
      BY <1>1, <2>2, <2>1 DEF Given
    <2> QED
      BY <2>5, <2>6, <2>7, OwnedNew
  <1>6. ASSUME Resolve_resolve
        PROVE  Owned'
    <2> DEFINE r == [n |-> calls + 1, id |-> SearchId, action |-> "resolve", sent |-> TRUE]
    <2>1. /\ kind = "resolve" /\ counter' = SearchId + 1
          /\ \/ /\ pending' = Append(pending, r)
                /\ Sends(IF open THEN <<Ask(chan, r)>> ELSE <<>>)
                /\ outq' = IF open THEN outq ELSE Append(outq, Ask(chan, r))
             \/ UNCHANGED <<pending, toServer, outq>>
      BY <1>6, Zenon DEF Resolve_resolve
    <2>2. PICK x, c : x = SearchId /\ c = calls + 1
      OBVIOUS
    <2>3. r.id = x /\ r.n = c
      BY <2>2
    <2> HIDE DEF r
    <2>4. /\ pending' = pending \/ pending' = Append(pending, r)
          /\ toServer' = toServer \/ toServer' = toServer \o <<Ask(chan, r)>>
          /\ outq' = outq \/ outq' = Append(outq, Ask(chan, r))
      BY <1>4, <2>1 DEF Sends
    <2>5. \A i, n : Pends(i, n)' => Pends(i, n) \/ (i = x /\ n = c)
      <3>1. CASE pending' = pending
        BY <3>1 DEF Pends
      <3> QED
        BY <1>2, <2>3, <2>4, <3>1
    <2>6. \A i, n : Flies(i, n)' => Flies(i, n) \/ (i = x /\ n = c)
      BY <1>3, <2>3, <2>4
    <2>7. /\ x \in Nat /\ ~Given(x) /\ Given(x)'
          /\ \A i \in Nat : Given(i) => Given(i)'
      BY <1>1, <2>2, <2>1 DEF Given, SearchId
    <2> QED
      BY <2>5, <2>6, <2>7, OwnedNew
  <1> QED
    BY <1>5, <1>6 DEF Request_made

\* The channel is accepted: what is queued or unsent is written.
LEMMA OwnedOpens ==
    ASSUME Typed, Owned, Opens
    PROVE  Owned'
  <1>1. /\ toServer \in Seq(Signals(nchan) \cup Data("ASK", nchan))
        /\ outq \in Seq(Data("ASK", nchan)) /\ pending \in Seq(Request)
        /\ toClient \in Seq(Signals(nchan) \cup Data("ANSWER", nchan))
    BY DEF Typed, Wired, Tables
  <1>2. /\ UNCHANGED <<kind, counter, chan, work>> /\ outq' = <<>>
        /\ toClient # <<>> /\ toClient' = Tail(toClient)
    BY DEF Opens, Heard, Receives, Rest
  <1>3. chan \in 1..nchan
    BY HeardFacts DEF Opens
  <1>4. ASSUME NEW q \in Seq(Data("ASK", nchan)), Sends(q),
               \A i, n : Carries(q, "ASK", chan, i, n) => Flies(i, n) \/ Pends(i, n),
               NEW i, NEW n, Flies(i, n)'
        PROVE  Flies(i, n) \/ Pends(i, n)
    <2>1. q \in Seq(Signals(nchan) \cup Data("ASK", nchan))
      OBVIOUS
    <2>2. CASE Carries(outq, "ASK", chan, i, n)'
      BY <1>2, <2>2, CarriesEmpty
    <2>3. CASE Carries(toServer, "ASK", chan, i, n)'
      <3>1. toServer' = toServer \/ toServer' = toServer \o q
        BY <1>4 DEF Sends
      <3>2. Carries(toServer', "ASK", chan, i, n)
        BY <1>2, <2>3 DEF Carries
      <3>3. Carries(toServer \o q, "ASK", chan, i, n)
              => Carries(toServer, "ASK", chan, i, n) \/ Carries(q, "ASK", chan, i, n)
        BY <1>1, <2>1, CarriesConcat
      <3>4. Carries(toServer, "ASK", chan, i, n) \/ Carries(q, "ASK", chan, i, n)
        BY <3>2, <3>1, <3>3
      <3> QED
        BY <1>4, <3>4 DEF Flies
    <2>4. CASE Busy(chan, i, n)'
      BY <1>2, <2>4 DEF Busy, Flies
    <2>5. CASE Carries(toClient, "ANSWER", chan, i, n)'
      <3>1. Carries(toClient, "ANSWER", chan, i, n)
        BY <1>1, <1>2, <2>5, CarriesTail
      <3> QED
        BY <3>1 DEF Flies
    <2> QED
      BY <1>4, <2>2, <2>3, <2>4, <2>5 DEF Flies
  <1>5. \A i \in Nat : Given(i) => Given(i)'
    BY <1>2 DEF Given
  <1>6. CASE Resolve_recv_accept
    <2>1. Sends(outq) /\ pending' = pending
      BY <1>6 DEF Resolve_recv_accept
    <2>2. \A i, n : Carries(outq, "ASK", chan, i, n) => Flies(i, n) \/ Pends(i, n)
      BY DEF Flies
    <2>3. \A i, n : Flies(i, n)' => Flies(i, n) \/ Pends(i, n)
      BY <1>1, <1>4, <2>1, <2>2
    <2>4. \A i, n : Pends(i, n)' => Pends(i, n)
      BY <2>1 DEF Pends
    <2> QED
      BY <1>5, <2>3, <2>4, OwnedKept
  <1>7. CASE Storage_recv_accept
    <2>1. PICK k \in 0..Len(pending) : \E at \in [1..k -> Unsent] :
            Sends([i \in 1..k |-> Ask(chan, pending[at[i]])] \o outq)
      BY <1>7 DEF Storage_recv_accept
    <2>2. PICK at \in [1..k -> Unsent] :
            Sends([i \in 1..k |-> Ask(chan, pending[at[i]])] \o outq)
      BY <2>1
    <2> DEFINE burst == [i \in 1..k |-> Ask(chan, pending[at[i]])]
    <2>3. burst \in Seq(Data("ASK", nchan))
      BY <1>3, BurstTyped
    <2>4. \A i, n : Carries(burst, "ASK", chan, i, n) => Pends(i, n)
      <3>1. \A p \in DOMAIN burst : /\ at[p] \in DOMAIN pending /\ burst[p].id = pending[at[p]].id
                                    /\ burst[p].n = pending[at[p]].n
        BY DEF Unsent, Ask
      <3> HIDE DEF burst
      <3> QED
        BY <3>1 DEF Carries, Pends
    <2> HIDE DEF burst
    <2>5. burst \o outq \in Seq(Data("ASK", nchan))
      BY <1>1, <2>3, ConcatProperties
    <2>6. \A i, n : Carries(burst \o outq, "ASK", chan, i, n) => Flies(i, n) \/ Pends(i, n)
      BY <1>1, <2>3, <2>4, CarriesConcat DEF Flies
    <2>7. Sends(burst \o outq)
      BY <2>2 DEF burst
    <2>8. \A i, n : Flies(i, n)' => Flies(i, n) \/ Pends(i, n)
      BY <1>4, <2>5, <2>6, <2>7
    <2>9. \A i, n : Pends(i, n)' => Pends(i, n)
      <3>1. pending' = [i \in DOMAIN pending |-> [pending[i] EXCEPT !.sent = @ \/ up]]
        BY <1>7 DEF Storage_recv_accept
      <3>2. \A p \in DOMAIN pending : pending[p] \in Request
        BY <1>1, ElementOfSeq, LenProperties
      <3>3. DOMAIN pending' = DOMAIN pending
        BY <3>1
      <3>4. \A p \in DOMAIN pending : pending'[p].id = pending[p].id /\ pending'[p].n = pending[p].n
        BY <3>1, <3>2 DEF Request
      <3> QED
        BY <3>3, <3>4 DEF Pends
    <2> QED
      BY <1>5, <2>8, <2>9, OwnedKept
  <1> QED
    BY <1>6, <1>7 DEF Opens

\* Nothing but the ends of the line changes: a message is taken off or lost.
LEMMA FliesLess ==
    ASSUME Typed,
           UNCHANGED <<chan, outq>>,
           toServer' = toServer \/ toServer' = <<>>,
           work' \subseteq work,
           \/ toClient' = toClient
           \/ toClient # <<>> /\ toClient' = Tail(toClient)
           \/ \E k \in 0..Len(toClient) : toClient' = SubSeq(toClient, 1, k)
           \/ \E m : toClient' = Append(toClient, m) /\ m.type # "ANSWER",
           NEW i, NEW n, Flies(i, n)'
    PROVE  Flies(i, n)
  <1>1. toClient \in Seq(Signals(nchan) \cup Data("ANSWER", nchan))
    BY DEF Typed, Wired
  <1>2. CASE Carries(outq, "ASK", chan, i, n)'
    BY <1>2 DEF Flies
  <1>3. CASE Carries(toServer, "ASK", chan, i, n)'
    <2>1. CASE toServer' = toServer
      BY <1>3, <2>1 DEF Flies
    <2>2. CASE toServer' = <<>>
      BY <1>3, <2>2 DEF Carries
    <2> QED
      BY <2>1, <2>2
  <1>4. CASE Busy(chan, i, n)'
    BY <1>4 DEF Busy, Flies
  <1>5. CASE Carries(toClient, "ANSWER", chan, i, n)'
    <2>1. Carries(toClient', "ANSWER", chan, i, n)
      BY <1>5 DEF Carries
    <2>2. CASE toClient' = toClient
      BY <2>1, <2>2 DEF Flies
    <2>3. CASE toClient # <<>> /\ toClient' = Tail(toClient)
      BY <1>1, <2>1, <2>3, CarriesTail DEF Flies
    <2>4. CASE \E k \in 0..Len(toClient) : toClient' = SubSeq(toClient, 1, k)
      BY <1>1, <2>1, <2>4, CarriesPrefix DEF Flies
    <2>5. CASE \E m : toClient' = Append(toClient, m) /\ m.type # "ANSWER"
      <3>1. PICK m : toClient' = Append(toClient, m) /\ m.type # "ANSWER"
        BY <2>5
      <3>2. Carries(Append(toClient, m), "ANSWER", chan, i, n)
              => Carries(toClient, "ANSWER", chan, i, n) \/ m.type = "ANSWER"
        BY <1>1, CarriesAppend
      <3> QED
        BY <2>1, <3>1, <3>2 DEF Flies
    <2> QED
      BY <2>2, <2>3, <2>4, <2>5
  <1> QED
    BY <1>2, <1>3, <1>4, <1>5 DEF Flies

\* Nothing is on its way on a new channel.
LEMMA FliesNot ==
    ASSUME Typed, chan' = nchan + 1, UNCHANGED <<outq, work>>,
           \/ toServer' = <<Create(nchan + 1)>>
           \/ toServer' = toServer \o <<Create(nchan + 1)>>,
           \/ toClient' = toClient
           \/ toClient # <<>> /\ toClient' = Tail(toClient),
           NEW i, NEW n
    PROVE  ~Flies(i, n)'
  <1>1. /\ toClient \in Seq(Signals(nchan) \cup Data("ANSWER", nchan))
        /\ toServer \in Seq(Signals(nchan) \cup Data("ASK", nchan))
        /\ nchan \in Nat
    BY DEF Typed, Wired, Numbers
  <1> DEFINE c == nchan + 1
  <1>2. c \notin 1..nchan
    BY <1>1
  <1> HIDE DEF c
  <1>3. /\ ~Carries(outq, "ASK", c, i, n)
        /\ ~Carries(toServer, "ASK", c, i, n)
        /\ ~Busy(c, i, n)
        /\ ~Carries(toClient, "ANSWER", c, i, n)
    BY <1>2, NoSuchChannel
  <1>4. ~Carries(outq', "ASK", c, i, n)
    BY <1>3
  <1>5. ~Carries(toServer', "ASK", c, i, n)
    <2>1. Create(nchan + 1).type = "CREATE"
      BY DEF Create
    <2>2. Carries(toServer \o <<Create(nchan + 1)>>, "ASK", c, i, n)
            => Carries(toServer, "ASK", c, i, n) \/ Create(nchan + 1).type = "ASK"
      BY <1>1, CarriesExtend
    <2>3. ~Carries(<<Create(nchan + 1)>>, "ASK", c, i, n)
      BY <2>1 DEF Carries
    <2> QED
      BY <1>3, <2>1, <2>2, <2>3
  <1>6. ~Carries(toClient', "ANSWER", c, i, n)
    BY <1>1, <1>3, CarriesTail
  <1>7. ~\E m \in work' : m.chan = c /\ m.id = i /\ m.n = n
    BY <1>3 DEF Busy
  <1>8. c = chan'
    BY DEF c
  <1> QED
    BY <1>4, <1>5, <1>6, <1>7, <1>8 DEF Flies, Busy, Carries

LEMMA OwnedReads ==
    ASSUME Typed, Owned, ServerReads
    PROVE  Owned'
  <1>1. /\ toServer \in Seq(Signals(nchan) \cup Data("ASK", nchan)) /\ toServer # <<>>
        /\ toClient \in Seq(Signals(nchan) \cup Data("ANSWER", nchan))
    BY DEF Typed, Wired, ServerReads
  <1>2. /\ toServer' = Tail(toServer) /\ UNCHANGED <<kind, chan, counter, pending, outq>>
        /\ work' = work \/ (Head(toServer).type = "ASK" /\ work' = work \cup {Head(toServer)})
    BY DEF ServerReads
  <1>3. \/ toClient' = toClient
        \/ toClient' = toClient \o <<Sense>>
        \/ toClient' = toClient \o <<Accept(Head(toServer).chan)>>
        \/ toClient' = toClient \o <<Destroy(Head(toServer).chan)>>
    BY DEF ServerReads
  <1>4. ASSUME NEW i, NEW n, Flies(i, n)'
        PROVE  Flies(i, n)
    <2>1. CASE Carries(outq, "ASK", chan, i, n)'
      BY <1>2, <2>1 DEF Flies
    <2>2. CASE Carries(toServer, "ASK", chan, i, n)'
      <3>1. Carries(toServer', "ASK", chan, i, n)
        BY <1>2, <2>2 DEF Carries
      <3> QED
        BY <1>1, <1>2, <3>1, CarriesTail DEF Flies
    <2>3. CASE Busy(chan, i, n)'
      <3>1. PICK m \in work' : m.chan = chan /\ m.id = i /\ m.n = n
        BY <1>2, <2>3 DEF Busy
      <3>2. CASE m \in work
        BY <3>1, <3>2 DEF Busy, Flies
      <3>3. CASE Head(toServer).type = "ASK" /\ m = Head(toServer)
        <4>1. Carries(toServer, "ASK", Head(toServer).chan, Head(toServer).id, Head(toServer).n)
          BY <1>1, <3>3, CarriesTail
        <4> QED
          BY <3>1, <3>3, <4>1 DEF Flies
      <3> QED
        BY <1>2, <3>1, <3>2, <3>3
    <2>4. CASE Carries(toClient, "ANSWER", chan, i, n)'
      <3>1. Carries(toClient', "ANSWER", chan, i, n)
        BY <1>2, <2>4 DEF Carries
      <3>2. CASE toClient' = toClient
        BY <3>1, <3>2 DEF Flies
      <3>3. ASSUME NEW m, toClient' = toClient \o <<m>>, m.type # "ANSWER"
            PROVE  Flies(i, n)
        <4>1. Carries(toClient \o <<m>>, "ANSWER", chan, i, n)
                => Carries(toClient, "ANSWER", chan, i, n) \/ m.type = "ANSWER"
          BY <1>1, CarriesExtend
        <4> QED
          BY <3>1, <3>3, <4>1 DEF Flies
      <3> QED
        BY <1>3, <3>2, <3>3 DEF Accept, Destroy, Sense
    <2> QED
      BY <1>4, <2>1, <2>2, <2>3, <2>4 DEF Flies
  <1>5. \A i, n : Pends(i, n)' => Pends(i, n)
    BY <1>2 DEF Pends
  <1>6. \A i \in Nat : Given(i) => Given(i)'
    BY <1>2 DEF Given
  <1> QED
    BY <1>4, <1>5, <1>6, OwnedKept

LEMMA OwnedAnswers ==
    ASSUME Typed, Owned, NEW m \in work, ServerAnswers(m)
    PROVE  Owned'
  <1>1. /\ toClient \in Seq(Signals(nchan) \cup Data("ANSWER", nchan))
        /\ m \in Data("ASK", nchan)
    BY DEF Typed, Wired
  <1>2. /\ UNCHANGED <<kind, chan, counter, pending, outq, toServer>>
        /\ work' \subseteq work /\ toClient' = Append(toClient, Answer(m))
    BY DEF ServerAnswers
  <1>3. ASSUME NEW i, NEW n, Flies(i, n)'
        PROVE  Flies(i, n)
    <2>1. CASE Carries(outq, "ASK", chan, i, n)'
      BY <1>2, <2>1 DEF Flies
    <2>2. CASE Carries(toServer, "ASK", chan, i, n)'
      BY <1>2, <2>2 DEF Flies
    <2>3. CASE Busy(chan, i, n)'
      BY <1>2, <2>3 DEF Busy, Flies
    <2>4. CASE Carries(toClient, "ANSWER", chan, i, n)'
      <3>1. Carries(toClient', "ANSWER", chan, i, n)
        BY <1>2, <2>4 DEF Carries
      <3>2. Carries(Append(toClient, Answer(m)), "ANSWER", chan, i, n)
              => \/ Carries(toClient, "ANSWER", chan, i, n)
                 \/ Answer(m).chan = chan /\ Answer(m).id = i /\ Answer(m).n = n
        BY <1>1, CarriesAppend
      <3>3. Answer(m).chan = m.chan /\ Answer(m).id = m.id /\ Answer(m).n = m.n
        BY <1>1 DEF Answer, Data
      <3> QED
        BY <1>2, <3>1, <3>2, <3>3 DEF Flies, Busy
    <2> QED
      BY <1>3, <2>1, <2>2, <2>3, <2>4 DEF Flies
  <1>4. \A i, n : Pends(i, n)' => Pends(i, n)
    BY <1>2 DEF Pends
  <1>5. \A i \in Nat : Given(i) => Given(i)'
    BY <1>2 DEF Given
  <1> QED
    BY <1>3, <1>4, <1>5, OwnedKept

LEMMA OwnedStep ==
    ASSUME Typed, Owned, [Next]_vars
    PROVE  Owned'
  <1>1. Typed'
    BY TypedStep
  <1>2. ASSUME UNCHANGED pending
        PROVE  \A i, n : Pends(i, n)' => Pends(i, n)
    BY <1>2 DEF Pends
  <1>3. ASSUME UNCHANGED <<kind, counter>>
        PROVE  \A i \in Nat : Given(i) => Given(i)'
    BY <1>3 DEF Given
  <1>4. ASSUME chan' = nchan + 1, UNCHANGED <<kind, counter, pending, outq, work>>,
               \/ toServer' = <<Create(nchan + 1)>>
               \/ toServer' = toServer \o <<Create(nchan + 1)>>,
               \/ toClient' = toClient
               \/ toClient # <<>> /\ toClient' = Tail(toClient)
        PROVE  Owned'
    <2>1. \A i, n : ~Flies(i, n)'
      BY <1>4, FliesNot
    <2> QED
      BY <1>4, <1>2, <1>3, <2>1, OwnedKept
  <1>5. CASE \E i \in DOMAIN pending : cancelResolve(i)
    <2>1. PICK j \in DOMAIN pending : cancelResolve(j)
      BY <1>5
    <2>2. /\ pending' = RemoveAt(pending, j)
          /\ UNCHANGED <<kind, chan, counter, outq, toServer, toClient, work>>
      BY <2>1 DEF cancelResolve
    <2>3. \A i, n : Flies(i, n)' => Flies(i, n)
      BY <2>2, FliesLess
    <2>4. \A i, n : Pends(i, n)' => Pends(i, n)
      BY <2>2, RemovedPends
    <2> QED
      BY <1>3, <2>2, <2>3, <2>4, OwnedKept
  <1>6. CASE Handle
    <2>1. CASE Closes
      BY <1>1, <2>1, OwnedStopped DEF Closes, stop, Storage_stop, Resolve_stop, FreePending
    <2>2. CASE Answers
      <3>1. /\ UNCHANGED <<kind, chan, counter, outq, toServer, work>>
            /\ toClient # <<>> /\ toClient' = Tail(toClient)
        BY <2>2 DEF Answers, Heard, Receives, Rest
      <3>2. \/ pending' = pending
            \/ \E j \in DOMAIN pending : pending' = RemoveAt(pending, j)
        BY <2>2 DEF Answers, Storage_recv, Resolve_recv, Answered, Unmatched
      <3>3. \A i, n : Flies(i, n)' => Flies(i, n)
        BY <3>1, FliesLess
      <3>4. \A i, n : Pends(i, n)' => Pends(i, n)
        BY <1>2, <3>2, RemovedPends
      <3> QED
        BY <1>3, <3>1, <3>3, <3>4, OwnedKept
    <2>3. CASE Ignores
      <3>1. /\ UNCHANGED <<kind, chan, counter, pending, outq, toServer, work>>
            /\ toClient # <<>> /\ toClient' = Tail(toClient)
        BY <2>3 DEF Ignores, Dropped, Rest
      <3>2. \A i, n : Flies(i, n)' => Flies(i, n)
        BY <3>1, FliesLess
      <3> QED
        BY <1>2, <1>3, <3>1, <3>2, OwnedKept
    <2>4. CASE SENSE_SERVICE_recv
      <3>1. /\ UNCHANGED <<kind, counter, pending, outq, work>> /\ start
            /\ toClient # <<>> /\ toClient' = Tail(toClient)
        BY <2>4 DEF SENSE_SERVICE_recv, Receives, Rest
      <3>2. CASE up /\ sstate = "STOPPED"
        BY <1>4, <3>1, <3>2 DEF start, Sends
      <3>3. CASE ~(up /\ sstate = "STOPPED")
        <4>1. UNCHANGED <<chan, toServer>>
          BY <3>1, <3>3 DEF start
        <4>2. \A i, n : Flies(i, n)' => Flies(i, n)
          BY <3>1, <4>1, FliesLess
        <4> QED
          BY <1>2, <1>3, <3>1, <4>2, OwnedKept
      <3> QED
        BY <3>2, <3>3
    <2> QED
      BY <1>6, <2>1, <2>2, <2>3, <2>4, HandleCases, OwnedOpens
  <1>7. CASE SessionStarts
    BY <1>4, <1>7 DEF SessionStarts
  <1>8. CASE SessionStops
    <2>1. chan' = 0
      BY <1>8 DEF SessionStops, stop, Typed, Linked
    <2>2. pending' = <<>> \/ UNCHANGED <<kind, counter, pending>>
      BY <1>8 DEF SessionStops, stop, Storage_stop, Resolve_stop, FreePending
    <2> QED
      BY <1>1, <2>1, <2>2, OwnedStopped
  <1>9. CASE ServerDestroys
    <2>1. /\ UNCHANGED <<kind, chan, counter, pending, outq, toServer>>
          /\ work' \subseteq work /\ toClient' = Append(toClient, Destroy(chan))
          /\ Destroy(chan).type # "ANSWER"
      BY <1>9 DEF ServerDestroys, Destroy
    <2>2. \A i, n : Flies(i, n)' => Flies(i, n)
      BY <2>1, FliesLess
    <2> QED
      BY <1>2, <1>3, <2>1, <2>2, OwnedKept
  <1>10. CASE ConnectionBreaks
    <2>1. /\ UNCHANGED <<kind, chan, counter, pending, outq>> /\ toServer' = <<>>
          /\ work' \subseteq work
          /\ \E k \in 0..Len(toClient) : toClient' = SubSeq(toClient, 1, k)
      BY <1>10 DEF ConnectionBreaks
    <2>2. \A i, n : Flies(i, n)' => Flies(i, n)
      BY <2>1, FliesLess
    <2> QED
      BY <1>2, <1>3, <2>1, <2>2, OwnedKept
  <1>11. CASE UNCHANGED vars
    <2>1. UNCHANGED <<kind, chan, counter, pending, outq, toServer, toClient, work>>
      BY <1>11 DEF vars
    <2>2. \A i, n : Flies(i, n)' => Flies(i, n)
      BY <2>1, FliesLess
    <2> QED
      BY <1>2, <1>3, <2>1, <2>2, OwnedKept
  <1> QED
    BY <1>5, <1>6, <1>7, <1>8, <1>9, <1>10, <1>11, OwnedRequest, OwnedReads, OwnedAnswers DEF Next

LEMMA OwnedInit == Init => Owned
  <1> SUFFICES ASSUME Init PROVE Owned
    OBVIOUS
  <1>1. \A i, n : ~Pends(i, n) /\ ~Flies(i, n)
    BY DEF Init, Pends, Flies, Carries, Busy
  <1> QED
    BY <1>1 DEF Owned

LEMMA OwnAnswerStep ==
    ASSUME Typed, Owned, OwnAnswer, [Next]_vars
    PROVE  OwnAnswer'
  <1>1. /\ fate \in [Calls -> Fate]
        /\ toClient \in Seq(Signals(nchan) \cup Data("ANSWER", nchan))
    BY DEF Typed, Histories, Wired
  <1>2. ASSUME UNCHANGED fate
        PROVE  OwnAnswer'
    BY <1>2 DEF OwnAnswer
  <1>3. ASSUME NEW n \in Calls, NEW f, fate' = [fate EXCEPT ![n] = f], f.end = "answered" => f.n = n
        PROVE  OwnAnswer'
    BY <1>1, <1>3 DEF OwnAnswer
  <1>4. ASSUME FreePending
        PROVE  OwnAnswer'
    <2>1. Ended("dropped").end # "answered"
      BY DEF Ended
    <2>2. \A n \in Calls : fate'[n] = Ended("dropped") \/ fate'[n] = fate[n]
      BY <1>4 DEF FreePending
    <2> QED
      BY <2>1, <2>2 DEF OwnAnswer
  <1>5. \A p \in DOMAIN pending : pending[p].n \in Calls
    <2>1. \A p \in DOMAIN pending : pending[p] \in Request
      BY ElementOfSeq, LenProperties DEF Typed, Tables
    <2> QED
      BY <2>1 DEF Request
  <1>6. CASE Request_made
    <2>1. calls + 1 \in Calls
      BY <1>6, NewRequest
    <2>2. Ended("waiting").end # "answered" /\ Ended("refused").end # "answered"
      BY DEF Ended
    <2>3. \/ fate' = [fate EXCEPT ![calls + 1] = Ended("waiting")]
          \/ fate' = [fate EXCEPT ![calls + 1] = Ended("refused")]
      BY <1>6 DEF Request_made, Storage_request, Resolve_resolve
    <2> QED
      BY <1>3, <2>1, <2>2, <2>3
  <1>7. CASE \E i \in DOMAIN pending : cancelResolve(i)
    <2>1. PICK i \in DOMAIN pending : fate' = [fate EXCEPT ![pending[i].n] = Ended("cancelled")]
      BY <1>7 DEF cancelResolve
    <2>2. Ended("cancelled").end # "answered"
      BY DEF Ended
    <2> QED
      BY <1>3, <1>5, <2>1, <2>2
  <1>8. CASE Handle
    <2>1. CASE Opens \/ Ignores \/ SENSE_SERVICE_recv
      BY <1>2, <2>1 DEF Opens, Ignores, Dropped, SENSE_SERVICE_recv
    <2>2. CASE Closes
      BY <1>4, <2>2 DEF Closes, stop, Storage_stop, Resolve_stop
    <2>3. CASE Answers
      <3> DEFINE a == Head(toClient)
      <3>1. toClient # <<>> /\ a.type = "ANSWER" /\ a.chan = chan
        BY <2>3 DEF Answers, Heard, Receives
      <3>2. Flies(a.id, a.n)
        BY <1>1, <3>1, CarriesTail DEF Flies
      <3>3. \/ UNCHANGED fate
            \/ \E i \in DOMAIN pending : Matches(i, a) /\ Answered(i, a)
        BY <2>3 DEF Answers, Storage_recv, Resolve_recv, Unmatched
      <3> HIDE DEF a
      <3>4. ASSUME NEW i \in DOMAIN pending, Matches(i, a), Answered(i, a)
            PROVE  OwnAnswer'
        <4>1. Pends(a.id, pending[i].n)
          BY <3>4 DEF Matches, Pends
        <4>2. pending[i].n = a.n
          BY <3>2, <4>1 DEF Owned
        <4>3. fate' = [fate EXCEPT ![pending[i].n] = [end |-> "answered", n |-> a.n]]
          BY <3>4 DEF Answered
        <4> QED
          BY <1>3, <1>5, <4>2, <4>3
      <3> QED
        BY <1>2, <3>3, <3>4
    <2> QED
      BY <1>8, <2>1, <2>2, <2>3, HandleCases
  <1>9. CASE SessionStops
    BY <1>2, <1>4, <1>9 DEF SessionStops, stop, Storage_stop, Resolve_stop
  <1>10. CASE SessionStarts \/ ServerReads \/ (\E m \in work : ServerAnswers(m))
              \/ ServerDestroys \/ ConnectionBreaks \/ UNCHANGED vars
    BY <1>2, <1>10 DEF SessionStarts, ServerReads, ServerAnswers, ServerDestroys, ConnectionBreaks,
                      vars, history
  <1> QED
    BY <1>6, <1>7, <1>8, <1>9, <1>10 DEF Next

\* An answer is given to the call it answers: recv of either service never
\* hands the answer of one call to the call-back of another, for any number of
\* calls, destroyed channels and sessions.
THEOREM OwnAnswerCorrect == Spec => []OwnAnswer
  <1>1. Init => Typed /\ Owned /\ OwnAnswer
    <2>1. Init => OwnAnswer
      BY DEF Init, OwnAnswer, Ended
    <2> QED
      BY <2>1, TypedInit, OwnedInit
  <1>2. Typed /\ Owned /\ OwnAnswer /\ [Next]_vars => (Typed /\ Owned /\ OwnAnswer)'
    BY TypedStep, OwnedStep, OwnAnswerStep
  <1> QED
    BY <1>1, <1>2, PTL DEF Spec

-----------------------------------------------------------------------------
(* The order of the calls.  Before a request there are only earlier ones,  *)
(* from what the server has seen over what is on its way to what waits.    *)

Asks(s, n) == \E p \in DOMAIN s : s[p].type = "ASK" /\ s[p].n = n
AsksBefore(s, a, b) ==
    \E p, q \in DOMAIN s : /\ p < q
                           /\ s[p].type = "ASK" /\ s[p].n = a
                           /\ s[q].type = "ASK" /\ s[q].n = b

\* Storage keeps what waits with the requests, resolve in the queue of the
\* channel.
Keeps(n) == \E p \in Unsent : pending[p].n = n
KeepsBefore(a, b) == \E p, q \in Unsent : p < q /\ pending[p].n = a /\ pending[q].n = b
Waits(n) == IF kind = "storage" THEN Keeps(n) ELSE Asks(outq, n)
WaitsBefore(a, b) == IF kind = "storage" THEN KeepsBefore(a, b) ELSE AsksBefore(outq, a, b)

Reached(n) == \E p \in DOMAIN seen : seen[p] = n
ReachedBefore(a, b) == \E p, q \in DOMAIN seen : p < q /\ seen[p] = a /\ seen[q] = b

Known(n) == Reached(n) \/ Asks(toServer, n) \/ Waits(n)
Ahead(a, b) ==
    \/ ReachedBefore(a, b)
    \/ AsksBefore(toServer, a, b)
    \/ WaitsBefore(a, b)
    \/ Reached(a) /\ (Asks(toServer, b) \/ Waits(b))
    \/ Asks(toServer, a) /\ Waits(b)

Ordered ==
    /\ \A n : Known(n) => n \in 1..calls
    /\ \A a, b : Ahead(a, b) => a < b

\* What can be written at once is not kept.
Ready ==
    /\ kind = "storage" => outq = <<>>
    /\ open => outq = <<>>
    /\ kind = "storage" /\ sstate = "STARTED" /\ up => Unsent = {}

LEMMA AsksConcat ==
    ASSUME NEW S, NEW s \in Seq(S), NEW u \in Seq(S)
    PROVE  /\ \A n : Asks(s \o u, n) => Asks(s, n) \/ Asks(u, n)
           /\ \A a, b : AsksBefore(s \o u, a, b) =>
                \/ AsksBefore(s, a, b) \/ AsksBefore(u, a, b)
                \/ Asks(s, a) /\ Asks(u, b)
  <1>1. /\ \A p \in DOMAIN (s \o u) :
             \/ p \in DOMAIN s /\ (s \o u)[p] = s[p]
             \/ p - Len(s) \in DOMAIN u /\ (s \o u)[p] = u[p - Len(s)] /\ p > Len(s)
        /\ \A p \in DOMAIN s : p \in Nat /\ p <= Len(s)
        /\ DOMAIN (s \o u) \subseteq Nat /\ Len(s) \in Nat
    BY ConcatProperties, LenProperties
  <1>2. \A n : Asks(s \o u, n) => Asks(s, n) \/ Asks(u, n)
    BY <1>1 DEF Asks
  <1>3. ASSUME NEW a, NEW b, AsksBefore(s \o u, a, b)
        PROVE  AsksBefore(s, a, b) \/ AsksBefore(u, a, b) \/ (Asks(s, a) /\ Asks(u, b))
    <2> DEFINE w == s \o u
    <2>1. PICK p \in DOMAIN w, q \in DOMAIN w :
            p < q /\ w[p].type = "ASK" /\ w[p].n = a /\ w[q].type = "ASK" /\ w[q].n = b
      BY <1>3 DEF AsksBefore
    <2>2. CASE q \in DOMAIN s /\ w[q] = s[q]
      <3>1. p \in DOMAIN s /\ w[p] = s[p]
        BY <1>1, <2>1, <2>2
      <3> HIDE DEF w
      <3> QED
        BY <2>1, <2>2, <3>1 DEF AsksBefore
    <2>3. CASE q - Len(s) \in DOMAIN u /\ w[q] = u[q - Len(s)]
      <3>1. CASE p \in DOMAIN s /\ w[p] = s[p]
        <4> HIDE DEF w
        <4> QED
          BY <2>1, <2>3, <3>1 DEF Asks
      <3>2. CASE p - Len(s) \in DOMAIN u /\ w[p] = u[p - Len(s)]
        <4>1. p - Len(s) < q - Len(s)
          BY <1>1, <2>1
        <4> HIDE DEF w
        <4> QED
          BY <2>1, <2>3, <3>2, <4>1 DEF AsksBefore
      <3> QED
        BY <1>1, <2>1, <3>1, <3>2
    <2> QED
      BY <1>1, <2>1, <2>2, <2>3
  <1> QED
    BY <1>2, <1>3

LEMMA AsksOne ==
    ASSUME NEW m
    PROVE  /\ \A n : Asks(<<m>>, n) => m.type = "ASK" /\ n = m.n
           /\ \A a, b : ~AsksBefore(<<m>>, a, b)
           /\ \A n : ~Asks(<<>>, n)
           /\ \A a, b : ~AsksBefore(<<>>, a, b)
  BY DEF Asks, AsksBefore

LEMMA AsksTail ==
    ASSUME NEW S, NEW s \in Seq(S), s # <<>>
    PROVE  /\ \A n : Asks(Tail(s), n) => Asks(s, n)
           /\ \A a, b : AsksBefore(Tail(s), a, b) => AsksBefore(s, a, b)
           /\ Head(s).type = "ASK" => /\ Asks(s, Head(s).n)
                                      /\ \A n : Asks(Tail(s), n) => AsksBefore(s, Head(s).n, n)
  <1>1. /\ \A p \in DOMAIN Tail(s) : p \in Nat /\ p > 0 /\ p + 1 \in DOMAIN s /\ Tail(s)[p] = s[p + 1]
        /\ 1 \in DOMAIN s /\ s[1] = Head(s)
    BY HeadTailProperties, LenProperties
  <1>2. \A n : Asks(Tail(s), n) => Asks(s, n)
    BY <1>1 DEF Asks
  <1>3. \A a, b : AsksBefore(Tail(s), a, b) => AsksBefore(s, a, b)
    <2> SUFFICES ASSUME NEW a, NEW b, AsksBefore(Tail(s), a, b) PROVE AsksBefore(s, a, b)
      OBVIOUS
    <2>1. PICK p \in DOMAIN Tail(s), q \in DOMAIN Tail(s) :
            /\ p < q /\ Tail(s)[p].type = "ASK" /\ Tail(s)[p].n = a
            /\ Tail(s)[q].type = "ASK" /\ Tail(s)[q].n = b
      BY DEF AsksBefore
    <2>2. p + 1 \in DOMAIN s /\ q + 1 \in DOMAIN s /\ p + 1 < q + 1
          /\ s[p + 1] = Tail(s)[p] /\ s[q + 1] = Tail(s)[q]
      BY <1>1, <2>1
    <2> QED
      BY <2>1, <2>2 DEF AsksBefore
  <1>4. Head(s).type = "ASK" => \A n : Asks(Tail(s), n) => AsksBefore(s, Head(s).n, n)
    <2> SUFFICES ASSUME Head(s).type = "ASK", NEW n, Asks(Tail(s), n)
                 PROVE  AsksBefore(s, Head(s).n, n)
      OBVIOUS
    <2>1. PICK q \in DOMAIN Tail(s) : Tail(s)[q].type = "ASK" /\ Tail(s)[q].n = n
      BY DEF Asks
    <2>2. q + 1 \in DOMAIN s /\ 1 < q + 1 /\ s[q + 1] = Tail(s)[q]
      BY <1>1, <2>1
    <2> QED
      BY <1>1, <2>1, <2>2 DEF AsksBefore
  <1>5. Head(s).type = "ASK" => Asks(s, Head(s).n)
    BY <1>1 DEF Asks
  <1> QED
    BY <1>2, <1>3, <1>4, <1>5

\* Nothing is added to the line and nothing changes places.
LEMMA OrderedKept ==
    ASSUME Ordered, UNCHANGED seen, calls \in Nat, calls' \in Nat, calls <= calls',
           \A n : Asks(toServer', n) => Asks(toServer, n),
           \A a, b : AsksBefore(toServer', a, b) => AsksBefore(toServer, a, b),
           \A n : Waits(n)' => Waits(n),
           \A a, b : WaitsBefore(a, b)' => WaitsBefore(a, b)
    PROVE  Ordered'
  <1>1. \A n : Reached(n)' => Reached(n)
    BY DEF Reached
  <1>2. \A a, b : ReachedBefore(a, b)' => ReachedBefore(a, b)
    BY DEF ReachedBefore
  <1>3. (\A n : Asks(toServer, n)' => Asks(toServer, n))
        /\ (\A a, b : AsksBefore(toServer, a, b)' => AsksBefore(toServer, a, b))
    BY DEF Asks, AsksBefore
  <1>4. \A n : Known(n)' => n \in 1..calls'
    BY <1>1, <1>3 DEF Ordered, Known
  <1>5. \A a, b : Ahead(a, b)' => Ahead(a, b)
    BY <1>1, <1>2, <1>3 DEF Ahead
  <1> QED
    BY <1>4, <1>5 DEF Ordered

\* Removing a request keeps the others in their order.
LEMMA RemovedKeeps ==
    ASSUME Typed, NEW j \in DOMAIN pending, pending' = RemoveAt(pending, j)
    PROVE  /\ \A n : Keeps(n)' => Keeps(n)
           /\ \A a, b : KeepsBefore(a, b)' => KeepsBefore(a, b)
           /\ Unsent = {} => Unsent' = {}
  <1>1. pending \in Seq(Request) /\ DOMAIN pending = 1..Len(pending) /\ Len(pending) \in Nat
    BY LenProperties DEF Typed, Tables
  <1>2. /\ pending' \in Seq(Request) /\ Len(pending') = Len(pending) - 1
        /\ \A q \in 1..(Len(pending) - 1) :
             pending'[q] = IF q < j THEN pending[q] ELSE pending[q + 1]
    BY <1>1, RemoveAtFacts
  <1>3. DOMAIN pending' = 1..(Len(pending) - 1)
    BY <1>2, LenProperties
  <1> DEFINE e(q) == IF q < j THEN q ELSE q + 1
  <1>4. \A q \in DOMAIN pending' : e(q) \in DOMAIN pending /\ pending'[q] = pending[e(q)]
    BY <1>1, <1>2, <1>3
  <1>5. \A p, q \in DOMAIN pending' : p < q => e(p) < e(q)
    BY <1>1, <1>3
  <1> HIDE DEF e
  <1>6. \A q \in Unsent' : q \in DOMAIN pending' /\ e(q) \in Unsent /\ pending'[q] = pending[e(q)]
    BY <1>4 DEF Unsent
  <1>7. \A n : Keeps(n)' => Keeps(n)
    BY <1>6 DEF Keeps
  <1>8. \A a, b : KeepsBefore(a, b)' => KeepsBefore(a, b)
    BY <1>5, <1>6 DEF KeepsBefore
  <1>9. Unsent = {} => Unsent' = {}
    BY <1>6
  <1> QED
    BY <1>7, <1>8, <1>9

\* A new request comes behind the others.
LEMMA AppendedKeeps ==
    ASSUME Typed, NEW r, pending' = Append(pending, r)
    PROVE  /\ \A n : Keeps(n)' => Keeps(n) \/ (n = r.n /\ ~r.sent)
           /\ \A a, b : KeepsBefore(a, b)' => KeepsBefore(a, b) \/ (Keeps(a) /\ b = r.n)
           /\ r.sent => Unsent' = Unsent
  <1>1. /\ pending \in Seq(Request) /\ DOMAIN pending = 1..Len(pending) /\ Len(pending) \in Nat
    BY LenProperties DEF Typed, Tables
  <1>2. /\ DOMAIN pending' = 1..(Len(pending) + 1)
        /\ \A q \in 1..Len(pending) : pending'[q] = pending[q]
        /\ pending'[Len(pending) + 1] = r
    BY <1>1, AppendProperties
  <1>3. \A q \in Unsent' : \/ q \in Unsent /\ pending'[q] = pending[q]
                           \/ q = Len(pending) + 1 /\ pending'[q] = r /\ ~r.sent
    BY <1>1, <1>2 DEF Unsent
  <1>4. Unsent \subseteq Unsent'
    BY <1>1, <1>2 DEF Unsent
  <1>5. \A n : Keeps(n)' => Keeps(n) \/ (n = r.n /\ ~r.sent)
    BY <1>3 DEF Keeps
  <1>6. \A a, b : KeepsBefore(a, b)' => KeepsBefore(a, b) \/ (Keeps(a) /\ b = r.n)
    <2> SUFFICES ASSUME NEW a, NEW b, KeepsBefore(a, b)'
                 PROVE  KeepsBefore(a, b) \/ (Keeps(a) /\ b = r.n)
      OBVIOUS
    <2>1. PICK p \in Unsent', q \in Unsent' : p < q /\ pending'[p].n = a /\ pending'[q].n = b
      BY DEF KeepsBefore
    <2>2. p \in DOMAIN pending' /\ q \in DOMAIN pending'
      BY <2>1 DEF Unsent
    <2>3. p \in Unsent /\ pending'[p] = pending[p]
      BY <1>1, <1>2, <1>3, <2>1, <2>2
    <2> QED
      BY <1>3, <2>1, <2>3 DEF KeepsBefore, Keeps
  <1>7. r.sent => Unsent' = Unsent
    BY <1>3, <1>4
  <1> QED
    BY <1>5, <1>6, <1>7

\* Without requests nothing is kept.
LEMMA EmptyKeeps ==
    ASSUME pending' = <<>>
    PROVE  /\ \A n : ~Keeps(n)' /\ \A a, b : ~KeepsBefore(a, b)' /\ Unsent' = {}
  <1>1. Unsent' = {}
    BY DEF Unsent
  <1> QED
    BY <1>1 DEF Keeps, KeepsBefore

LEMMA ReadyStep ==
    ASSUME Typed, Ready, [Next]_vars
    PROVE  Ready'
  <1>1. kind \in {"storage", "resolve"}
    BY DEF Typed, Flags
  <1>2. ASSUME UNCHANGED <<kind, sstate, open, outq, up, pending>>
        PROVE  Ready'
    BY <1>2 DEF Ready, Unsent
  <1>3. ASSUME UNCHANGED <<kind, sstate, open, outq, up>>,
               NEW j \in DOMAIN pending, pending' = RemoveAt(pending, j)
        PROVE  Ready'
    <2>1. Unsent = {} => Unsent' = {}
      BY <1>3, RemovedKeeps
    <2> QED
      BY <1>3, <2>1 DEF Ready
  <1>4. ASSUME UNCHANGED kind, sstate' = "STOPPED", open' = FALSE, outq' = <<>>
        PROVE  Ready'
    BY <1>4 DEF Ready
  <1>5. ASSUME UNCHANGED <<kind, outq>>, sstate' = "STARTING", open' = FALSE
        PROVE  Ready'
    BY <1>5 DEF Ready
  <1>6. CASE Request_made
    <2>1. UNCHANGED <<kind, sstate, open, up>>
      BY <1>6 DEF Request_made
    <2>2. ASSUME NEW action \in {"load", "save"}, Storage_request(action)
          PROVE  Ready'
      <3> DEFINE r == [n |-> calls + 1, id |-> NextId, action |-> action,
                       sent |-> sstate = "STARTED" /\ up]
      <3>1. pending' = Append(pending, r) /\ UNCHANGED outq
        BY <2>2 DEF Storage_request, Cached
      <3>2. sstate = "STARTED" /\ up => r.sent
        BY Zenon
      <3> HIDE DEF r
      <3>3. sstate = "STARTED" /\ up => Unsent' = Unsent
        BY <3>1, <3>2, AppendedKeeps
      <3> QED
        BY <2>1, <3>1, <3>3 DEF Ready
    <2>3. ASSUME Resolve_resolve
          PROVE  Ready'
      BY <2>1, <2>3 DEF Resolve_resolve, Ready
    <2> QED
      BY <1>6, <2>2, <2>3 DEF Request_made
  <1>7. CASE \E i \in DOMAIN pending : cancelResolve(i)
    BY <1>3, <1>7 DEF cancelResolve
  <1>8. CASE Handle
    <2>1. CASE Opens
      <3>1. outq' = <<>> /\ UNCHANGED <<kind, up>>
        BY <2>1 DEF Opens, Heard, Rest
      <3>2. CASE Storage_recv_accept
        <4>1. ASSUME up PROVE Unsent' = {}
          <5>1. pending' = [i \in DOMAIN pending |-> [pending[i] EXCEPT !.sent = @ \/ up]]
            BY <3>2 DEF Storage_recv_accept
          <5>2. \A p \in DOMAIN pending : pending[p] \in Request
            BY ElementOfSeq, LenProperties DEF Typed, Tables
          <5>3. \A p \in DOMAIN pending' : pending'[p].sent
            BY <4>1, <5>1, <5>2 DEF Request
          <5> QED
            BY <5>3 DEF Unsent
        <4> QED
          BY <3>1, <4>1 DEF Ready
      <3>3. CASE Resolve_recv_accept
        BY <3>1, <3>3 DEF Resolve_recv_accept, Ready
      <3> QED
        BY <2>1, <3>2, <3>3 DEF Opens
    <2>2. CASE Closes
      BY <1>4, <2>2 DEF Closes, Heard, Rest, stop
    <2>3. CASE Answers
      <3>1. UNCHANGED <<kind, sstate, open, outq, up>>
        BY <2>3 DEF Answers, Heard, Rest
      <3>2. \/ pending' = pending
            \/ \E j \in DOMAIN pending : pending' = RemoveAt(pending, j)
        BY <2>3 DEF Answers, Storage_recv, Resolve_recv, Answered, Unmatched
      <3> QED
        BY <1>2, <1>3, <3>1, <3>2
    <2>4. CASE Ignores
      BY <1>2, <2>4 DEF Ignores, Dropped, Rest
    <2>5. CASE SENSE_SERVICE_recv
      <3>1. UNCHANGED <<kind, outq, up, pending>> /\ start
        BY <2>5 DEF SENSE_SERVICE_recv, Rest
      <3>2. CASE up /\ sstate = "STOPPED"
        BY <1>5, <3>1, <3>2 DEF start
      <3>3. CASE ~(up /\ sstate = "STOPPED")
        BY <1>2, <3>1, <3>3 DEF start
      <3> QED
        BY <3>2, <3>3
    <2> QED
      BY <1>8, <2>1, <2>2, <2>3, <2>4, <2>5, HandleCases
  <1>9. CASE SessionStarts
    BY <1>5, <1>9 DEF SessionStarts
  <1>10. CASE SessionStops
    <2>1. CASE sstate # "STOPPED" /\ stop
      BY <1>4, <1>10, <2>1 DEF SessionStops, stop
    <2>2. CASE UNCHANGED <<sstate, chan, open, counter, pending, outq, fate>>
      BY <1>10, <2>2 DEF SessionStops, Ready
    <2> QED
      BY <1>10, <2>1, <2>2 DEF SessionStops
  <1>11. CASE ServerReads \/ (\E m \in work : ServerAnswers(m)) \/ ServerDestroys \/ UNCHANGED vars
    BY <1>2, <1>11 DEF ServerReads, ServerAnswers, ServerDestroys, vars
  <1>12. CASE ConnectionBreaks
    BY <1>12 DEF ConnectionBreaks, Ready
  <1> QED
    BY <1>6, <1>7, <1>8, <1>9, <1>10, <1>11, <1>12 DEF Next

\* A new call comes last in the line.
LEMMA OrderedNew ==
    ASSUME Ordered, calls \in Nat, calls' = calls + 1,
           \A n : Known(n)' => Known(n) \/ n = calls + 1,
           \A a, b : Ahead(a, b)' => Ahead(a, b) \/ (Known(a) /\ b = calls + 1)
    PROVE  Ordered'
  <1>1. \A n : Known(n)' => n \in 1..calls'
    BY DEF Ordered
  <1>2. \A a, b : Ahead(a, b)' => a < b
    <2> SUFFICES ASSUME NEW a, NEW b, Ahead(a, b)' PROVE a < b
      OBVIOUS
    <2>1. CASE Ahead(a, b)
      BY <2>1 DEF Ordered
    <2>2. CASE Known(a) /\ b = calls + 1
      BY <2>2 DEF Ordered
    <2> QED
      BY <2>1, <2>2
  <1> QED
    BY <1>1, <1>2 DEF Ordered

LEMMA OrderedRequest ==
    ASSUME Typed, Ready, Ordered, Request_made
    PROVE  Ordered'
  <1>1. /\ UNCHANGED <<kind, chan, seen>> /\ calls' = calls + 1
        /\ calls \in Nat /\ pending \in Seq(Request)
        /\ toServer \in Seq(Signals(nchan) \cup Data("ASK", nchan))
        /\ outq \in Seq(Data("ASK", nchan))
        /\ kind \in {"storage", "resolve"}
    BY DEF Request_made, Typed, Numbers, Tables, Wired, Flags
  <1>2. /\ \A n : Reached(n)' <=> Reached(n)
        /\ \A a, b : ReachedBefore(a, b)' <=> ReachedBefore(a, b)
    BY <1>1 DEF Reached, ReachedBefore
  <1>3. ASSUME NEW r, r.n = calls + 1, toServer' = toServer \o <<Ask(chan, r)>>,
               \A n : ~Waits(n), \A n : Waits(n)' => Waits(n),
               \A a, b : WaitsBefore(a, b)' => WaitsBefore(a, b)
        PROVE  Ordered'
    <2> DEFINE m == Ask(chan, r)
    <2>1. m.n = calls + 1
      BY <1>3 DEF Ask
    <2> HIDE DEF m
    <2>2. toServer' = toServer \o <<m>>
      BY <1>3 DEF m
    <2>3. \A n : Asks(toServer', n) => Asks(toServer, n) \/ n = calls + 1
      <3>1. \A n : Asks(toServer \o <<m>>, n) => Asks(toServer, n) \/ Asks(<<m>>, n)
        <4>1. <<m>> \in Seq({m} \cup Signals(nchan) \cup Data("ASK", nchan))
          OBVIOUS
        <4>2. toServer \in Seq({m} \cup Signals(nchan) \cup Data("ASK", nchan))
          BY <1>1
        <4> QED
          BY <4>1, <4>2, AsksConcat
      <3> QED
        BY <2>1, <2>2, <3>1, AsksOne
    <2>4. \A a, b : AsksBefore(toServer', a, b)
                      => AsksBefore(toServer, a, b) \/ (Asks(toServer, a) /\ b = calls + 1)
      <3>1. \A a, b : AsksBefore(toServer \o <<m>>, a, b)
              => \/ AsksBefore(toServer, a, b) \/ AsksBefore(<<m>>, a, b)
                 \/ Asks(toServer, a) /\ Asks(<<m>>, b)
        <4>1. <<m>> \in Seq({m} \cup Signals(nchan) \cup Data("ASK", nchan))
          OBVIOUS
        <4>2. toServer \in Seq({m} \cup Signals(nchan) \cup Data("ASK", nchan))
          BY <1>1
        <4> QED
          BY <4>1, <4>2, AsksConcat
      <3> QED
        BY <2>1, <2>2, <3>1, AsksOne
    <2>5. /\ \A n : Asks(toServer, n)' => Asks(toServer, n) \/ n = calls + 1
          /\ \A a, b : AsksBefore(toServer, a, b)'
                      => AsksBefore(toServer, a, b) \/ (Asks(toServer, a) /\ b = calls + 1)
      BY <2>3, <2>4 DEF Asks, AsksBefore
    <2>6. \A n : Known(n)' => Known(n) \/ n = calls + 1
      BY <1>2, <1>3, <2>5 DEF Known
    <2>7. \A a, b : Ahead(a, b)' => Ahead(a, b) \/ (Known(a) /\ b = calls + 1)
      BY <1>2, <1>3, <2>5 DEF Ahead, Known
    <2> QED
      BY <1>1, <2>6, <2>7, OrderedNew
  <1>4. ASSUME toServer' = toServer,
               \A n : Waits(n)' => Waits(n) \/ n = calls + 1,
               \A a, b : WaitsBefore(a, b)' => WaitsBefore(a, b) \/ (Waits(a) /\ b = calls + 1)
        PROVE  Ordered'
    <2>1. /\ \A n : Asks(toServer, n)' => Asks(toServer, n)
          /\ \A a, b : AsksBefore(toServer, a, b)' => AsksBefore(toServer, a, b)
      BY <1>4 DEF Asks, AsksBefore
    <2>2. \A n : Known(n)' => Known(n) \/ n = calls + 1
      BY <1>2, <1>4, <2>1 DEF Known
    <2>3. \A a, b : Ahead(a, b)' => Ahead(a, b) \/ (Known(a) /\ b = calls + 1)
      BY <1>2, <1>4, <2>1 DEF Ahead, Known
    <2> QED
      BY <1>1, <2>2, <2>3, OrderedNew
  <1>5. toServer \o <<>> = toServer
    BY <1>1
  <1>6. ASSUME NEW action \in {"load", "save"}, Storage_request(action)
        PROVE  Ordered'
    <2> DEFINE r == [n |-> calls + 1, id |-> NextId, action |-> action,
                     sent |-> sstate = "STARTED" /\ up]
    <2>1. /\ kind = "storage" /\ pending' = Append(pending, r)
          /\ Sends(IF sstate = "STARTED" THEN <<Ask(chan, r)>> ELSE <<>>)
      BY <1>6 DEF Storage_request, Cached
    <2>2. r.n = calls + 1
      OBVIOUS
    <2>3. r.sent <=> sstate = "STARTED" /\ up
      BY Zenon
    <2> HIDE DEF r
    <2>4. /\ \A n : Keeps(n)' => Keeps(n) \/ (n = r.n /\ ~r.sent)
          /\ \A a, b : KeepsBefore(a, b)' => KeepsBefore(a, b) \/ (Keeps(a) /\ b = r.n)
          /\ r.sent => Unsent' = Unsent
      BY <2>1, AppendedKeeps
    <2>5. /\ \A n : Waits(n) <=> Keeps(n)
          /\ \A n : Waits(n)' <=> Keeps(n)'
          /\ \A a, b : WaitsBefore(a, b) <=> KeepsBefore(a, b)
          /\ \A a, b : WaitsBefore(a, b)' <=> KeepsBefore(a, b)'
      BY <1>1, <2>1 DEF Waits, WaitsBefore
    <2>6. CASE sstate = "STARTED" /\ up
      <3>1. toServer' = toServer \o <<Ask(chan, r)>>
        BY <2>1, <2>6 DEF Sends
      <3>2. Unsent = {} /\ Unsent' = {}
        BY <2>1, <2>3, <2>4, <2>6 DEF Ready
      <3>3. (\A n : ~Keeps(n)) /\ (\A n : ~Keeps(n)') /\ (\A a, b : ~KeepsBefore(a, b)')
        BY <3>2 DEF Keeps, KeepsBefore
      <3> QED
        BY <1>3, <2>2, <2>5, <3>1, <3>3
    <2>7. CASE ~(sstate = "STARTED" /\ up)
      <3>1. toServer' = toServer
        BY <1>5, <2>1, <2>7 DEF Sends
      <3> QED
        BY <1>4, <2>2, <2>4, <2>5, <3>1
    <2> QED
      BY <2>6, <2>7
  <1>7. ASSUME Resolve_resolve
        PROVE  Ordered'
    <2> DEFINE r == [n |-> calls + 1, id |-> SearchId, action |-> "resolve", sent |-> TRUE]
    <2>1. /\ kind = "resolve"
          /\ \/ /\ chan # 0 /\ (open => up)
                /\ Sends(IF open THEN <<Ask(chan, r)>> ELSE <<>>)
                /\ outq' = IF open THEN outq ELSE Append(outq, Ask(chan, r))
             \/ UNCHANGED <<pending, toServer, outq>>
      BY <1>7, Zenon DEF Resolve_resolve
    <2>2. r.n = calls + 1
      OBVIOUS
    <2> HIDE DEF r
    <2>3. /\ \A n : Waits(n) <=> Asks(outq, n)
          /\ \A n : Waits(n)' <=> Asks(outq', n)
          /\ \A a, b : WaitsBefore(a, b) <=> AsksBefore(outq, a, b)
          /\ \A a, b : WaitsBefore(a, b)' <=> AsksBefore(outq', a, b)
      BY <1>1, <2>1 DEF Waits, WaitsBefore, Asks, AsksBefore
    <2>4. CASE UNCHANGED <<pending, toServer, outq>>
      BY <1>4, <2>3, <2>4
    <2>5. CASE open /\ up /\ Sends(<<Ask(chan, r)>>) /\ outq' = outq
      <3>1. toServer' = toServer \o <<Ask(chan, r)>>
        BY <2>5 DEF Sends
      <3>2. \A n : ~Asks(outq, n)
        BY <2>5 DEF Ready, Asks
      <3> QED
        BY <1>3, <2>2, <2>3, <2>5, <3>1, <3>2
    <2>6. CASE ~open /\ Sends(<<>>) /\ outq' = Append(outq, Ask(chan, r))
      <3>1. toServer' = toServer
        BY <1>5, <2>6 DEF Sends
      <3> DEFINE m == Ask(chan, r)
      <3>2. m.n = calls + 1
        BY <2>2 DEF Ask
      <3> HIDE DEF m
      <3>3. outq' = outq \o <<m>>
        BY <1>1, <2>6 DEF m
      <3>4. <<m>> \in Seq({m} \cup Data("ASK", nchan)) /\ outq \in Seq({m} \cup Data("ASK", nchan))
        BY <1>1
      <3>5. /\ \A n : Asks(outq', n) => Asks(outq, n) \/ Asks(<<m>>, n)
            /\ \A a, b : AsksBefore(outq', a, b)
                 => \/ AsksBefore(outq, a, b) \/ AsksBefore(<<m>>, a, b)
                    \/ Asks(outq, a) /\ Asks(<<m>>, b)
        BY <3>3, <3>4, AsksConcat
      <3>6. (\A n : Asks(<<m>>, n) => n = calls + 1) /\ (\A a, b : ~AsksBefore(<<m>>, a, b))
        BY <3>2, AsksOne
      <3> QED
        BY <1>4, <2>3, <3>1, <3>5, <3>6
    <2> QED
      BY <2>1, <2>4, <2>5, <2>6
  <1> QED
    BY <1>6, <1>7 DEF Request_made

\* What waits is written, first to last, behind what is on its way.
LEMMA OrderedOpens ==
    ASSUME Typed, Ready, Ordered, Opens
    PROVE  Ordered'
  <1>1. /\ toServer \in Seq(Signals(nchan) \cup Data("ASK", nchan))
        /\ outq \in Seq(Data("ASK", nchan)) /\ calls \in Nat
        /\ kind \in {"storage", "resolve"}
    BY DEF Typed, Wired, Numbers, Flags
  <1>2. UNCHANGED <<kind, calls, seen, up>> /\ outq' = <<>>
    BY DEF Opens, Heard, Rest
  <1>3. chan \in 1..nchan
    BY HeardFacts DEF Opens
  <1>4. /\ \A n : Reached(n)' <=> Reached(n)
        /\ \A a, b : ReachedBefore(a, b)' <=> ReachedBefore(a, b)
    BY <1>2 DEF Reached, ReachedBefore
  <1>5. ASSUME NEW q \in Seq(Data("ASK", nchan)), up, toServer' = toServer \o q,
               \A n : Asks(q, n) => Waits(n),
               \A a, b : AsksBefore(q, a, b) => WaitsBefore(a, b),
               \A n : ~Waits(n)', \A a, b : ~WaitsBefore(a, b)'
        PROVE  Ordered'
    <2>1. q \in Seq(Signals(nchan) \cup Data("ASK", nchan))
      OBVIOUS
    <2>2. /\ \A n : Asks(toServer', n) => Asks(toServer, n) \/ Asks(q, n)
          /\ \A a, b : AsksBefore(toServer', a, b)
               => AsksBefore(toServer, a, b) \/ AsksBefore(q, a, b) \/ (Asks(toServer, a) /\ Asks(q, b))
      BY <1>1, <1>5, <2>1, AsksConcat
    <2>3. /\ \A n : Asks(toServer, n)' => Asks(toServer, n) \/ Waits(n)
          /\ \A a, b : AsksBefore(toServer, a, b)'
               => AsksBefore(toServer, a, b) \/ WaitsBefore(a, b) \/ (Asks(toServer, a) /\ Waits(b))
      <3>1. /\ \A n : Asks(toServer, n)' <=> Asks(toServer', n)
            /\ \A a, b : AsksBefore(toServer, a, b)' <=> AsksBefore(toServer', a, b)
        BY DEF Asks, AsksBefore
      <3> QED
        BY <1>5, <2>2, <3>1
    <2>4. \A n : Known(n)' => Known(n)
      BY <1>4, <1>5, <2>3 DEF Known
    <2>5. \A a, b : Ahead(a, b)' => Ahead(a, b)
      BY <1>4, <1>5, <2>3 DEF Ahead
    <2> QED
      BY <1>2, <2>4, <2>5 DEF Ordered
  <1>6. ASSUME ~up, NEW q, Sends(q),
               \A n : Waits(n)' => Waits(n),
               \A a, b : WaitsBefore(a, b)' => WaitsBefore(a, b)
        PROVE  Ordered'
    <2>1. toServer' = toServer
      BY <1>6 DEF Sends
    <2> QED
      BY <1>1, <1>2, <1>6, <2>1, OrderedKept
  <1>7. CASE Resolve_recv_accept
    <2>1. kind = "resolve" /\ Sends(outq)
      BY <1>7 DEF Resolve_recv_accept
    <2>2. /\ \A n : Waits(n) <=> Asks(outq, n)
          /\ \A a, b : WaitsBefore(a, b) <=> AsksBefore(outq, a, b)
      BY <2>1 DEF Waits, WaitsBefore
    <2>3. (\A n : ~Waits(n)') /\ (\A a, b : ~WaitsBefore(a, b)')
      BY <1>2, <2>1 DEF Waits, WaitsBefore, Asks, AsksBefore
    <2>4. up => toServer' = toServer \o outq
      BY <2>1 DEF Sends
    <2> QED
      BY <1>1, <1>5, <1>6, <2>1, <2>2, <2>3, <2>4
  <1>8. CASE Storage_recv_accept
    <2>1. kind = "storage" /\ outq = <<>>
      BY <1>8 DEF Storage_recv_accept, Ready
    <2>2. PICK k \in 0..Len(pending) : \E at \in [1..k -> Unsent] :
            /\ \A i, j \in 1..k : i < j => at[i] < at[j]
            /\ Sends([i \in 1..k |-> Ask(chan, pending[at[i]])] \o outq)
      BY <1>8 DEF Storage_recv_accept
    <2>3. PICK at \in [1..k -> Unsent] :
            /\ \A i, j \in 1..k : i < j => at[i] < at[j]
            /\ Sends([i \in 1..k |-> Ask(chan, pending[at[i]])] \o outq)
      BY <2>2
    <2> DEFINE burst == [i \in 1..k |-> Ask(chan, pending[at[i]])]
    <2>4. burst \in Seq(Data("ASK", nchan))
      BY <1>3, BurstTyped
    <2>5. DOMAIN burst = 1..k /\ \A p \in 1..k : at[p] \in Unsent /\ burst[p].n = pending[at[p]].n
      BY DEF Ask
    <2>6. Sends(burst \o outq)
      BY <2>3
    <2> HIDE DEF burst
    <2>7. burst \o outq = burst
      BY <2>1, <2>4
    <2>8. /\ \A n : Waits(n) <=> Keeps(n)
          /\ \A n : Waits(n)' <=> Keeps(n)'
          /\ \A a, b : WaitsBefore(a, b) <=> KeepsBefore(a, b)
          /\ \A a, b : WaitsBefore(a, b)' <=> KeepsBefore(a, b)'
      BY <1>2, <2>1 DEF Waits, WaitsBefore
    <2>9. \A n : Asks(burst, n) => Keeps(n)
      BY <2>5 DEF Asks, Keeps
    <2>10. \A a, b : AsksBefore(burst, a, b) => KeepsBefore(a, b)
      BY <2>3, <2>5 DEF AsksBefore, KeepsBefore
    <2>11. /\ DOMAIN pending' = DOMAIN pending
           /\ \A p \in DOMAIN pending : pending'[p].n = pending[p].n /\ (pending'[p].sent <=> pending[p].sent \/ up)
      <3>1. pending' = [i \in DOMAIN pending |-> [pending[i] EXCEPT !.sent = @ \/ up]]
        BY <1>8 DEF Storage_recv_accept
      <3>2. \A p \in DOMAIN pending : pending[p] \in Request
        BY ElementOfSeq, LenProperties DEF Typed, Tables
      <3> QED
        BY <3>1, <3>2 DEF Request
    <2>12. CASE up
      <3>1. Unsent' = {}
        BY <2>11, <2>12 DEF Unsent
      <3>2. (\A n : ~Keeps(n)') /\ (\A a, b : ~KeepsBefore(a, b)')
        BY <3>1 DEF Keeps, KeepsBefore
      <3>3. toServer' = toServer \o burst
        BY <2>6, <2>7, <2>12 DEF Sends
      <3> QED
        BY <1>5, <2>4, <2>8, <2>9, <2>10, <2>12, <3>2, <3>3
    <2>13. CASE ~up
      <3>1. Unsent' \subseteq Unsent /\ \A p \in Unsent' : pending'[p].n = pending[p].n
        BY <2>11, <2>13 DEF Unsent
      <3>2. (\A n : Keeps(n)' => Keeps(n)) /\ (\A a, b : KeepsBefore(a, b)' => KeepsBefore(a, b))
        BY <3>1 DEF Keeps, KeepsBefore
      <3> QED
        BY <1>6, <2>6, <2>8, <2>13, <3>2
    <2> QED
      BY <2>12, <2>13
  <1> QED
    BY <1>7, <1>8 DEF Opens

\* The server sees the request that has been longest on its way.
LEMMA OrderedReads ==
    ASSUME Typed, Ordered, ServerReads
    PROVE  Ordered'
  <1>1. /\ toServer \in Seq(Signals(nchan) \cup Data("ASK", nchan)) /\ toServer # <<>>
        /\ seen \in Seq(Calls) /\ calls \in Nat
    BY DEF Typed, Wired, Numbers, Histories, ServerReads
  <1>2. /\ toServer' = Tail(toServer) /\ UNCHANGED <<kind, calls, pending, outq>>
        /\ seen' = seen \/ (Head(toServer).type = "ASK" /\ seen' = Append(seen, Head(toServer).n))
    BY DEF ServerReads
  <1>3. /\ \A n : Asks(toServer', n) => Asks(toServer, n)
        /\ \A a, b : AsksBefore(toServer', a, b) => AsksBefore(toServer, a, b)
        /\ Head(toServer).type = "ASK" =>
             /\ Asks(toServer, Head(toServer).n)
             /\ \A n : Asks(toServer', n) => AsksBefore(toServer, Head(toServer).n, n)
    BY <1>1, <1>2, AsksTail
  <1>4. /\ \A n : Waits(n)' <=> Waits(n)
        /\ \A a, b : WaitsBefore(a, b)' <=> WaitsBefore(a, b)
    BY <1>2 DEF Waits, WaitsBefore, Keeps, KeepsBefore, Unsent, Asks, AsksBefore
  <1>5. CASE seen' = seen
    BY <1>1, <1>2, <1>3, <1>4, <1>5, OrderedKept
  <1>6. CASE Head(toServer).type = "ASK" /\ seen' = Append(seen, Head(toServer).n)
    <2>1. PICK h : h = Head(toServer).n
      OBVIOUS
    <2>2. /\ DOMAIN seen' = 1..(Len(seen) + 1) /\ DOMAIN seen = 1..Len(seen) /\ Len(seen) \in Nat
          /\ \A p \in 1..Len(seen) : seen'[p] = seen[p]
          /\ seen'[Len(seen) + 1] = h
      BY <1>1, <1>6, <2>1, AppendProperties, LenProperties
    <2>3. \A n : Reached(n)' => Reached(n) \/ n = h
      BY <2>2 DEF Reached
    <2>4. \A a, b : ReachedBefore(a, b)' => ReachedBefore(a, b) \/ (Reached(a) /\ b = h)
      <3> SUFFICES ASSUME NEW a, NEW b, ReachedBefore(a, b)'
                   PROVE  ReachedBefore(a, b) \/ (Reached(a) /\ b = h)
        OBVIOUS
      <3>1. PICK p \in DOMAIN seen', q \in DOMAIN seen' : p < q /\ seen'[p] = a /\ seen'[q] = b
        BY DEF ReachedBefore
      <3>2. p \in DOMAIN seen /\ seen[p] = a
        BY <2>2, <3>1
      <3>3. CASE q \in DOMAIN seen
        BY <2>2, <3>1, <3>2, <3>3 DEF ReachedBefore
      <3>4. CASE q = Len(seen) + 1
        BY <2>2, <3>1, <3>2, <3>4 DEF Reached
      <3> QED
        BY <2>2, <3>1, <3>3, <3>4
    <2>5. /\ Asks(toServer, h)
          /\ \A n : Asks(toServer, n)' => Asks(toServer, n) /\ AsksBefore(toServer, h, n)
          /\ \A a, b : AsksBefore(toServer, a, b)' => AsksBefore(toServer, a, b)
      <3>1. /\ \A n : Asks(toServer, n)' <=> Asks(toServer', n)
            /\ \A a, b : AsksBefore(toServer, a, b)' <=> AsksBefore(toServer', a, b)
        BY DEF Asks, AsksBefore
      <3> QED
        BY <1>3, <1>6, <2>1, <3>1
    <2>6. \A n : Known(n)' => Known(n)
      BY <1>4, <2>3, <2>5 DEF Known
    <2>7. \A a, b : Ahead(a, b)' => Ahead(a, b)
      BY <1>4, <2>3, <2>4, <2>5 DEF Ahead
    <2> QED
      BY <1>2, <2>6, <2>7 DEF Ordered
  <1> QED
    BY <1>2, <1>5, <1>6

LEMMA OrderedStep ==
    ASSUME Typed, Ready, Ordered, [Next]_vars
    PROVE  Ordered'
  <1>1. /\ toServer \in Seq(Signals(nchan) \cup Data("ASK", nchan)) /\ calls \in Nat
    BY DEF Typed, Wired, Numbers
  <1>2. ASSUME UNCHANGED <<kind, calls, seen, outq, pending>>,
               \A n : Asks(toServer', n) => Asks(toServer, n),
               \A a, b : AsksBefore(toServer', a, b) => AsksBefore(toServer, a, b)
        PROVE  Ordered'
    <2>1. /\ \A n : Waits(n)' => Waits(n)
          /\ \A a, b : WaitsBefore(a, b)' => WaitsBefore(a, b)
      BY <1>2 DEF Waits, WaitsBefore, Keeps, KeepsBefore, Unsent, Asks, AsksBefore
    <2> QED
      BY <1>1, <1>2, <2>1, OrderedKept
  <1>3. ASSUME UNCHANGED <<kind, calls, seen, outq, toServer>>,
               NEW j \in DOMAIN pending, pending' = RemoveAt(pending, j)
        PROVE  Ordered'
    <2>1. /\ \A n : Keeps(n)' => Keeps(n)
          /\ \A a, b : KeepsBefore(a, b)' => KeepsBefore(a, b)
      BY <1>3, RemovedKeeps
    <2>2. /\ \A n : Waits(n)' => Waits(n)
          /\ \A a, b : WaitsBefore(a, b)' => WaitsBefore(a, b)
      BY <1>3, <2>1 DEF Waits, WaitsBefore, Asks, AsksBefore
    <2> QED
      BY <1>1, <1>3, <2>2, OrderedKept
  <1>4. ASSUME UNCHANGED <<kind, calls, seen>>, outq' = <<>>, pending' = <<>>,
               \A n : Asks(toServer', n) => Asks(toServer, n),
               \A a, b : AsksBefore(toServer', a, b) => AsksBefore(toServer, a, b)
        PROVE  Ordered'
    <2>1. (\A n : ~Waits(n)') /\ (\A a, b : ~WaitsBefore(a, b)')
      <3>1. Unsent' = {}
        BY <1>4, EmptyKeeps
      <3> QED
        BY <1>4, <3>1 DEF Waits, WaitsBefore, Keeps, KeepsBefore, Asks, AsksBefore
    <2> QED
      BY <1>1, <1>4, <2>1, OrderedKept
  <1>5. ASSUME NEW m, m.type # "ASK",
               \/ toServer' = toServer
               \/ toServer' = toServer \o <<m>>
               \/ toServer' = <<m>>
               \/ toServer' = <<>>
        PROVE  /\ \A n : Asks(toServer', n) => Asks(toServer, n)
               /\ \A a, b : AsksBefore(toServer', a, b) => AsksBefore(toServer, a, b)
    <2>1. /\ \A n : ~Asks(<<m>>, n) /\ ~Asks(<<>>, n)
          /\ \A a, b : ~AsksBefore(<<m>>, a, b) /\ ~AsksBefore(<<>>, a, b)
      BY <1>5, AsksOne
    <2>2. <<m>> \in Seq({m} \cup Signals(nchan) \cup Data("ASK", nchan))
      OBVIOUS
    <2>3. toServer \in Seq({m} \cup Signals(nchan) \cup Data("ASK", nchan))
      BY <1>1
    <2>4. /\ \A n : Asks(toServer \o <<m>>, n) => Asks(toServer, n) \/ Asks(<<m>>, n)
          /\ \A a, b : AsksBefore(toServer \o <<m>>, a, b)
               => \/ AsksBefore(toServer, a, b) \/ AsksBefore(<<m>>, a, b)
                  \/ Asks(toServer, a) /\ Asks(<<m>>, b)
      BY <2>2, <2>3, AsksConcat
    <2> QED
      BY <1>5, <2>1, <2>4
  <1>6. Sense.type # "ASK" /\ Create(nchan + 1).type # "ASK"
    BY DEF Sense, Create
  <1>7. ASSUME \/ toServer' = toServer
               \/ toServer' = toServer \o <<Sense>>
               \/ toServer' = toServer \o <<Create(nchan + 1)>>
               \/ toServer' = <<Create(nchan + 1)>>
               \/ toServer' = <<>>
        PROVE  /\ \A n : Asks(toServer', n) => Asks(toServer, n)
               /\ \A a, b : AsksBefore(toServer', a, b) => AsksBefore(toServer, a, b)
    BY <1>5, <1>6, <1>7
  <1>8. CASE \E i \in DOMAIN pending : cancelResolve(i)
    BY <1>3, <1>8 DEF cancelResolve
  <1>9. CASE Handle
    <2>1. CASE Closes
      <3>1. /\ UNCHANGED <<kind, calls, seen>> /\ outq' = <<>> /\ pending' = <<>>
            /\ toServer' = toServer \/ toServer' = toServer \o <<Sense>>
        BY <2>1 DEF Closes, Heard, Rest, stop, Storage_stop, Resolve_stop, FreePending, Sends
      <3> QED
        BY <1>4, <1>7, <3>1
    <2>2. CASE Answers
      <3>1. UNCHANGED <<kind, calls, seen, outq, toServer>>
        BY <2>2 DEF Answers, Heard, Rest
      <3>2. \/ pending' = pending
            \/ \E j \in DOMAIN pending : pending' = RemoveAt(pending, j)
        BY <2>2 DEF Answers, Storage_recv, Resolve_recv, Answered, Unmatched
      <3> QED
        BY <1>2, <1>3, <3>1, <3>2
    <2>3. CASE Ignores
      BY <1>2, <2>3 DEF Ignores, Dropped, Rest
    <2>4. CASE SENSE_SERVICE_recv
      <3>1. /\ UNCHANGED <<kind, calls, seen, outq, pending>>
            /\ toServer' = toServer \/ toServer' = toServer \o <<Create(nchan + 1)>>
        BY <2>4 DEF SENSE_SERVICE_recv, Rest, start, Sends
      <3> QED
        BY <1>2, <1>7, <3>1
    <2> QED
      BY <1>9, <2>1, <2>2, <2>3, <2>4, HandleCases, OrderedOpens
  <1>10. CASE SessionStarts
    <2>1. /\ UNCHANGED <<kind, calls, seen, outq, pending>>
          /\ toServer' = <<Create(nchan + 1)>>
      BY <1>10 DEF SessionStarts, history
    <2> QED
      BY <1>2, <1>7, <2>1
  <1>11. CASE SessionStops
    <2>1. UNCHANGED <<kind, calls, seen>> /\ toServer' = <<>>
      BY <1>11 DEF SessionStops
    <2>2. \/ outq' = <<>> /\ pending' = <<>>
          \/ UNCHANGED <<outq, pending>>
      BY <1>11 DEF SessionStops, stop, Storage_stop, Resolve_stop, FreePending
    <2> QED
      BY <1>4, <1>2, <1>7, <2>1, <2>2
  <1>12. CASE \/ \E m \in work : ServerAnswers(m)
              \/ ServerDestroys
              \/ ConnectionBreaks
              \/ UNCHANGED vars
    <2>1. /\ UNCHANGED <<kind, calls, seen, outq, pending>>
          /\ toServer' = toServer \/ toServer' = <<>>
      BY <1>12 DEF ServerAnswers, ServerDestroys, ConnectionBreaks, vars, history
    <2> QED
      BY <1>2, <1>7, <2>1
  <1> QED
    BY <1>8, <1>9, <1>10, <1>11, <1>12, OrderedRequest, OrderedReads DEF Next

\* The requests of mwServiceStorage_load, mwServiceStorage_save and
\* mwServiceResolve_resolve reach the server once each and in the order of the
\* calls, those that were cached or queued before those made later; and the
\* state is of its type.
THEOREM RequestsCorrect == Spec => []RequestsConsistent
  <1>1. Init => Typed /\ Ready /\ Ordered
    <2>1. Init => Ready
      BY DEF Init, Ready, Unsent
    <2>2. ASSUME Init PROVE Ordered
      <3>1. Unsent = {}
        BY <2>2 DEF Init, Unsent
      <3>2. (\A n : ~Known(n)) /\ (\A a, b : ~Ahead(a, b))
        BY <2>2, <3>1 DEF Init, Known, Ahead, Reached, ReachedBefore, Asks, AsksBefore, Waits,
                          WaitsBefore, Keeps, KeepsBefore
      <3> QED
        BY <3>2 DEF Ordered
    <2> QED
      BY <2>1, <2>2, TypedInit
  <1>2. Typed /\ Ready /\ Ordered /\ [Next]_vars => (Typed /\ Ready /\ Ordered)'
    BY TypedStep, ReadyStep, OrderedStep
  <1>3. Typed /\ Ordered => RequestsConsistent
    <2> SUFFICES ASSUME Typed, Ordered PROVE SentInOrder
      BY TypedImplies DEF RequestsConsistent
    <2>1. \A i, j \in DOMAIN seen : i < j => Ahead(seen[i], seen[j])
      BY DEF Ahead, ReachedBefore
    <2> QED
      BY <2>1 DEF SentInOrder, Ordered
  <1> QED
    BY <1>1, <1>2, <1>3, PTL DEF Spec

=============================================================================
