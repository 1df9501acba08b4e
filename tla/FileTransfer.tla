---------------------------- MODULE FileTransfer ----------------------------
(***************************************************************************)
(* One file transfer (srvc_ft.c) between two users of the library: "snd"   *)
(* offers the file, "rcv" accepts it.  The file is a number of bytes; it   *)
(* is sent in chunks, and the client of rcv acknowledges every chunk.      *)
(*                                                                         *)
(* The channel below is taken as module Channel shows it: in order,        *)
(* nothing lost while both connections last, destroyed at both ends.  The  *)
(* server and the network are external.                                    *)
(***************************************************************************)
EXTENDS Integers, Sequences, FiniteSets

CONSTANTS
    Clients,     \* how the client of snd may go about sending, see below
    MaxSize,     \* bound: bytes of the file
    MaxChunks    \* bound: chunks sent

\* A "waiting" client sends a chunk and waits for its acknowledgement.  So
\* does one that is "chained", but it sends the next chunk from the ft_ack
\* call-back.  A "pipelined" one does not wait.
ASSUME ClientsAssumption ==
    Clients \subseteq {"waiting", "chained", "pipelined"}
ASSUME BoundsAssumption == MaxSize \in Nat /\ MaxChunks \in Nat

Ends == {"snd", "rcv"}
Other(e) == IF e = "snd" THEN "rcv" ELSE "snd"

VARIABLES
    client,     \* the client of snd
    size,       \* ft->size, as snd set it
    up,         \* up[e]: end e can write to its connection
    state,      \* state[e]: ft->state; "none" before, "freed" after it existed
    chan,       \* chan[e]: the state of ft->channel, "none" if that is NULL
    remaining,  \* remaining[e]: ft->remaining
    net,        \* net[e]: messages on their way to end e
    closed,     \* closed[e]: how often ft_closed was called
    received,   \* bytes handed to the client of rcv
    chunks,     \* chunks sent
    acked,      \* chunks whose acknowledgement reached snd
    owed,       \* chunks the client of rcv has still to acknowledge
    finished    \* the service of snd closed the transfer as a success

setting == <<client, size, up>>
progress == <<received, chunks, acked, owed, finished>>
vars == <<setting, state, chan, remaining, net, closed, progress>>

FTState == {"none", "NEW", "PENDING", "OPEN", "CANCEL_LOCAL", "CANCEL_REMOTE",
            "DONE", "ERROR", "freed"}

Create(n) == [type |-> "CREATE", n |-> n]
Transfer(n) == [type |-> "TRANSFER", n |-> n]
Plain(type) == [type |-> type, n |-> 0]
Messages == [type : {"CREATE", "ACCEPT", "TRANSFER", "RECEIVED", "DESTROY"},
             n : 0..MaxSize]

Init ==
    /\ client \in Clients
    /\ size = 0
    /\ up = [e \in Ends |-> TRUE]
    /\ state = [e \in Ends |-> "none"]
    /\ chan = [e \in Ends |-> "none"]
    /\ remaining = [e \in Ends |-> 0]
    /\ net = [e \in Ends |-> <<>>]
    /\ closed = [e \in Ends |-> 0]
    /\ received = 0
    /\ chunks = 0
    /\ acked = 0
    /\ owed = 0
    /\ finished = FALSE

-----------------------------------------------------------------------------
\* End e has taken its input to be rest and writes msgs, see module Channel.
Sends(e, rest, msgs) ==
    net' = [net EXCEPT ![e] = rest,
                       ![Other(e)] = IF up["snd"] /\ up["rcv"]
                                        THEN @ \o msgs ELSE @]

\* What mwChannel_destroy writes for a channel in state ch, if there is one.
Destroying(ch) == IF ch = "none" THEN <<>> ELSE <<Plain("DESTROY")>>

\* mutant: the channel is not forgotten
CloseKeepsChannel(e, st, ch, rest, first) ==
    /\ state' = [state EXCEPT
                   ![e] = IF st = "OPEN" THEN "CANCEL_LOCAL" ELSE st]
    /\ Sends(e, rest, first \o Destroying(ch))
    /\ UNCHANGED chan
    /\ closed' = [closed EXCEPT ![e] = @ + 1]

\* What mwFileTransfer_close makes of a transfer that is in state st and on a
\* channel in state ch by the time it is called.
Close(e, st, ch, rest, first) ==
    /\ state' = [state EXCEPT
                   ![e] = IF st = "OPEN" THEN "CANCEL_LOCAL" ELSE st]
    /\ Sends(e, rest, first \o Destroying(ch))
    /\ chan' = [chan EXCEPT ![e] = "none"]
    /\ closed' = [closed EXCEPT ![e] = @ + 1]

\* Bytes of the chunks in a queue: byte b[2] of message b[1].
Bytes(q) ==
    Cardinality({b \in (DOMAIN q) \X (1..MaxSize) :
                   q[b[1]].type = "TRANSFER" /\ b[2] <= q[b[1]].n})

-----------------------------------------------------------------------------
\* Calls of the clients

mwFileTransfer_new(n) ==
    /\ state["snd"] = "none"
    /\ size' = n
    /\ state' = [state EXCEPT !["snd"] = "NEW"]
    /\ remaining' = [remaining EXCEPT !["snd"] = n]
    /\ UNCHANGED <<client, up, chan, net, closed, progress>>

\* mwFileTransfer_offer and ft_create_chan.  If the offer cannot be written the
\* transfer is in ERROR and closed on the spot.
mwFileTransfer_offer ==
    /\ state["snd"] = "NEW"
    /\ chan["snd"] = "none"
    /\ IF up["snd"]
          THEN /\ state' = [state EXCEPT !["snd"] = "PENDING"]
               /\ chan' = [chan EXCEPT !["snd"] = "WAIT"]
               /\ Sends("snd", net["snd"], <<Create(size)>>)
               /\ UNCHANGED closed
          ELSE Close("snd", "ERROR", "none", net["snd"], <<>>)
    /\ UNCHANGED <<setting, remaining, progress>>

\* If the acceptance cannot be written the transfer is closed.
mwFileTransfer_accept ==
    /\ state["rcv"] = "PENDING"
    /\ chan["rcv"] = "WAIT"
    /\ IF up["rcv"]
          THEN /\ state' = [state EXCEPT !["rcv"] = "OPEN"]
               /\ chan' = [chan EXCEPT !["rcv"] = "OPEN"]
               /\ Sends("rcv", net["rcv"], <<Plain("ACCEPT")>>)
               /\ UNCHANGED closed
          ELSE Close("rcv", "PENDING", "WAIT", net["rcv"], <<>>)
    /\ UNCHANGED <<setting, remaining, progress>>

\* A chunk of n bytes; nothing happens if it is too long or cannot be written.
mwFileTransfer_send(n) ==
    /\ state["snd"] = "OPEN"
    /\ chan["snd"] # "none"
    /\ client = "pipelined" \/ acked = chunks
    /\ chunks < MaxChunks
    /\ n <= remaining["snd"]
    /\ up["snd"]
    /\ remaining' = [remaining EXCEPT !["snd"] = @ - n]
    /\ Sends("snd", net["snd"], <<Transfer(n)>>)
    /\ chunks' = chunks + 1
    /\ UNCHANGED <<setting, state, chan, closed, received, acked, owed,
                   finished>>

mwFileTransfer_ack ==
    /\ owed > 0
    /\ chan["rcv"] # "none"
    /\ owed' = owed - 1
    /\ Sends("rcv", net["rcv"], <<Plain("RECEIVED")>>)
    /\ UNCHANGED <<setting, state, chan, remaining, closed, received, chunks,
                   acked, finished>>

\* Rejected, cancelled or closed by a client: one that was offered, and that
\* the client was not told is closed already.
mwFileTransfer_close(e) ==
    /\ state[e] \notin {"none", "NEW", "freed"}
    /\ closed[e] = 0
    /\ Close(e, state[e], chan[e], net[e], <<>>)
    /\ UNCHANGED <<setting, remaining, progress>>

\* mwFileTransfer_free: the channel is destroyed, ft_closed is not called.
mwFileTransfer_free(e) ==
    /\ state[e] \notin {"none", "freed"}
    /\ state' = [state EXCEPT ![e] = "freed"]
    /\ chan' = [chan EXCEPT ![e] = "none"]
    /\ Sends(e, net[e], Destroying(chan[e]))
    /\ UNCHANGED <<setting, remaining, closed, progress>>

-----------------------------------------------------------------------------
\* Messages received.  Those on a channel that is gone are dropped.

Receives(e, type) == net[e] # <<>> /\ Head(net[e]).type = type
Rest(e) == Tail(net[e])
Dropped(e) ==
    /\ Sends(e, Rest(e), <<>>)
    /\ UNCHANGED <<setting, state, chan, remaining, closed, progress>>

\* The offer may also be one that does not parse: the channel is destroyed.
recv_channelCreate ==
    /\ Receives("rcv", "CREATE")
    /\ \/ /\ state' = [state EXCEPT !["rcv"] = "PENDING"]
          /\ chan' = [chan EXCEPT !["rcv"] = "WAIT"]
          /\ remaining' = [remaining EXCEPT !["rcv"] = Head(net["rcv"]).n]
          /\ Sends("rcv", Rest("rcv"), <<>>)
       \/ /\ Sends("rcv", Rest("rcv"), <<Plain("DESTROY")>>)
          /\ UNCHANGED <<state, chan, remaining>>
    /\ UNCHANGED <<setting, closed, progress>>

recv_channelAccept ==
    /\ Receives("snd", "ACCEPT")
    /\ \/ /\ chan["snd"] = "WAIT"
          /\ state' = [state EXCEPT !["snd"] = "OPEN"]
          /\ chan' = [chan EXCEPT !["snd"] = "OPEN"]
          /\ Sends("snd", Rest("snd"), <<>>)
          /\ UNCHANGED <<setting, remaining, closed, progress>>
       \/ chan["snd"] = "none" /\ Dropped("snd")

\* mutant: a transfer that was done is cancelled all the same
DestroyCancels(e) ==
    /\ Receives(e, "DESTROY")
    /\ \/ /\ chan[e] # "none"
          /\ Close(e, "CANCEL_REMOTE", "none", Rest(e), <<>>)
          /\ UNCHANGED <<setting, remaining, progress>>
       \/ chan[e] = "none" /\ Dropped(e)

recv_channelDestroy(e) ==
    /\ Receives(e, "DESTROY")
    /\ \/ /\ chan[e] # "none"
          /\ Close(e, IF state[e] = "DONE" THEN "DONE" ELSE "CANCEL_REMOTE",
                   "none", Rest(e), <<>>)
          /\ UNCHANGED <<setting, remaining, progress>>
       \/ chan[e] = "none" /\ Dropped(e)

\* mutant: bytes are handed on and not counted
TransferUncounted ==
    /\ Receives("rcv", "TRANSFER")
    /\ received' = received + Head(net["rcv"]).n
    /\ owed' = owed + 1
    /\ Sends("rcv", Rest("rcv"), <<>>)
    /\ UNCHANGED <<setting, state, remaining, chan, closed, chunks, acked,
                   finished>>

\* A chunk that is longer than what remains, or comes when the transfer is not
\* OPEN, is ignored.
recv_TRANSFER ==
    LET n == Head(net["rcv"]).n
        left == remaining["rcv"] - n
    IN  /\ Receives("rcv", "TRANSFER")
        /\ \/ /\ chan["rcv"] # "none"
              /\ state["rcv"] = "OPEN"
              /\ left >= 0
              /\ remaining' = [remaining EXCEPT !["rcv"] = left]
              /\ state' = [state EXCEPT
                             !["rcv"] = IF left = 0 THEN "DONE" ELSE @]
              /\ received' = received + n
              /\ owed' = owed + 1
              /\ Sends("rcv", Rest("rcv"), <<>>)
              /\ UNCHANGED <<setting, chan, closed, chunks, acked, finished>>
           \/ /\ chan["rcv"] = "none" \/ state["rcv"] # "OPEN" \/ left < 0
              /\ Dropped("rcv")

\* mutant: the acknowledgement of the last chunk does not end the transfer
ReceivedStaysOpen(more) ==
    /\ Receives("snd", "RECEIVED")
    /\ acked' = acked + 1
    /\ more = <<>>
    /\ Sends("snd", Rest("snd"), <<>>)
    /\ UNCHANGED <<setting, state, chan, closed, finished, remaining, received,
                   chunks, owed>>

\* An acknowledgement.  With nothing left to send the transfer is DONE, and
\* after the ft_ack call-back it is closed if nothing is left by then: the
\* call-back of a "chained" sender sends the chunk that more holds.
recv_RECEIVED(more) ==
    LET left == remaining["snd"] - Bytes(more)
        st == IF remaining["snd"] = 0 THEN "DONE" ELSE state["snd"]
    IN  /\ Receives("snd", "RECEIVED")
        /\ acked' = acked + 1
        /\ \/ /\ chan["snd"] # "none"
              /\ more = <<>> \/ (st = "OPEN" /\ up["snd"] /\ left >= 0
                                 /\ client = "chained")
              /\ chunks + Len(more) <= MaxChunks
              /\ chunks' = chunks + Len(more)
              /\ remaining' = [remaining EXCEPT !["snd"] = left]
              /\ IF left = 0
                    THEN /\ Close("snd", st, chan["snd"], Rest("snd"), more)
                         /\ finished' = TRUE
                    ELSE /\ state' = [state EXCEPT !["snd"] = st]
                         /\ Sends("snd", Rest("snd"), more)
                         /\ UNCHANGED <<chan, closed, finished>>
           \/ /\ chan["snd"] = "none"
              /\ more = <<>>
              /\ Sends("snd", Rest("snd"), <<>>)
              /\ UNCHANGED <<state, chan, closed, finished, remaining, chunks>>
        /\ UNCHANGED <<setting, received, owed>>

\* What a client may send from the ft_ack call-back.
NextChunk == {<<>>} \cup {<<Transfer(n)>> : n \in 0..MaxSize}

Handle(e) ==
    \/ e = "rcv" /\ recv_channelCreate
    \/ e = "snd" /\ recv_channelAccept
    \/ e = "rcv" /\ recv_TRANSFER
    \/ e = "snd" /\ \E more \in NextChunk : recv_RECEIVED(more)
    \/ recv_channelDestroy(e)

-----------------------------------------------------------------------------
\* The connection of end e breaks (external), see module Channel.
LinkBreaks(e) ==
    /\ up["snd"] /\ up["rcv"]
    /\ up' = [up EXCEPT ![e] = FALSE]
    /\ \E n \in 0..Len(net[Other(e)]) :
         net' = [net EXCEPT ![e] = <<>>,
                            ![Other(e)] = Append(SubSeq(@, 1, n),
                                                 Plain("DESTROY"))]
    /\ UNCHANGED <<client, size, state, chan, remaining, closed, progress>>

\* stop(): the session stops, all transfers are freed.
ServiceStops(e) ==
    /\ ~up[e]
    /\ mwFileTransfer_free(e)

Sending == \E n \in 1..MaxSize : mwFileTransfer_send(n)

Next ==
    \/ \E n \in 0..MaxSize : mwFileTransfer_new(n)
    \/ mwFileTransfer_offer
    \/ mwFileTransfer_accept
    \/ \E n \in 0..MaxSize : mwFileTransfer_send(n)
    \/ mwFileTransfer_ack
    \/ \E e \in Ends : mwFileTransfer_close(e)
    \/ \E e \in Ends : mwFileTransfer_free(e)
    \/ \E e \in Ends : Handle(e)
    \/ \E e \in Ends : LinkBreaks(e)
    \/ \E e \in Ends : ServiceStops(e)

Spec == Init /\ [][Next]_vars

\* Both clients keep reading and stop a session that lost its connection; the
\* receiving one acknowledges every chunk, the sending one goes on sending.
FairSpec ==
    /\ Spec
    /\ WF_vars(Sending)
    /\ WF_vars(mwFileTransfer_ack)
    /\ \A e \in Ends : WF_vars(Handle(e)) /\ WF_vars(ServiceStops(e))

-----------------------------------------------------------------------------
TypeOK ==
    /\ client \in Clients
    /\ size \in 0..MaxSize
    /\ up \in [Ends -> BOOLEAN]
    /\ state \in [Ends -> FTState]
    /\ chan \in [Ends -> {"none", "WAIT", "OPEN"}]
    /\ remaining \in [Ends -> 0..MaxSize]
    /\ net \in [Ends -> Seq(Messages)]
    /\ closed \in [Ends -> 0..1]
    /\ received \in 0..MaxSize
    /\ chunks \in 0..MaxChunks
    /\ acked \in 0..MaxChunks
    /\ owed \in 0..MaxChunks
    /\ finished \in BOOLEAN

\* mwFileTransfer_send: "we're not done until we receive an ACK for the last
\* piece of outgoing data".  The sending service regards the transfer as DONE,
\* and closes it as a success, only after every chunk is acknowledged.
DoneAfterLastAck ==
    state["snd"] = "DONE" \/ finished => acked = chunks

\* That much is true of a client that waits for the acknowledgement and sends
\* the next chunk outside the call-back: a success is one, every chunk was
\* acknowledged and the other client was handed the whole file.
WaitingSuccess ==
    client = "waiting" /\ (state["snd"] = "DONE" \/ finished) =>
        acked = chunks /\ received = size

\* ft_closed: "Check the status of the file transfer to determine if the
\* transfer was complete or if it had been interrupted".  The receiving end
\* says DONE exactly if its client was handed the whole file, whatever
\* destroyed the channel afterwards.
DoneIsComplete ==
    /\ state["rcv"] = "DONE" => received = size
    /\ closed["rcv"] > 0 /\ size > 0 /\ received = size =>
          state["rcv"] \in {"DONE", "freed"}

\* The states of a transfer mean what they say at both ends: the types, a
\* success of a waiting client, DONE at the receiver.
TransferConsistent == TypeOK /\ WaitingSuccess /\ DoneIsComplete

\* While both ends are open every byte is with the sender, on its way, or
\* received: remaining at the two ends never drifts apart.
NoByteLost ==
    chan["snd"] # "none" /\ chan["rcv"] = "OPEN" /\ up["snd"] /\ up["rcv"] =>
        /\ received + remaining["rcv"] = size
        /\ remaining["rcv"] = remaining["snd"] + Bytes(net["rcv"])

\* ft_closed is the last a client hears of a transfer: it is called once, the
\* state it finds does not change any more and no data comes after it.
ClosedIsFinal ==
    [][\A e \in Ends : closed[e] > 0 =>
          /\ closed'[e] = closed[e]
          /\ state'[e] \in {state[e], "freed"}
          /\ e = "rcv" => received' = received]_vars

\* A transfer that got open at the sender is closed or freed in the end, unless
\* the bound stops it: it does not stall, even if the other end goes away.
TransferEnds ==
    state["snd"] = "OPEN" /\ size > 0 ~>
        \/ closed["snd"] > 0 \/ state["snd"] = "freed"
        \/ (chunks = MaxChunks /\ remaining["snd"] > 0)

=============================================================================
