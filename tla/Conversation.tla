---------------------------- MODULE Conversation ----------------------------
(***************************************************************************)
(* A conversation of the instant messaging service (srvc_im.c).  End "a"   *)
(* keeps a conversation with the user at end "b", opens it, and may open   *)
(* it again after it was closed; end "b" makes a new conversation of every *)
(* channel it is offered.  A conversation that was refused because of its  *)
(* features is offered again as plain text.  Long messages are sent in     *)
(* segments between a start and a stop message.                            *)
(*                                                                         *)
(* The channel below is taken as module Channel shows it: its messages     *)
(* come in order and those of a channel that is gone are dropped.  Server  *)
(* and network are external: they relay, refuse an offer to a user who is  *)
(* not there, and destroy the channels of an end that goes away.           *)
(***************************************************************************)
EXTENDS Integers, Sequences, SequencesExt

CONSTANTS
    MaxChans,     \* bound: channels offered
    MaxMsgs,      \* bound: messages sent by each end on one channel
    MaxBreaks,    \* bound: connections that break
    MaxSets       \* bound: times a client type is set

ASSUME BoundsAssumption ==
    {MaxChans, MaxMsgs, MaxBreaks, MaxSets} \subseteq Nat

Ends == {"a", "b"}
Other(e) == IF e = "a" THEN "b" ELSE "a"

VARIABLES
    up,       \* up[e]: end e can write to its connection
    live,     \* live[e]: the service of e is started
    feat,     \* feat[e]: srvc->features
    conv,     \* conv[e]: the conversation
    nchan,    \* channels offered so far; their ids count them
    net,      \* net[e]: messages on their way to end e
    sent,     \* sent[e]: messages sent by the client of e on this channel
    rcvd,     \* rcvd[e]: messages handed to the client of e on this channel
    adrift,   \* earlier conversations of "b" that are still OPEN, without a
              \* channel
    owed,     \* owed[e]: attempts to converse, minus calls of
              \*          conversation_closed
    cut,      \* a channel went away in the middle of a segmented message
    breaks,   \* how many connections broke
    sets      \* how often a client type was set

vars == <<up, live, feat, conv, nchan, net, sent, rcvd, adrift, owed, cut,
          breaks, sets>>

Features == {"PLAIN", "NOTESBUDDY"}

\* Why a channel is destroyed.  NO_SUPPORT stands for the two reasons to fall
\* back, ERR_IM_NOT_REGISTERED and ERR_SERVICE_NO_SUPPORT; OTHER for any other,
\* ERR_SUCCESS included.
Reason == {"NO_SUPPORT", "OTHER"}

\* A message as a client sees it, and the n-th one it sends on a channel.
\* A plain message is one text, an HTML message one piece or several.
Part == (1..MaxMsgs) \X {1, 2}
ClientMsg == [type : {"PLAIN", "HTML"}, parts : Seq(Part)]
Text(n) == [type |-> "PLAIN", parts |-> <<<<n, 1>>>>]
Html(n, pieces) == [type |-> "HTML", parts |-> [i \in 1..pieces |-> <<n, i>>]]

Msg(type, id) == [type |-> type, id |-> id]
Create(id, f) == [type |-> "CREATE", id |-> id, feats |-> f]
Destroy(id, r) == [type |-> "DESTROY", id |-> id, reason |-> r]
Piece(type, id, p) == [type |-> type, id |-> id, part |-> p]
Messages ==
    LET Id == 1..MaxChans IN
    [type : {"ACCEPT", "START", "STOP"}, id : Id]
      \cup [type : {"CREATE"}, id : Id, feats : Features]
      \cup [type : {"DESTROY"}, id : Id, reason : Reason]
      \cup [type : {"TEXT", "HTML"}, id : Id, part : Part]

\* feats: "none" while there is no such conversation.
\* chan: conv->channel is not NULL; id: the channel it has or had last.
\* multi: conv->multi is not NULL; buf: what it holds.
Conv == [state : {"CLOSED", "PENDING", "OPEN"}, feats : Features \cup {"none"},
         chan : BOOLEAN, id : 0..MaxChans,
         multi : BOOLEAN, buf : Seq(Part), mtype : {"PLAIN", "HTML"}]

\* A new conversation with features f, and no conversation.
Fresh(f) == [state |-> "CLOSED", feats |-> f, chan |-> FALSE, id |-> 0,
             multi |-> FALSE, buf |-> <<>>, mtype |-> "PLAIN"]
Absent == Fresh("none")

\* mwServiceIm_getConversation finds the conversation of end e or makes one.
getConversation(e) ==
    IF conv[e].feats = "none" THEN Fresh(feat[e]) ELSE conv[e]

Init ==
    /\ up = [e \in Ends |-> TRUE]
    /\ live = [e \in Ends |-> TRUE]
    /\ feat = [e \in Ends |-> "PLAIN"]
    /\ conv = [e \in Ends |-> Absent]
    /\ nchan = 0
    /\ net = [e \in Ends |-> <<>>]
    /\ sent = [e \in Ends |-> <<>>]
    /\ rcvd = [e \in Ends |-> <<>>]
    /\ adrift = 0
    /\ owed = [e \in Ends |-> 0]
    /\ cut = FALSE
    /\ breaks = 0
    /\ sets = 0

-----------------------------------------------------------------------------
\* End e has taken its input to be rest and writes msgs.  The server refuses
\* the offer of a channel to a user who is not there; an offer is written by
\* itself.
Refused(msgs) ==
    IF msgs # <<>> /\ Head(msgs).type = "CREATE"
    THEN <<Destroy(Head(msgs).id, "OTHER")>>
    ELSE <<>>
Sends(e, rest, msgs) ==
    net' = IF ~up[e] THEN [net EXCEPT ![e] = rest]
           ELSE IF up[Other(e)]
                THEN [net EXCEPT ![e] = rest, ![Other(e)] = @ \o msgs]
                ELSE [net EXCEPT ![e] = rest \o Refused(msgs)]

\* convo_create_chan for the PENDING conversation c of end e.  If the offer
\* cannot be written the conversation stays as it is, without a channel.
convo_create_chan(e, c, rest) ==
    /\ IF up[e]
          THEN /\ conv' = [conv EXCEPT
                             ![e] = [c EXCEPT !.chan = TRUE, !.id = nchan + 1]]
               /\ nchan' = nchan + 1
               /\ Sends(e, rest, <<Create(nchan + 1, c.feats)>>)
               /\ sent' = [sent EXCEPT ![e] = <<>>]
               /\ rcvd' = [rcvd EXCEPT ![e] = <<>>]
          ELSE /\ conv' = [conv EXCEPT ![e] = c]
               /\ Sends(e, rest, <<>>)
               /\ UNCHANGED <<nchan, sent, rcvd>>

\* mutant: the client is not told
CloseSilently(e, c, r, rest, freed) ==
    /\ conv' = [conv EXCEPT ![e] = IF freed THEN Absent
                                   ELSE [c EXCEPT !.state = "CLOSED",
                                                  !.chan = FALSE]]
    /\ Sends(e, rest, IF c.chan THEN <<Destroy(c.id, r)>> ELSE <<>>)
    /\ UNCHANGED owed

\* mwConversation_close of the conversation c of end e for reason r, and
\* mwConversation_free of one that is not CLOSED.  What was gathered of a
\* segmented message stays with a conversation that is closed and not freed.
Close(e, c, r, rest, freed) ==
    /\ conv' = [conv EXCEPT ![e] = IF freed THEN Absent
                                   ELSE [c EXCEPT !.state = "CLOSED",
                                                  !.chan = FALSE]]
    /\ Sends(e, rest, IF c.chan THEN <<Destroy(c.id, r)>> ELSE <<>>)
    /\ owed' = [owed EXCEPT ![e] = @ - 1]

\* history: the channel of c goes away in the middle of a segmented message
CutShort(c) == cut' = (cut \/ c.multi)

-----------------------------------------------------------------------------
\* Calls of the clients

\* A client may open a conversation without a session too: then no channel is
\* created, and mwConversation_open does not say so.
mwConversation_open ==
    /\ conv["a"].state = "CLOSED"
    /\ nchan + 2 <= MaxChans        \* bound: room for falling back
    /\ convo_create_chan("a", [getConversation("a") EXCEPT !.state = "PENDING"],
                         net["a"])
    /\ owed' = [owed EXCEPT !["a"] = @ + 1]
    /\ UNCHANGED <<up, live, feat, adrift, cut, breaks, sets>>

\* mwConversation_close for any reason, or mwConversation_free, by a client that
\* was not told that the conversation is closed already.  Freed or not makes no
\* difference at "b".
mwConversation_close(e, r, freed) ==
    /\ conv[e].state # "CLOSED"
    /\ freed => e = "a" /\ r = "OTHER"
    /\ Close(e, conv[e], r, net[e], freed)
    /\ CutShort(conv[e])
    /\ UNCHANGED <<up, live, feat, nchan, sent, rcvd, adrift, breaks, sets>>

\* The client of "b" closes an earlier conversation, which has no channel.
mwConversation_close_adrift ==
    /\ adrift > 0
    /\ adrift' = adrift - 1
    /\ owed' = [owed EXCEPT !["b"] = @ - 1]
    /\ UNCHANGED <<up, live, feat, conv, nchan, net, sent, rcvd, cut, breaks,
                   sets>>

mwServiceIm_setClientType(e) ==
    /\ sets < MaxSets
    /\ sets' = sets + 1
    /\ feat' = [feat EXCEPT ![e] = CHOOSE f \in Features : f # @]
    /\ UNCHANGED <<up, live, conv, nchan, net, sent, rcvd, adrift, owed, cut,
                   breaks>>

\* mutant: no start message
SegmentedNoStart(id, n) ==
    <<Piece("HTML", id, <<n, 1>>), Piece("HTML", id, <<n, 2>>),
      Msg("STOP", id)>>

\* convo_sendSegmented
Segmented(id, n) ==
    <<Msg("START", id), Piece("HTML", id, <<n, 1>>),
      Piece("HTML", id, <<n, 2>>), Msg("STOP", id)>>

\* mwConversation_send by a client that respects mwConversation_supports.
\* Nothing is sent without a connection.
mwConversation_send(e) ==
    LET c == conv[e]
        n == Len(sent[e]) + 1
        Put(m, msgs) == /\ sent' = [sent EXCEPT ![e] = Append(@, m)]
                        /\ Sends(e, net[e], msgs)
    IN  /\ c.state = "OPEN"
        /\ c.chan
        /\ up[e]
        /\ n <= MaxMsgs
        /\ \/ Put(Text(n), <<Piece("TEXT", c.id, <<n, 1>>)>>)
           \/ /\ c.feats = "NOTESBUDDY"
              /\ \/ Put(Html(n, 1), <<Piece("HTML", c.id, <<n, 1>>)>>)
                 \/ Put(Html(n, 2), Segmented(c.id, n))
        /\ UNCHANGED <<up, live, feat, conv, nchan, rcvd, adrift, owed, cut,
                       breaks, sets>>

-----------------------------------------------------------------------------
\* Messages received

Receives(e, types) == net[e] # <<>> /\ Head(net[e]).type \in types
Rest(e) == Tail(net[e])
Ours(e) == conv[e].chan /\ conv[e].id = Head(net[e]).id
Dropped(e) ==
    /\ ~Ours(e)
    /\ Sends(e, Rest(e), <<>>)
    /\ UNCHANGED <<up, live, feat, conv, nchan, sent, rcvd, adrift, owed, cut,
                   breaks, sets>>

\* recv_channelCreate rejects features that it does not understand.  It may
\* refuse any offer: there is no such service or protocol, the offer is
\* malformed, or the user is busy.
Unknown(f) == f # "PLAIN" /\ f # feat["b"]

\* mutant: the features are those the service is set to
OwnFeatures(m) == feat["b"]

\* The features of the conversation made of an offer.
OfferedFeatures(m) == m.feats

recv_channelCreate ==
    LET m == Head(net["b"])
        c == [Fresh(OfferedFeatures(m)) EXCEPT !.state = "PENDING",
                                               !.chan = TRUE, !.id = m.id]
    IN  /\ Receives("b", {"CREATE"})
        /\ \/ \E r \in Reason :
                 /\ Sends("b", Rest("b"), <<Destroy(m.id, r)>>)
                 /\ UNCHANGED <<conv, sent, rcvd, adrift, owed>>
           \/ /\ ~Unknown(m.feats)
              /\ adrift' = IF conv["b"].state = "CLOSED" THEN adrift
                           ELSE adrift + 1
              /\ sent' = [sent EXCEPT !["b"] = <<>>]
              /\ rcvd' = [rcvd EXCEPT !["b"] = <<>>]
              /\ IF up["b"]
                    THEN /\ conv' = [conv EXCEPT
                                       !["b"] = [c EXCEPT !.state = "OPEN"]]
                         /\ Sends("b", Rest("b"), <<Msg("ACCEPT", m.id)>>)
                         /\ owed' = [owed EXCEPT !["b"] = @ + 1]
                    ELSE /\ conv' = [conv EXCEPT !["b"] = Absent]
                         /\ Sends("b", Rest("b"), <<>>)
                         /\ UNCHANGED owed
        /\ UNCHANGED <<up, live, feat, nchan, cut, breaks, sets>>

recv_channelAccept ==
    /\ Receives("a", {"ACCEPT"})
    /\ \/ /\ Ours("a")
          /\ conv' = [conv EXCEPT !["a"].state = "OPEN"]
          /\ Sends("a", Rest("a"), <<>>)
          /\ UNCHANGED <<up, live, feat, nchan, sent, rcvd, adrift, owed, cut,
                         breaks, sets>>
       \/ Dropped("a")

\* The other end failed to accept more than plain text.
FallsBack(c, r) ==
    /\ c.feats # "PLAIN"
    /\ r = "NO_SUPPORT"

\* mutant: the conversation falls back, and is neither closed nor offered again
DestroyForgets(e) ==
    /\ Receives(e, {"DESTROY"})
    /\ conv' = [conv EXCEPT ![e] = IF Ours(e) THEN [@ EXCEPT !.chan = FALSE,
                                                            !.feats = "PLAIN"]
                                              ELSE @]
    /\ Sends(e, Rest(e), <<>>)
    /\ UNCHANGED <<up, live, feat, nchan, sent, rcvd, adrift, owed, cut,
                   breaks, sets>>

\* A conversation that falls back on plain text is offered again, if it is
\* still PENDING; otherwise it is closed.
recv_channelDestroy(e) ==
    LET m == Head(net[e])
        c == [conv[e] EXCEPT !.chan = FALSE]
        plain == [c EXCEPT !.feats = "PLAIN"]
    IN  /\ Receives(e, {"DESTROY"})
        /\ \/ /\ Ours(e)
              /\ CutShort(c)
              /\ \/ /\ FallsBack(c, m.reason)
                    /\ c.state = "PENDING"
                    /\ convo_create_chan(e, plain, Rest(e))
                    /\ UNCHANGED owed
                 \/ /\ FallsBack(c, m.reason)
                    /\ c.state # "PENDING"
                    /\ conv' = [conv EXCEPT ![e] = plain]
                    /\ Sends(e, Rest(e), <<>>)
                    /\ UNCHANGED <<nchan, sent, rcvd, owed>>
                 \/ /\ ~FallsBack(c, m.reason)
                    /\ Close(e, c, m.reason, Rest(e), FALSE)
                    /\ UNCHANGED <<nchan, sent, rcvd>>
              /\ UNCHANGED <<up, live, feat, adrift, breaks, sets>>
           \/ Dropped(e)

\* recv_text and recv_data: between convo_multi_start and convo_multi_stop the
\* pieces are gathered, else each is a message.  A second start is ignored, and
\* so is a stop without a start.
Gather(e, c) == conv' = [conv EXCEPT ![e] = c] /\ UNCHANGED rcvd
Deliver(e, type, parts) ==
    rcvd' = [rcvd EXCEPT ![e] = Append(@, [type |-> type, parts |-> parts])]

recv(e) ==
    LET m == Head(net[e])
        c == conv[e]
    IN  /\ Receives(e, {"TEXT", "HTML", "START", "STOP"})
        /\ \/ /\ Ours(e)
              /\ Sends(e, Rest(e), <<>>)
              /\ CASE m.type = "START" /\ ~c.multi ->
                        Gather(e, [c EXCEPT !.multi = TRUE])
                   [] m.type = "START" /\ c.multi -> UNCHANGED <<conv, rcvd>>
                   [] m.type = "STOP" /\ c.multi ->
                        /\ Deliver(e, c.mtype, c.buf)
                        /\ conv' = [conv EXCEPT
                              ![e] = [c EXCEPT !.multi = FALSE, !.buf = <<>>]]
                   [] m.type = "STOP" /\ ~c.multi -> UNCHANGED <<conv, rcvd>>
                   [] m.type = "TEXT" /\ c.multi ->
                        Gather(e, [c EXCEPT !.buf = Append(@, m.part)])
                   [] m.type = "HTML" /\ c.multi ->
                        Gather(e, [c EXCEPT !.buf = Append(@, m.part),
                                            !.mtype = "HTML"])
                   [] OTHER ->
                        /\ Deliver(e, IF m.type = "HTML" THEN "HTML"
                                                         ELSE "PLAIN",
                                   <<m.part>>)
                        /\ UNCHANGED conv
              /\ UNCHANGED <<up, live, feat, nchan, sent, adrift, owed, cut,
                             breaks, sets>>
           \/ Dropped(e)

Handle(e) ==
    \/ e = "b" /\ recv_channelCreate
    \/ e = "a" /\ recv_channelAccept
    \/ recv_channelDestroy(e)
    \/ recv(e)

-----------------------------------------------------------------------------
\* The connection of end e breaks (external).  The last of what it wrote is
\* lost, and the server destroys its channels.  What was sent to it is lost from
\* when its session stops, which may be at any time.
LinkBreaks(e) ==
    /\ up[e]
    /\ breaks < MaxBreaks
    /\ breaks' = breaks + 1
    /\ up' = [up EXCEPT ![e] = FALSE]
    /\ \E n \in 0..Len(net[Other(e)]) :
         net' = [net EXCEPT
                   ![Other(e)] = IF up[Other(e)]
                      THEN SubSeq(@, 1, n)
                             \o [i \in 1..nchan |-> Destroy(i, "OTHER")]
                      ELSE @]
    /\ UNCHANGED <<live, feat, conv, nchan, sent, rcvd, adrift, owed, cut,
                   sets>>

\* stop(): the session stops and every conversation is freed; the client is
\* told of those that are not CLOSED.
ServiceStops(e) ==
    LET current == IF conv[e].state = "CLOSED" THEN 0 ELSE 1
        earlier == IF e = "b" THEN adrift ELSE 0
    IN  /\ live[e]
        /\ ~up[e]
        /\ live' = [live EXCEPT ![e] = FALSE]
        /\ conv' = [conv EXCEPT ![e] = Absent]
        /\ Sends(e, <<>>, <<>>)
        /\ adrift' = adrift - earlier
        /\ owed' = [owed EXCEPT ![e] = @ - current - earlier]
        /\ UNCHANGED <<up, feat, nchan, sent, rcvd, cut, breaks, sets>>

\* The user logs in again (module Session).
LogsIn(e) ==
    /\ ~live[e]
    /\ live' = [live EXCEPT ![e] = TRUE]
    /\ up' = [up EXCEPT ![e] = TRUE]
    /\ UNCHANGED <<feat, conv, nchan, net, sent, rcvd, adrift, owed, cut,
                   breaks, sets>>

Next ==
    \/ mwConversation_open
    \/ \E e \in Ends, r \in Reason, freed \in BOOLEAN :
          mwConversation_close(e, r, freed)
    \/ mwConversation_close_adrift
    \/ \E e \in Ends : mwServiceIm_setClientType(e)
    \/ \E e \in Ends : mwConversation_send(e)
    \/ \E e \in Ends : Handle(e)
    \/ \E e \in Ends : LinkBreaks(e)
    \/ \E e \in Ends : ServiceStops(e)
    \/ \E e \in Ends : LogsIn(e)

Spec == Init /\ [][Next]_vars

\* Both clients keep reading, and stop a session that lost its connection.
FairSpec ==
    /\ Spec
    /\ \A e \in Ends : WF_vars(Handle(e)) /\ WF_vars(ServiceStops(e))

-----------------------------------------------------------------------------
TypeOK ==
    /\ up \in [Ends -> BOOLEAN]
    /\ live \in [Ends -> BOOLEAN]
    /\ feat \in [Ends -> Features]
    /\ conv \in [Ends -> Conv]
    /\ nchan \in 0..MaxChans
    /\ net \in [Ends -> Seq(Messages)]
    /\ sent \in [Ends -> Seq(ClientMsg)]
    /\ rcvd \in [Ends -> Seq(ClientMsg)]
    /\ adrift \in Nat
    /\ owed \in [Ends -> Int]
    /\ cut \in BOOLEAN
    /\ breaks \in 0..MaxBreaks
    /\ sets \in 0..MaxSets

\* The features of a conversation are those both ends can meet, whatever the
\* services are set to meanwhile: two ends of one channel agree on them from the
\* offer on, and a conversation left OPEN without a channel is one that has
\* fallen back on plain text (recv_channelCreate, recv_channelDestroy).
FeaturesAgree ==
    /\ conv["a"].chan /\ conv["b"].chan /\ conv["a"].id = conv["b"].id
          => conv["a"].feats = conv["b"].feats
    /\ \A e \in Ends :
          conv[e].state = "OPEN" => conv[e].chan \/ conv[e].feats = "PLAIN"

\* Every attempt to have a conversation is answered by conversation_closed
\* once, and not before it is over: rejected, fallen back, closed by either
\* end, or cut off by a connection that broke.
ClosedOncePerTry ==
    \A e \in Ends :
        owed[e] = (IF conv[e].state = "CLOSED" THEN 0 ELSE 1)
                    + (IF e = "b" THEN adrift ELSE 0)

\* The channels of the conversation follow one another at end "b" too: it is not
\* offered the next before it was told of the end of the one it has.
ChannelsInTurn ==
    net["b"] # <<>> /\ Head(net["b"]).type = "CREATE" => ~conv["b"].chan

\* The conversations are of their type, have one channel at a time, and every
\* try is told to be over once (mwConversation_close, recv_channelDestroy,
\* stop).
ConversationConsistent == TypeOK /\ ClosedOncePerTry /\ ChannelsInTurn

\* What a client is handed on a channel is what the other sent on it, whole
\* messages of the right type and in order; unless a channel went away in the
\* middle of a message before.
MessagesWhole ==
    ~cut /\ conv["a"].id = conv["b"].id /\ conv["a"].id # 0 =>
        \A e \in Ends : IsPrefix(rcvd[e], sent[Other(e)])

\* mw_srvc_im.h about mwConversation_open: "Upon failure,
\* mwServiceImHandler::conversation_closed will be triggered".  An attempt to
\* open a conversation that got as far as a channel does not stay PENDING:
\* falling back included, it gets OPEN or is CLOSED.
OpenAnswered ==
    conv["a"].state = "PENDING" /\ conv["a"].chan
        ~> conv["a"].state # "PENDING"

=============================================================================
