------------------------------- MODULE Place -------------------------------
(***************************************************************************)
(* The place service (srvc_place.c): one client that opens a place, joins  *)
(* it in a sequence of requests and answers, keeps a table of the members  *)
(* of its section, and leaves.                                             *)
(*                                                                         *)
(*   channel accepted        -> JOIN_PLACE                     (JOINING)   *)
(*   JOIN_RESPONSE           -> our id and our section                     *)
(*   INFO of the place       -> SECTION_LIST request           (JOINED)    *)
(*   SECTION_LIST, or a PEER_JOIN of ourselves                 (OPEN)      *)
(*                                                                         *)
(* The PEER_JOIN of ourselves may come at any time: before the INFO, before*)
(* the list or behind it.                                                  *)
(*                                                                         *)
(* Session and channels are taken as modules Session and Channel show      *)
(* them.  The server and the other members are external.                   *)
(***************************************************************************)
EXTENDS Integers, Sequences, FiniteSets

CONSTANTS
    Peers,       \* the other users
    Me,          \* the user of this client
    Nobody,      \* no user
    Section,     \* the section the server puts users in, not 0
    MaxPlaces,   \* bound: places created, one after the other
    MaxEvents    \* bound: what others do and say, and what fails, together

ASSUME UsersAssumption ==
    IsFiniteSet(Peers) /\ {Me, Nobody} \cap Peers = {} /\ Me # Nobody
ASSUME BoundsAssumption ==
    {MaxPlaces, MaxEvents} \subseteq Nat /\ Section \in Nat \ {0}

Ids == 1..(Cardinality(Peers) + 1)
Tables == [Ids -> Peers \cup {Me, Nobody}]
Empty == [i \in Ids |-> Nobody]
Chans == 1..MaxPlaces

VARIABLES
    on,         \* the client has a session
    up,         \* its connection can be written to
    place,      \* the struct mwPlace
    copen,      \* the channel of the place is OPEN
    outq,       \* the outgoing queue of that channel
    toServer,   \* messages on their way to the server
    toClient,   \* messages on their way to the client
    peer,       \* how the server regards this client
    roster,     \* the members of the section, by id, as the server knows them
    nplaces,    \* places created so far; channel ids count them
    opened,     \* handler->opened calls since the place was last described
    greeted,    \* PEER_JOINs of ourselves that were acted on since then
    listed,     \* a SECTION_LIST was received
    events      \* how many there were

server == <<peer, roster>>
history == <<opened, greeted, listed>>
vars == <<on, up, place, copen, outq, toServer, toClient, server, nplaces,
          history, events>>

mwPlaceState == {"NEW", "PENDING", "JOINING", "JOINED", "OPEN", "ERROR"}

\* "NONE": there is no place; chan: place->channel, 0 if NULL.
PlaceRecord ==
    [state : mwPlaceState \cup {"NONE"}, chan : {0} \cup Chans,
     members : Tables, our_id : {0} \cup Ids, section : {0, Section},
     requests : Nat]

NoPlace == [state |-> "NONE", chan |-> 0, members |-> Empty, our_id |-> 0,
            section |-> 0, requests |-> 0]
NoPeer == [chan |-> 0, joined |-> FALSE]

Msg(type, c) == [type |-> type, chan |-> c]
OnSection(type, c, sec) == [type |-> type, chan |-> c, section |-> sec]
ListRequest(c, sec, req) ==
    [type |-> "SECTION_LIST", chan |-> c, section |-> sec, request |-> req]
JoinResponse(c, id) ==
    [type |-> "JOIN_RESPONSE", chan |-> c, id |-> id, section |-> Section]
SectionList(c, t) ==
    [type |-> "SECTION_LIST", chan |-> c, section |-> Section, members |-> t]
Peer(type, c, id, who) == [type |-> type, chan |-> c, id |-> id, who |-> who]
PeerJoin(c, id, who, sec) ==
    [type |-> "PEER_JOIN", chan |-> c, id |-> id, who |-> who, section |-> sec]

Init ==
    /\ on = TRUE
    /\ up = TRUE
    /\ place = NoPlace
    /\ copen = FALSE
    /\ outq = <<>>
    /\ toServer = <<>>
    /\ toClient = <<>>
    /\ peer = NoPeer
    /\ roster = Empty
    /\ nplaces = 0
    /\ opened = 0
    /\ greeted = 0
    /\ listed = FALSE
    /\ events = 0

-----------------------------------------------------------------------------
\* mwSession_send
Sends(msgs) == toServer' = IF up THEN toServer \o msgs ELSE toServer

\* mwChannel_send on the channel of the place.
SendsOnChannel(m) ==
    IF copen THEN Sends(<<m>>) /\ UNCHANGED outq
             ELSE outq' = Append(outq, m) /\ UNCHANGED toServer

\* mwPlace_destroy, but for the message: the channel is gone, and place_free
\* frees the members and the place.
place_free ==
    /\ place' = NoPlace
    /\ copen' = FALSE
    /\ outq' = <<>>
    /\ opened' = 0
    /\ greeted' = 0
    /\ listed' = FALSE

-----------------------------------------------------------------------------
\* Calls of the client

mwPlace_new ==
    /\ on
    /\ place.state = "NONE"
    /\ nplaces < MaxPlaces
    /\ nplaces' = nplaces + 1
    /\ place' = [NoPlace EXCEPT !.state = "NEW"]
    /\ UNCHANGED <<on, up, copen, outq, toServer, toClient, server, history,
                   events>>

\* A client opens a place once: a second call would leave the first channel
\* behind.  The channel is created, or fails to be.
mwPlace_open ==
    /\ place.state = "NEW"
    /\ place' = IF up THEN [place EXCEPT !.state = "PENDING", !.chan = nplaces]
                      ELSE [place EXCEPT !.state = "ERROR"]
    /\ Sends(<<Msg("CREATE", nplaces)>>)
    /\ UNCHANGED <<on, up, copen, outq, toClient, server, nplaces, history,
                   events>>

\* mutant: the channel is left to itself
DestroyForgets ==
    /\ place.state # "NONE"
    /\ place_free
    /\ UNCHANGED <<on, up, toServer, toClient, server, nplaces, events>>

mwPlace_destroy ==
    /\ place.state # "NONE"
    /\ Sends(IF place.chan # 0 THEN <<Msg("DESTROY", place.chan)>> ELSE <<>>)
    /\ place_free
    /\ UNCHANGED <<on, up, toClient, server, nplaces, events>>

\* It takes a channel only, and the section may not be known yet.
mwPlace_sendText ==
    /\ place.chan # 0
    /\ events < MaxEvents
    /\ events' = events + 1
    /\ SendsOnChannel(OnSection("MESSAGE", place.chan, place.section))
    /\ UNCHANGED <<on, up, place, copen, toClient, server, nplaces, history>>

\* mwPlace_setAttribute: the buffer is composed and not put into what is sent,
\* so the message is empty.
mwPlace_setAttribute ==
    /\ place.chan # 0
    /\ events < MaxEvents
    /\ events' = events + 1
    /\ SendsOnChannel(Msg("SET_ATTR", place.chan))
    /\ UNCHANGED <<on, up, place, copen, toClient, server, nplaces, history>>

\* mwPlace_unsetAttribute sends the same, of type SET_ATTR too.
mwPlace_unsetAttribute == mwPlace_setAttribute

\* mwPlace_legacyInvite: whom it reaches comes by a conference, if at all.
mwPlace_legacyInvite ==
    /\ place.chan # 0
    /\ events < MaxEvents
    /\ events' = events + 1
    /\ SendsOnChannel(Msg("OLD_INVITE", place.chan))
    /\ UNCHANGED <<on, up, place, copen, toClient, server, nplaces, history>>

-----------------------------------------------------------------------------
\* Messages received.  Those on a channel that is gone are dropped.

Got == Head(toClient)

Receives(type) ==
    /\ on
    /\ toClient # <<>>
    /\ Got.type = type
    /\ toClient' = Tail(toClient)
    /\ UNCHANGED <<on, up, server, nplaces, events>>

Known == Got.chan = place.chan

\* recv: one of the handlers below, for a place that is there.
Dispatch(type, Handler) ==
    /\ Receives(type)
    /\ IF Known THEN Handler
                ELSE UNCHANGED <<place, copen, outq, toServer, history>>

Unsent == UNCHANGED <<copen, outq, toServer>>

\* The channel is OPEN before the service is told, so that JOIN_PLACE comes
\* before what was queued.  If it cannot be written the place is in ERROR.
send_JOIN_PLACE ==
    /\ place' = [place EXCEPT !.state = IF up THEN "JOINING" ELSE "ERROR"]
    /\ copen' = TRUE
    /\ Sends(<<Msg("JOIN_PLACE", place.chan)>> \o outq)
    /\ outq' = <<>>
    /\ UNCHANGED history

recv_channelAccept == Dispatch("ACCEPT", send_JOIN_PLACE)

\* handler->closed is called, and the place freed.
recv_channelDestroy == Dispatch("DESTROY", place_free /\ UNCHANGED toServer)

recv_JOIN_RESPONSE ==
    /\ place' = [place EXCEPT !.our_id = Got.id, !.section = Got.section]
    /\ Unsent
    /\ UNCHANGED history

send_SECTION_LIST ==
    /\ place' = [place EXCEPT !.state = "JOINED", !.requests = @ + 1]
    /\ SendsOnChannel(ListRequest(place.chan, place.section,
                                  place.requests + 1))
    /\ UNCHANGED copen

\* mutant: the members are not asked for
InfoOnly ==
    /\ opened' = 0
    /\ greeted' = 0
    /\ place' = [place EXCEPT !.state = "JOINED"]
    /\ Unsent
    /\ UNCHANGED listed

\* An INFO with section 0 is about the place: whatever the state was it becomes
\* JOINED, and the members are asked for.
recv_INFO ==
    IF Got.section = 0
      THEN /\ opened' = 0
           /\ greeted' = 0
           /\ send_SECTION_LIST
           /\ UNCHANGED listed
      ELSE Unsent /\ UNCHANGED <<place, history>>

\* place_opened, for the place p.
place_opened(p) ==
    /\ place' = [p EXCEPT !.state = "OPEN"]
    /\ opened' = opened + 1

\* place_opened for a member that is ourselves, asked of every PEER_JOIN and in
\* every state; p is the place as it is then.
OpenedIfSelf(p) ==
    IF Got.id = place.our_id
      THEN place_opened(p) /\ greeted' = greeted + 1
      ELSE place' = p /\ UNCHANGED <<opened, greeted>>

\* mutant: handler->peerJoined is called, and the member not kept
JoinToldOnly ==
    /\ OpenedIfSelf(place)
    /\ Unsent
    /\ UNCHANGED listed

\* Without a section it says nothing.
recv_SECTION_PEER_JOIN ==
    /\ IF Got.section = 0
         THEN UNCHANGED <<place, opened, greeted>>
         ELSE OpenedIfSelf([place EXCEPT !.members[Got.id] = Got.who])
    /\ Unsent
    /\ UNCHANGED listed

\* mutant: the list replaces what is known, opened or not
ListReopens ==
    /\ Got.section = place.section
    /\ place_opened([place EXCEPT !.members =
         [i \in Ids |-> IF Got.members[i] # Nobody THEN Got.members[i]
                                                   ELSE @[i]]])
    /\ listed' = TRUE
    /\ Unsent
    /\ UNCHANGED greeted

\* mutant: a place that is open already is told nothing by the list
ListForOpening ==
    /\ IF Got.section = place.section /\ place.state # "OPEN"
         THEN place_opened([place EXCEPT !.members =
                [i \in Ids |-> IF Got.members[i] # Nobody THEN Got.members[i]
                                                          ELSE @[i]]])
         ELSE UNCHANGED <<place, opened>>
    /\ listed' = TRUE
    /\ Unsent
    /\ UNCHANGED greeted

\* The members listed are added to those known.  The request number in the
\* answer is skipped.
recv_SECTION_LIST ==
    LET p == [place EXCEPT !.members =
                [i \in Ids |-> IF Got.members[i] # Nobody THEN Got.members[i]
                                                          ELSE @[i]]]
    IN  IF Got.section # place.section
          THEN Unsent /\ UNCHANGED <<place, history>>
          ELSE /\ IF place.state # "OPEN" THEN place_opened(p)
                                          ELSE place' = p /\ UNCHANGED opened
               /\ listed' = TRUE
               /\ Unsent
               /\ UNCHANGED greeted

\* recv_SECTION_PART, and recv_SECTION_PEER_PART, which comes behind it and
\* finds nobody.
recv_SECTION_PART ==
    /\ place' = [place EXCEPT !.members[Got.id] = Nobody]
    /\ Unsent
    /\ UNCHANGED history

recv_SECTION_PEER_PART ==
    /\ place' = IF Got.section = place.section
                  THEN [place EXCEPT !.members[Got.id] = Nobody] ELSE place
    /\ Unsent
    /\ UNCHANGED history

\* GET_MEMBER: the member a message is from, or whose attribute changes, is
\* looked up; the handler is called, if there is one, and nothing changes.
recv_MESSAGE == Unsent /\ UNCHANGED <<place, history>>
recv_SECTION_PEER_SET_ATTR == Unsent /\ UNCHANGED <<place, history>>
recv_SECTION_PEER_CLEAR_ATTR == Unsent /\ UNCHANGED <<place, history>>

recv_SECTION_PEER ==
    \/ Dispatch("PEER_JOIN", recv_SECTION_PEER_JOIN)
    \/ Dispatch("PEER_PART", recv_SECTION_PEER_PART)
    \/ Dispatch("PEER_SET_ATTR", recv_SECTION_PEER_SET_ATTR)
    \/ Dispatch("PEER_CLEAR_ATTR", recv_SECTION_PEER_CLEAR_ATTR)

recv_SECTION ==
    \/ Dispatch("SECTION_LIST", recv_SECTION_LIST)
    \/ Dispatch("SECTION_PART", recv_SECTION_PART)
    \/ recv_SECTION_PEER

recv ==
    \/ Dispatch("JOIN_RESPONSE", recv_JOIN_RESPONSE)
    \/ Dispatch("INFO", recv_INFO)
    \/ Dispatch("MESSAGE", recv_MESSAGE)
    \/ recv_SECTION

Handle == recv_channelAccept \/ recv_channelDestroy \/ recv

-----------------------------------------------------------------------------
\* The server and the other users (external)

FreeId == CHOOSE i \in Ids : roster[i] = Nobody
IdOf(u) == CHOOSE i \in Ids : roster[i] = u
Inside(u) == \E i \in Ids : roster[i] = u

Tells(msgs) == toClient' = toClient \o msgs

\* What happens in the section is told to this client when it is in there.
TellsMember(msgs) == Tells(IF peer.joined THEN msgs ELSE <<>>)

\* That the client joined, told to it as to the others, with its section or
\* without.
Greetings(c, id) == {PeerJoin(c, id, Me, sec) : sec \in {0, Section}}

\* The client is in: it learns of its id and of the place, and perhaps, between
\* the two, that it joined.  ServerGreets is for later.
ServerJoins(c) ==
    /\ roster' = [roster EXCEPT ![FreeId] = Me]
    /\ peer' = [chan |-> c, joined |-> TRUE]
    /\ \E echo \in {<<>>} \cup {<<g>> : g \in Greetings(c, FreeId)} :
         Tells(<<JoinResponse(c, FreeId)>> \o echo \o
               <<OnSection("INFO", c, 0)>>)

\* The client is out; it is told msgs.
ServerDrops(msgs) ==
    /\ peer' = NoPeer
    /\ roster' = [i \in Ids |-> IF roster[i] = Me THEN Nobody ELSE roster[i]]
    /\ Tells(msgs)

ServerReads ==
    LET m == Head(toServer)
        current == m.chan = peer.chan
        inside == current /\ peer.joined
        Ignored == UNCHANGED <<server, toClient, events>>
    IN  /\ toServer # <<>>
        /\ toServer' = Tail(toServer)
        /\ \/ /\ m.type = "CREATE"
              /\ \/ /\ peer' = [chan |-> m.chan, joined |-> FALSE]
                    /\ Tells(<<Msg("ACCEPT", m.chan)>>)
                    /\ UNCHANGED <<roster, events>>
                 \/ /\ events < MaxEvents
                    /\ events' = events + 1
                    /\ Tells(<<Msg("DESTROY", m.chan)>>)
                    /\ UNCHANGED server
           \/ /\ m.type = "JOIN_PLACE"
              /\ IF current THEN ServerJoins(m.chan) /\ UNCHANGED events
                            ELSE Ignored
           \/ /\ m.type = "SECTION_LIST"
              /\ IF inside /\ m.section = Section
                   THEN /\ Tells(<<SectionList(m.chan, roster)>>)
                        /\ UNCHANGED <<server, events>>
                   ELSE Ignored
           \/ /\ m.type = "MESSAGE"
              /\ IF inside /\ m.section = Section
                   THEN /\ Tells(<<Peer("MESSAGE", m.chan, IdOf(Me), Me)>>)
                        /\ UNCHANGED <<server, events>>
                   ELSE Ignored
           \/ m.type \in {"SET_ATTR", "OLD_INVITE"} /\ Ignored
           \/ /\ m.type = "DESTROY"
              /\ IF current THEN ServerDrops(<<>>) /\ UNCHANGED events
                            ELSE Ignored
        /\ UNCHANGED <<on, up, place, copen, outq, nplaces, history>>

Event ==
    /\ events < MaxEvents
    /\ events' = events + 1
    /\ UNCHANGED <<on, place, copen, outq, nplaces, history>>

PeerJoins(u) ==
    /\ Event
    /\ ~Inside(u)
    /\ roster' = [roster EXCEPT ![FreeId] = u]
    /\ TellsMember(<<PeerJoin(peer.chan, FreeId, u, Section)>>)
    /\ UNCHANGED <<up, toServer, peer>>

\* A departure is told twice.
PeerParts(u) ==
    /\ Event
    /\ Inside(u)
    /\ roster' = [roster EXCEPT ![IdOf(u)] = Nobody]
    /\ TellsMember(<<Peer("SECTION_PART", peer.chan, IdOf(u), u),
                     [type |-> "PEER_PART", chan |-> peer.chan,
                      id |-> IdOf(u), who |-> u, section |-> Section]>>)
    /\ UNCHANGED <<up, toServer, peer>>

\* u says something, or sets or clears an attribute.
Acts == {"MESSAGE", "PEER_SET_ATTR", "PEER_CLEAR_ATTR"}

PeerActs(u) ==
    /\ Event
    /\ Inside(u)
    /\ peer.joined
    /\ \E type \in Acts : Tells(<<Peer(type, peer.chan, IdOf(u), u)>>)
    /\ UNCHANGED <<up, toServer, server>>

\* The place, or something in it, is described (again).
ServerInforms ==
    /\ Event
    /\ peer.joined
    /\ \E sec \in {0, Section} : Tells(<<OnSection("INFO", peer.chan, sec)>>)
    /\ UNCHANGED <<up, toServer, server>>

\* That it joined is told to the client later: before the list or behind it.
ServerGreets ==
    /\ Event
    /\ peer.joined
    /\ \E g \in Greetings(peer.chan, IdOf(Me)) : Tells(<<g>>)
    /\ UNCHANGED <<up, toServer, server>>

ServerKicks ==
    /\ Event
    /\ peer.chan # 0
    /\ ServerDrops(<<Msg("DESTROY", peer.chan)>>)
    /\ UNCHANGED <<up, toServer>>

\* What the client wrote is lost, what it was sent may still be read.
LinkBreaks ==
    /\ Event
    /\ up
    /\ up' = FALSE
    /\ toServer' = <<>>
    /\ ServerDrops(<<>>)

\* stop: the session that lost its connection is stopped, and the service
\* destroys its places.
stop ==
    /\ on
    /\ ~up
    /\ on' = FALSE
    /\ toClient' = <<>>
    /\ place_free
    /\ UNCHANGED <<up, toServer, server, nplaces, events>>

-----------------------------------------------------------------------------
Next ==
    \/ mwPlace_new
    \/ mwPlace_open
    \/ mwPlace_destroy
    \/ mwPlace_sendText
    \/ mwPlace_setAttribute
    \/ mwPlace_unsetAttribute
    \/ mwPlace_legacyInvite
    \/ Handle
    \/ ServerReads
    \/ \E u \in Peers : PeerJoins(u) \/ PeerParts(u) \/ PeerActs(u)
    \/ ServerInforms
    \/ ServerGreets
    \/ ServerKicks
    \/ LinkBreaks
    \/ stop

Spec == Init /\ [][Next]_vars

\* While there is something to read someone reads it: the client what it is sent
\* or that its connection is gone, the server what the client wrote.
FairSpec == Spec /\ WF_vars(Handle \/ ServerReads \/ stop)

-----------------------------------------------------------------------------
\* A place has a channel from mwPlace_open on, and its members know their ids.
TypeOK ==
    /\ {on, up, copen, listed} \subseteq BOOLEAN
    /\ place \in PlaceRecord
    /\ place.chan # 0 => place.state \in {"PENDING", "JOINING", "JOINED", "OPEN",
                                          "ERROR"}
    /\ copen => place.chan # 0
    /\ outq # <<>> => ~copen /\ place.chan # 0
    /\ peer \in [chan : {0} \cup Chans, joined : BOOLEAN]
    /\ roster \in Tables
    /\ nplaces \in 0..MaxPlaces
    /\ {opened, greeted} \subseteq Nat
    /\ events \in 0..MaxEvents

News == {"PEER_JOIN", "PEER_PART", "SECTION_PART", "SECTION_LIST"}

\* When a place was sent the list of its members, and no more news of members
\* is on its way, the table it keeps (mwPlace_getMembers) is the server's:
\* recv_SECTION_LIST adds to what PEER_JOIN and PART said before it, and ids
\* are used again.
MembersAgree ==
    /\ up
    /\ listed
    /\ peer.joined
    /\ peer.chan = place.chan
    /\ \A i \in DOMAIN toClient : toClient[i].type \notin News
    => place.members = roster

\* From one description of the place to the next handler->opened is called once
\* for every PEER_JOIN of ourselves and at most once more, for the list: however
\* many lists come, and whether they come before or behind a PEER_JOIN of
\* ourselves, recv_SECTION_LIST opens a place only that is not open.
OpenedOnce == opened <= greeted + 1

\* The place, its channel and the queue of the channel fit together, and no list
\* tells the client again that the place is open (place_opened).
PlaceConsistent == TypeOK /\ OpenedOnce

\* Who speaks, or sets or clears an attribute, is found under its id
\* (GET_MEMBER) once the list came: not missing, and not the member that had
\* the id before it, though joins and parts crossed the list and ids are used
\* again.
SpeakerKnown ==
    /\ toClient # <<>>
    /\ Known
    /\ listed
    /\ Got.type \in Acts
    => place.members[Got.id] = Got.who

\* Joining ends: a place that waits for its channel, for the answer to
\* JOIN_PLACE or for the list becomes OPEN, or is destroyed.
JoiningEnds ==
    place.state \in {"PENDING", "JOINING", "JOINED"} ~>
        place.state \in {"NONE", "OPEN"}

\* A place that is left is left for good: once there is no place the server
\* does not keep its user in the section.
LeavingEnds ==
    place.state = "NONE" /\ peer.joined ~> ~peer.joined \/ place.state # "NONE"

\* Neither joining nor leaving a place hangs (recv_INFO, recv_SECTION_LIST,
\* mwPlace_destroy).
PlaceSettles == JoiningEnds /\ LeavingEnds

=============================================================================
