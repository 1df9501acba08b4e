----------------------------- MODULE Conference -----------------------------
(***************************************************************************)
(* The conference service (srvc_conf.c): one conference, kept by the       *)
(* server, and the users who open it, are invited to it, join, talk and    *)
(* leave.  Every user has a copy of the members, by the id the server gave *)
(* them, and learns of changes by WELCOME, JOIN and PART; who says what is *)
(* told by id only.                                                        *)
(*                                                                         *)
(* Session and channels are taken as modules Session and Channel show      *)
(* them.  The server is external.                                          *)
(***************************************************************************)
EXTENDS Integers, Sequences, FiniteSets, FiniteSetsExt

CONSTANTS
    Users,        \* the users
    Owner,        \* the one who creates the conference
    Nobody,       \* no user
    MaxInvites,   \* bound: invitations
    MaxEvents     \* bound: messages said, channels refused or destroyed by
                  \* the server and connections that break, together

ASSUME UsersAssumption == Owner \in Users /\ Nobody \notin Users
ASSUME BoundsAssumption ==
    {MaxInvites, MaxEvents} \subseteq Nat

MaxChans == MaxInvites + 1
Ids == 1..Cardinality(Users)
Tables == [Ids -> Users \cup {Nobody}]
Empty == [i \in Ids |-> Nobody]

VARIABLES
    on,         \* on[u]: u has a session
    up,         \* up[u]: its connection can be written to
    conf,       \* conf[u]: u's struct mwConference
    copen,      \* copen[u]: the channel of that is OPEN
    outq,       \* outq[u]: the outgoing queue of that channel
    toServer,   \* toServer[u]: messages on their way from u
    toClient,   \* toClient[u]: messages on their way to u
    peer,       \* peer[u]: how the server regards u
    roster,     \* the members, by id, as the server knows them
    nchan,      \* channels so far; their ids count them
    created,    \* the owner has created the conference
    invites, events  \* how many there were

server == <<peer, roster>>
bounds == <<created, invites, events>>
vars == <<on, up, conf, copen, outq, toServer, toClient, server, nchan,
          bounds>>

\* "NONE": no conference; chan: conf->channel, 0 if NULL.
Conf == [state : {"NONE", "NEW", "PENDING", "INVITED", "OPEN", "ERROR"},
         chan : 0..MaxChans, members : Tables]
NoConf == [state |-> "NONE", chan |-> 0, members |-> Empty]
NewConf == [NoConf EXCEPT !.state = "NEW"]
NoPeer == [state |-> "none", chan |-> 0]

Plain(type, c) == [type |-> type, chan |-> c]
Invite(c, who) == [type |-> "INVITE", chan |-> c, who |-> who]
Welcome(c, t) == [type |-> "WELCOME", chan |-> c, members |-> t]
Join(c, id, who) == [type |-> "JOIN", chan |-> c, id |-> id, who |-> who]
Part(c, id) == [type |-> "PART", chan |-> c, id |-> id]
Message(c, id, who) == [type |-> "MESSAGE", chan |-> c, id |-> id, who |-> who]

Messages ==
    LET Chan == 1..MaxChans IN
    [type : {"CREATE", "ACCEPT", "DESTROY", "JOIN", "MESSAGE"}, chan : Chan]
      \cup [type : {"INVITE"}, chan : Chan, who : Users]
      \cup [type : {"WELCOME"}, chan : Chan, members : Tables]
      \cup [type : {"JOIN", "MESSAGE"}, chan : Chan, id : Ids, who : Users]
      \cup [type : {"PART"}, chan : Chan, id : Ids]

Init ==
    /\ on = [u \in Users |-> TRUE]
    /\ up = [u \in Users |-> TRUE]
    /\ conf = [u \in Users |-> NoConf]
    /\ copen = [u \in Users |-> FALSE]
    /\ outq = [u \in Users |-> <<>>]
    /\ toServer = [u \in Users |-> <<>>]
    /\ toClient = [u \in Users |-> <<>>]
    /\ peer = [u \in Users |-> NoPeer]
    /\ roster = Empty
    /\ nchan = 0
    /\ created = FALSE
    /\ invites = 0
    /\ events = 0

-----------------------------------------------------------------------------
\* mwSession_send
Sends(u, msgs) ==
    toServer' = IF up[u] THEN [toServer EXCEPT ![u] = @ \o msgs] ELSE toServer

\* mwChannel_sendEncrypted on the channel of u's conference.
SendsOnChannel(u, m) ==
    IF copen[u] THEN Sends(u, <<m>>) /\ UNCHANGED outq
                ELSE /\ outq' = [outq EXCEPT ![u] = Append(@, m)]
                     /\ UNCHANGED toServer

\* What is left of u's conference, and of its channel, when it is freed.
Freed(u) ==
    /\ conf' = [conf EXCEPT ![u] = NoConf]
    /\ copen' = [copen EXCEPT ![u] = FALSE]
    /\ outq' = [outq EXCEPT ![u] = <<>>]

-----------------------------------------------------------------------------
\* Calls of the client of u

mwConference_new(u) ==
    /\ on[u]
    /\ u = Owner
    /\ ~created
    /\ created' = TRUE
    /\ conf' = [conf EXCEPT ![u] = NewConf]
    /\ UNCHANGED <<on, up, copen, outq, toServer, toClient, server, nchan,
                   invites, events>>

mwConference_open(u) ==
    /\ conf[u].state = "NEW"
    /\ \/ /\ up[u]
          /\ conf' = [conf EXCEPT ![u].state = "PENDING", ![u].chan = nchan + 1]
          /\ nchan' = nchan + 1
          /\ Sends(u, <<Plain("CREATE", nchan + 1)>>)
       \/ /\ ~up[u]
          /\ conf' = [conf EXCEPT ![u].state = "ERROR"]
          /\ UNCHANGED <<nchan, toServer>>
    /\ UNCHANGED <<on, up, copen, outq, toClient, server, bounds>>

\* mwConference_destroy, mwConference_reject: conf_closed is not called.
mwConference_destroy(u) ==
    /\ conf[u].state # "NONE"
    /\ Sends(u, IF conf[u].chan # 0 THEN <<Plain("DESTROY", conf[u].chan)>>
                                    ELSE <<>>)
    /\ Freed(u)
    /\ UNCHANGED <<on, up, toClient, server, nchan, bounds>>

\* mutant: the channel is accepted, and that is all
AcceptOnly(u) ==
    LET c == conf[u].chan IN
    /\ conf[u].state = "INVITED"
    /\ ~copen[u]
    /\ up[u]
    /\ copen' = [copen EXCEPT ![u] = TRUE]
    /\ Sends(u, <<Plain("ACCEPT", c)>> \o outq[u])
    /\ outq' = [outq EXCEPT ![u] = <<>>]
    /\ UNCHANGED <<on, up, conf, toClient, server, nchan, bounds>>

\* The channel is accepted, what was queued on it is sent, and then the empty
\* JOIN.  The state stays INVITED until the WELCOME.  Accepted again, or without
\* a connection, nothing happens.
mwConference_accept(u) ==
    LET c == conf[u].chan IN
    /\ conf[u].state = "INVITED"
    /\ ~copen[u]
    /\ up[u]
    /\ copen' = [copen EXCEPT ![u] = TRUE]
    /\ Sends(u, <<Plain("ACCEPT", c)>> \o outq[u] \o <<Plain("JOIN", c)>>)
    /\ outq' = [outq EXCEPT ![u] = <<>>]
    /\ UNCHANGED <<on, up, conf, toClient, server, nchan, bounds>>

\* It takes a channel only, not an open conference.
mwConference_invite(u, who) ==
    /\ conf[u].chan # 0
    /\ who # u
    /\ invites < MaxInvites
    /\ invites' = invites + 1
    /\ SendsOnChannel(u, Invite(conf[u].chan, who))
    /\ UNCHANGED <<on, up, conf, copen, toClient, server, nchan, created,
                   events>>

\* mwConference_sendText, and mwConference_sendTyping, which takes an open
\* conference besides.
mwConference_sendText(u) ==
    /\ conf[u].chan # 0
    /\ events < MaxEvents
    /\ events' = events + 1
    /\ SendsOnChannel(u, Plain("MESSAGE", conf[u].chan))
    /\ UNCHANGED <<on, up, conf, copen, toClient, server, nchan, created,
                   invites>>

-----------------------------------------------------------------------------
\* Messages received by u.  Those on a channel that is gone are dropped.

Receives(u, type) ==
    /\ on[u]
    /\ toClient[u] # <<>>
    /\ Head(toClient[u]).type = type
    /\ toClient' = [toClient EXCEPT ![u] = Tail(@)]
    /\ UNCHANGED <<on, up, server, nchan, bounds>>

Known(u) == Head(toClient[u]).chan = conf[u].chan

\* An invitation.
recv_channelCreate(u) ==
    /\ Receives(u, "CREATE")
    /\ conf' = [conf EXCEPT ![u] = [NewConf EXCEPT
                  !.state = "INVITED", !.chan = Head(toClient[u]).chan]]
    /\ UNCHANGED <<copen, outq, toServer>>

\* The service does nothing; the channel is flushed.
recv_channelAccept(u) ==
    /\ Receives(u, "ACCEPT")
    /\ \/ /\ Known(u)
          /\ copen' = [copen EXCEPT ![u] = TRUE]
          /\ Sends(u, outq[u])
          /\ outq' = [outq EXCEPT ![u] = <<>>]
       \/ ~Known(u) /\ UNCHANGED <<copen, outq, toServer>>
    /\ UNCHANGED conf

\* conf_closed is called, and the conference freed.
recv_channelDestroy(u) ==
    /\ Receives(u, "DESTROY")
    /\ IF Known(u) THEN Freed(u) ELSE UNCHANGED <<conf, copen, outq>>
    /\ UNCHANGED toServer

\* recv: the conference becomes c, if there is one.
recv_data(u, type, c) ==
    /\ Receives(u, type)
    /\ conf' = IF Known(u) THEN [conf EXCEPT ![u] = c] ELSE conf
    /\ UNCHANGED <<copen, outq, toServer>>

\* WELCOME_recv: the members listed are added to those known.
Welcomed(c, m) ==
    [c EXCEPT !.state = "OPEN",
              !.members = [i \in Ids |-> IF m.members[i] # Nobody
                                           THEN m.members[i] ELSE @[i]]]

\* mutant: the JOIN messages are taken not to exist at all
JoinsIgnored(c, m) == c

\* JOIN_recv: what comes before the WELCOME of a conference of our own is
\* ignored.
Joined(c, m) ==
    IF c.state = "PENDING" THEN c ELSE [c EXCEPT !.members[m.id] = m.who]

\* mutant: on_peer_parted is called and the member kept
PartedStays(c, m) == c

\* PART_recv
Parted(c, m) == [c EXCEPT !.members[m.id] = Nobody]

WELCOME_recv(u) == recv_data(u, "WELCOME", Welcomed(conf[u], Head(toClient[u])))
JOIN_recv(u) == recv_data(u, "JOIN", Joined(conf[u], Head(toClient[u])))
PART_recv(u) == recv_data(u, "PART", Parted(conf[u], Head(toClient[u])))

\* MESSAGE_recv: on_text is called with Speaker(u), if there is one.
MESSAGE_recv(u) ==
    /\ Receives(u, "MESSAGE")
    /\ UNCHANGED <<conf, copen, outq, toServer>>

\* The member who has the id that the message carries.
Speaker(u) == conf[u].members[Head(toClient[u]).id]

Handle(u) ==
    \/ recv_channelCreate(u)
    \/ recv_channelAccept(u)
    \/ recv_channelDestroy(u)
    \/ WELCOME_recv(u)
    \/ JOIN_recv(u)
    \/ PART_recv(u)
    \/ MESSAGE_recv(u)

-----------------------------------------------------------------------------
\* The server (external).  Clients may be members of the conference, or have been
\* invited and not have joined.

Members(p) == {v \in Users : p[v].state = "joined"}
Id(u) == CHOOSE i \in Ids : roster[i] = u
FreeId == Min({i \in Ids : roster[i] = Nobody})

\* Of the messages to everyone, the one to v is To(v).
Told(to, To(_)) ==
    [v \in Users |-> IF v \in to THEN Append(toClient[v], To(v)) ELSE toClient[v]]

\* u joins on channel c.  It is told of a channel of its own, and of itself,
\* first.
Enters(u, c, own) ==
    LET table == [roster EXCEPT ![FreeId] = u]
        Announced(v) == Join(peer[v].chan, FreeId, u)
        opening == IF own THEN <<Plain("ACCEPT", c), Join(c, FreeId, u)>> ELSE <<>>
    IN  /\ roster' = table
        /\ peer' = [peer EXCEPT ![u] = [state |-> "joined", chan |-> c]]
        /\ toClient' = [Told(Members(peer) \ {u}, Announced) EXCEPT
                          ![u] = @ \o opening \o <<Welcome(c, table)>>]

\* u is gone; it is told last.
Leaves(u, last) ==
    LET Announced(v) == Part(peer[v].chan, Id(u))
        gone == [Told(Members(peer) \ {u}, Announced) EXCEPT ![u] = @ \o last]
    IN  /\ peer' = [peer EXCEPT ![u] = NoPeer]
        /\ roster' = [i \in Ids |-> IF roster[i] = u THEN Nobody ELSE roster[i]]
        /\ toClient' = IF peer[u].state = "joined" THEN gone
                       ELSE [toClient EXCEPT ![u] = @ \o last]

Ignored == UNCHANGED <<server, toClient, nchan, events>>

ServerReads(u) ==
    LET m == Head(toServer[u])
        Relayed(v) == Message(peer[v].chan, Id(u), u)
        current == m.chan = peer[u].chan
    IN  /\ toServer[u] # <<>>
        /\ toServer' = [toServer EXCEPT ![u] = Tail(@)]
        /\ \/ /\ m.type = "CREATE"
              /\ \/ /\ Enters(u, m.chan, TRUE)
                    /\ UNCHANGED <<nchan, events>>
                 \/ /\ events < MaxEvents
                    /\ events' = events + 1
                    /\ toClient' = [toClient EXCEPT
                                      ![u] = Append(@, Plain("DESTROY", m.chan))]
                    /\ UNCHANGED <<server, nchan>>
           \/ /\ m.type = "JOIN"
              /\ IF current
                   THEN Enters(u, m.chan, FALSE) /\ UNCHANGED <<nchan, events>>
                   ELSE Ignored
           \/ /\ m.type = "INVITE"
              /\ IF /\ current
                    /\ peer[u].state = "joined"
                    /\ peer[m.who].state = "none"
                    /\ up[m.who]
                   THEN /\ peer' = [peer EXCEPT ![m.who] = [state |-> "invited",
                                                            chan |-> nchan + 1]]
                        /\ toClient' = [toClient EXCEPT
                             ![m.who] = Append(@, Plain("CREATE", nchan + 1))]
                        /\ nchan' = nchan + 1
                        /\ UNCHANGED <<roster, events>>
                   ELSE Ignored
           \/ /\ m.type = "MESSAGE"
              /\ IF current /\ peer[u].state = "joined"
                   THEN /\ toClient' = Told(Members(peer), Relayed)
                        /\ UNCHANGED <<server, nchan, events>>
                   ELSE Ignored
           \/ /\ m.type = "DESTROY"
              /\ IF current THEN Leaves(u, <<>>) /\ UNCHANGED <<nchan, events>>
                            ELSE Ignored
           \/ m.type = "ACCEPT" /\ Ignored
        /\ UNCHANGED <<on, up, conf, copen, outq, created, invites>>

ServerKicks(u) ==
    /\ peer[u].state # "none"
    /\ events < MaxEvents
    /\ events' = events + 1
    /\ Leaves(u, <<Plain("DESTROY", peer[u].chan)>>)
    /\ UNCHANGED <<on, up, conf, copen, outq, toServer, nchan, created,
                   invites>>

\* The connection of u breaks.  What it wrote is lost, what it was sent may
\* still be read.
LinkBreaks(u) ==
    /\ up[u]
    /\ events < MaxEvents
    /\ events' = events + 1
    /\ up' = [up EXCEPT ![u] = FALSE]
    /\ toServer' = [toServer EXCEPT ![u] = <<>>]
    /\ Leaves(u, <<>>)
    /\ UNCHANGED <<on, conf, copen, outq, nchan, created, invites>>

\* u's client stops the session that lost its connection, and with it the
\* service, which destroys its conference (stop).  A session stopped before that
\* is a conference destroyed and then a connection closed.
ServiceStops(u) ==
    /\ on[u]
    /\ ~up[u]
    /\ on' = [on EXCEPT ![u] = FALSE]
    /\ toClient' = [toClient EXCEPT ![u] = <<>>]
    /\ Freed(u)
    /\ UNCHANGED <<up, toServer, server, nchan, bounds>>

-----------------------------------------------------------------------------
Next ==
    \E u \in Users :
       \/ mwConference_new(u)
       \/ mwConference_open(u)
       \/ mwConference_destroy(u)
       \/ mwConference_accept(u)
       \/ \E who \in Users : mwConference_invite(u, who)
       \/ mwConference_sendText(u)
       \/ Handle(u)
       \/ ServerReads(u)
       \/ ServerKicks(u)
       \/ LinkBreaks(u)
       \/ ServiceStops(u)

Spec == Init /\ [][Next]_vars

\* While there is something to read someone reads: the client what it is sent,
\* or that its connection is gone, or the server.  As what is said is bounded
\* nobody is left out for ever.
Reads == \E u \in Users : Handle(u) \/ ServiceStops(u) \/ ServerReads(u)

FairSpec == Spec /\ WF_vars(Reads)

-----------------------------------------------------------------------------
\* A conference that is PENDING, INVITED or OPEN has a channel, another has none.
TypeOK ==
    /\ on \in [Users -> BOOLEAN]
    /\ up \in [Users -> BOOLEAN]
    /\ conf \in [Users -> Conf]
    /\ \A u \in Users :
          conf[u].chan # 0 <=> conf[u].state \in {"PENDING", "INVITED", "OPEN"}
    /\ copen \in [Users -> BOOLEAN]
    /\ outq \in [Users -> Seq(Messages)]
    /\ toServer \in [Users -> Seq(Messages)]
    /\ toClient \in [Users -> Seq(Messages)]
    /\ peer \in [Users -> [state : {"none", "invited", "joined"},
                           chan : 0..MaxChans]]
    /\ roster \in Tables
    /\ nchan \in 0..MaxChans
    /\ created \in BOOLEAN

\* When no news is on its way to a user whom the server takes for a member,
\* and who has not left, the user's conference is OPEN and its table of
\* members is the server's: WELCOME_recv, JOIN_recv and PART_recv miss
\* nothing, whatever joins and leaves crossed.
MembersAgree ==
    \A u \in Users :
        /\ up[u]
        /\ peer[u].state = "joined"
        /\ peer[u].chan = conf[u].chan
        /\ \A i \in DOMAIN toClient[u] : toClient[u][i].type = "MESSAGE"
        => conf[u].state = "OPEN" /\ conf[u].members = roster

\* MESSAGE_recv names the member who spoke, and always finds one, though the
\* messages carry an id only and the ids of those who left are given to others.
SpeakerKnown ==
    \A u \in Users :
        /\ on[u]
        /\ toClient[u] # <<>>
        /\ Head(toClient[u]).type = "MESSAGE"
        /\ Known(u)
        => Speaker(u) = Head(toClient[u]).who

\* The conferences are of their type, and their members are told apart.
ConferenceConsistent == TypeOK /\ SpeakerKnown

\* Who opens a conference, or accepts an invitation, gets in or is told that the
\* conference is closed, unless the session ends first.
JoiningEnds ==
    \A u \in Users :
        LET joining == \/ conf[u].state = "PENDING"
                       \/ conf[u].state = "INVITED" /\ copen[u]
        IN  joining ~> ~joining

=============================================================================
