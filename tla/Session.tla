------------------------------ MODULE Session ------------------------------
(***************************************************************************)
(* A session (session.c) logging in to a server, and the life cycle of the *)
(* services registered with it (service.c).  A plain service (instant      *)
(* messages, conference, file transfer, places) is started on the spot; a  *)
(* channelled one (storage, resolve, awareness, directory) opens a channel *)
(* of its own to the server and is started once the server accepts it.     *)
(*                                                                         *)
(* Messages are taken one at a time, whole: Framing shows that this is     *)
(* what mwSession_recv makes of the bytes.  The server and the network are *)
(* external, modelled from what the handlers in session.c expect of them.  *)
(* A write fails exactly when the connection is gone.                      *)
(***************************************************************************)
EXTENDS Integers, Sequences, FiniteSets, SequencesExt, Functions

CONSTANTS
    Plain,             \* services without a channel of their own
    Channelled,        \* services with one
    Sensing,           \* those that ask for themselves when it is destroyed
    Unfinished,        \* those whose stop() never calls mwService_stopped
    Chan,              \* channel ids
    None,              \* a NULL channel pointer
    StopBeforeRemove,  \* does the client stop a service before removing it?
    MaxQueue,          \* bound: messages in flight when one more is volunteered
    MaxBreaks          \* bound: times the network breaks the connection

Services == Plain \cup Channelled

ASSUME ServicesAssumption ==
    /\ Plain \cap Channelled = {}
    /\ IsFiniteSet(Services)
    /\ Sensing \subseteq Channelled
    /\ Unfinished \subseteq Channelled
ASSUME ChanAssumption == None \notin Chan /\ IsFiniteSet(Chan)
ASSUME BoundsAssumption ==
    MaxQueue \in Nat /\ MaxBreaks \in Nat /\ StopBeforeRemove \in BOOLEAN

VARIABLES
    state,      \* s->state
    services,   \* the keys of s->services
    sstate,     \* srvc->state of every service
    schan,      \* srvc->channel of the channelled ones
    chan,       \* the channel set: for every id the channel or NoChan
    conn,       \* the connection under the session
    toServer,   \* messages written and not yet read by the server
    toClient,   \* messages sent by the server and not yet received
    srvChans,   \* channels the server regards as open
    breaks      \* how often the connection broke

clientVars == <<state, services, sstate, schan, chan>>
vars == <<clientVars, conn, toServer, toClient, srvChans, breaks>>

\* Stable states of the session. STARTING, LOGIN_ACK and STOPPING are entered
\* and left within one call.
Starting == {"HANDSHAKE", "HANDSHAKE_ACK", "LOGIN", "LOGIN_REDIR", "LOGIN_CONT"}
SessionState == Starting \cup {"STARTED", "STOPPED"}
ServiceState == {"STOPPED", "STARTING", "STARTED", "STOPPING"}
Live == {"STARTING", "STARTED"}

\* an id that is not in the channel set
NoChan == [st |-> "none", srvc |-> None]

Msg(type, c, s) == [type |-> type, chan |-> c, srvc |-> s]
Master(type) == Msg(type, None, None)
MsgType ==
    {"HANDSHAKE", "HANDSHAKE_ACK", "LOGIN", "LOGIN_ACK", "LOGIN_REDIRECT",
     "LOGIN_CONTINUE", "DESTROY", "CREATE", "ACCEPT", "SENSE"}
Messages ==
    [type : MsgType, chan : Chan \cup {None}, srvc : Services \cup {None}]

Init ==
    /\ state = "STOPPED"
    /\ services = Services
    /\ sstate = [s \in Services |-> "STOPPED"]
    /\ schan = [s \in Services |-> None]
    /\ chan = [c \in Chan |-> NoChan]
    /\ conn = "closed"
    /\ toServer = <<>>
    /\ toClient = <<>>
    /\ srvChans = {}
    /\ breaks = 0

-----------------------------------------------------------------------------
\* mwSession_send: the messages reach the server if the connection is up.
mwSession_send(msgs) ==
    toServer' = IF conn = "up" THEN toServer \o msgs ELSE toServer

\* Ids that no end and no message uses.  The counter of mwChannel_newOutgoing
\* runs through 32 bits before it meets an id again.
InFlight == {toServer[i].chan : i \in DOMAIN toServer}
              \cup {toClient[i].chan : i \in DOMAIN toClient}
FreshIds == {c \in Chan : chan[c] = NoChan} \ (InFlight \cup srvChans)

\* mutant: a service whose channel is not accepted yet is started again
NotStarted(S) == {s \in S : sstate[s] # "STARTED"}

\* Those of S that mwService_start does not return from at once.
Idle(S) == {s \in S : sstate[s] = "STOPPED"}

\* mwService_start for the services in S that are STOPPED.  A channelled one
\* creates its channel; if that cannot be written the service is STOPPED
\* again.  (The channel then stays in the channel set in state ERROR.  No
\* message and no service can name it any more, so it is not kept here;
\* module Channel is about it.)
mwService_start(S) ==
    LET idle == Idle(S)
        making == IF conn = "up" THEN idle \cap Channelled ELSE {}
        id == CHOOSE f \in [making -> FreshIds] : IsInjective(f)
        order == SetToSeq(making)
    IN  /\ Cardinality(making) <= Cardinality(FreshIds)   \* bound: Chan
        /\ sstate' = [s \in Services |->
                        IF s \in making THEN "STARTING"
                        ELSE IF s \in idle \cap Plain THEN "STARTED"
                        ELSE sstate[s]]
        /\ schan' = [s \in Services |->
                       IF s \in making THEN id[s] ELSE schan[s]]
        /\ chan' = [c \in Chan |->
                      IF \E s \in making : id[s] = c
                         THEN [st |-> "WAIT",
                               srvc |-> CHOOSE s \in making : id[s] = c]
                         ELSE chan[c]]
        /\ mwSession_send([i \in DOMAIN order |->
                             Msg("CREATE", id[order[i]], order[i])])

\* where mwService_stop leaves a live service
AfterStop(s) == IF s \in Unfinished THEN "STOPPING" ELSE "STOPPED"

\* What stopping the services in S does to the services and the channel set;
\* a service that is not live is left alone.
Stopped(S) ==
    LET live == {s \in S : sstate[s] \in Live}
    IN  /\ sstate' = [s \in Services |->
                        IF s \in live THEN AfterStop(s) ELSE sstate[s]]
        /\ schan' = [s \in Services |-> IF s \in live THEN None ELSE schan[s]]
        /\ chan' = [c \in Chan |->
                      IF \E s \in live : schan[s] = c THEN NoChan ELSE chan[c]]

\* mutant: the server is not told
StopSilently(s) == <<>>

\* What the stop() of a service writes: it destroys its channel.
StopMessages(s) ==
    IF sstate[s] \in Live /\ schan[s] # None
       THEN <<Msg("DESTROY", schan[s], None)>>
       ELSE <<>>

\* mutant: the service does not ask to be started again
NoSense(s) == <<>>

\* What a service writes when the server has destroyed its channel
\* (mwSession_senseService, which returns unless the session is STARTED).
SenseMessages(s) ==
    IF state = "STARTED" /\ s \in Sensing
       THEN <<Msg("SENSE", None, s)>>
       ELSE <<>>

\* mwSession_stop on a session that is not stopped: stop all services, tell
\* the server, close the connection.  What was in flight dies with it.
StopSession ==
    /\ state' = "STOPPED"
    /\ Stopped(services)
    /\ conn' = "closed"
    /\ toServer' = <<>>
    /\ toClient' = <<>>
    /\ srvChans' = {}
    /\ UNCHANGED <<services, breaks>>

-----------------------------------------------------------------------------
\* Calls of the client

\* mwSession_start over a fresh connection, which may already be dead when
\* the handshake is written.
mwSession_start ==
    /\ state = "STOPPED"
    /\ \/ /\ state' = "HANDSHAKE"
          /\ conn' = "up"
          /\ toServer' = <<Master("HANDSHAKE")>>
          /\ UNCHANGED <<services, sstate, schan, chan, toClient,
                         srvChans, breaks>>
       \/ StopSession

mwSession_stop ==
    /\ state # "STOPPED"
    /\ StopSession

\* mutant: the server is not told to continue
ForceLoginSilently ==
    /\ state = "LOGIN_REDIR"
    /\ state' = "LOGIN_CONT"
    /\ UNCHANGED <<services, sstate, schan, chan, conn, toServer, toClient,
                   srvChans, breaks>>

mwSession_forceLogin ==
    /\ state = "LOGIN_REDIR"
    /\ state' = "LOGIN_CONT"
    /\ mwSession_send(<<Master("LOGIN_CONTINUE")>>)
    /\ UNCHANGED <<services, sstate, schan, chan, conn, toClient,
                   srvChans, breaks>>

mwSession_addService(s) ==
    /\ s \notin services
    /\ Len(toServer) + Len(toClient) < MaxQueue
    /\ services' = services \cup {s}
    /\ IF state = "STARTED" THEN mwSession_send(<<Msg("SENSE", None, s)>>)
                            ELSE UNCHANGED toServer
    /\ UNCHANGED <<state, sstate, schan, chan, conn, toClient, srvChans,
                   breaks>>

\* mwSession_removeService takes the service out of the table and does no
\* more; a careful client calls mwService_stop first.
mwSession_removeService(s) ==
    /\ s \in services
    /\ Len(toServer) + Len(toClient) < MaxQueue
    /\ services' = services \ {s}
    /\ IF StopBeforeRemove
          THEN /\ Stopped({s})
               /\ mwSession_send(StopMessages(s))
          ELSE UNCHANGED <<sstate, schan, chan, toServer>>
    /\ UNCHANGED <<state, conn, toClient, srvChans, breaks>>

\* The client's read found the connection closed: it stops the session.
ConnectionLost ==
    /\ conn = "broken"
    /\ toClient = <<>>
    /\ StopSession

ClientCall ==
    \/ mwSession_start
    \/ mwSession_stop
    \/ mwSession_forceLogin
    \/ \E s \in Services : mwSession_addService(s)
    \/ \E s \in Services : mwSession_removeService(s)

-----------------------------------------------------------------------------
\* Messages received: one handler each.  Receive takes the message off.

Receives(type) == toClient # <<>> /\ Head(toClient).type = type
Rest == /\ toClient' = Tail(toClient)
        /\ UNCHANGED <<services, conn, srvChans, breaks>>
Ignored == Rest /\ UNCHANGED <<state, sstate, schan, chan, toServer>>

HANDSHAKE_ACK_recv ==
    /\ Receives("HANDSHAKE_ACK")
    /\ Rest
    /\ CASE state = "LOGIN_CONT" -> state' = "LOGIN" /\ UNCHANGED toServer
         [] state = "HANDSHAKE" ->
              /\ state' = IF conn = "up" THEN "LOGIN" ELSE "HANDSHAKE_ACK"
              /\ mwSession_send(<<Master("LOGIN")>>)
         [] OTHER -> UNCHANGED <<state, toServer>>
    /\ UNCHANGED <<sstate, schan, chan>>

LOGIN_ACK_recv ==
    /\ Receives("LOGIN_ACK")
    /\ \/ /\ state = "LOGIN"
          /\ state' = "STARTED"
          /\ mwService_start(services)
          /\ Rest
       \/ state # "LOGIN" /\ Ignored

LOGIN_REDIRECT_recv ==
    /\ Receives("LOGIN_REDIRECT")
    /\ state' = "LOGIN_REDIR"
    /\ Rest
    /\ UNCHANGED <<sstate, schan, chan, toServer>>

SENSE_SERVICE_recv ==
    /\ Receives("SENSE")
    /\ IF Head(toClient).srvc \in services
          THEN /\ mwService_start({Head(toClient).srvc})
               /\ Rest
               /\ UNCHANGED state
          ELSE Ignored

\* The server accepted the channel of a service: it is started.  An accept
\* for a channel we no longer have is dropped.  If the service was removed
\* meanwhile the channel is destroyed.
CHANNEL_ACCEPT_recv ==
    LET c == Head(toClient).chan
        s == chan[c].srvc
    IN  /\ Receives("ACCEPT")
        /\ Rest
        /\ \/ /\ chan[c].st = "WAIT"
              /\ s \in services
              /\ chan' = [chan EXCEPT ![c].st = "OPEN"]
              /\ sstate' = [sstate EXCEPT
                              ![s] = IF schan[s] = c THEN "STARTED" ELSE @]
              /\ UNCHANGED toServer
           \/ /\ chan[c] # NoChan
              /\ chan[c].st # "WAIT" \/ s \notin services
              /\ chan' = [chan EXCEPT ![c] = NoChan]
              /\ mwSession_send(<<Msg("DESTROY", c, None)>>)
              /\ UNCHANGED sstate
           \/ /\ chan[c] = NoChan
              /\ UNCHANGED <<chan, sstate, toServer>>
        /\ UNCHANGED <<state, schan>>

\* The server destroyed a channel.  The service that owns it stops, and some
\* ask the server to be told when it is available again.  Destroying the master
\* channel ends the session.
CHANNEL_DESTROY_recv ==
    LET c == Head(toClient).chan
        s == chan[c].srvc
    IN  /\ Receives("DESTROY")
        /\ \/ /\ c = None
              /\ StopSession
           \/ /\ c # None
              /\ chan[c] = NoChan
              /\ Ignored
           \/ /\ c # None
              /\ chan[c] # NoChan
              /\ chan' = [chan EXCEPT ![c] = NoChan]
              /\ IF s \in services
                    THEN /\ schan' = [schan EXCEPT ![s] = None]
                         /\ sstate' = [sstate EXCEPT ![s] = AfterStop(s)]
                         /\ mwSession_send(SenseMessages(s))
                    ELSE UNCHANGED <<schan, sstate, toServer>>
              /\ Rest
              /\ UNCHANGED <<state>>

Receive ==
    \/ HANDSHAKE_ACK_recv
    \/ LOGIN_ACK_recv
    \/ LOGIN_REDIRECT_recv
    \/ SENSE_SERVICE_recv
    \/ CHANNEL_ACCEPT_recv
    \/ CHANNEL_DESTROY_recv

-----------------------------------------------------------------------------
\* The server and the network (external)

Reply(msgs) ==
    /\ toServer' = Tail(toServer)
    /\ toClient' = toClient \o msgs
    /\ UNCHANGED <<clientVars, conn, breaks>>

ServerAnswers ==
    LET m == Head(toServer) IN
    /\ toServer # <<>>
    /\ CASE m.type = "HANDSHAKE" ->
              Reply(<<Master("HANDSHAKE_ACK")>>) /\ UNCHANGED srvChans
         [] m.type = "LOGIN" ->
              /\ \E answer \in {"LOGIN_ACK", "LOGIN_REDIRECT", "DESTROY"} :
                   Reply(<<Master(answer)>>)
              /\ UNCHANGED srvChans
         [] m.type = "LOGIN_CONTINUE" ->
              /\ Reply(<<Master("HANDSHAKE_ACK"), Master("LOGIN_ACK")>>)
              /\ UNCHANGED srvChans
         [] m.type = "SENSE" -> Reply(<<m>>) /\ UNCHANGED srvChans
         [] m.type = "CREATE" ->
              \/ /\ Reply(<<Msg("ACCEPT", m.chan, None)>>)
                 /\ srvChans' = srvChans \cup {m.chan}
              \/ /\ Reply(<<Msg("DESTROY", m.chan, None)>>)
                 /\ UNCHANGED srvChans
         [] m.type = "DESTROY" ->
              Reply(<<>>) /\ srvChans' = srvChans \ {m.chan}

\* The server side of a service goes away, its channel is destroyed; or the
\* server ends the session, which is the master channel destroyed.
ServerDestroysChannel(c) ==
    /\ conn = "up"
    /\ c \in srvChans \cup {None}
    /\ Len(toServer) + Len(toClient) < MaxQueue
    /\ srvChans' = srvChans \ {c}
    /\ toClient' = Append(toClient, Msg("DESTROY", c, None))
    /\ UNCHANGED <<clientVars, conn, toServer, breaks>>

\* The connection breaks: what the server wrote last may be lost.
ConnectionBreaks ==
    /\ conn = "up"
    /\ breaks < MaxBreaks
    /\ breaks' = breaks + 1
    /\ conn' = "broken"
    /\ toServer' = <<>>
    /\ srvChans' = {}
    /\ \E n \in 0..Len(toClient) : toClient' = SubSeq(toClient, 1, n)
    /\ UNCHANGED clientVars

Next ==
    \/ ClientCall
    \/ ConnectionLost
    \/ Receive
    \/ ServerAnswers
    \/ \E c \in Chan \cup {None} : ServerDestroysChannel(c)
    \/ ConnectionBreaks

\* The client keeps reading and notices a dead connection; the server keeps
\* answering.  Nobody has to call anything.
Fairness ==
    /\ WF_vars(Receive)
    /\ WF_vars(ConnectionLost)
    /\ WF_vars(ServerAnswers)

Spec == Init /\ [][Next]_vars
FairSpec == Spec /\ Fairness

-----------------------------------------------------------------------------
TypeOK ==
    /\ state \in SessionState
    /\ services \subseteq Services
    /\ sstate \in [Services -> ServiceState]
    /\ schan \in [Services -> Chan \cup {None}]
    /\ chan \in [Chan -> [st : {"none", "WAIT", "OPEN"},
                         srvc : Channelled \cup {None}]]
    /\ conn \in {"closed", "up", "broken"}
    /\ toServer \in Seq(Messages)
    /\ toClient \in Seq(Messages)
    /\ srvChans \subseteq Chan
    /\ breaks \in 0..MaxBreaks

\* No service runs, registered or not, unless the session is STARTED: nothing
\* is started before the login is acknowledged and nothing survives
\* mwSession_stop.
NoServiceWithoutSession ==
    state # "STARTED" => \A s \in Services : sstate[s] \notin Live

\* A service has at most one channel waiting or open, and it is the one the
\* service points to: answers to a sense request never start it twice.
OneChannelPerService ==
    \A c \in Chan :
        chan[c] # NoChan => schan[chan[c].srvc] = c

\* The session, its services and its channels fit together: the types, no
\* service without a session, one channel per service.
SessionConsistent == TypeOK /\ NoServiceWithoutSession /\ OneChannelPerService

\* When nothing is in flight both ends agree on which channels there are, and
\* the services that are started are those whose channel is among them.
ChannelsAgree ==
    conn = "up" /\ state = "STARTED" /\ toServer = <<>> /\ toClient = <<>> =>
        /\ {c \in Chan : chan[c] # NoChan} = srvChans
        /\ \A s \in Channelled :
              sstate[s] = "STARTED" <=> schan[s] \in srvChans

\* A login that was begun ends: the session gets STARTED, STOPPED, or waits
\* for the client to choose what to do about a redirection.
LoginSettles ==
    state \in Starting ~> state \in {"STARTED", "STOPPED", "LOGIN_REDIR"}

\* While the session is STARTED a registered service that senses for itself
\* does not stay down, however often its channel is destroyed.
ServicesComeBack ==
    \A s \in Sensing :
        state = "STARTED" /\ s \in services /\ sstate[s] = "STOPPED"
          ~> state # "STARTED" \/ s \notin services \/ sstate[s] \in Live

=============================================================================
