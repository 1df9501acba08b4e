------------------------------- MODULE Aware -------------------------------
(***************************************************************************)
(* The awareness service (srvc_aware.c): lists of users and groups whose   *)
(* status a client follows, and of attributes it watches.  The lists share *)
(* the entries of the service; the server is told what the entries are,    *)
(* and tells the client their status.  A group makes the server tell of    *)
(* its members, who are then added to the lists that hold the group.       *)
(*                                                                         *)
(* Session and channel are taken as modules Session and Channel show them; *)
(* the server is external.  It answers with one message per user where the *)
(* real one puts several into a snapshot.                                  *)
(***************************************************************************)
EXTENDS Integers, Sequences, FiniteSets, SequencesExt

CONSTANTS
    Users,        \* the users one may follow
    Groups,       \* the groups, each of which has all of the users
    NoGroup,      \* no group
    Keys,         \* the keys of attributes
    Lists,        \* the lists of the client
    MaxCalls,     \* bound: calls of the client
    MaxChanges,   \* bound: changes of a user's status
    MaxFaults     \* bound: channels refused or destroyed by the server and
                  \* sessions that stop

ASSUME IdsAssumption ==
    /\ IsFiniteSet(Users) /\ IsFiniteSet(Groups) /\ IsFiniteSet(Lists)
    /\ Users \cap Groups = {}
    /\ NoGroup \notin Groups
ASSUME BoundsAssumption == {MaxCalls, MaxChanges, MaxFaults} \subseteq Nat

Ids == Users \cup Groups
MaxChans == MaxFaults + 1
Presence == {"away", "here"}

VARIABLES
    on, up,       \* the session is STARTED; its connection can be written to
    sstate,       \* srvc->service.state
    chan,         \* srvc->channel: its id, 0 if NULL
    nchan,        \* channels created so far; their ids count them
    outq,         \* the outgoing queue of the channel
    lists,        \* the lists not freed yet
    listIds,      \* listIds[l]: the keys of list->entries
    listKeys,     \* listKeys[l]: the keys of list->attribs
    entries,      \* the keys of srvc->entries
    membership,   \* membership[x]: the membership of the entry of x
    status,       \* status[x]: the status in the entry of x
    attribs,      \* the keys of srvc->attribs
    watchers,     \* watchers[k]: the membership of the attrib_entry of k
    toServer,     \* messages on their way to the server
    toClient,     \* messages on their way to the client
    srvChan,      \* the channel as the server knows it, 0 if there is none
    followed,     \* the users and groups the server tells the client of
    watched,      \* the attributes it tells the client of
    presence,     \* presence[u]: the true status of user u
    calls, changes, faults  \* how many there were

data == <<lists, listIds, listKeys, entries, membership, status, attribs,
          watchers>>
server == <<srvChan, followed, watched>>
bounds == <<calls, changes, faults>>
vars == <<on, up, sstate, chan, nchan, outq, data, toServer, toClient, server,
          presence, bounds>>

Plain(type, c) == [type |-> type, chan |-> c]
Add(xs) == [type |-> "ADD", chan |-> chan, ids |-> xs]
Rem(xs) == [type |-> "REMOVE", chan |-> chan, ids |-> xs]
Watch(ks) == [type |-> "WATCH", chan |-> chan, keys |-> ks]
Status(u, g, s) == [type |-> "STATUS", chan |-> srvChan, id |-> u, group |-> g,
                    status |-> s]

ToServer == [type : {"CREATE"}, chan : 1..MaxChans]
              \cup [type : {"ADD", "REMOVE"}, chan : 1..MaxChans,
                    ids : SUBSET Ids]
              \cup [type : {"WATCH"}, chan : 1..MaxChans, keys : SUBSET Keys]
ToClient == [type : {"ACCEPT", "DESTROY"}, chan : 1..MaxChans]
              \cup [type : {"STATUS"}, chan : 1..MaxChans, id : Users,
                    group : Groups \cup {NoGroup}, status : Presence]

Init ==
    /\ on = FALSE
    /\ up = FALSE
    /\ sstate = "STOPPED"
    /\ chan = 0
    /\ nchan = 0
    /\ outq = <<>>
    /\ lists = Lists
    /\ listIds = [l \in Lists |-> {}]
    /\ listKeys = [l \in Lists |-> {}]
    /\ entries = {}
    /\ membership = [x \in Ids |-> {}]
    /\ status = [x \in Ids |-> "unknown"]
    /\ attribs = {}
    /\ watchers = [k \in Keys |-> {}]
    /\ toServer = <<>>
    /\ toClient = <<>>
    /\ srvChan = 0
    /\ followed = {}
    /\ watched = {}
    /\ presence = [u \in Users |-> "away"]
    /\ calls = 0
    /\ changes = 0
    /\ faults = 0

-----------------------------------------------------------------------------
Live == sstate # "STOPPED"

\* mwChannel_send on the channel of the service, which is OPEN if the service is
\* STARTED.
Sends(msgs) ==
    CASE sstate = "STARTED" /\ up ->
           toServer' = toServer \o msgs /\ UNCHANGED outq
      [] sstate = "STARTING" ->
           outq' = outq \o msgs /\ UNCHANGED toServer
      [] OTHER -> UNCHANGED <<toServer, outq>>

\* list_add, of each of the ids to each of the lists, which takes those that
\* are new to the list only.
list_add(ls, xs) ==
    /\ listIds' = [l \in Lists |-> IF l \in ls THEN listIds[l] \cup xs
                                               ELSE listIds[l]]
    /\ membership' = [x \in Ids |-> IF x \in xs THEN membership[x] \cup ls
                                                ELSE membership[x]]
    /\ entries' = IF ls = {} THEN entries ELSE entries \cup xs

\* collect_dead: the entries that no list holds any more, if in says which do.
Dead(in) == {x \in entries : in[x] = {}}

\* remove_unused, if the entries have membership in from now on.
remove_unused(in) ==
    /\ membership' = in
    /\ entries' = entries \ Dead(in)
    /\ status' = [x \in Ids |-> IF x \in Dead(in) THEN "unknown" ELSE status[x]]

RemoveUnused(in) ==
    IF Live /\ Dead(in) # {} THEN <<Rem(Dead(in))>> ELSE <<>>

\* remove_unused_attrib
Unwatched(in) == {k \in attribs : in[k] = {}}
remove_unused_attrib(in) ==
    /\ watchers' = in
    /\ attribs' = attribs \ Unwatched(in)

-----------------------------------------------------------------------------
\* Calls of the client

Call ==
    /\ calls < MaxCalls
    /\ calls' = calls + 1
    /\ UNCHANGED <<on, up, sstate, chan, nchan, toClient, server, presence,
                   changes, faults>>

mwAwareList_addAware(l, xs) ==
    LET additions == xs \ listIds[l] IN
    /\ Call
    /\ list_add({l}, xs)
    /\ Sends(IF Live /\ additions # {} THEN <<Add(additions)>> ELSE <<>>)
    /\ UNCHANGED <<lists, listKeys, status, attribs, watchers>>

mwAwareList_removeAware(l, xs) ==
    LET in == [x \in Ids |-> IF x \in xs THEN membership[x] \ {l}
                                         ELSE membership[x]]
    IN  /\ Call
        /\ listIds' = [listIds EXCEPT ![l] = @ \ xs]
        /\ remove_unused(in)
        /\ Sends(RemoveUnused(in))
        /\ UNCHANGED <<lists, listKeys, attribs, watchers>>

\* The list of watched attributes is sent as a whole, if there is a channel.
mwAwareList_watchAttributes(l, ks) ==
    /\ Call
    /\ listKeys' = [listKeys EXCEPT ![l] = @ \cup ks]
    /\ watchers' = [k \in Keys |-> IF k \in ks THEN watchers[k] \cup {l}
                                               ELSE watchers[k]]
    /\ attribs' = attribs \cup ks
    /\ Sends(IF chan # 0 THEN <<Watch(attribs')>> ELSE <<>>)
    /\ UNCHANGED <<lists, listIds, entries, membership, status>>

mwAwareList_unwatchAttributes(l, ks) ==
    LET in == [k \in Keys |-> IF k \in ks THEN watchers[k] \ {l} ELSE watchers[k]]
    IN  /\ Call
        /\ listKeys' = [listKeys EXCEPT ![l] = @ \ ks]
        /\ remove_unused_attrib(in)
        /\ Sends(IF Live THEN <<Watch(attribs')>> ELSE <<>>)
        /\ UNCHANGED <<lists, listIds, entries, membership, status>>

\* mwAwareList_unwatchAllAttributes and mwAwareList_removeAllAware leave tables
\* behind that cannot be used again: they are called from here only.
mwAwareList_free(l) ==
    LET in == [x \in Ids |-> membership[x] \ {l}]
        watching == [k \in Keys |-> watchers[k] \ {l}]
    IN  /\ Call
        /\ lists' = lists \ {l}
        /\ listIds' = [listIds EXCEPT ![l] = {}]
        /\ listKeys' = [listKeys EXCEPT ![l] = {}]
        /\ remove_unused_attrib(watching)
        /\ remove_unused(in)
        /\ Sends((IF Live THEN <<Watch(attribs')>> ELSE <<>>) \o RemoveUnused(in))

\* A status of the client's own making, until the server has one.
mwServiceAware_setStatus(u) ==
    /\ Call
    /\ status' = IF u \in entries THEN [status EXCEPT ![u] = "set"] ELSE status
    /\ UNCHANGED <<outq, lists, listIds, listKeys, entries, membership, attribs,
                   watchers, toServer>>

ClientCall ==
    \/ \E l \in lists, xs \in (SUBSET Ids) \ {{}} :
          mwAwareList_addAware(l, xs) \/ mwAwareList_removeAware(l, xs)
    \/ \E l \in lists, ks \in (SUBSET Keys) \ {{}} :
          mwAwareList_watchAttributes(l, ks) \/ mwAwareList_unwatchAttributes(l, ks)
    \/ \E l \in lists : mwAwareList_free(l)
    \/ \E u \in Users : mwServiceAware_setStatus(u)

-----------------------------------------------------------------------------
\* Messages received.  Those on a channel that is gone are dropped.

Receives(type) ==
    /\ toClient # <<>>
    /\ Head(toClient).type = type
    /\ toClient' = Tail(toClient)
    /\ UNCHANGED <<on, up, nchan, lists, listKeys, attribs, watchers, server,
                   presence, bounds>>

Known == Head(toClient).chan = chan

\* mutant: what was added before is not told to the server
AcceptSilently ==
    /\ Receives("ACCEPT")
    /\ Known
    /\ sstate' = "STARTED"
    /\ toServer' = IF up THEN toServer \o outq ELSE toServer
    /\ outq' = <<>>
    /\ UNCHANGED <<chan, listIds, entries, membership, status>>

\* recv_accept sends all there is; then what was queued is flushed.
recv_accept ==
    /\ Receives("ACCEPT")
    /\ \/ /\ Known
          /\ sstate' = "STARTED"
          /\ toServer' = IF up THEN toServer \o <<Add(entries), Watch(attribs)>>
                                             \o outq
                               ELSE toServer
          /\ outq' = <<>>
       \/ ~Known /\ UNCHANGED <<sstate, toServer, outq>>
    /\ UNCHANGED <<chan, listIds, entries, membership, status>>

\* stop: the channel is gone, the entries are kept as they are.
stop ==
    /\ sstate' = "STOPPED"
    /\ chan' = 0
    /\ outq' = <<>>

\* The service is not started again before the session is.
recv_destroy ==
    /\ Receives("DESTROY")
    /\ IF Known THEN stop ELSE UNCHANGED <<sstate, chan, outq>>
    /\ UNCHANGED <<toServer, listIds, entries, membership, status>>

\* group_member_recv: u is added to each of the lists that hold group g, and
\* the server told so once for each of the lists it is new to.
group_member_recv(u, g) ==
    LET holders == IF g \in entries THEN membership[g] ELSE {}
        new == {l \in holders : u \notin listIds[l]}
    IN  /\ list_add(holders, {u})
        /\ Sends([i \in 1..Cardinality(new) |-> Add({u})])

\* mutant: a status is taken only by an entry that has none
StatusOnce(u, s) ==
    status' = IF u \in entries' /\ status[u] = "unknown"
                THEN [status EXCEPT ![u] = s] ELSE status

\* status_recv: it is ignored if there is no entry.
status_recv(u, s) ==
    status' = IF u \in entries' THEN [status EXCEPT ![u] = s] ELSE status

\* recv_SNAPSHOT, recv_UPDATE
recv_UPDATE ==
    LET m == Head(toClient) IN
    /\ Receives("STATUS")
    /\ \/ /\ Known
          /\ \/ m.group # NoGroup /\ group_member_recv(m.id, m.group)
             \/ /\ m.group = NoGroup
                /\ UNCHANGED <<listIds, entries, membership, toServer, outq>>
          /\ status_recv(m.id, m.status)
       \/ /\ ~Known
          /\ UNCHANGED <<listIds, entries, membership, toServer, outq, status>>
    /\ UNCHANGED <<sstate, chan>>

Handle == recv_accept \/ recv_destroy \/ recv_UPDATE

-----------------------------------------------------------------------------
\* The session, see module Session

\* start
SessionStarts ==
    /\ ~on
    /\ nchan < MaxChans
    /\ on' = TRUE
    /\ up' = TRUE
    /\ sstate' = "STARTING"
    /\ chan' = nchan + 1
    /\ nchan' = nchan + 1
    /\ toServer' = <<Plain("CREATE", nchan + 1)>>
    /\ UNCHANGED <<outq, data, toClient, server, presence, bounds>>

Disconnected ==
    /\ srvChan' = 0
    /\ followed' = {}
    /\ watched' = {}
    /\ toServer' = <<>>

SessionStops ==
    /\ on
    /\ up => faults < MaxFaults
    /\ faults' = IF up THEN faults + 1 ELSE faults
    /\ on' = FALSE
    /\ up' = FALSE
    /\ stop
    /\ Disconnected
    /\ toClient' = <<>>
    /\ UNCHANGED <<nchan, data, presence, calls, changes>>

-----------------------------------------------------------------------------
\* Server and network (external)

\* What the server tells of the ids: of a user, and of the members of a group.
News(xs) ==
    LET users == SetToSeq(xs \cap Users)
        told == [i \in DOMAIN users |-> Status(users[i], NoGroup,
                                               presence[users[i]])]
        members == SetToSeq((xs \cap Groups) \X Users)
    IN  told \o [i \in DOMAIN members |-> Status(members[i][2], members[i][1],
                                                 presence[members[i][2]])]

ServerReads ==
    LET m == Head(toServer) IN
    /\ toServer # <<>>
    /\ toServer' = Tail(toServer)
    /\ \/ /\ m.type = "CREATE"
          /\ \/ /\ srvChan' = m.chan
                /\ toClient' = Append(toClient, Plain("ACCEPT", m.chan))
                /\ UNCHANGED faults
             \/ /\ faults < MaxFaults
                /\ faults' = faults + 1
                /\ toClient' = Append(toClient, Plain("DESTROY", m.chan))
                /\ UNCHANGED srvChan
          /\ UNCHANGED <<followed, watched>>
       \/ /\ m.type # "CREATE"
          /\ m.chan # srvChan
          /\ UNCHANGED <<toClient, server, faults>>
       \/ /\ m.type = "ADD"
          /\ m.chan = srvChan
          /\ followed' = followed \cup m.ids
          /\ toClient' = toClient \o News(m.ids)
          /\ UNCHANGED <<srvChan, watched, faults>>
       \/ /\ m.type = "REMOVE"
          /\ m.chan = srvChan
          /\ followed' = followed \ m.ids
          /\ UNCHANGED <<toClient, srvChan, watched, faults>>
       \/ /\ m.type = "WATCH"
          /\ m.chan = srvChan
          /\ watched' = m.keys
          /\ UNCHANGED <<toClient, srvChan, followed, faults>>
    /\ UNCHANGED <<on, up, sstate, chan, nchan, outq, data, presence, calls,
                   changes>>

\* A user comes or goes.  The client is told, once or for each of its reasons.
PresenceChanges(u) ==
    /\ changes < MaxChanges
    /\ changes' = changes + 1
    /\ \E s \in Presence \ {presence[u]} :
          /\ presence' = [presence EXCEPT ![u] = s]
          /\ LET reasons == (followed \cap Groups)
                              \cup (IF u \in followed THEN {NoGroup} ELSE {})
             IN  IF reasons = {} THEN UNCHANGED toClient
                 ELSE \E told \in (SUBSET reasons) \ {{}} :
                        LET seq == SetToSeq(told)
                            news == [i \in DOMAIN seq |-> Status(u, seq[i], s)]
                        IN  toClient' = toClient \o news
    /\ UNCHANGED <<on, up, sstate, chan, nchan, outq, data, toServer, server,
                   calls, faults>>

ServerDestroys ==
    /\ srvChan # 0
    /\ faults < MaxFaults
    /\ faults' = faults + 1
    /\ toClient' = Append(toClient, Plain("DESTROY", srvChan))
    /\ srvChan' = 0
    /\ followed' = {}
    /\ watched' = {}
    /\ UNCHANGED <<on, up, sstate, chan, nchan, outq, data, toServer, presence,
                   calls, changes>>

\* What the server wrote may still be read.
ConnectionBreaks ==
    /\ up
    /\ faults < MaxFaults
    /\ faults' = faults + 1
    /\ up' = FALSE
    /\ Disconnected
    /\ UNCHANGED <<on, sstate, chan, nchan, outq, data, toClient, presence,
                   calls, changes>>

Next ==
    \/ ClientCall
    \/ Handle
    \/ SessionStarts
    \/ SessionStops
    \/ ServerReads
    \/ \E u \in Users : PresenceChanges(u)
    \/ ServerDestroys
    \/ ConnectionBreaks

Spec == Init /\ [][Next]_vars

-----------------------------------------------------------------------------
\* Besides the types: lists and service agree on who holds what, and the
\* service has no entry that no list holds.
TypeOK ==
    /\ {on, up} \subseteq BOOLEAN
    /\ sstate \in {"STOPPED", "STARTING", "STARTED"}
    /\ nchan \in 0..MaxChans
    /\ chan \in 0..nchan
    /\ outq \in Seq(ToServer)
    /\ lists \subseteq Lists
    /\ listIds \in [Lists -> SUBSET Ids]
    /\ listKeys \in [Lists -> SUBSET Keys]
    /\ \A l \in Lists \ lists : listIds[l] = {} /\ listKeys[l] = {}
    /\ membership = [x \in Ids |-> {l \in Lists : x \in listIds[l]}]
    /\ entries = {x \in Ids : membership[x] # {}}
    /\ status \in [Ids -> Presence \cup {"unknown", "set"}]
    /\ watchers = [k \in Keys |-> {l \in Lists : k \in listKeys[l]}]
    /\ attribs = {k \in Keys : watchers[k] # {}}
    /\ toServer \in Seq(ToServer)
    /\ toClient \in Seq(ToClient)
    /\ srvChan \in 0..nchan
    /\ followed \subseteq Ids
    /\ watched \subseteq Keys
    /\ presence \in [Users -> Presence]

\* The service is started, on the channel the server knows.
Connected == sstate = "STARTED" /\ up /\ chan = srvChan

\* When it has read what it was sent the server follows exactly the users and
\* groups the lists hold, and watches exactly the attributes they watch: those
\* added and removed while the channel was opening, down or not there, and the
\* members of groups that were added for a list included.
ServerFollows ==
    Connected /\ toServer = <<>> => followed = entries /\ watched = attribs

\* The tables of lists, entries and attributes agree with each other (a part of
\* TypeOK), and the server's with them.
AwareConsistent == TypeOK /\ ServerFollows

\* When all is read, the status a list is shown of a user (aware_entry) is the
\* true one, or the one the client made up with mwServiceAware_setStatus,
\* though the entry was kept, removed or added again while news was on its way
\* or the service was down.
StatusCurrent ==
    Connected /\ toServer = <<>> /\ toClient = <<>>
      => \A u \in entries \cap Users : status[u] \in {presence[u], "set"}

=============================================================================
