------------------------------ MODULE Requests ------------------------------
(***************************************************************************)
(* The services that ask the server and wait for answers: the storage      *)
(* service (srvc_store.c) and the resolve service (srvc_resolve.c).  Their *)
(* life on a channel of their own is the same; they differ in where a      *)
(* request waits until it can be sent, how it gets its id, and in what     *)
(* happens to it when the service is not there.                            *)
(*                                                                         *)
(* Every call of the client has a number of its own, which the code does   *)
(* not know: it tells the calls apart by ids, which it may use again.      *)
(* Session and channel are taken as modules Session and Channel show them; *)
(* server and network are external.                                        *)
(***************************************************************************)
EXTENDS Integers, Sequences, SequencesExt

CONSTANTS
    MaxCalls,     \* bound: calls of the client
    MaxDestroys,  \* bound: channels refused or destroyed by the server
    MaxStops      \* bound: sessions that stop

ASSUME BoundsAssumption == {MaxCalls, MaxDestroys, MaxStops} \subseteq Nat

MaxChans == MaxDestroys + MaxStops + 1
Calls == 1..MaxCalls
Actions == {"load", "save", "resolve"}

VARIABLES
    kind,       \* which of the services this is
    on,         \* the session is STARTED
    up,         \* its connection can be written to
    sstate,     \* srvc->service.state
    chan,       \* srvc->channel: its id, 0 if NULL
    open,       \* that channel is OPEN
    nchan,      \* channels created so far; their ids count them
    counter,    \* srvc->id_counter, srvc->counter
    pending,    \* srvc->pending, the values of srvc->searches
    outq,       \* the outgoing queue of the channel
    toServer,   \* messages on their way to the server
    toClient,   \* messages on their way to the client
    work,       \* requests the server is busy with
    calls,      \* how many calls the client made
    fate,       \* fate[n]: what became of call n
    seen,       \* the calls that reached the server, in order
    destroys,   \* how many channels the server refused or destroyed
    stops       \* how many sessions stopped

history == <<fate, seen>>
vars == <<kind, on, up, sstate, chan, open, nchan, counter, pending, outq,
          toServer, toClient, work, calls, history, destroys, stops>>

\* A request: call n has id and action; sent: the action was set to the one of
\* the answer.
Request == [n : Calls, id : 1..MaxCalls, action : Actions, sent : BOOLEAN]

Create(c) == [type |-> "CREATE", chan |-> c]
Accept(c) == [type |-> "ACCEPT", chan |-> c]
Destroy(c) == [type |-> "DESTROY", chan |-> c]
Sense == [type |-> "SENSE", chan |-> 0]
Ask(c, r) == [type |-> "ASK", chan |-> c, id |-> r.id, action |-> r.action,
              n |-> r.n]
Answer(a) == [a EXCEPT !.type = "ANSWER"]

Plain == [type : {"CREATE", "ACCEPT", "DESTROY", "SENSE"}, chan : 0..MaxChans]
Asked(types) == [type : types, chan : 1..MaxChans, id : 1..MaxCalls,
                 action : Actions, n : Calls]

\* "answered" says whose answer the call was given.
Fate == [end : {"none", "waiting", "dropped", "refused", "cancelled"}]
          \cup [end : {"answered"}, n : Calls]
Ended(e) == [end |-> e]

Init ==
    /\ kind \in {"storage", "resolve"}
    /\ on = FALSE
    /\ up = FALSE
    /\ sstate = "STOPPED"
    /\ chan = 0
    /\ open = FALSE
    /\ nchan = 0
    /\ counter = 0
    /\ pending = <<>>
    /\ outq = <<>>
    /\ toServer = <<>>
    /\ toClient = <<>>
    /\ work = {}
    /\ calls = 0
    /\ fate = [n \in Calls |-> Ended("none")]
    /\ seen = <<>>
    /\ destroys = 0
    /\ stops = 0

-----------------------------------------------------------------------------
\* mwSession_send
Sends(msgs) == toServer' = IF up THEN toServer \o msgs ELSE toServer

\* start: the service makes a channel and has to wait for it.  If its offer
\* cannot be written the service is STOPPED again and keeps what is pending.
start ==
    IF up /\ sstate = "STOPPED"
       THEN /\ sstate' = "STARTING"
            /\ chan' = nchan + 1
            /\ open' = FALSE
            /\ nchan' = nchan + 1
            /\ Sends(<<Create(nchan + 1)>>)
       ELSE UNCHANGED <<sstate, chan, open, nchan, toServer>>

\* mutant: what is pending stays with the service
StopKeepsPending ==
    /\ sstate' = "STOPPED"
    /\ chan' = 0
    /\ open' = FALSE
    /\ outq' = <<>>
    /\ counter' = IF kind = "storage" THEN 0 ELSE counter
    /\ UNCHANGED <<pending, fate>>

\* request_free and search_free: what is pending is forgotten, without a
\* call-back.
FreePending ==
    /\ pending' = <<>>
    /\ fate' = [n \in Calls |->
                  IF \E i \in DOMAIN pending : pending[i].n = n
                     THEN Ended("dropped") ELSE fate[n]]

\* stop of the storage service, which starts to count ids anew.
Storage_stop == FreePending /\ counter' = 0

\* stop of the resolve service.
Resolve_stop == FreePending /\ UNCHANGED counter

\* mwService_stop of a service that is live: it gives up its channel and what
\* is pending.
stop ==
    /\ sstate' = "STOPPED"
    /\ chan' = 0
    /\ open' = FALSE
    /\ outq' = <<>>
    /\ \/ kind = "storage" /\ Storage_stop
       \/ kind = "resolve" /\ Resolve_stop

-----------------------------------------------------------------------------
\* Calls of the client

\* The id of a new storage request.
NextId == counter + 1

\* mutant: g_list_prepend
CachedInFront(q, r) == <<r>> \o q

\* g_list_append
Cached(q, r) == Append(q, r)

\* request_new, mwServiceStorage_load and mwServiceStorage_save: sent at once if
\* the service is STARTED, else kept until it is.  If it cannot be written it
\* is kept too.
Storage_request(action) ==
    LET r == [n |-> calls + 1, id |-> NextId, action |-> action,
              sent |-> sstate = "STARTED" /\ up]
    IN  /\ kind = "storage"
        /\ counter' = NextId
        /\ pending' = Cached(pending, r)
        /\ fate' = [fate EXCEPT ![calls + 1] = Ended("waiting")]
        /\ Sends(IF sstate = "STARTED" THEN <<Ask(chan, r)>> ELSE <<>>)
        /\ UNCHANGED outq

\* search_new: the next id that is not SEARCH_ERROR, which is zero.
SearchId == IF counter = 0 THEN 1 ELSE counter

\* mwServiceResolve_resolve: written, or queued on a channel that is not open
\* yet.  Without a channel or a connection SEARCH_ERROR is returned.
Resolve_resolve ==
    LET r == [n |-> calls + 1, id |-> SearchId, action |-> "resolve",
              sent |-> TRUE]
        accepted == chan # 0 /\ (open => up)
    IN  /\ kind = "resolve"
        /\ counter' = SearchId + 1
        /\ \/ /\ accepted
              /\ pending' = Append(pending, r)
              /\ fate' = [fate EXCEPT ![r.n] = Ended("waiting")]
              /\ Sends(IF open THEN <<Ask(chan, r)>> ELSE <<>>)
              /\ outq' = IF open THEN outq ELSE Append(outq, Ask(chan, r))
           \/ /\ ~accepted
              /\ fate' = [fate EXCEPT ![r.n] = Ended("refused")]
              /\ UNCHANGED <<pending, toServer, outq>>

Request_made ==
    /\ calls < MaxCalls
    /\ calls' = calls + 1
    /\ \/ \E action \in {"load", "save"} : Storage_request(action)
       \/ Resolve_resolve
    /\ UNCHANGED <<kind, on, up, sstate, chan, open, nchan, toClient, work,
                   seen, destroys, stops>>

\* mwServiceResolve_cancelResolve of a search that is in the table.
cancelResolve(i) ==
    /\ kind = "resolve"
    /\ fate' = [fate EXCEPT ![pending[i].n] = Ended("cancelled")]
    /\ pending' = RemoveAt(pending, i)
    /\ UNCHANGED <<kind, on, up, sstate, chan, open, nchan, counter, outq,
                   toServer, toClient, work, calls, seen, destroys, stops>>

-----------------------------------------------------------------------------
\* Messages received.  Those on a channel that is gone are dropped.

Receives(type) == toClient # <<>> /\ Head(toClient).type = type
Rest == /\ toClient' = Tail(toClient)
        /\ UNCHANGED <<kind, on, up, work, calls, seen, destroys, stops>>
Dropped ==
    /\ Head(toClient).chan # chan
    /\ Rest
    /\ UNCHANGED <<sstate, chan, open, nchan, counter, pending, outq, toServer,
                   fate>>

\* Where the pending requests are that recv_channelAccept sends.
Unsent == {i \in DOMAIN pending : ~pending[i].sent}

\* recv_channelAccept of storage goes through what is pending and sends what is
\* not sent: at names the places of those requests, first to last.
Storage_recv_accept ==
    /\ kind = "storage"
    /\ \E k \in 0..Len(pending) : \E at \in [1..k -> Unsent] :
         /\ \A i, j \in 1..k : i < j => at[i] < at[j]
         /\ \A p \in Unsent : \E i \in 1..k : at[i] = p
         /\ Sends([i \in 1..k |-> Ask(chan, pending[at[i]])] \o outq)
    /\ pending' = [i \in DOMAIN pending |->
                     [pending[i] EXCEPT !.sent = @ \/ up]]

Resolve_recv_accept ==
    /\ kind = "resolve"
    /\ Sends(outq)
    /\ UNCHANGED pending

\* Behind what the service sends, the queue of the channel is flushed (module
\* Channel).
recv_accept ==
    /\ Receives("ACCEPT")
    /\ \/ /\ Head(toClient).chan = chan
          /\ Rest
          /\ sstate' = "STARTED"
          /\ open' = TRUE
          /\ Storage_recv_accept \/ Resolve_recv_accept
          /\ outq' = <<>>
          /\ UNCHANGED <<chan, nchan, counter, fate>>
       \/ Dropped

\* The channel is destroyed by the server: the service stops, and asks to be
\* told when it may start again.
recv_destroy ==
    /\ Receives("DESTROY")
    /\ \/ /\ Head(toClient).chan = chan
          /\ Rest
          /\ stop
          /\ Sends(<<Sense>>)
          /\ UNCHANGED nchan
       \/ Dropped

\* mutant: an answer is given to the request that waits longest
MatchesFirst(i, a) == i = 1

\* request_find; the look-up in the searches table.
Matches(i, a) == pending[i].id = a.id

\* The call-back of a request, which is then removed.
Answered(i, a) ==
    /\ pending' = RemoveAt(pending, i)
    /\ fate' = [fate EXCEPT ![pending[i].n] = [end |-> "answered", n |-> a.n]]

Unmatched(a) ==
    /\ \A i \in DOMAIN pending : ~Matches(i, a)
    /\ UNCHANGED <<pending, fate>>

\* recv of storage.  An answer that is not the one to the action of its request
\* is ignored, as is one that fits no request.  (One that does not parse
\* removes the request without a call-back; the server modelled sends none.)
Storage_recv(a) ==
    /\ kind = "storage"
    /\ \/ \E i \in DOMAIN pending :
             /\ Matches(i, a)
             /\ \/ /\ pending[i].sent
                   /\ pending[i].action = a.action
                   /\ Answered(i, a)
                \/ /\ ~pending[i].sent \/ pending[i].action # a.action
                   /\ UNCHANGED <<pending, fate>>
       \/ Unmatched(a)

\* recv of the resolve service.
Resolve_recv(a) ==
    /\ kind = "resolve"
    /\ \/ \E i \in DOMAIN pending : Matches(i, a) /\ Answered(i, a)
       \/ Unmatched(a)

recv ==
    LET a == Head(toClient) IN
    /\ Receives("ANSWER")
    /\ \/ /\ a.chan = chan
          /\ Rest
          /\ Storage_recv(a) \/ Resolve_recv(a)
          /\ UNCHANGED <<sstate, chan, open, nchan, counter, outq, toServer>>
       \/ Dropped

\* SENSE_SERVICE_recv: the service is available again.
SENSE_SERVICE_recv ==
    /\ Receives("SENSE")
    /\ Rest
    /\ start
    /\ UNCHANGED <<counter, pending, outq, fate>>

Handle ==
    \/ recv_accept
    \/ recv_destroy
    \/ recv
    \/ SENSE_SERVICE_recv

-----------------------------------------------------------------------------
\* The session, see module Session

SessionStarts ==
    /\ ~on
    /\ stops < MaxStops + 1
    /\ nchan < MaxChans
    /\ on' = TRUE
    /\ up' = TRUE
    /\ sstate' = "STARTING"
    /\ chan' = nchan + 1
    /\ open' = FALSE
    /\ nchan' = nchan + 1
    /\ toServer' = <<Create(nchan + 1)>>
    /\ UNCHANGED <<kind, counter, pending, outq, toClient, work, calls,
                   history, destroys, stops>>

\* A service that is not live is left alone, with what is pending.
SessionStops ==
    /\ on
    /\ ~up \/ stops < MaxStops
    /\ on' = FALSE
    /\ up' = FALSE
    /\ \/ sstate # "STOPPED" /\ stop
       \/ /\ sstate = "STOPPED"
          /\ UNCHANGED <<sstate, chan, open, counter, pending, outq, fate>>
    /\ toServer' = <<>>
    /\ toClient' = <<>>
    /\ work' = {}
    /\ stops' = stops + 1
    /\ UNCHANGED <<kind, nchan, calls, seen, destroys>>

-----------------------------------------------------------------------------
\* Server and network (external)

ServerReads ==
    LET m == Head(toServer)
        Reply(msgs) == toClient' = toClient \o msgs
    IN  /\ toServer # <<>>
        /\ toServer' = Tail(toServer)
        /\ \/ /\ m.type = "CREATE"
              /\ \/ Reply(<<Accept(m.chan)>>) /\ UNCHANGED destroys
                 \/ /\ destroys < MaxDestroys
                    /\ destroys' = destroys + 1
                    /\ Reply(<<Destroy(m.chan)>>)
              /\ UNCHANGED <<work, seen>>
           \/ /\ m.type = "SENSE"
              /\ Reply(<<Sense>>)
              /\ UNCHANGED <<work, seen, destroys>>
           \/ /\ m.type = "ASK"
              /\ work' = work \cup {m}
              /\ seen' = Append(seen, m.n)
              /\ UNCHANGED <<toClient, destroys>>
        /\ UNCHANGED <<kind, on, up, sstate, chan, open, nchan, counter,
                       pending, outq, calls, fate, stops>>

\* The server answers its requests in any order.
ServerAnswers(m) ==
    /\ m \in work
    /\ work' = work \ {m}
    /\ toClient' = Append(toClient, Answer(m))
    /\ UNCHANGED <<kind, on, up, sstate, chan, open, nchan, counter, pending,
                   outq, toServer, calls, history, destroys, stops>>

\* The server destroys the channel; some of what it was asked there it may
\* still answer.
ServerDestroys ==
    /\ up
    /\ open
    /\ destroys < MaxDestroys
    /\ \A i \in DOMAIN toClient : toClient[i] # Destroy(chan)
    /\ destroys' = destroys + 1
    /\ toClient' = Append(toClient, Destroy(chan))
    /\ \E late \in SUBSET work : work' = late
    /\ UNCHANGED <<kind, on, up, sstate, chan, open, nchan, counter, pending,
                   outq, toServer, calls, history, stops>>

\* The connection breaks; the last of what the server wrote is lost.
ConnectionBreaks ==
    /\ up
    /\ stops < MaxStops
    /\ up' = FALSE
    /\ toServer' = <<>>
    /\ work' = {}
    /\ \E n \in 0..Len(toClient) : toClient' = SubSeq(toClient, 1, n)
    /\ UNCHANGED <<kind, on, sstate, chan, open, nchan, counter, pending, outq,
                   calls, history, destroys, stops>>

Next ==
    \/ Request_made
    \/ \E i \in DOMAIN pending : cancelResolve(i)
    \/ Handle
    \/ SessionStarts
    \/ SessionStops
    \/ ServerReads
    \/ \E m \in work : ServerAnswers(m)
    \/ ServerDestroys
    \/ ConnectionBreaks

Spec == Init /\ [][Next]_vars

\* The client keeps reading and stops a session that lost its connection; the
\* server keeps reading and answering.
FairSpec ==
    /\ Spec
    /\ WF_vars(Handle)
    /\ WF_vars(~up /\ SessionStops)
    /\ WF_vars(ServerReads)
    /\ WF_vars(\E m \in work : ServerAnswers(m))

-----------------------------------------------------------------------------
TypeOK ==
    /\ kind \in {"storage", "resolve"}
    /\ {on, up, open} \subseteq BOOLEAN
    /\ sstate \in {"STOPPED", "STARTING", "STARTED"}
    /\ nchan \in 0..MaxChans
    /\ chan \in 0..nchan
    /\ counter \in 0..(MaxCalls + 1)
    /\ pending \in Seq(Request)
    /\ outq \in Seq(Asked({"ASK"}))
    /\ toServer \in Seq(Plain \cup Asked({"ASK"}))
    /\ toClient \in Seq(Plain \cup Asked({"ANSWER"}))
    /\ work \subseteq Asked({"ASK"})
    /\ calls \in 0..MaxCalls
    /\ fate \in [Calls -> Fate]
    /\ seen \in Seq(Calls)
    /\ destroys \in 0..MaxDestroys
    /\ stops \in 0..(MaxStops + 1)

\* What recv hands to a call-back is the answer to that very call, though ids are
\* used again after a stop and answers come in any order, late ones on a channel
\* that is gone included.
OwnAnswer ==
    \A n \in Calls : fate[n].end = "answered" => fate[n].n = n

\* mwServiceStorage_load: "If the service is not currently available, the call
\* will be cached and processed when the service is started".  The requests
\* reach the server once each and in the order of the calls, those that were
\* cached or queued before those made later.
SentInOrder ==
    \A i, j \in DOMAIN seen : i < j => seen[i] < seen[j]

\* The tables of requests are of their type, and the requests come in order.
RequestsConsistent == TypeOK /\ SentInOrder

\* While the session lasts no call of mwServiceStorage_load, _save or
\* mwServiceResolve_resolve waits for ever: it is answered, or dropped when the
\* service stops, however often the server destroys the channel.
CallsEnd ==
    \A n \in Calls :
        fate[n].end = "waiting" ~> fate[n].end # "waiting" \/ ~on

=============================================================================
