# A verification project for Meanwhile

Meanwhile (`src/`) is a C library that speaks the protocol of a Lotus Sametime
server.  A client links it, feeds it the bytes it reads from its socket, and is
called back.  The library is single threaded and has no clock: what makes it
hard is the *order* in which calls of the client, messages of the server and of
the other users, and the loss of connections meet.  The repository has no
tests.  This directory holds TLA+ models of its core, the TLC configurations
that check them, and TLAPS proofs of what they check for the parts the others
rest on.

`PROJECT.json` lists components, runs, mutants, hazards and theorems, and maps
every definition that models code to its lines.

## 1. Inventory

| component | state it keeps | operations | correct if |
|---|---|---|---|
| framing (`session.c`, lower half) | receive buffer, its length and use | `mwSession_recv`, `session_recv*`, freed by `mwSession_stop` | chunks become exactly the messages sent |
| session (`session.c`) | state, services, channel set, login and status data | start, stop, forceLogin, add/removeService, senseService, one handler per message | login ends, nothing lives longer than the session |
| service (`service.c`) | life-cycle state | start, started, stop, stopped, error | started once, stopped with the session |
| channels (`channel.c`) | state, queues, cipher, offered and supported ciphers | create, accept, destroy, send, five handlers | in order, lossless, both ends agree on cipher and end |
| file transfer (`srvc_ft.c`) | state, size and remaining bytes per transfer | new, offer, accept, send, ack, close, free | DONE means complete, closed once |
| instant messaging (`srvc_im.c`) | conversations: state, features, channel, gathered segments | open, send, close, free, setClientType | features agree, messages whole, every try answered |
| storage (`srvc_store.c`) | channel, pending requests, id counter | load, save | each request answered once, by its own answer |
| resolve (`srvc_resolve.c`) | channel, searches by id | resolve, cancelResolve | answers go to their search |
| awareness (`srvc_aware.c`) | channel, entries shared by lists, attributes | add, remove, watch, unwatch, setStatus | the server watches what the lists hold |
| directory (`srvc_dir.c`) | channel, directories, searches | open, next, search, destroy (incomplete) | as resolve |
| conference (`srvc_conf.c`) | conferences: state, members by id | open, accept, invite, send, destroy | members agree, nothing after the end |
| place (`srvc_place.c`) | places: state, members, our id and section | open, sendText, setAttribute, destroy, a handler per message | the table of members is the server's, joining and leaving end |
| encoding (`common.c`, `message.c`) | buffers, cursors, an error flag | put, get, clone and clear per type | get undoes put, a cut is noticed, nothing is leaked |
| ciphers (`cipher.c`) | keys per session, key and vectors per channel | offer, accept, encrypt, decrypt | both ends read what the other sent |
| integers (`mpi/`) | digits and sign | arithmetic, modular power, bytes | it is the arithmetic of the integers |
| buddy list (`st_list.c`) | groups and users | edit, store, load | load undoes store |
| utilities (`mw_util.c`, `mw_debug.c`, `error.c`), `samples/` | - | - | not modelled: wrappers, texts, examples |

How they interact: the client calls sessions and services; a session hands a
message to a channel by its id, the channel hands it to its service, the service
calls the client back, and the client may call anything from there, stopping the
session included.  Services write through channels, channels through the
session, the session through the client's `io_write`, which may fail.

What is hard to test is listed as "hazards" in `PROJECT.json`, each at the line
where it bites.

## 2. Modules

| module | models | composed with |
|---|---|---|
| `Framing` | the receiving half of a session, byte by byte | implements `FrameStream` |
| `FrameStream` | abstract: messages read off a stream one by one | |
| `FramingProofs`, `SessionProofs`, `ChannelProofs`, `FileTransferProofs`, `RequestsProofs`, `AwareProofs`, `PlaceProofs`, `ConversationProofs` | theorems about these modules (section 5) | |
| `Session` | login, stop, services and their channels, the server's answers | takes messages as `Framing` delivers them |
| `Channel` | both ends of one channel | |
| `FileTransfer` | both ends of one file transfer | takes the channel as `Channel` shows it |
| `Conversation` | two users and the conversations between them | takes the channel as `Channel` shows it |
| `Requests` | the storage and the resolve service: requests, ids, answers | takes session and channel as `Session` and `Channel` show them |
| `Conference` | the users of one conference and the server's table of members | takes session and channels as given |
| `Aware` | the awareness service: lists, entries, groups, status | takes session and channel as given |
| `Place` | one client in places, the server's table of members | takes session and channel as given |
| `Buffers` | put and get buffers, the five kinds of value | |
| `Codec` | every type of message: put, get, clone, clear | on `Buffers` |
| `StList` | the buddy list, its text | |
| `Mpi` | the integers of the key exchange, digit by digit | |
| `RC2` | key expansion, the block, chaining and padding | |
| `Cipher` | two ends with RC2/40 and RC2/128 over channels and logins | on `Mpi` and `RC2`; takes the channel as `Channel` shows it |
| `MCFormats` (with `MCCodec`, `MCCipher`) | Codec, StList, Mpi and Cipher side by side in one run | |
| `MCFraming`, `MCSession`, `MCChannel`, `MCAware` | constants for TLC; a reference parser in `MCFraming` | |

**Framing.**  `buf`, `buf_len` are `s->buf` up to `buf_used` and `s->buf_len`;
`stream`, `got`, `cur` say what the server sends, how much of it was handed to
`mwSession_recv` and how much of that is consumed.  One action is one turn of
the loop in `mwSession_recv`, or of the loop that skips keep-alives; the
branches of `session_recv_empty` and `session_recv_cont` are actions of their
own.  `session_process` appends the payload to `out` and may stop the session, as
a handler or a call-back may.  Lengths are natural numbers: the first length
byte is below 128 (`BufferShape`, proved), so `x + 4` does not wrap in 32 bits.
`TrailingAfterStop` says whether a chunk may go on behind the message that stops
the session.  With FALSE everything holds; with TRUE it does not (see below).

**Session.**  `state` is `s->state`; `sstate`, `schan` are the state and channel
of every service, `chan` the channel set, `toServer`, `toClient` the messages in
flight, `srvChans` what the server regards as open.  Plain services (messages,
conference, transfer, place) start on the spot, channelled ones (storage,
resolve, awareness, directory) when the server accepts their channel.  Storage and
resolve ask to be sensed after their channel is destroyed (`Sensing`), awareness
and directory do not; the directory service never leaves STOPPING
(`Unfinished`).  The server is external and well behaved: it answers what it is
asked, and may destroy channels and the session at any time.  A write fails
exactly when the connection is gone; a client that reads the end of its
connection stops the session.  Channel ids are fresh ones, standing for the
32-bit counter of `mwChannel_newOutgoing`.  A channel whose offer could not be
written stays in the set in ERROR; no message names it, so `Session` does not
keep it (`Channel` does).

**Channel.**  Per end: `st`, `cipher`, `supported`, `outq`, `inq` as in `struct
mwChannel`; `net` are the messages relayed by the server, which is external.  The
creating end is either this library or a foreign, *eager* one, which sends
data behind its offer and offers any policy.  Messages are numbered; what an
encrypted message looks like is the cipher it was composed under.  A service
may send, or destroy the channel, from its accept call-back.

**FileTransfer.**  Per end: `state`, `chan`, `remaining`; histories count bytes
received, chunks sent, acknowledged and to be acknowledged, calls of `ft_closed`.
The sending client waits for each acknowledgement, sends the next chunk from
within the `ft_ack` call-back (`chained`), or does not wait (`pipelined`).

**Conversation.**  End `a` keeps a conversation and opens it, again and again;
end `b` makes a new one of every offer, as the code does (its look-up of an
existing conversation is compiled out).  `feat` is what `setClientType` set,
`conv` the conversation with its features, channel and gathered segments.  A
channel is refused or closed for any reason, of which two kinds are told apart: the
two on which `recv_channelDestroy` falls back, and all others, `ERR_SUCCESS`
included.  An end that is OPEN when its channel is closed for one of the former
stays OPEN as plain text without a channel; `adrift` counts those of `b` that a new
offer has found so, which their client may still close.  (`mwChannel_recvAccept`
destroys a channel with `ERR_SERVICE_NO_SUPPORT` when the service is gone,
`channel.c:817`; to the other end this looks like a close for that reason.)  A client
does not close a conversation that it was told is closed.

**Requests.**  `kind` says which of the two services it is.  `pending` is the list
of storage requests or the table of searches, `counter` the counter their ids
come from, `outq` the queue of the channel (the resolve service sends before its
channel is accepted, the storage service keeps its requests itself).  Every call
of the client has a number the code does not know; `fate` says what became of
it, `seen` in which order the calls reached the server.  The server is
external: it answers in any order, may refuse or destroy the channel, and may
still answer on a channel it destroyed.

**Conference.**  Per user: `conf` is the `struct mwConference`, with the table of
members by id, `copen` and `outq` belong to its channel.  `roster` and `peer`
are the server's: members by id, and who is invited or has joined on which
channel.  The server gives the smallest free id, so that ids come back as soon as
they can; a message carries, for the property only, who really spoke.

**Aware.**  `listIds`, `listKeys` are the tables of the lists; `entries` and
`membership`, `attribs` and `watchers` those of the service, kept next to the
lists as in the code (that they agree is part of `TypeOK`).  `followed` and
`watched` are what the server believes, `presence` is the truth.  Every user is a
member of every group.  The server treats additions as a set: added twice and
removed once is removed.

**Place.**  `place` is the `struct mwPlace`; `copen`, `outq` belong to its
channel; `peer` and `roster` are the server's: the channel and membership of this
client, and the members of the section by id.  One action per call and per
message: the channel's acceptance makes the client ask to join, the answer gives
it an id and a section, the description of the place makes it ask for the list, and
the list, or the news that it has joined itself, opens the place.  The server is
external; it may send its news of the client's own joining, once or again, before or
behind the description, before or behind the list (as `srvc_place.c:104` has it), with
its section or with none, describe the place again, take others in and let them go,
throw the client out or lose it.  A message names a member by id only.  The two calls for
attributes of one's own send an empty message, as the code does.

**Buffers, Codec.**  A put buffer is its bytes and the length allocated for them,
a get buffer its bytes, a position and the error flag; a get moves on by what it
reads whether it is there or not, so that only `check_buffer` keeps it within the
message.  A put, get, clone or clear
function of `common.c` and `message.c` is the list of calls it makes, each with its
field and its condition; put and get are translated separately, so nothing but the
code makes them agree.  A behaviour writes a message (`mwMessage_put`), cuts the
bytes anywhere, reads (`mwMessage_get`), copies what handlers keep, and frees
(`mwMessage_free`).  A value that a cut leaves uninitialised (the count of
`ANNOUNCE_get`) is any of `Junk`.  Awareness snapshots are written by the server.

**StList.**  `list` is the client's list; the actions are the calls that edit it
and one that stores and loads it.  Texts are sequences of characters, because what
the format does to separators, blanks, tabs and line breaks is the point.  What the
code leaves undefined (a write before the buffer of an id, a user line before any
group) makes the list `Undefined`.

**Mpi, RC2, Cipher.**  `Mpi` works on digits as `mpi.c` does, word overflow
included, with the width of digit and byte as parameters: 2 and 1 bits in the run,
16 and 8 in the code, so that carries, overflows, wrong guesses of a quotient digit
and negative Barrett remainders, rare in 16 bits, happen all the time.  `RC2` is
the cipher with its real table and widths; sizes that no encryption gives (empty, or
no multiple of 8) are read past the message, as in the code, but nobody sends them here.  `Cipher` puts instances of both at the
two ends of a channel: `session_key` (RC2/40, computed once) and the key pair
(RC2/128) belong to a session and outlive its logins, `instances` to a channel.
Only Diffie-Hellman is small: a prime of 6 bits, and a key from the last 2 bytes of
the secret instead of 16.

## 3. Runs

| run | configuration | shows |
|---|---|---|
| `framing` | streams of up to 3 items of 5 kinds, all chunkings | messages acted on are those a reference parser finds; refinement of `FrameStream`; the loop ends |
| `framing_trailing` | chunks may go on behind a stop | **violation**: on the next connection a message is acted on that nobody sent |
| `session` | 1 plain and 3 channelled services, 6 ids, 1 break | life cycle, agreement with the server, login settles, sensing services come back |
| `channel` | 2 ciphers, 2 messages per end | order, losslessness, flushing, cipher agreement, both ends close |
| `filetransfer` | files of up to 3 bytes, up to 4 chunks, 3 kinds of client | success is one, no byte lost, closed is final, no stall |
| `filetransfer_ack` | chained client | **violation**: closed before the last acknowledgement |
| `conversation` | 3 channels, 1 message per end and channel, 1 break, 2 changes of client type, opened with and without a session, closed for any reason | features, one answer per try, whole messages, no endless PENDING once there is a channel |
| `requests` | 3 calls, 2 channels refused or destroyed, 1 session stopped or broken | every call gets its own answer or is dropped, requests reach the server in order |
| `conference` | 3 users, 2 invitations, 1 message, channel destroyed or connection lost | tables of members agree, speakers are known, nobody waits for ever |
| `aware` | 2 lists, 1 user, 1 group, 1 attribute, 4 calls, 1 change of status, 1 fault | the server follows what the lists hold, the status shown is the true one |
| `place` | 2 peers, 2 places one after the other, 3 events | members agree, speakers are known, no list opens an open place, joining and leaving end |
| `formats` | every type of message cut at every byte, lists of 2 entries with blanks, tabs, line breaks and separators, about 3100 operands, 2 channels of 2 messages | what is written is read back, cuts are noticed, nothing is leaked, the integers are right, both ends read what was sent |

Every property of a passing run has a mutant: a plausible bug in one definition
that makes TLC find the property violated.  A property named `...Consistent` is
the type invariant of its module together with what its variables have to do with
each other: `SessionConsistent` (no service without a session, one channel per
service), `ChannelConsistent` (an open channel is flushed), `TransferConsistent`
(what success and DONE mean), `ConversationConsistent` (every try closed once, one channel
at a time),
`RequestsConsistent` (requests in order), `ConferenceConsistent` (the speaker is
known), `AwareConsistent` (the server follows), `PlaceConsistent` (opened once
for every news of one's own joining, and once for all lists).

*Bounds.*  Framing keeps nothing between messages but the buffer, which is empty
again after each: three items are every pair of neighbours plus one more.  The
items have a payload that looks like a keep-alive, one that looks like a length,
an empty message and one that never ends.  In Session the ids suffice for every
service to be started twice at once; `MaxQueue` limits only what client and
server volunteer.  In Channel two messages per end are enough for one to be
queued and one to overtake it.  Three bytes in four chunks leave room for a
first, a middle and a last chunk and an empty one.  In Conversation three channels
are a try, another one, and its fall back.  In Requests three calls are one
answered, one lost and one made with the same id again, two channels destroyed
are one refused and one destroyed while open.  In Conference two invitations
are two joiners, or one who leaves and comes back, the second of whom is given the
id of the first.  In Aware four calls fill, share and empty a list around one
stop; the two lists are symmetric and the run, which has no liveness property,
says so.  In Place two peers and three events let an id be given again while the
client joins, and the second place meets what is left of the first.  In Formats the
messages have every combination of the fields that decide about others, lists of
none, one and more elements, strings of 65535, 65536 and more characters, and
opaques around the 1024 bytes a buffer starts with; the list's strings contain
each character the format uses itself, blanks, tabs, line breaks that make a new user
or group line of the rest, and ids with a double colon in and at their beginning; the operands are all pairs from -20 to 20,
limits of the digits, and moduli of one to four digits; the private keys make one
secret that is long enough and one that is not.  Where histories end because a bound
is reached, deadlock is not an error (`CHECK_DEADLOCK FALSE`); Framing and Session
run with deadlock checked.

*Fairness.*  Handlers (`WF` of `Handle`, `Receive`, `session_recv`): the client
calls `mwSession_recv` with what it reads, and a call runs to its end.
`ConnectionLost`, `SessionStops`, `ServiceStops`: a client whose read fails stops
the session, as the samples do.  `ServerAnswers`: the server answers.
For file transfers the receiving client acknowledges what it is handed and the
sending client goes on.  In Conference one fairness condition for everything
there is to read (`Reads`) is enough; in Place the client reads, the server
reads what it is sent, and a service whose session is gone is stopped.  No call of a client is assumed otherwise: nobody has to
start, open, close or continue anything.

## 4. Findings

1. `mwSession_recv` goes on with its chunk after a handler stopped the session
   (`session.c:862`); what it buffers then is prepended to the bytes of the next
   connection, and a message that nobody sent is acted on (run `framing_trailing`).
2. A transfer may be closed before its last chunk is acknowledged
   (`srvc_ft.c:267`, run `filetransfer_ack`).

Met while modelling, and not the subject of a run of their own:

* *Session.*  `mwSession_removeService` does not stop the service
  (`session.c:1076`), though `mw_session.h:312` says so (with `StopBeforeRemove`
  FALSE TLC finds `NoServiceWithoutSession` of `Session` violated).
  `session_process` acts on a message even when it could not be parsed
  (`session.c:652`), so on whatever `CutNoticed` says was read of it.
* *Channel.*  Messages sent before the channel is accepted are composed without a
  cipher and flushed in the clear (`channel.c:619`), though `mw_channel.h:342` says
  "encrypt it as per the channel's specification".
* *Instant messaging.*  `mwConversation_open` without a session leaves the
  conversation PENDING and calls nobody back (`srvc_im.c:243`), though
  `mw_srvc_im.h:183` says that "Upon failure, mwServiceImHandler::conversation_closed
  will be triggered".  `mwConversation_close` calls `conversation_closed` for a
  conversation that is closed already.  A conversation destroyed while OPEN with one
  of the two refusal codes (`srvc_im.c:450`) stays OPEN without a channel: its client
  is not told, and nothing it sends is sent (modelled; `FeaturesAgree` says that it is
  plain text then, `ConversationConsistent` that it is still owed its end).  What was gathered of a
  segmented message survives `mwConversation_close`.
* *Other services.*  `mwConference_destroy` does not call `conf_closed`, though
  `mw_srvc_conf.h` says that it does; `mwFileTransfer_free` does not call `ft_closed`
  though `mw_srvc_ft.h` says it closes the transfer if necessary; storage requests
  cached before the service is started are dropped if its first channel is refused,
  though `mw_srvc_store.h:160` says that they are "processed when the service is
  started"; the awareness service does not ask to be sensed after its channel is
  destroyed (a todo in the code); `mwAwareList_watchAttributeArray` and
  `mwAwareList_unwatchAttributeArray` never end, and the second adds the attributes
  it should remove; in the directory service `recv_open` and `recv_search` are empty,
  so a directory stays PENDING, and `mwDirectory_destroy` does not free it.
* *Place.*  `mwPlace_setAttribute` and `mwPlace_unsetAttribute` do not finalise
  their buffer and send an empty message, the second under the type of the first; a
  description of the place that comes again throws an OPEN place back to JOINED and
  opens it a second time; so does every `PEER_JOIN` of the client itself that comes
  behind the list, because `srvc_place.c:400` does not look at the state; the request counter is sent and never compared.
* *Encoding.*  The length of a string is cut to 16 bits (`common.c:360`): what is
  behind a longer one is garbled; a buddy list of 64K characters or more is cut
  without notice when it is put into a message (`st_list.c:487`).  The recipients of an announcement are read in reverse.
  `HANDSHAKE_get` allocates a host name that `HANDSHAKE_clear` does not free.
  `mwUserStatus_get` sets the time it read to 0, on purpose; a snapshot copied for an offline user loses its group.
* *Buddy list.*  Semicolons become spaces; an id with `::`, an alias with a comma
  or an empty one, and the community of a user do not come back.  A tab ends a word
  and garbles its own entry only (`st_list.c:521`, `561`).  A line break in a string makes
  lines of its own: the groups in front of it come back, what follows may be garbled,
  gain users and groups or move to another group (`st_list.c:607`).  An id that begins
  with `::` is written before its buffer when it is loaded (`st_list.c:573`).
* *Ciphers.*  The RC2/40 key of a session is computed at its first channel and kept
  (`cipher.c:538`): after another login under another id its messages are not
  understood.  The RC2/128 key of a secret of fewer than 16 bytes is read from before
  the buffer (`cipher.c:699`).
* *Integers.*  The comment on division says that a guess should not be backed off
  "more than once, or, in rare cases, twice" (`mpi.c:3660`); it may be `RADIX - 2` times (the digit is right).
  The product of two digits is computed as a signed int and overflows it.

## 5. Proofs

`FramingProofs` proves, for every set of byte streams and hence every length and
every way to cut them into chunks:

* `TypeCorrect`, `ShapeCorrect`: `TypeOK` and `BufferShape` are inductive
  together, with no assumption beyond `Streams \subseteq Seq(Byte)` (`TypeOK` is
  proved only; it is the hypothesis of the rest);
* `SyncCorrect`: `BufferInSync`, if no chunk goes on behind the message that
  stops the session;
* `RefinementCorrect`: under the same assumption `Framing` implements
  `FrameStream`, with the position in the stream mapped to `cur - Len(buf)`.

`BufferInSync` says something of a session that is up only, so it is not
inductive: starting again would expose whatever was buffered.  The inductive
invariant `IInv` adds `StoppedIsClean`, that a stopped session has buffered and has
pending nothing.  This is just what the assumption buys and what the run
`framing_trailing` refutes without it.  In the refinement, a step that only
buffers is a stutter, a step that completes a message (`EmptyWholeMessage`,
`ContWholeMessage`, `ContHeaderAndPayload`, and the empty ones) is a `Message`
step; the lemma `MessageStep` says when bytes of the stream make one.

`SessionProofs` proves `SessionCorrect` and `ChannelsAgreeCorrect`
(`SessionConsistent`, `ChannelsAgree`) for every set of services and channels and any
number of breaks.  The hypothesis is `StopBeforeRemove`, that the client stops a
service before it removes it: the code leaves a removed service live, and then
`mwSession_stop` does not reach it.  Neither property is inductive.  The invariant
`Inv` adds that the login is a sequence of questions and answers with nothing else on
the wire (`Login`), which channel belongs to which service (`Owned`), and for each
channel what client, server and the messages between them hold of it (`AgreeOn`): a
CREATE is the first that anybody hears of an id, an accept finds its channel waiting
or gone, a channel one end has and the other has not is one a message in flight is
about.  Lemmas about values say what writing, answering, taking or losing a message
does to one channel; each action is put together from them.

`ChannelProofs` proves, for every set of ciphers, every policy and any number of
messages, `ConsistentCorrect`, `CipherCorrect`, `NothingLostCorrect` and
`InOrderCorrect`.  Only the first property is inductive.  `CipherInv` adds what the
ends agreed on while the channel was opened (an acceptance names the cipher and comes
before anything encrypted, nothing encrypted is queued); `Carried` says of each message
sent, at both ends and whatever their state, in which of four places it is; `Ordered`
orders any two messages wherever they are.

`FileTransferProofs` proves, for files of every size and any number of chunks,
`TransferCorrect` and `NoByteLostCorrect`, and the action property
`ClosedIsFinalCorrect`.  The invariant counts what is in flight: `Shape` says in which
order the ends get through their states, `Account` that chunks and bytes of sender,
queues and receiver add up.

`RequestsProofs` proves `OwnAnswerCorrect` and `RequestsCorrect` for any number of
calls, refusals and sessions.  `OwnAnswer` speaks of answers given; `Owned` of those to
come: an id that is pending belongs to one call, and so does all that carries this id
on the present channel.  `Ordered` and `Ready` extend the order of requests to those on
their way, queued or cached.

`AwareProofs` proves `AwareCorrect` and `StatusCorrect` (`AwareConsistent`,
`StatusCurrent`) for any users, groups, attributes and lists.  Both speak of the moment
when all is read.  What is inductive is what the messages on their way will do: of each
user or group the last message about it agrees with the entries, or there is none and
the server's table does (`Following`; `Queued` for a channel that is being opened,
where the queue comes behind all that `recv_accept` sends); of each user with an entry
the server will be asked, or the last news on its way is true, or the status shown is
(`Fresh`).  `Wired` says which messages there are in which state of the channel.

`PlaceProofs` proves `PlaceCorrect`, `MembersCorrect` and `SpeakerCorrect`
(`PlaceConsistent`, `MembersAgree`, `SpeakerKnown`) for any number of users, places and
events.  `Stage` and `Conversing` say what can be on its way to a place in which state:
no list comes before it was asked for, nothing but the end of the channel comes before
the `JOIN_RESPONSE`, and a place that is not OPEN was not opened since it was described
last; nothing is assumed of when a `PEER_JOIN` of ourselves comes.  `Following` says what
the messages on their way will do to the table of members: the last one that speaks of
an id says who has it, or none does and the table is right, or the list is still to
come.  `Hearing` says the same of the messages in front of each one that names a speaker.
`Wired` keeps the channels of successive places in line (a `JOIN_PLACE` or `DESTROY` of an
old channel does not touch the new one), and `Seated` the server's own table, where a
counting argument gives every user who is not in it a free id.

`ConversationProofs` proves `ConversationCorrect`, `FeaturesCorrect` and `WholeCorrect`
(`ConversationConsistent`, `FeaturesAgree`, `MessagesWhole`) for any number of channels,
messages, breaks, changes of client type and reasons to close.  Only the count of calls
of `conversation_closed` is nearly inductive by itself.  The invariant `Inv` has four more
parts.  `Shaped`: what holds of one end, room for the offer of a fall back included.
`Ordered`: end `b` hears of the end of each channel before it is offered the next
(`Lined`), and will hear of the end of every channel but the one `a` holds (`Ending`), so
that an offer never finds a conversation that still has its channel.  `Spoken`: an offer
on its way is not accepted (`Answered`), features are those offered (`Agreed`), nothing is
said on a channel before it is accepted (`Quiet`), and nothing is left gathered without a
channel unless one was cut off (`Clean`).  `Flowing`: from what a conversation has
gathered, the messages on their way lead piece by piece through the rest of what was sent
(`Stream`, a function from positions in the queue to positions in the messages), up to the
last one while both connections are up.  Each event is proved on the values of the two
ends (`Fine`), then for the action that makes it happen.

All theorems rest on the assumptions on constants that the modules state and TLC
evaluates, on `StopBeforeRemove` and on the assumption about chunks where they name
them, and on nothing else.

Only model-checked: all liveness (`RecvTerminates`, `LoginSettles`,
`ServicesComeBack`, `BothEndsClose`, `TransferEnds`, `OpenAnswered`, `CallsEnd`,
`JoiningEnds`, `PlaceSettles`), which the prover does not do; what recursive definitions
compute (`ActsOnCompleteMessages` and all of `formats`: Codec, StList, Mpi and Cipher
recurse over their data); and the two invariants of Conference, for which no proof is
written.

## 6. Plan

Modelled are all parts of the library that keep state or compute something, and proved
are session, channels, requests, file transfer, awareness, places and conversations.
Left is a proof of `ConferenceConsistent` and `MembersAgree` of `Conference`.  The module
is written for it (constants with assumptions, one action per operation, no recursive
operators), and the argument would be that of `PlaceProofs`: what the messages on their
way will do to a table of members, and a server that always has a free id.

Not modelled:

* user status, privacy, announcements and administrators' messages in a session: each
  is stored, or handed on, by one handler; how they are encoded is in Codec;
* the directory service beyond its channel: unfinished in the code (see above);
* values of awareness attributes and of storage units: conversions of one value,
  without state;
* the functions of `mpi.c` nothing calls; the password of a login message
  (`compose_auth_rc2_40` and `_128`), which only the server decrypts;
* the random numbers behind keys and names: any value in the models;
* utilities, logging, error texts, samples;
* memory beyond buffers and messages: an object freed inside a call-back is read
  afterwards in `mwChannel_recvAccept` (`channel.c:851`), `recv` of the storage service
  (`srvc_store.c:382`) and `recv_RECEIVED`; the models take the outcome in which the
  freed object is not open any more.
