---------------------------- MODULE AwareProofs ----------------------------
(***************************************************************************)
(* Proofs about the awareness service: AwareConsistent and StatusCurrent   *)
(* hold in every reachable state, for any users, groups, attributes and    *)
(* lists, and any number of calls, changes and faults.                     *)
(*                                                                         *)
(* Both speak of the moments when all that was sent has been read, and     *)
(* neither is inductive.  What has to be kept up is what the messages on   *)
(* their way will do: of each user or group the last message about it,     *)
(* or what the server follows if there is none, agrees with the entries    *)
(* (Following, and Queued for a channel that is still being opened); and   *)
(* of each user with an entry the server will be asked, or the last news   *)
(* on its way is true, or the status the entry has is (Fresh).  Wired      *)
(* says which messages can be about in which state of the channel.         *)
(***************************************************************************)
EXTENDS Aware, SequenceTheorems, FunctionTheorems, FiniteSetTheorems, TLAPS

-----------------------------------------------------------------------------
(* The inductive invariant, in six parts.                                  *)

\* A message about x; the last ones about x all say so, of type t; none does.
About(m, x) == m.type \in {"ADD", "REMOVE"} /\ x \in m.ids
LastSays(q, x, t) ==
    \E k \in DOMAIN q :
        /\ About(q[k], x) /\ q[k].type = t
        /\ \A j \in DOMAIN q : j > k /\ About(q[j], x) => q[j].type = t
Silent(q, x) == \A k \in DOMAIN q : ~About(q[k], x)

\* The messages q, read by someone who follows F, leave x followed just if it
\* is in E.
Follow(q, x, F, E) ==
    /\ x \in E => LastSays(q, x, "ADD") \/ (Silent(q, x) /\ x \in F)
    /\ x \notin E => LastSays(q, x, "REMOVE") \/ (Silent(q, x) /\ x \notin F)

\* Read by someone who watches W, they leave A watched.
LastWatches(q, A) ==
    \E k \in DOMAIN q :
        /\ q[k].type = "WATCH" /\ q[k].keys = A
        /\ \A j \in DOMAIN q : j > k /\ q[j].type = "WATCH" => q[j].keys = A
Watching(q, W, A) ==
    \/ LastWatches(q, A)
    \/ (\A k \in DOMAIN q : q[k].type # "WATCH") /\ W = A

\* The last news of u on its way is that its status is p; there is none; the
\* server will be asked.
Tells(m, u) == m.type = "STATUS" /\ m.id = u
Told(q, u, p) ==
    \E k \in DOMAIN q :
        /\ Tells(q[k], u)
        /\ \A j \in DOMAIN q : j >= k /\ Tells(q[j], u) => q[j].status = p
Untold(q, u) == \A k \in DOMAIN q : ~Tells(q[k], u)
Asked(q, u) == \E k \in DOMAIN q : q[k].type = "ADD" /\ u \in q[k].ids
Current(u, ts, tc, s, p) ==
    Asked(ts, u) \/ Told(tc, u, p) \/ (Untold(tc, u) /\ s \in {p, "set"})

\* TypeOK in two parts: the tables of the client, and the rest.
Tables ==
    /\ lists \subseteq Lists
    /\ listIds \in [Lists -> SUBSET Ids]
    /\ listKeys \in [Lists -> SUBSET Keys]
    /\ \A l \in Lists \ lists : listIds[l] = {} /\ listKeys[l] = {}
    /\ membership = [x \in Ids |-> {l \in Lists : x \in listIds[l]}]
    /\ entries = {x \in Ids : membership[x] # {}}
    /\ status \in [Ids -> Presence \cup {"unknown", "set"}]
    /\ watchers = [k \in Keys |-> {l \in Lists : k \in listKeys[l]}]
    /\ attribs = {k \in Keys : watchers[k] # {}}
Links ==
    /\ {on, up} \subseteq BOOLEAN
    /\ sstate \in {"STOPPED", "STARTING", "STARTED"}
    /\ nchan \in 0..MaxChans
    /\ chan \in 0..nchan
    /\ outq \in Seq(ToServer)
    /\ toServer \in Seq(ToServer)
    /\ toClient \in Seq(ToClient)
    /\ srvChan \in 0..nchan
    /\ followed \subseteq Ids
    /\ watched \subseteq Keys
    /\ presence \in [Users -> Presence]

\* A channel is used by one session, and it is the only one there is a message
\* of.  Before it is accepted nothing is sent on it.
Wired ==
    /\ chan \in {0, nchan} /\ srvChan \in {0, nchan}
    /\ sstate = "STOPPED" <=> chan = 0
    /\ ~on => ~up /\ chan = 0 /\ toClient = <<>>
    /\ ~up => toServer = <<>> /\ srvChan = 0
    /\ srvChan = 0 => followed = {} /\ watched = {}
    /\ sstate # "STARTING" => outq = <<>>
    /\ \A i \in DOMAIN toServer : toServer[i].chan = nchan
    /\ \A i \in DOMAIN toClient : toClient[i].chan = nchan
    /\ \A i \in DOMAIN outq : outq[i].type # "CREATE" /\ outq[i].chan = nchan
    /\ \A i \in DOMAIN toServer : toServer[i].type = "CREATE" =>
          sstate = "STARTING" /\ srvChan = 0 /\ toClient = <<>>
    /\ sstate = "STARTING" =>
          /\ \A i \in DOMAIN toServer : i = 1 /\ toServer[i].type = "CREATE"
          /\ followed = {} /\ watched = {}

\* What was queued while the channel was opened agrees with the entries.
Queued ==
    sstate = "STARTING" =>
        /\ \A x \in Ids : Follow(outq, x, entries, entries)
        /\ Watching(outq, attribs, attribs)

\* What is on its way to the server makes it follow the entries.
Following ==
    Connected =>
        /\ \A x \in Ids : Follow(toServer, x, followed, entries)
        /\ Watching(toServer, watched, attribs)

\* What is on its way, either way, makes the status of an entry current.
Fresh ==
    Connected =>
        \A u \in entries \cap Users :
            Current(u, toServer, toClient, status[u], presence[u])

Inv == Tables /\ Links /\ Wired /\ Queued /\ Following /\ Fresh

-----------------------------------------------------------------------------
(* What a step does to a queue: something is put behind it, or its first   *)
(* message is taken off.                                                   *)

Behind(t, s, m) ==
    /\ Len(s) \in Nat
    /\ \A i \in DOMAIN s : i \in 1..Len(s) /\ i \in DOMAIN t /\ t[i] = s[i]
    /\ \A j \in DOMAIN m : j \in Nat \ {0} /\ Len(s) + j \in DOMAIN t /\ t[Len(s) + j] = m[j]
    /\ \A i \in DOMAIN t : i \in DOMAIN s \/ \E j \in DOMAIN m : i = Len(s) + j

Shifted(t, s) ==
    /\ 1 \in DOMAIN s
    /\ \A i \in DOMAIN t : i \in Nat \ {0} /\ i + 1 \in DOMAIN s /\ t[i] = s[i + 1]
    /\ \A j \in DOMAIN s :
         j \in Nat \ {0} /\ (j = 1 \/ (j - 1 \in DOMAIN t /\ t[j - 1] = s[j]))

LEMMA ConcatBehind ==
    ASSUME NEW A, NEW s \in Seq(A), NEW m \in Seq(A)
    PROVE  s \o m \in Seq(A) /\ Behind(s \o m, s, m)
  <1>1. /\ s \o m \in Seq(A) /\ Len(s \o m) = Len(s) + Len(m)
        /\ \A i \in 1..(Len(s) + Len(m)) :
             (s \o m)[i] = IF i <= Len(s) THEN s[i] ELSE m[i - Len(s)]
    BY ConcatProperties
  <1>2. /\ Len(s) \in Nat /\ DOMAIN s = 1..Len(s)
        /\ Len(m) \in Nat /\ DOMAIN m = 1..Len(m)
        /\ DOMAIN (s \o m) = 1..(Len(s) + Len(m))
    BY <1>1, LenProperties
  <1>3. PICK t : t = s \o m
    OBVIOUS
  <1>4. ASSUME NEW i \in DOMAIN t
        PROVE  i \in DOMAIN s \/ \E j \in DOMAIN m : i = Len(s) + j
    <2>1. CASE i > Len(s)
      <3>1. i - Len(s) \in DOMAIN m /\ i = Len(s) + (i - Len(s))
        BY <1>2, <1>3, <1>4, <2>1
      <3> QED
        BY <3>1
    <2> QED
      BY <1>2, <1>3, <1>4, <2>1
  <1>5. Behind(t, s, m)
    BY <1>1, <1>2, <1>3, <1>4 DEF Behind
  <1> QED
    BY <1>1, <1>3, <1>5

LEMMA TailShifted ==
    ASSUME NEW A, NEW s \in Seq(A), s # <<>>
    PROVE  /\ Tail(s) \in Seq(A) /\ Shifted(Tail(s), s)
           /\ Head(s) = s[1] /\ s[1] \in A /\ 1 \in DOMAIN s
  <1>1. /\ Len(s) \in Nat \ {0} /\ DOMAIN s = 1..Len(s)
        /\ Tail(s) \in Seq(A) /\ DOMAIN Tail(s) = 1..(Len(s) - 1)
        /\ Head(s) = s[1]
        /\ \A i \in DOMAIN Tail(s) : i + 1 \in DOMAIN s /\ Tail(s)[i] = s[i + 1]
    BY HeadTailProperties, LenProperties, EmptySeq
  <1>2. \A j \in DOMAIN s :
          j = 1 \/ (j - 1 \in DOMAIN Tail(s) /\ Tail(s)[j - 1] = s[j])
    BY <1>1
  <1>3. s[1] \in A
    BY <1>1, ElementOfSeq
  <1> QED
    BY <1>1, <1>2, <1>3 DEF Shifted

-----------------------------------------------------------------------------
(* What is followed after messages are read.                               *)

LEMMA LastRight ==
    ASSUME NEW t, NEW q, NEW m, NEW x, NEW y, Behind(t, q, m), LastSays(m, x, y)
    PROVE  LastSays(t, x, y)
  <1>1. PICK k \in DOMAIN m :
          /\ About(m[k], x) /\ m[k].type = y
          /\ \A j \in DOMAIN m : j > k /\ About(m[j], x) => m[j].type = y
    BY DEF LastSays
  <1>2. /\ Len(q) + k \in DOMAIN t /\ About(t[Len(q) + k], x)
        /\ t[Len(q) + k].type = y
    BY <1>1 DEF Behind
  <1>3. ASSUME NEW j \in DOMAIN t, j > Len(q) + k, About(t[j], x)
        PROVE  t[j].type = y
    <2>1. PICK i \in DOMAIN m : j = Len(q) + i /\ t[j] = m[i] /\ i > k
      BY <1>1, <1>3 DEF Behind
    <2> QED
      BY <1>1, <1>3, <2>1
  <1> QED
    BY <1>2, <1>3 DEF LastSays

LEMMA LastLeft ==
    ASSUME NEW t, NEW q, NEW m, NEW x, NEW y, Behind(t, q, m),
           LastSays(q, x, y), Silent(m, x)
    PROVE  LastSays(t, x, y)
  <1>1. PICK k \in DOMAIN q :
          /\ About(q[k], x) /\ q[k].type = y
          /\ \A j \in DOMAIN q : j > k /\ About(q[j], x) => q[j].type = y
    BY DEF LastSays
  <1>2. k \in DOMAIN t /\ About(t[k], x) /\ t[k].type = y
    BY <1>1 DEF Behind
  <1>3. ASSUME NEW j \in DOMAIN t, j > k, About(t[j], x)
        PROVE  t[j].type = y
    <2>1. j \in DOMAIN q /\ t[j] = q[j]
      BY <1>3 DEF Behind, Silent
    <2> QED
      BY <1>1, <1>3, <2>1
  <1> QED
    BY <1>2, <1>3 DEF LastSays

LEMMA BothSilent ==
    ASSUME NEW t, NEW q, NEW m, NEW x, Behind(t, q, m), Silent(q, x), Silent(m, x)
    PROVE  Silent(t, x)
  BY DEF Behind, Silent

\* One after the other.
LEMMA FollowBehind ==
    ASSUME NEW t, NEW q, NEW m, NEW x, NEW F, NEW E, NEW G, Behind(t, q, m),
           Follow(q, x, F, E), Follow(m, x, E, G)
    PROVE  Follow(t, x, F, G)
  <1>1. CASE x \in G
    <2>1. CASE LastSays(m, x, "ADD")
      BY <1>1, <2>1, LastRight DEF Follow
    <2>2. CASE Silent(m, x) /\ x \in E
      <3>1. CASE LastSays(q, x, "ADD")
        BY <1>1, <2>2, <3>1, LastLeft DEF Follow
      <3>2. CASE Silent(q, x) /\ x \in F
        BY <1>1, <2>2, <3>2, BothSilent DEF Follow
      <3> QED
        BY <2>2, <3>1, <3>2 DEF Follow
    <2> QED
      BY <1>1, <2>1, <2>2 DEF Follow
  <1>2. CASE x \notin G
    <2>1. CASE LastSays(m, x, "REMOVE")
      BY <1>2, <2>1, LastRight DEF Follow
    <2>2. CASE Silent(m, x) /\ x \notin E
      <3>1. CASE LastSays(q, x, "REMOVE")
        BY <1>2, <2>2, <3>1, LastLeft DEF Follow
      <3>2. CASE Silent(q, x) /\ x \notin F
        BY <1>2, <2>2, <3>2, BothSilent DEF Follow
      <3> QED
        BY <2>2, <3>1, <3>2 DEF Follow
    <2> QED
      BY <1>2, <2>1, <2>2 DEF Follow
  <1> QED
    BY <1>1, <1>2

\* Whoever follows the right ones already goes on to.
LEMMA FollowSettled ==
    ASSUME NEW q, NEW x, NEW F, NEW E, Follow(q, x, F, E)
    PROVE  Follow(q, x, E, E)
  BY DEF Follow

LEMMA FollowSilent ==
    ASSUME NEW q, NEW x, NEW F, Silent(q, x)
    PROVE  Follow(q, x, F, F)
  BY DEF Follow

\* The first message is read.
LEMMA FollowRead ==
    ASSUME NEW t, NEW q, NEW x, NEW F, NEW E, NEW G, Shifted(t, q),
           Follow(q, x, F, E),
           About(q[1], x) /\ q[1].type = "ADD" => x \in G,
           About(q[1], x) /\ q[1].type = "REMOVE" => x \notin G,
           ~About(q[1], x) => (x \in G <=> x \in F)
    PROVE  Follow(t, x, G, E)
  <1>1. Silent(q, x) => Silent(t, x) /\ (x \in G <=> x \in F)
    BY DEF Silent, Shifted
  <1>2. ASSUME NEW y \in {"ADD", "REMOVE"}, LastSays(q, x, y)
        PROVE  LastSays(t, x, y) \/ (Silent(t, x) /\ (x \in G <=> y = "ADD"))
    <2>1. PICK k \in DOMAIN q :
            /\ About(q[k], x) /\ q[k].type = y
            /\ \A j \in DOMAIN q : j > k /\ About(q[j], x) => q[j].type = y
      BY <1>2 DEF LastSays
    <2>2. CASE k = 1
      <3>1. x \in G <=> y = "ADD"
        BY <1>2, <2>1, <2>2
      <3>2. CASE Silent(t, x)
        BY <3>1, <3>2
      <3>3. CASE ~Silent(t, x)
        <4>1. PICK i \in DOMAIN t : About(t[i], x)
          BY <3>3 DEF Silent
        <4>2. \A j \in DOMAIN t : About(t[j], x) => t[j].type = y
          BY <2>1, <2>2 DEF Shifted
        <4> QED
          BY <4>1, <4>2 DEF LastSays
      <3> QED
        BY <3>2, <3>3
    <2>3. CASE k # 1
      <3>1. k - 1 \in DOMAIN t /\ About(t[k - 1], x) /\ t[k - 1].type = y
        BY <2>1, <2>3 DEF Shifted
      <3>2. ASSUME NEW j \in DOMAIN t, j > k - 1, About(t[j], x)
            PROVE  t[j].type = y
        <4>1. j + 1 \in DOMAIN q /\ j + 1 > k /\ t[j] = q[j + 1]
          BY <2>1, <3>2 DEF Shifted
        <4> QED
          BY <2>1, <3>2, <4>1
      <3> QED
        BY <3>1, <3>2 DEF LastSays
    <2> QED
      BY <2>2, <2>3
  <1>3. "ADD" # "REMOVE"
    OBVIOUS
  <1>4. CASE x \in E
    <2>1. CASE LastSays(q, x, "ADD")
      BY <1>2, <1>4, <2>1 DEF Follow
    <2>2. CASE Silent(q, x) /\ x \in F
      BY <1>1, <1>4, <2>2 DEF Follow
    <2> QED
      BY <1>4, <2>1, <2>2 DEF Follow
  <1>5. CASE x \notin E
    <2>1. CASE LastSays(q, x, "REMOVE")
      BY <1>2, <1>3, <1>5, <2>1 DEF Follow
    <2>2. CASE Silent(q, x) /\ x \notin F
      BY <1>1, <1>5, <2>2 DEF Follow
    <2> QED
      BY <1>5, <2>1, <2>2 DEF Follow
  <1> QED
    BY <1>4, <1>5

LEMMA WatchBehind ==
    ASSUME NEW t, NEW q, NEW m, NEW W, NEW A, NEW B, Behind(t, q, m),
           Watching(q, W, A), Watching(m, A, B)
    PROVE  Watching(t, W, B)
  <1>1. CASE LastWatches(m, B)
    <2>1. PICK k \in DOMAIN m :
            /\ m[k].type = "WATCH" /\ m[k].keys = B
            /\ \A j \in DOMAIN m : j > k /\ m[j].type = "WATCH" => m[j].keys = B
      BY <1>1 DEF LastWatches
    <2>2. /\ Len(q) + k \in DOMAIN t /\ t[Len(q) + k].type = "WATCH"
          /\ t[Len(q) + k].keys = B
      BY <2>1 DEF Behind
    <2>3. ASSUME NEW j \in DOMAIN t, j > Len(q) + k, t[j].type = "WATCH"
          PROVE  t[j].keys = B
      <3>1. PICK i \in DOMAIN m : j = Len(q) + i /\ t[j] = m[i] /\ i > k
        BY <2>1, <2>3 DEF Behind
      <3> QED
        BY <2>1, <2>3, <3>1
    <2> QED
      BY <2>2, <2>3 DEF LastWatches, Watching
  <1>2. CASE (\A k \in DOMAIN m : m[k].type # "WATCH") /\ A = B
    <2>1. CASE LastWatches(q, A)
      <3>1. PICK k \in DOMAIN q :
              /\ q[k].type = "WATCH" /\ q[k].keys = A
              /\ \A j \in DOMAIN q : j > k /\ q[j].type = "WATCH" => q[j].keys = A
        BY <2>1 DEF LastWatches
      <3>2. k \in DOMAIN t /\ t[k].type = "WATCH" /\ t[k].keys = B
        BY <1>2, <3>1 DEF Behind
      <3>3. \A j \in DOMAIN t : t[j].type = "WATCH" => j \in DOMAIN q /\ t[j] = q[j]
        BY <1>2 DEF Behind
      <3> QED
        BY <1>2, <3>1, <3>2, <3>3 DEF LastWatches, Watching
    <2>2. CASE (\A k \in DOMAIN q : q[k].type # "WATCH") /\ W = A
      BY <1>2, <2>2 DEF Behind, Watching
    <2> QED
      BY <2>1, <2>2 DEF Watching
  <1> QED
    BY <1>1, <1>2 DEF Watching

LEMMA WatchRead ==
    ASSUME NEW t, NEW q, NEW W, NEW V, NEW A, Shifted(t, q), Watching(q, W, A),
           q[1].type = "WATCH" => V = q[1].keys,
           q[1].type # "WATCH" => V = W
    PROVE  Watching(t, V, A)
  <1>1. CASE LastWatches(q, A)
    <2>1. PICK k \in DOMAIN q :
            /\ q[k].type = "WATCH" /\ q[k].keys = A
            /\ \A j \in DOMAIN q : j > k /\ q[j].type = "WATCH" => q[j].keys = A
      BY <1>1 DEF LastWatches
    <2>2. CASE k = 1
      <3>1. V = A
        BY <2>1, <2>2
      <3>2. \A j \in DOMAIN t : t[j].type = "WATCH" => t[j].keys = A
        BY <2>1, <2>2 DEF Shifted
      <3> QED
        BY <3>1, <3>2 DEF Watching, LastWatches
    <2>3. CASE k # 1
      <3>1. k - 1 \in DOMAIN t /\ t[k - 1].type = "WATCH" /\ t[k - 1].keys = A
        BY <2>1, <2>3 DEF Shifted
      <3>2. ASSUME NEW j \in DOMAIN t, j > k - 1, t[j].type = "WATCH"
            PROVE  t[j].keys = A
        <4>1. j + 1 \in DOMAIN q /\ j + 1 > k /\ t[j] = q[j + 1]
          BY <2>1, <3>2 DEF Shifted
        <4> QED
          BY <2>1, <3>2, <4>1
      <3> QED
        BY <3>1, <3>2 DEF LastWatches, Watching
    <2> QED
      BY <2>2, <2>3
  <1>2. CASE (\A k \in DOMAIN q : q[k].type # "WATCH") /\ W = A
    BY <1>2 DEF Shifted, Watching
  <1> QED
    BY <1>1, <1>2 DEF Watching

-----------------------------------------------------------------------------
(* The status of one user.                                                 *)

\* Something is written.
LEMMA CurrentWritten ==
    ASSUME NEW u, NEW ts, NEW tc, NEW s, NEW p, NEW t, NEW m,
           Current(u, ts, tc, s, p), Behind(t, ts, m)
    PROVE  Current(u, t, tc, s, p)
  BY DEF Current, Asked, Behind

\* It is asked for.
LEMMA CurrentAsked ==
    ASSUME NEW u, NEW tc, NEW s, NEW p, NEW t, NEW q, NEW m,
           Behind(t, q, m), LastSays(m, u, "ADD")
    PROVE  Current(u, t, tc, s, p)
  <1>1. PICK k \in DOMAIN m : m[k].type = "ADD" /\ u \in m[k].ids
    BY DEF LastSays, About
  <1>2. Len(q) + k \in DOMAIN t /\ t[Len(q) + k] = m[k]
    BY <1>1 DEF Behind
  <1> QED
    BY <1>1, <1>2 DEF Current, Asked

\* The client made one up.
LEMMA CurrentSet ==
    ASSUME NEW u, NEW ts, NEW tc, NEW s, NEW p, Current(u, ts, tc, s, p)
    PROVE  Current(u, ts, tc, "set", p)
  BY DEF Current

\* The client reads news of it, or other news.
LEMMA CurrentReceived ==
    ASSUME NEW u, NEW ts, NEW tc, NEW s, NEW r, NEW p, NEW t,
           Current(u, ts, tc, s, p), Shifted(t, tc),
           Tells(tc[1], u) => r = tc[1].status,
           ~Tells(tc[1], u) => r = s
    PROVE  Current(u, ts, t, r, p)
  <1>1. CASE Asked(ts, u)
    BY <1>1 DEF Current
  <1>2. CASE Untold(tc, u) /\ s \in {p, "set"}
    BY <1>2 DEF Current, Untold, Shifted
  <1>3. CASE Told(tc, u, p)
    <2>1. PICK k \in DOMAIN tc :
            /\ Tells(tc[k], u)
            /\ \A j \in DOMAIN tc : j >= k /\ Tells(tc[j], u) => tc[j].status = p
      BY <1>3 DEF Told
    <2>2. CASE k = 1
      <3>1. r = p /\ \A j \in DOMAIN t : Tells(t[j], u) => t[j].status = p
        BY <2>1, <2>2 DEF Shifted
      <3> QED
        BY <3>1 DEF Current, Told, Untold
    <2>3. CASE k # 1
      <3>1. k - 1 \in DOMAIN t /\ Tells(t[k - 1], u)
        BY <2>1, <2>3 DEF Shifted
      <3>2. ASSUME NEW j \in DOMAIN t, j >= k - 1, Tells(t[j], u)
            PROVE  t[j].status = p
        <4>1. j + 1 \in DOMAIN tc /\ j + 1 >= k /\ t[j] = tc[j + 1]
          BY <2>1, <3>2 DEF Shifted
        <4> QED
          BY <2>1, <3>2, <4>1
      <3> QED
        BY <3>1, <3>2 DEF Current, Told
    <2> QED
      BY <2>2, <2>3
  <1> QED
    BY <1>1, <1>2, <1>3 DEF Current

\* The server sends news that is true.
LEMMA CurrentTold ==
    ASSUME NEW u, NEW ts, NEW tc, NEW s, NEW p, NEW q, NEW m, Behind(q, tc, m),
           \A j \in DOMAIN m : Tells(m[j], u) => m[j].status = p
    PROVE  /\ Current(u, ts, tc, s, p) => Current(u, ts, q, s, p)
           /\ ~Untold(m, u) => Current(u, ts, q, s, p)
  <1>1. ASSUME ~Untold(m, u)
        PROVE  Told(q, u, p)
    <2>1. PICK k \in DOMAIN m : Tells(m[k], u)
      BY <1>1 DEF Untold
    <2>2. Len(tc) + k \in DOMAIN q /\ Tells(q[Len(tc) + k], u)
      BY <2>1 DEF Behind
    <2>3. \A j \in DOMAIN q : j >= Len(tc) + k /\ Tells(q[j], u) => q[j].status = p
      BY <2>1 DEF Behind
    <2> QED
      BY <2>2, <2>3 DEF Told
  <1>2. ASSUME Untold(m, u), Told(tc, u, p)
        PROVE  Told(q, u, p)
    <2>1. PICK k \in DOMAIN tc :
            /\ Tells(tc[k], u)
            /\ \A j \in DOMAIN tc : j >= k /\ Tells(tc[j], u) => tc[j].status = p
      BY <1>2 DEF Told
    <2>2. k \in DOMAIN q /\ Tells(q[k], u)
      BY <2>1 DEF Behind
    <2>3. \A j \in DOMAIN q : Tells(q[j], u) => j \in DOMAIN tc /\ q[j] = tc[j]
      BY <1>2 DEF Behind, Untold
    <2> QED
      BY <2>1, <2>2, <2>3 DEF Told
  <1>3. Untold(m, u) /\ Untold(tc, u) => Untold(q, u)
    BY DEF Untold, Behind
  <1> QED
    BY <1>1, <1>2, <1>3 DEF Current

\* The server reads something that does not ask for it.
LEMMA CurrentRead ==
    ASSUME NEW u, NEW ts, NEW tc, NEW s, NEW p, NEW t,
           Current(u, ts, tc, s, p), Shifted(t, ts),
           ts[1].type = "ADD" => u \notin ts[1].ids
    PROVE  Current(u, t, tc, s, p)
  <1>1. Asked(ts, u) => Asked(t, u)
    BY DEF Asked, Shifted
  <1> QED
    BY <1>1 DEF Current

-----------------------------------------------------------------------------
(* The parts of the invariant, for values.                                 *)

LEMMA TypeParts == TypeOK <=> Tables /\ Links
  BY DEF TypeOK, Tables, Links

LEMMA QueuedNext ==
    ASSUME NEW o, NEW E, NEW A, o = outq', E = entries', A = attribs',
           sstate' = "STARTING" =>
              (\A x \in Ids : Follow(o, x, E, E)) /\ Watching(o, A, A)
    PROVE  Queued'
  BY DEF Queued, Follow, Watching, LastSays, Silent, About, LastWatches

LEMMA FollowingNext ==
    ASSUME NEW t, NEW E, NEW A, NEW F, NEW W, t = toServer', E = entries', A = attribs',
           F = followed', W = watched',
           Connected' => (\A x \in Ids : Follow(t, x, F, E)) /\ Watching(t, W, A)
    PROVE  Following'
  BY DEF Following, Follow, Watching, LastSays, Silent, About, LastWatches

LEMMA FreshNext ==
    ASSUME NEW t, NEW q, t = toServer', q = toClient',
           Connected' => \A u \in Users : u \in entries' =>
              \E s, p : s = status'[u] /\ p = presence'[u] /\ Current(u, t, q, s, p)
    PROVE  Fresh'
  BY DEF Fresh, Current, Asked, Told, Untold, Tells

LEMMA MessageFacts ==
    /\ \A m \in ToServer :
          /\ m.type \in {"CREATE", "ADD", "REMOVE", "WATCH"}
          /\ m.chan \in 1..MaxChans
          /\ m.type \in {"ADD", "REMOVE"} => m.ids \in SUBSET Ids
          /\ m.type = "WATCH" => m.keys \in SUBSET Keys
    /\ \A m \in ToClient :
          /\ m.type \in {"ACCEPT", "DESTROY", "STATUS"}
          /\ m.chan \in 1..MaxChans
          /\ m.type = "STATUS" => /\ m.id \in Users /\ m.group \in Groups \cup {NoGroup}
                                  /\ m.status \in Presence
  BY DEF ToServer, ToClient

LEMMA OneMessage ==
    ASSUME NEW A, NEW m \in A
    PROVE  /\ <<m>> \in Seq(A)
           /\ DOMAIN <<m>> = {1} /\ <<m>>[1] = m
  OBVIOUS

\* No message at all.
LEMMA NoMessage ==
    ASSUME NEW A
    PROVE  <<>> \in Seq(A) /\ ~ \E j : j \in DOMAIN <<>>
  OBVIOUS

\* One message, or none, and what is followed and watched after it.
LEMMA FollowOne ==
    ASSUME NEW m, NEW F, NEW x, DOMAIN m = {1}
    PROVE  /\ m[1].type = "ADD" => Follow(m, x, F, F \cup m[1].ids)
           /\ m[1].type = "REMOVE" => Follow(m, x, F, F \ m[1].ids)
           /\ m[1].type \notin {"ADD", "REMOVE"} => Follow(m, x, F, F)
  <1>1. 1 \in DOMAIN m /\ \A j \in DOMAIN m : j = 1
    OBVIOUS
  <1>2. CASE About(m[1], x)
    <2>1. LastSays(m, x, m[1].type)
      BY <1>1, <1>2 DEF LastSays
    <2> QED
      BY <1>2, <2>1 DEF About, Follow
  <1>3. CASE ~About(m[1], x)
    <2>1. Silent(m, x)
      BY <1>1, <1>3 DEF Silent
    <2> QED
      BY <1>3, <2>1 DEF About, Follow
  <1> QED
    BY <1>2, <1>3

LEMMA WatchOne ==
    ASSUME NEW m, NEW W, DOMAIN m = {1}
    PROVE  /\ m[1].type = "WATCH" => Watching(m, W, m[1].keys)
           /\ m[1].type # "WATCH" => Watching(m, W, W)
  <1>1. 1 \in DOMAIN m /\ \A j \in DOMAIN m : j = 1
    OBVIOUS
  <1> QED
    BY <1>1 DEF Watching, LastWatches

LEMMA FollowNone ==
    ASSUME NEW m, NEW F, NEW x, NEW W, ~ \E j : j \in DOMAIN m
    PROVE  Follow(m, x, F, F) /\ Watching(m, W, W)
  BY DEF Follow, Watching, Silent

-----------------------------------------------------------------------------
(* Calls and handlers write by Sends: onto the wire, into the queue of a   *)
(* channel that is being opened, or not at all.                            *)

LEMMA SendsEffect ==
    ASSUME Links, NEW m \in Seq(ToServer), Sends(m)
    PROVE  \E t \in Seq(ToServer), o \in Seq(ToServer) :
             /\ t = toServer' /\ o = outq'
             /\ sstate = "STARTED" /\ up => Behind(t, toServer, m) /\ o = outq
             /\ sstate = "STARTING" => t = toServer /\ Behind(o, outq, m)
             /\ sstate # "STARTING" /\ ~(sstate = "STARTED" /\ up) =>
                  t = toServer /\ o = outq
  <1>1. toServer \in Seq(ToServer) /\ outq \in Seq(ToServer)
    BY DEF Links
  <1>2. /\ toServer \o m \in Seq(ToServer) /\ Behind(toServer \o m, toServer, m)
        /\ outq \o m \in Seq(ToServer) /\ Behind(outq \o m, outq, m)
    BY <1>1, ConcatBehind
  <1>3. CASE sstate = "STARTED" /\ up
    BY <1>1, <1>2, <1>3 DEF Sends
  <1>4. CASE sstate = "STARTING"
    BY <1>1, <1>2, <1>4 DEF Sends
  <1>5. CASE sstate # "STARTING" /\ ~(sstate = "STARTED" /\ up)
    BY <1>1, <1>5 DEF Sends
  <1> QED
    BY <1>3, <1>4, <1>5

\* What a step may do to what the server sent, as far as it is the client's.
Taking == toClient' = toClient \/ (toClient # <<>> /\ toClient' = Tail(toClient))

LEMMA Taken ==
    ASSUME Links, Wired, Taking
    PROVE  \E q \in Seq(ToClient) :
             /\ q = toClient'
             /\ \A i \in DOMAIN q : q[i].chan = nchan
             /\ ~on => q = <<>>
             /\ toClient = <<>> => q = <<>>
             /\ q = toClient \/ (Shifted(q, toClient) /\ Head(toClient) = toClient[1])
  <1>1. CASE toClient' = toClient
    BY <1>1 DEF Links, Wired
  <1>2. CASE toClient # <<>> /\ toClient' = Tail(toClient)
    <2>1. /\ Tail(toClient) \in Seq(ToClient) /\ Shifted(Tail(toClient), toClient)
          /\ Head(toClient) = toClient[1]
      BY <1>2, TailShifted DEF Links
    <2>2. \A i \in DOMAIN Tail(toClient) : Tail(toClient)[i].chan = nchan
      BY <2>1 DEF Shifted, Wired
    <2> QED
      BY <1>2, <2>1, <2>2 DEF Wired
  <1> QED
    BY <1>1, <1>2 DEF Taking

LEMMA SendsKeeps ==
    ASSUME Links, Wired, Queued, Following, NEW m \in Seq(ToServer), NEW E, NEW A,
           E = entries', A = attribs', Sends(m), Taking,
           on' = on, up' = up, sstate' = sstate, chan' = chan, nchan' = nchan,
           srvChan' = srvChan, followed' = followed, watched' = watched,
           presence' = presence,
           \A j \in DOMAIN m : m[j].chan = chan /\ m[j].type # "CREATE",
           Live => \A x \in Ids : Follow(m, x, entries, E),
           Live => Watching(m, attribs, A)
    PROVE  Links' /\ Wired' /\ Queued' /\ Following'
  <1>1. PICK t \in Seq(ToServer), o \in Seq(ToServer) :
          /\ t = toServer' /\ o = outq'
          /\ sstate = "STARTED" /\ up => Behind(t, toServer, m) /\ o = outq
          /\ sstate = "STARTING" => t = toServer /\ Behind(o, outq, m)
          /\ sstate # "STARTING" /\ ~(sstate = "STARTED" /\ up) =>
               t = toServer /\ o = outq
    BY SendsEffect
  <1>2. PICK q \in Seq(ToClient) :
          /\ q = toClient'
          /\ \A i \in DOMAIN q : q[i].chan = nchan
          /\ ~on => q = <<>>
          /\ toClient = <<>> => q = <<>>
    BY Taken
  <1>3. Links'
    BY <1>1, <1>2 DEF Links
  <1>4. Wired'
    <2>1. sstate # "STOPPED" => chan = nchan
      BY DEF Wired
    <2>2. \A i \in DOMAIN t : t[i].chan = nchan
      <3>1. CASE sstate = "STARTED" /\ up
        BY <1>1, <2>1, <3>1 DEF Wired, Behind
      <3>2. CASE t = toServer
        BY <3>2 DEF Wired
      <3> QED
        BY <1>1, <3>1, <3>2
    <2>3. \A i \in DOMAIN o : o[i].type # "CREATE" /\ o[i].chan = nchan
      <3>1. CASE sstate = "STARTING"
        <4>1. Behind(o, outq, m) /\ chan = nchan
          BY <1>1, <2>1, <3>1
        <4>2. \A i \in DOMAIN outq : outq[i].type # "CREATE" /\ outq[i].chan = nchan
          BY DEF Wired
        <4>3. \A j \in DOMAIN m : m[j].type # "CREATE" /\ m[j].chan = nchan
          BY <4>1
        <4>4. ASSUME NEW i \in DOMAIN o
              PROVE  \/ i \in DOMAIN outq /\ o[i] = outq[i]
                     \/ \E j \in DOMAIN m : o[i] = m[j]
          BY <4>1, <4>4 DEF Behind
        <4> QED
          BY <4>2, <4>3, <4>4
      <3>2. CASE o = outq
        BY <3>2 DEF Wired
      <3> QED
        BY <1>1, <3>1, <3>2
    <2>4. \A i \in DOMAIN t : t[i].type = "CREATE" =>
            \E j \in DOMAIN toServer : toServer[j].type = "CREATE"
      <3>1. CASE sstate = "STARTED" /\ up
        BY <1>1, <3>1 DEF Behind
      <3>2. CASE t = toServer
        BY <3>2
      <3> QED
        BY <1>1, <3>1, <3>2
    <2>5. \A i \in DOMAIN t : t[i].type = "CREATE" =>
            sstate = "STARTING" /\ srvChan = 0 /\ q = <<>>
      BY <1>2, <2>4 DEF Wired
    <2>6. sstate # "STARTING" => o = <<>>
      BY <1>1 DEF Wired
    <2>7. ~up => t = <<>>
      BY <1>1 DEF Wired
    <2>8. sstate = "STARTING" => \A i \in DOMAIN t : i = 1 /\ t[i].type = "CREATE"
      BY <1>1 DEF Wired
    <2> QED
      BY <1>1, <1>2, <2>2, <2>3, <2>5, <2>6, <2>7, <2>8 DEF Wired
  <1>5. Queued'
    <2>1. ASSUME sstate = "STARTING"
          PROVE  (\A x \in Ids : Follow(o, x, E, E)) /\ Watching(o, A, A)
      <3>1. Live /\ Behind(o, outq, m)
        BY <1>1, <2>1 DEF Live
      <3>2. ASSUME NEW x \in Ids PROVE Follow(o, x, E, E)
        <4>1. Follow(outq, x, entries, entries)
          BY <2>1 DEF Queued
        <4>2. Follow(m, x, entries, E)
          BY <3>1
        <4>3. Follow(o, x, entries, E)
          BY <3>1, <4>1, <4>2, FollowBehind
        <4> QED
          BY <4>3, FollowSettled
      <3>3. Watching(o, attribs, A)
        BY <2>1, <3>1, WatchBehind DEF Queued
      <3>4. Watching(o, A, A)
        BY <3>3 DEF Watching
      <3> QED
        BY <3>2, <3>4
    <2> QED
      BY <1>1, <2>1, QueuedNext
  <1>6. Following'
    <2>1. ASSUME Connected
          PROVE  /\ \A x \in Ids : Follow(t, x, followed, E)
                 /\ Watching(t, watched, A)
      <3>1. Live /\ Behind(t, toServer, m)
        BY <1>1, <2>1 DEF Live, Connected
      <3>2. ASSUME NEW x \in Ids PROVE Follow(t, x, followed, E)
        <4>1. Follow(toServer, x, followed, entries)
          BY <2>1 DEF Following
        <4>2. Follow(m, x, entries, E)
          BY <3>1
        <4> QED
          BY <3>1, <4>1, <4>2, FollowBehind
      <3>3. Watching(t, watched, A)
        BY <2>1, <3>1, WatchBehind DEF Following
      <3> QED
        BY <3>2, <3>3
    <2>2. Connected' <=> Connected
      BY DEF Connected
    <2> QED
      BY <1>1, <2>1, <2>2, FollowingNext
  <1> QED
    BY <1>3, <1>4, <1>5, <1>6

-----------------------------------------------------------------------------
(* Calls of the client.                                                    *)

LEMMA LiveChannel ==
    ASSUME Links, Wired
    PROVE  /\ Live <=> chan # 0
           /\ Live => chan = nchan /\ chan \in 1..MaxChans
  <1>1. MaxChans \in Nat
    BY BoundsAssumption DEF MaxChans
  <1> QED
    BY <1>1 DEF Links, Wired, Live

LEMMA EmptySends ==
    ASSUME Links, UNCHANGED <<toServer, outq>>
    PROVE  Sends(<<>>)
  <1>1. toServer \o <<>> = toServer /\ outq \o <<>> = outq
    BY ConcatEmptySeq DEF Links
  <1> QED
    BY <1>1 DEF Sends

\* A call that tells the server of what it changes keeps the invariant.
LEMMA CallKeeps ==
    ASSUME Inv, NEW m \in Seq(ToServer), NEW E, NEW A, E = entries', A = attribs',
           Call, Sends(m), Tables',
           \A j \in DOMAIN m : m[j].chan = chan /\ m[j].type # "CREATE",
           Live => \A x \in Ids : Follow(m, x, entries, E),
           Live => Watching(m, attribs, A),
           \A u \in entries : u \in E => status'[u] \in {status[u], "set"}
    PROVE  Inv'
  <1>1. /\ on' = on /\ up' = up /\ sstate' = sstate /\ chan' = chan
        /\ nchan' = nchan /\ srvChan' = srvChan /\ followed' = followed
        /\ watched' = watched /\ presence' = presence /\ toClient' = toClient
    BY DEF Call, server
  <1>2. Links' /\ Wired' /\ Queued' /\ Following'
    BY <1>1, SendsKeeps DEF Inv, Taking
  <1>3. PICK t \in Seq(ToServer), o \in Seq(ToServer) :
          /\ t = toServer' /\ o = outq'
          /\ sstate = "STARTED" /\ up => Behind(t, toServer, m) /\ o = outq
    BY SendsEffect DEF Inv
  <1>4. PICK q : q = toClient' /\ q = toClient
    BY <1>1
  <1>5. Connected' => Connected
    BY <1>1 DEF Connected
  <1>6. ASSUME Connected, NEW u \in Users, u \in E
        PROVE  \E s, p : /\ s = status'[u] /\ p = presence'[u]
                         /\ Current(u, t, q, s, p)
    <2>1. Behind(t, toServer, m) /\ Live
      BY <1>3, <1>6 DEF Connected, Live
    <2>2. CASE u \in entries
      <3>1. Current(u, toServer, q, status[u], presence[u])
        BY <1>4, <1>6, <2>2 DEF Inv, Fresh
      <3>2. Current(u, t, q, status[u], presence[u])
        BY <2>1, <3>1, CurrentWritten
      <3>3. Current(u, t, q, "set", presence[u])
        BY <3>2, CurrentSet
      <3>4. status'[u] \in {status[u], "set"} /\ presence'[u] = presence[u]
        BY <1>1, <1>6, <2>2
      <3> QED
        BY <3>2, <3>3, <3>4
    <2>3. CASE u \notin entries
      <3>1. Follow(m, u, entries, E)
        BY <2>1 DEF Ids
      <3>2. LastSays(m, u, "ADD")
        BY <1>6, <2>3, <3>1 DEF Follow
      <3> QED
        BY <2>1, <3>2, CurrentAsked
    <2> QED
      BY <2>2, <2>3
  <1>7. Fresh'
    BY <1>3, <1>4, <1>5, <1>6, FreshNext
  <1> QED
    BY <1>2, <1>7 DEF Inv

\* The tables after ids xs are added to the lists ls.
LEMMA AddTables ==
    ASSUME Tables, NEW ls \in SUBSET lists, NEW xs \in SUBSET Ids, list_add(ls, xs)
    PROVE  /\ listIds' \in [Lists -> SUBSET Ids]
           /\ \A l \in Lists \ lists : listIds'[l] = {}
           /\ membership' = [x \in Ids |-> {l \in Lists : x \in listIds'[l]}]
           /\ entries' = {x \in Ids : membership'[x] # {}}
  <1>1. /\ lists \subseteq Lists /\ listIds \in [Lists -> SUBSET Ids]
        /\ \A l \in Lists \ lists : listIds[l] = {}
        /\ membership = [x \in Ids |-> {l \in Lists : x \in listIds[l]}]
        /\ entries = {x \in Ids : membership[x] # {}}
    BY DEF Tables
  <1>2. /\ listIds' \in [Lists -> SUBSET Ids]
        /\ \A l \in Lists : listIds'[l] =
             IF l \in ls THEN listIds[l] \cup xs ELSE listIds[l]
    BY <1>1 DEF list_add
  <1>3. \A x \in Ids : membership'[x] =
          IF x \in xs THEN membership[x] \cup ls ELSE membership[x]
    BY DEF list_add
  <1>4. ASSUME NEW x \in Ids
        PROVE  membership'[x] = {l \in Lists : x \in listIds'[l]}
    <2>1. membership[x] = {l \in Lists : x \in listIds[l]}
      BY <1>1
    <2>2. ASSUME NEW l
          PROVE  l \in membership'[x] <=> l \in Lists /\ x \in listIds'[l]
      <3>1. l \in membership[x] <=> l \in Lists /\ x \in listIds[l]
        BY <2>1
      <3>2. CASE x \in xs
        <4>1. membership'[x] = membership[x] \cup ls /\ ls \subseteq Lists
          BY <1>1, <1>3, <3>2
        <4>2. l \in Lists => (x \in listIds'[l] <=> x \in listIds[l] \/ l \in ls)
          BY <1>2, <3>2
        <4> QED
          BY <3>1, <4>1, <4>2
      <3>3. CASE x \notin xs
        BY <1>1, <1>2, <1>3, <3>1, <3>3
      <3> QED
        BY <3>2, <3>3
    <2> QED
      BY <2>2
  <1>5. membership' = [x \in Ids |-> membership'[x]]
    BY DEF list_add
  <1>6. membership' = [x \in Ids |-> {l \in Lists : x \in listIds'[l]}]
    BY <1>4, <1>5
  <1>7. entries' = IF ls = {} THEN entries ELSE entries \cup xs
    BY DEF list_add
  <1>8. ASSUME NEW x PROVE x \in entries' <=> x \in Ids /\ membership'[x] # {}
    <2>1. x \in entries <=> x \in Ids /\ membership[x] # {}
      BY <1>1
    <2> QED
      BY <1>3, <1>7, <2>1
  <1>9. entries' = {x \in Ids : membership'[x] # {}}
    BY <1>8
  <1>10. \A l \in Lists \ lists : listIds'[l] = {}
    BY <1>1, <1>2
  <1> QED
    BY <1>2, <1>6, <1>9, <1>10

\* The tables after ids xs are removed from list k.
LEMMA RemoveTables ==
    ASSUME Tables, NEW k \in lists, NEW xs \in SUBSET Ids, NEW in,
           in = [x \in Ids |-> IF x \in xs THEN membership[x] \ {k} ELSE membership[x]],
           listIds' = [listIds EXCEPT ![k] = @ \ xs], remove_unused(in)
    PROVE  /\ listIds' \in [Lists -> SUBSET Ids]
           /\ \A l \in Lists \ lists : listIds'[l] = {}
           /\ membership' = [x \in Ids |-> {l \in Lists : x \in listIds'[l]}]
           /\ entries' = {x \in Ids : membership'[x] # {}}
           /\ status' \in [Ids -> Presence \cup {"unknown", "set"}]
           /\ entries' = entries \ Dead(in) /\ Dead(in) \subseteq Ids
           /\ \A x \in entries : x \in entries' => status'[x] = status[x]
  <1>1. /\ lists \subseteq Lists /\ listIds \in [Lists -> SUBSET Ids]
        /\ \A l \in Lists \ lists : listIds[l] = {}
        /\ membership = [x \in Ids |-> {l \in Lists : x \in listIds[l]}]
        /\ entries = {x \in Ids : membership[x] # {}}
        /\ status \in [Ids -> Presence \cup {"unknown", "set"}]
    BY DEF Tables
  <1>2. /\ listIds' \in [Lists -> SUBSET Ids]
        /\ \A l \in Lists : listIds'[l] = IF l = k THEN listIds[l] \ xs ELSE listIds[l]
    BY <1>1
  <1>3. /\ membership' = in
        /\ entries' = entries \ Dead(in)
        /\ status' = [x \in Ids |-> IF x \in Dead(in) THEN "unknown" ELSE status[x]]
    BY DEF remove_unused
  <1>4. ASSUME NEW x \in Ids
        PROVE  in[x] = {l \in Lists : x \in listIds'[l]}
    <2>1. membership[x] = {l \in Lists : x \in listIds[l]}
      BY <1>1
    <2> QED
      BY <1>1, <1>2, <2>1
  <1>5. in = [x \in Ids |-> in[x]]
    OBVIOUS
  <1>6. in = [x \in Ids |-> {l \in Lists : x \in listIds'[l]}]
    BY <1>4, <1>5
  <1>7. Dead(in) = {x \in entries : in[x] = {}}
    BY DEF Dead
  <1>8. ASSUME NEW x PROVE x \in entries' <=> x \in Ids /\ in[x] # {}
    <2>1. x \in entries <=> x \in Ids /\ membership[x] # {}
      BY <1>1
    <2> QED
      BY <1>3, <1>7, <2>1
  <1>9. entries' = {x \in Ids : in[x] # {}}
    BY <1>8
  <1>10. \A l \in Lists \ lists : listIds'[l] = {}
    BY <1>1, <1>2
  <1>11. status' \in [Ids -> Presence \cup {"unknown", "set"}]
    BY <1>1, <1>3
  <1>12. Dead(in) \subseteq Ids /\ \A x \in entries : x \in entries' => status'[x] = status[x]
    BY <1>1, <1>3, <1>7
  <1> QED
    BY <1>2, <1>3, <1>6, <1>9, <1>10, <1>11, <1>12

\* A step that leaves the tables of ids alone, or those of attributes.
LEMMA KeysKept ==
    ASSUME Tables, lists' = lists, listKeys' = listKeys, attribs' = attribs,
           watchers' = watchers, listIds' \in [Lists -> SUBSET Ids],
           \A l \in Lists \ lists : listIds'[l] = {},
           membership' = [x \in Ids |-> {l \in Lists : x \in listIds'[l]}],
           entries' = {x \in Ids : membership'[x] # {}},
           status' = status \/ status' \in [Ids -> Presence \cup {"unknown", "set"}]
    PROVE  Tables'
  <1>1. status' \in [Ids -> Presence \cup {"unknown", "set"}]
    BY DEF Tables
  <1> QED
    BY <1>1 DEF Tables

LEMMA IdsKept ==
    ASSUME Tables, lists' = lists, listIds' = listIds, entries' = entries,
           membership' = membership, status' = status,
           listKeys' \in [Lists -> SUBSET Keys],
           \A l \in Lists \ lists : listKeys'[l] = {},
           watchers' = [k \in Keys |-> {l \in Lists : k \in listKeys'[l]}],
           attribs' = {k \in Keys : watchers'[k] # {}}
    PROVE  Tables'
  BY DEF Tables

LEMMA AddAware ==
    ASSUME Inv, NEW l \in lists, NEW xs \in SUBSET Ids, mwAwareList_addAware(l, xs)
    PROVE  Inv'
  <1> DEFINE additions == xs \ listIds[l]
             m == IF Live /\ additions # {} THEN <<Add(additions)>> ELSE <<>>
  <1>1. /\ Call /\ list_add({l}, xs) /\ Sends(m)
        /\ UNCHANGED <<lists, listKeys, status, attribs, watchers>>
    BY DEF mwAwareList_addAware
  <1>2. Tables /\ Links /\ Wired
    BY DEF Inv
  <1>3. Tables' /\ entries' = entries \cup xs
    <2>1. entries' = entries \cup xs
      BY <1>1 DEF list_add
    <2>2. /\ listIds' \in [Lists -> SUBSET Ids]
          /\ \A k \in Lists \ lists : listIds'[k] = {}
          /\ membership' = [x \in Ids |-> {k \in Lists : x \in listIds'[k]}]
          /\ entries' = {x \in Ids : membership'[x] # {}}
      BY <1>1, <1>2, AddTables
    <2>3. /\ lists' = lists /\ listKeys' = listKeys /\ status' = status
          /\ attribs' = attribs /\ watchers' = watchers
      BY <1>1
    <2>4. Tables'
      BY <1>2, <2>2, <2>3, KeysKept
    <2> QED
      BY <2>1, <2>4
  <1>4. listIds[l] \subseteq entries
    BY <1>2 DEF Tables
  <1>5. entries' = entries \cup additions
    BY <1>3, <1>4
  <1>6. CASE Live /\ additions # {}
    <2>1. Add(additions) \in ToServer
      BY <1>2, <1>6, LiveChannel DEF Add, ToServer
    <2>2. m = <<Add(additions)>>
      BY <1>6
    <2>3. m \in Seq(ToServer) /\ DOMAIN m = {1} /\ m[1] = Add(additions)
      BY <2>1, <2>2, OneMessage
    <2>4. m[1].type = "ADD" /\ m[1].ids = additions /\ m[1].chan = chan
      BY <2>3 DEF Add
    <2>5. \A x \in Ids : Follow(m, x, entries, entries')
      BY <1>5, <2>3, <2>4, FollowOne
    <2>6. Watching(m, attribs, attribs')
      BY <1>1, <2>3, <2>4, WatchOne
    <2> QED
      BY <1>1, <1>3, <2>3, <2>4, <2>5, <2>6, CallKeeps
  <1>7. CASE ~(Live /\ additions # {})
    <2>1. m = <<>>
      BY <1>7
    <2>2. m \in Seq(ToServer) /\ ~ \E j : j \in DOMAIN m
      BY <2>1, NoMessage
    <2>3. Live => entries' = entries
      BY <1>5, <1>7
    <2>4. Live => \A x \in Ids : Follow(m, x, entries, entries')
      BY <2>2, <2>3, FollowNone
    <2>5. Watching(m, attribs, attribs')
      BY <1>1, <2>2, FollowNone
    <2> QED
      BY <1>1, <1>3, <2>2, <2>4, <2>5, CallKeeps
  <1> QED
    BY <1>6, <1>7

\* What remove_unused tells the server.
LEMMA RemoveUnusedFacts ==
    ASSUME Links, Wired, NEW in, Dead(in) \subseteq Ids, NEW m, m = RemoveUnused(in)
    PROVE  /\ m \in Seq(ToServer)
           /\ \A j \in DOMAIN m : m[j].chan = chan /\ m[j].type # "CREATE"
           /\ Live => \A x \in Ids : Follow(m, x, entries, entries \ Dead(in))
           /\ \A W : Watching(m, W, W)
  <1>1. CASE Live /\ Dead(in) # {}
    <2>1. Rem(Dead(in)) \in ToServer
      BY <1>1, LiveChannel DEF Rem, ToServer
    <2>2. m = <<Rem(Dead(in))>>
      BY <1>1 DEF RemoveUnused
    <2>3. m \in Seq(ToServer) /\ DOMAIN m = {1} /\ m[1] = Rem(Dead(in))
      BY <2>1, <2>2, OneMessage
    <2>4. m[1].type = "REMOVE" /\ m[1].ids = Dead(in) /\ m[1].chan = chan
      BY <2>3 DEF Rem
    <2>5. \A x \in Ids : Follow(m, x, entries, entries \ Dead(in))
      BY <2>3, <2>4, FollowOne
    <2>6. \A W : Watching(m, W, W)
      BY <2>3, <2>4, WatchOne
    <2> QED
      BY <2>3, <2>4, <2>5, <2>6
  <1>2. CASE ~(Live /\ Dead(in) # {})
    <2>1. m = <<>>
      BY <1>2 DEF RemoveUnused
    <2>2. m \in Seq(ToServer) /\ ~ \E j : j \in DOMAIN m
      BY <2>1, NoMessage
    <2>3. Live => entries \ Dead(in) = entries
      BY <1>2
    <2>4. Live => \A x \in Ids : Follow(m, x, entries, entries \ Dead(in))
      BY <2>2, <2>3, FollowNone
    <2> QED
      BY <2>2, <2>4, FollowNone
  <1> QED
    BY <1>1, <1>2

LEMMA RemoveAware ==
    ASSUME Inv, NEW l \in lists, NEW xs \in SUBSET Ids, mwAwareList_removeAware(l, xs)
    PROVE  Inv'
  <1>1. PICK in :
          /\ in = [x \in Ids |-> IF x \in xs THEN membership[x] \ {l}
                                             ELSE membership[x]]
          /\ Call
          /\ listIds' = [listIds EXCEPT ![l] = @ \ xs]
          /\ remove_unused(in)
          /\ Sends(RemoveUnused(in))
          /\ UNCHANGED <<lists, listKeys, attribs, watchers>>
    BY DEF mwAwareList_removeAware
  <1>2. Tables /\ Links /\ Wired
    BY DEF Inv
  <1>3. /\ listIds' \in [Lists -> SUBSET Ids]
        /\ \A k \in Lists \ lists : listIds'[k] = {}
        /\ membership' = [x \in Ids |-> {k \in Lists : x \in listIds'[k]}]
        /\ entries' = {x \in Ids : membership'[x] # {}}
        /\ status' \in [Ids -> Presence \cup {"unknown", "set"}]
        /\ entries' = entries \ Dead(in) /\ Dead(in) \subseteq Ids
        /\ \A x \in entries : x \in entries' => status'[x] = status[x]
    BY <1>1, <1>2, RemoveTables
  <1>4. Tables'
    BY <1>1, <1>2, <1>3, KeysKept
  <1>5. PICK m : m = RemoveUnused(in)
    OBVIOUS
  <1>6. /\ m \in Seq(ToServer)
        /\ \A j \in DOMAIN m : m[j].chan = chan /\ m[j].type # "CREATE"
        /\ Live => \A x \in Ids : Follow(m, x, entries, entries')
        /\ Watching(m, attribs, attribs')
    <2>1. Dead(in) \subseteq Ids /\ entries' = entries \ Dead(in) /\ attribs' = attribs
      BY <1>1, <1>3
    <2>2. /\ m \in Seq(ToServer)
          /\ \A j \in DOMAIN m : m[j].chan = chan /\ m[j].type # "CREATE"
          /\ Live => \A x \in Ids : Follow(m, x, entries, entries \ Dead(in))
          /\ \A W : Watching(m, W, W)
      BY <1>2, <1>5, <2>1, RemoveUnusedFacts
    <2> QED
      BY <2>1, <2>2
  <1> QED
    BY <1>1, <1>3, <1>4, <1>5, <1>6, CallKeeps

\* What a list of the attributes tells the server.
LEMMA WatchFacts ==
    ASSUME Links, Wired, NEW A \in SUBSET Keys, NEW m,
           m = IF Live THEN <<Watch(A)>> ELSE <<>>
    PROVE  /\ m \in Seq(ToServer)
           /\ \A j \in DOMAIN m : m[j].chan = chan /\ m[j].type # "CREATE"
           /\ \A x, F : Follow(m, x, F, F)
           /\ Live => \A W : Watching(m, W, A)
  <1>1. CASE Live
    <2>1. Watch(A) \in ToServer
      BY <1>1, LiveChannel DEF Watch, ToServer
    <2>2. m \in Seq(ToServer) /\ DOMAIN m = {1} /\ m[1] = Watch(A)
      BY <1>1, <2>1, OneMessage
    <2>3. m[1].type = "WATCH" /\ m[1].keys = A /\ m[1].chan = chan
      BY <2>2 DEF Watch
    <2>4. \A x, F : Follow(m, x, F, F)
      BY <2>2, <2>3, FollowOne
    <2> QED
      BY <2>2, <2>3, <2>4, WatchOne
  <1>2. CASE ~Live
    <2>1. m \in Seq(ToServer) /\ ~ \E j : j \in DOMAIN m
      BY <1>2, NoMessage
    <2> QED
      BY <1>2, <2>1, FollowNone
  <1> QED
    BY <1>1, <1>2

LEMMA WatchAttributes ==
    ASSUME Inv, NEW l \in lists, NEW ks \in SUBSET Keys,
           mwAwareList_watchAttributes(l, ks)
    PROVE  Inv'
  <1>1. /\ Call
        /\ listKeys' = [listKeys EXCEPT ![l] = @ \cup ks]
        /\ watchers' = [k \in Keys |-> IF k \in ks THEN watchers[k] \cup {l}
                                                   ELSE watchers[k]]
        /\ attribs' = attribs \cup ks
        /\ Sends(IF chan # 0 THEN <<Watch(attribs')>> ELSE <<>>)
        /\ UNCHANGED <<lists, listIds, entries, membership, status>>
    BY DEF mwAwareList_watchAttributes
  <1>2. Tables /\ Links /\ Wired
    BY DEF Inv
  <1>3. /\ lists \subseteq Lists /\ listKeys \in [Lists -> SUBSET Keys]
        /\ watchers = [k \in Keys |-> {i \in Lists : k \in listKeys[i]}]
        /\ attribs = {k \in Keys : watchers[k] # {}}
        /\ \A i \in Lists \ lists : listKeys[i] = {}
    BY <1>2 DEF Tables
  <1>4. ASSUME NEW k \in Keys
        PROVE  watchers'[k] = {i \in Lists : k \in listKeys'[i]}
    <2>1. \A i \in Lists : k \in listKeys'[i] <=>
            k \in listKeys[i] \/ (i = l /\ k \in ks)
      BY <1>1, <1>3
    <2>2. watchers[k] = {i \in Lists : k \in listKeys[i]}
      BY <1>3
    <2>3. watchers'[k] = IF k \in ks THEN watchers[k] \cup {l} ELSE watchers[k]
      BY <1>1
    <2> QED
      BY <1>3, <2>1, <2>2, <2>3
  <1>5. watchers' = [k \in Keys |-> watchers'[k]]
    BY <1>1
  <1>6. watchers' = [k \in Keys |-> {i \in Lists : k \in listKeys'[i]}]
    BY <1>4, <1>5
  <1>7. attribs' = {k \in Keys : watchers'[k] # {}}
    BY <1>1, <1>3
  <1>8. listKeys' \in [Lists -> SUBSET Keys] /\ \A i \in Lists \ lists : listKeys'[i] = {}
    BY <1>1, <1>3
  <1>9. Tables'
    BY <1>1, <1>2, <1>6, <1>7, <1>8, IdsKept
  <1>10. PICK A, m : A = attribs' /\ m = IF Live THEN <<Watch(A)>> ELSE <<>>
    OBVIOUS
  <1>11. A \in SUBSET Keys /\ Sends(m)
    BY <1>1, <1>2, <1>7, <1>10, LiveChannel
  <1>12. /\ m \in Seq(ToServer)
         /\ \A j \in DOMAIN m : m[j].chan = chan /\ m[j].type # "CREATE"
         /\ \A x \in Ids : Follow(m, x, entries, entries')
         /\ Live => Watching(m, attribs, A)
    BY <1>1, <1>2, <1>10, <1>11, WatchFacts
  <1> QED
    BY <1>1, <1>9, <1>10, <1>11, <1>12, CallKeeps

\* The tables after attributes ks are removed from list l.
LEMMA UnwatchTables ==
    ASSUME Tables, NEW l \in lists, NEW ks \in SUBSET Keys, NEW in,
           in = [k \in Keys |-> IF k \in ks THEN watchers[k] \ {l} ELSE watchers[k]],
           listKeys' = [listKeys EXCEPT ![l] = @ \ ks], remove_unused_attrib(in)
    PROVE  /\ listKeys' \in [Lists -> SUBSET Keys]
           /\ \A i \in Lists \ lists : listKeys'[i] = {}
           /\ watchers' = [k \in Keys |-> {i \in Lists : k \in listKeys'[i]}]
           /\ attribs' = {k \in Keys : watchers'[k] # {}}
  <1>1. /\ lists \subseteq Lists /\ listKeys \in [Lists -> SUBSET Keys]
        /\ watchers = [k \in Keys |-> {i \in Lists : k \in listKeys[i]}]
        /\ attribs = {k \in Keys : watchers[k] # {}}
        /\ \A i \in Lists \ lists : listKeys[i] = {}
    BY DEF Tables
  <1>2. watchers' = in /\ attribs' = attribs \ {k \in attribs : in[k] = {}}
    BY DEF remove_unused_attrib, Unwatched
  <1>3. ASSUME NEW k \in Keys
        PROVE  in[k] = {i \in Lists : k \in listKeys'[i]}
    <2>1. \A i \in Lists : k \in listKeys'[i] <=>
            k \in listKeys[i] /\ ~(i = l /\ k \in ks)
      BY <1>1
    <2>2. watchers[k] = {i \in Lists : k \in listKeys[i]}
      BY <1>1
    <2> QED
      BY <1>1, <2>1, <2>2
  <1>4. in = [k \in Keys |-> in[k]]
    OBVIOUS
  <1>5. in = [k \in Keys |-> {i \in Lists : k \in listKeys'[i]}]
    BY <1>3, <1>4
  <1>6. attribs' = {k \in Keys : in[k] # {}}
    BY <1>1, <1>2
  <1>7. listKeys' \in [Lists -> SUBSET Keys] /\ \A i \in Lists \ lists : listKeys'[i] = {}
    BY <1>1
  <1> QED
    BY <1>2, <1>5, <1>6, <1>7

LEMMA UnwatchAttributes ==
    ASSUME Inv, NEW l \in lists, NEW ks \in SUBSET Keys,
           mwAwareList_unwatchAttributes(l, ks)
    PROVE  Inv'
  <1>1. PICK in :
          /\ in = [k \in Keys |-> IF k \in ks THEN watchers[k] \ {l} ELSE watchers[k]]
          /\ Call
          /\ listKeys' = [listKeys EXCEPT ![l] = @ \ ks]
          /\ remove_unused_attrib(in)
          /\ Sends(IF Live THEN <<Watch(attribs')>> ELSE <<>>)
          /\ UNCHANGED <<lists, listIds, entries, membership, status>>
    BY DEF mwAwareList_unwatchAttributes
  <1>2. Tables /\ Links /\ Wired
    BY DEF Inv
  <1>3. /\ listKeys' \in [Lists -> SUBSET Keys]
        /\ \A i \in Lists \ lists : listKeys'[i] = {}
        /\ watchers' = [k \in Keys |-> {i \in Lists : k \in listKeys'[i]}]
        /\ attribs' = {k \in Keys : watchers'[k] # {}}
    BY <1>1, <1>2, UnwatchTables
  <1>4. Tables'
    BY <1>1, <1>2, <1>3, IdsKept
  <1>5. PICK A, m : A = attribs' /\ m = IF Live THEN <<Watch(A)>> ELSE <<>>
    OBVIOUS
  <1>6. A \in SUBSET Keys /\ Sends(m)
    BY <1>1, <1>3, <1>5
  <1>7. /\ m \in Seq(ToServer)
        /\ \A j \in DOMAIN m : m[j].chan = chan /\ m[j].type # "CREATE"
        /\ \A x \in Ids : Follow(m, x, entries, entries')
        /\ Live => Watching(m, attribs, A)
    BY <1>1, <1>2, <1>5, <1>6, WatchFacts
  <1> QED
    BY <1>1, <1>4, <1>5, <1>6, <1>7, CallKeeps

LEMMA FreeList ==
    ASSUME Inv, NEW l \in lists, mwAwareList_free(l)
    PROVE  Inv'
  <1>1. PICK in, watching :
          /\ in = [x \in Ids |-> membership[x] \ {l}]
          /\ watching = [k \in Keys |-> watchers[k] \ {l}]
          /\ Call
          /\ lists' = lists \ {l}
          /\ listIds' = [listIds EXCEPT ![l] = {}]
          /\ listKeys' = [listKeys EXCEPT ![l] = {}]
          /\ remove_unused_attrib(watching)
          /\ remove_unused(in)
          /\ Sends((IF Live THEN <<Watch(attribs')>> ELSE <<>>) \o RemoveUnused(in))
    BY DEF mwAwareList_free
  <1>2. Tables /\ Links /\ Wired
    BY DEF Inv
  <1>3. /\ lists \subseteq Lists /\ listIds \in [Lists -> SUBSET Ids]
        /\ listKeys \in [Lists -> SUBSET Keys]
    BY <1>2 DEF Tables
  <1>4. /\ in = [x \in Ids |-> IF x \in Ids THEN membership[x] \ {l} ELSE membership[x]]
        /\ listIds' = [listIds EXCEPT ![l] = @ \ Ids]
    BY <1>1, <1>3
  <1>5. /\ listIds' \in [Lists -> SUBSET Ids]
        /\ \A k \in Lists \ lists : listIds'[k] = {}
        /\ membership' = [x \in Ids |-> {k \in Lists : x \in listIds'[k]}]
        /\ entries' = {x \in Ids : membership'[x] # {}}
        /\ status' \in [Ids -> Presence \cup {"unknown", "set"}]
        /\ entries' = entries \ Dead(in) /\ Dead(in) \subseteq Ids
        /\ \A x \in entries : x \in entries' => status'[x] = status[x]
    BY <1>1, <1>2, <1>4, RemoveTables
  <1>6. /\ watching = [k \in Keys |-> IF k \in Keys THEN watchers[k] \ {l} ELSE watchers[k]]
        /\ listKeys' = [listKeys EXCEPT ![l] = @ \ Keys]
    BY <1>1, <1>3
  <1>7. /\ listKeys' \in [Lists -> SUBSET Keys]
        /\ \A i \in Lists \ lists : listKeys'[i] = {}
        /\ watchers' = [k \in Keys |-> {i \in Lists : k \in listKeys'[i]}]
        /\ attribs' = {k \in Keys : watchers'[k] # {}}
    BY <1>1, <1>2, <1>6, UnwatchTables
  <1>8. /\ lists' \subseteq Lists
        /\ \A i \in Lists \ lists' : listIds'[i] = {} /\ listKeys'[i] = {}
    BY <1>1, <1>3, <1>5, <1>7
  <1>9. Tables'
    BY <1>5, <1>7, <1>8 DEF Tables
  <1>10. PICK A, w, r, m : /\ A = attribs' /\ w = IF Live THEN <<Watch(A)>> ELSE <<>>
                           /\ r = RemoveUnused(in) /\ m = w \o r
    OBVIOUS
  <1>11. A \in SUBSET Keys /\ Sends(m)
    BY <1>1, <1>7, <1>10
  <1>12. /\ w \in Seq(ToServer)
         /\ \A j \in DOMAIN w : w[j].chan = chan /\ w[j].type # "CREATE"
         /\ \A x \in Ids : Follow(w, x, entries, entries)
         /\ Live => Watching(w, attribs, A)
    BY <1>2, <1>10, <1>11, WatchFacts
  <1>13. /\ r \in Seq(ToServer)
         /\ \A j \in DOMAIN r : r[j].chan = chan /\ r[j].type # "CREATE"
         /\ Live => \A x \in Ids : Follow(r, x, entries, entries')
         /\ Watching(r, A, A)
    <2>1. Dead(in) \subseteq Ids /\ entries' = entries \ Dead(in)
      BY <1>5
    <2>2. /\ r \in Seq(ToServer)
          /\ \A j \in DOMAIN r : r[j].chan = chan /\ r[j].type # "CREATE"
          /\ Live => \A x \in Ids : Follow(r, x, entries, entries \ Dead(in))
          /\ \A W : Watching(r, W, W)
      BY <1>2, <1>10, <2>1, RemoveUnusedFacts
    <2> QED
      BY <2>1, <2>2
  <1>14. m \in Seq(ToServer) /\ Behind(m, w, r)
    BY <1>10, <1>12, <1>13, ConcatBehind
  <1>15. \A j \in DOMAIN m : m[j].chan = chan /\ m[j].type # "CREATE"
    BY <1>12, <1>13, <1>14 DEF Behind
  <1>16. Live => \A x \in Ids : Follow(m, x, entries, entries')
    BY <1>12, <1>13, <1>14, FollowBehind
  <1>17. Live => Watching(m, attribs, A)
    BY <1>12, <1>13, <1>14, WatchBehind
  <1>18. \A u \in entries : u \in entries' => status'[u] \in {status[u], "set"}
    BY <1>5
  <1>19. PICK E : E = entries'
    OBVIOUS
  <1> QED
    BY <1>1, <1>9, <1>10, <1>11, <1>14, <1>15, <1>16, <1>17, <1>18, <1>19, CallKeeps

LEMMA SetStatus ==
    ASSUME Inv, NEW u \in Users, mwServiceAware_setStatus(u)
    PROVE  Inv'
  <1>1. /\ Call
        /\ status' = IF u \in entries THEN [status EXCEPT ![u] = "set"] ELSE status
        /\ UNCHANGED <<outq, lists, listIds, listKeys, entries, membership, attribs,
                       watchers, toServer>>
    BY DEF mwServiceAware_setStatus
  <1>2. Tables /\ Links /\ Wired
    BY DEF Inv
  <1>3. status \in [Ids -> Presence \cup {"unknown", "set"}] /\ u \in Ids
    BY <1>2 DEF Tables, Ids
  <1>4. status' \in [Ids -> Presence \cup {"unknown", "set"}]
    BY <1>1, <1>3
  <1>5. Tables'
    BY <1>1, <1>2, <1>4 DEF Tables
  <1>6. entries \subseteq Ids
    BY <1>2 DEF Tables
  <1>7. \A x \in entries : status'[x] \in {status[x], "set"}
    BY <1>1, <1>3, <1>6
  <1>8. Sends(<<>>)
    BY <1>1, <1>2, EmptySends
  <1>9. PICK m : m = <<>>
    OBVIOUS
  <1>10. m \in Seq(ToServer) /\ ~ \E j : j \in DOMAIN m
    BY <1>9, NoMessage
  <1>11. /\ \A x \in Ids : Follow(m, x, entries, entries')
         /\ Watching(m, attribs, attribs')
    BY <1>1, <1>10, FollowNone
  <1> QED
    BY <1>1, <1>5, <1>7, <1>8, <1>9, <1>10, <1>11, CallKeeps

LEMMA ClientCallKeeps ==
    ASSUME Inv, ClientCall
    PROVE  Inv'
  BY AddAware, RemoveAware, WatchAttributes, UnwatchAttributes, FreeList, SetStatus
     DEF ClientCall

-----------------------------------------------------------------------------
(* Messages received.                                                      *)

\* A handler that tells the server of what it changes keeps the invariant.
LEMMA ReceiveKeeps ==
    ASSUME Inv, NEW m \in Seq(ToServer), NEW E, NEW A, E = entries', A = attribs',
           Sends(m), Tables', toClient # <<>>, toClient' = Tail(toClient),
           on' = on, up' = up, sstate' = sstate, chan' = chan, nchan' = nchan,
           srvChan' = srvChan, followed' = followed, watched' = watched,
           presence' = presence,
           \A j \in DOMAIN m : m[j].chan = chan /\ m[j].type # "CREATE",
           Live => \A x \in Ids : Follow(m, x, entries, E),
           Live => Watching(m, attribs, A),
           Connected => \A u \in entries : u \in E =>
              status'[u] = IF Tells(Head(toClient), u) THEN Head(toClient).status
                                                       ELSE status[u]
    PROVE  Inv'
  <1>1. Links' /\ Wired' /\ Queued' /\ Following'
    BY SendsKeeps DEF Inv, Taking
  <1>2. PICK t \in Seq(ToServer), o \in Seq(ToServer) :
          /\ t = toServer' /\ o = outq'
          /\ sstate = "STARTED" /\ up => Behind(t, toServer, m) /\ o = outq
    BY SendsEffect DEF Inv
  <1>3. PICK q : q = toClient' /\ Shifted(q, toClient) /\ Head(toClient) = toClient[1]
    BY TailShifted DEF Inv, Links
  <1>4. Connected' => Connected
    BY DEF Connected
  <1>5. ASSUME Connected, NEW u \in Users, u \in E
        PROVE  \E s, p : /\ s = status'[u] /\ p = presence'[u]
                         /\ Current(u, t, q, s, p)
    <2>1. Behind(t, toServer, m) /\ Live
      BY <1>2, <1>5 DEF Connected, Live
    <2>2. CASE u \in entries
      <3>1. Current(u, toServer, toClient, status[u], presence[u])
        BY <1>5, <2>2 DEF Inv, Fresh
      <3>2. PICK r : r = status'[u]
        OBVIOUS
      <3>3. /\ Tells(toClient[1], u) => r = toClient[1].status
            /\ ~Tells(toClient[1], u) => r = status[u]
        BY <1>3, <1>5, <2>2, <3>2
      <3>4. Current(u, toServer, q, r, presence[u])
        BY <1>3, <3>1, <3>3, CurrentReceived
      <3>5. Current(u, t, q, r, presence[u])
        BY <2>1, <3>4, CurrentWritten
      <3> QED
        BY <3>2, <3>5
    <2>3. CASE u \notin entries
      <3>1. Follow(m, u, entries, E)
        BY <2>1 DEF Ids
      <3>2. LastSays(m, u, "ADD")
        BY <1>5, <2>3, <3>1 DEF Follow
      <3> QED
        BY <2>1, <3>2, CurrentAsked
    <2> QED
      BY <2>2, <2>3
  <1>6. Fresh'
    BY <1>2, <1>3, <1>4, <1>5, FreshNext
  <1> QED
    BY <1>1, <1>6 DEF Inv

\* The first message is of the channel there is, if there is one.
LEMMA HeadFacts ==
    ASSUME Links, Wired, toClient # <<>>
    PROVE  /\ Head(toClient) \in ToClient /\ Head(toClient).chan = nchan
           /\ Known <=> chan # 0
           /\ Known <=> Live
           /\ \A i \in DOMAIN toServer : toServer[i].type # "CREATE"
  <1>1. /\ Head(toClient) = toClient[1] /\ 1 \in DOMAIN toClient
        /\ toClient[1] \in ToClient
    BY TailShifted DEF Links
  <1>2. Head(toClient).chan = nchan /\ nchan # 0
    BY <1>1, MessageFacts DEF Wired
  <1> QED
    BY <1>1, <1>2 DEF Wired, Known, Live

\* A message that changes nothing.
LEMMA Dropped ==
    ASSUME Inv, toClient # <<>>, toClient' = Tail(toClient),
           UNCHANGED <<on, up, sstate, chan, nchan, outq, data, toServer, server, presence>>,
           Connected => Head(toClient).type # "STATUS"
    PROVE  Inv'
  <1>1. /\ on' = on /\ up' = up /\ sstate' = sstate /\ chan' = chan
        /\ nchan' = nchan /\ srvChan' = srvChan /\ followed' = followed
        /\ watched' = watched /\ presence' = presence
        /\ entries' = entries /\ attribs' = attribs /\ status' = status
    BY DEF server, data
  <1>2. Tables'
    BY DEF Inv, Tables, data
  <1>3. PICK m : m = <<>>
    OBVIOUS
  <1>4. Sends(m)
    BY <1>3, EmptySends DEF Inv
  <1>5. m \in Seq(ToServer) /\ ~ \E j : j \in DOMAIN m
    BY <1>3, NoMessage
  <1>6. /\ \A x \in Ids : Follow(m, x, entries, entries)
        /\ Watching(m, attribs, attribs)
    BY <1>5, FollowNone
  <1>7. Connected => \A u \in entries :
          status'[u] = IF Tells(Head(toClient), u) THEN Head(toClient).status
                                                   ELSE status[u]
    BY <1>1 DEF Tells
  <1> QED
    BY <1>1, <1>2, <1>4, <1>5, <1>6, <1>7, ReceiveKeeps

\* All there is to tell: what is followed and watched after it.
LEMMA AllTold ==
    ASSUME Links, Wired, Live, Tables, NEW m, m = <<Add(entries), Watch(attribs)>>
    PROVE  /\ m \in Seq(ToServer)
           /\ \A j \in DOMAIN m : m[j].chan = nchan /\ m[j].type # "CREATE"
           /\ \A x \in entries : LastSays(m, x, "ADD")
           /\ \A x, G : G \subseteq entries => Follow(m, x, G, entries)
           /\ \A W : Watching(m, W, attribs)
  <1>1. Add(entries) \in ToServer /\ Watch(attribs) \in ToServer
    BY LiveChannel DEF Add, Watch, ToServer, Tables
  <1>2. /\ m \in Seq(ToServer) /\ DOMAIN m = {1, 2}
        /\ m[1] = Add(entries) /\ m[2] = Watch(attribs)
    BY <1>1
  <1>3. /\ 1 \in DOMAIN m /\ 2 \in DOMAIN m /\ \A j \in DOMAIN m : j = 1 \/ j = 2
        /\ m[1].type = "ADD" /\ m[1].ids = entries /\ m[1].chan = chan
        /\ m[2].type = "WATCH" /\ m[2].keys = attribs /\ m[2].chan = chan
    BY <1>2 DEF Add, Watch
  <1>4. \A j \in DOMAIN m : m[j].chan = nchan /\ m[j].type # "CREATE"
    BY <1>3, LiveChannel
  <1>5. ASSUME NEW x \in entries PROVE LastSays(m, x, "ADD")
    <2>1. About(m[1], x)
      BY <1>3 DEF About
    <2>2. \A j \in DOMAIN m : About(m[j], x) => m[j].type = "ADD"
      BY <1>3 DEF About
    <2> QED
      BY <1>3, <2>1, <2>2 DEF LastSays
  <1>6. ASSUME NEW x, x \notin entries PROVE Silent(m, x)
    BY <1>3, <1>6 DEF Silent, About
  <1>7. \A x, G : G \subseteq entries => Follow(m, x, G, entries)
    BY <1>5, <1>6 DEF Follow
  <1>8. \A W : Watching(m, W, attribs)
    BY <1>3 DEF Watching, LastWatches
  <1> QED
    BY <1>2, <1>4, <1>5, <1>7, <1>8

LEMMA Accept ==
    ASSUME Inv, recv_accept
    PROVE  Inv'
  <1>1. /\ toClient # <<>> /\ Head(toClient).type = "ACCEPT"
        /\ toClient' = Tail(toClient)
        /\ on' = on /\ up' = up /\ nchan' = nchan /\ lists' = lists
        /\ listKeys' = listKeys /\ attribs' = attribs /\ watchers' = watchers
        /\ srvChan' = srvChan /\ followed' = followed /\ watched' = watched
        /\ presence' = presence
        /\ chan' = chan /\ listIds' = listIds /\ entries' = entries
        /\ membership' = membership /\ status' = status
    BY DEF recv_accept, Receives, server
  <1>2. Tables /\ Links /\ Wired
    BY DEF Inv
  <1>3. CASE ~Known
    <2>1. UNCHANGED <<sstate, toServer, outq>>
      BY <1>3 DEF recv_accept
    <2> QED
      BY <1>1, <2>1, Dropped DEF data, server
  <1>4. CASE Known /\ ~up
    <2>1. sstate' = "STARTED" /\ toServer' = toServer /\ outq' = <<>>
      BY <1>4 DEF recv_accept
    <2>2. Tables'
      BY <1>1, <1>2 DEF Tables
    <2>3. PICK q \in Seq(ToClient) : q = toClient' /\ \A i \in DOMAIN q : q[i].chan = nchan
      BY <1>1, <1>2, Taken DEF Taking
    <2>4. Links'
      BY <1>1, <1>2, <2>1, <2>3 DEF Links
    <2>5. toServer = <<>> /\ srvChan = 0 /\ followed = {} /\ watched = {} /\ on /\ chan # 0
      BY <1>1, <1>2, <1>4, HeadFacts DEF Wired
    <2>6. Wired'
      BY <1>1, <1>2, <1>4, <2>1, <2>3, <2>5 DEF Wired
    <2>7. Queued' /\ Following' /\ Fresh'
      BY <1>1, <1>4, <2>1 DEF Queued, Following, Fresh, Connected
    <2> QED
      BY <2>2, <2>4, <2>6, <2>7 DEF Inv
  <1>5. CASE Known /\ up
    <2>1. PICK m, a, t : /\ m = <<Add(entries), Watch(attribs)>>
                         /\ a = toServer \o m /\ t = a \o outq
      OBVIOUS
    <2>2. sstate' = "STARTED" /\ toServer' = t /\ outq' = <<>>
      BY <1>5, <2>1 DEF recv_accept
    <2>3. Live /\ \A i \in DOMAIN toServer : toServer[i].type # "CREATE"
      BY <1>1, <1>2, <1>5, HeadFacts
    <2>4. /\ m \in Seq(ToServer)
          /\ \A j \in DOMAIN m : m[j].chan = nchan /\ m[j].type # "CREATE"
          /\ \A x \in entries : LastSays(m, x, "ADD")
          /\ \A x, G : G \subseteq entries => Follow(m, x, G, entries)
          /\ \A W : Watching(m, W, attribs)
      BY <1>2, <2>1, <2>3, AllTold
    <2>5. /\ a \in Seq(ToServer) /\ Behind(a, toServer, m)
          /\ t \in Seq(ToServer) /\ Behind(t, a, outq)
      BY <1>2, <2>1, <2>4, ConcatBehind DEF Links
    <2>6. Tables'
      BY <1>1, <1>2 DEF Tables
    <2>7. PICK q \in Seq(ToClient) : q = toClient' /\ \A i \in DOMAIN q : q[i].chan = nchan
      BY <1>1, <1>2, Taken DEF Taking
    <2>8. <<>> \in Seq(ToServer)
      BY NoMessage
    <2>9. Links'
      BY <1>1, <1>2, <2>2, <2>5, <2>7, <2>8 DEF Links
    <2>10. \A i \in DOMAIN t : t[i].chan = nchan /\ t[i].type # "CREATE"
      <3>1. \A i \in DOMAIN a : a[i].chan = nchan /\ a[i].type # "CREATE"
        BY <1>2, <2>3, <2>4, <2>5 DEF Wired, Behind
      <3>2. \A i \in DOMAIN outq : outq[i].chan = nchan /\ outq[i].type # "CREATE"
        BY <1>2 DEF Wired
      <3> QED
        BY <2>5, <3>1, <3>2 DEF Behind
    <2>11. chan # 0 /\ on
      BY <1>1, <1>2, <1>5, HeadFacts DEF Wired
    <2>12. Wired'
      BY <1>1, <1>2, <1>5, <2>2, <2>7, <2>10, <2>11 DEF Wired
    <2>13. Queued'
      BY <2>2 DEF Queued
    <2>14. sstate \in {"STARTING", "STARTED"}
      BY <1>2, <2>3 DEF Links, Live
    <2>15. ASSUME chan = srvChan
           PROVE  /\ \A x \in Ids : Follow(t, x, followed, entries)
                  /\ Watching(t, watched, attribs)
      <3>1. CASE sstate = "STARTING"
        <4>1. followed = {} /\ \A i \in DOMAIN toServer : FALSE
          BY <1>2, <2>3, <3>1 DEF Wired
        <4>2. ASSUME NEW x \in Ids PROVE Follow(t, x, followed, entries)
          <5>1. Follow(toServer, x, followed, followed)
            BY <4>1 DEF Follow, Silent
          <5>2. Follow(a, x, followed, entries)
            BY <2>4, <2>5, <4>1, <5>1, FollowBehind
          <5>3. Follow(outq, x, entries, entries)
            BY <3>1 DEF Inv, Queued
          <5> QED
            BY <2>5, <5>2, <5>3, FollowBehind
        <4>3. Watching(toServer, watched, watched) /\ Watching(outq, attribs, attribs)
          BY <3>1, <4>1 DEF Watching, Inv, Queued
        <4>4. Watching(a, watched, attribs)
          <5>1. Watching(m, watched, attribs)
            BY <2>4
          <5> QED
            BY <2>5, <4>3, <5>1, WatchBehind
        <4>5. Watching(t, watched, attribs)
          BY <2>5, <4>3, <4>4, WatchBehind
        <4> QED
          BY <4>2, <4>5
      <3>2. CASE sstate = "STARTED"
        <4>1. Connected /\ outq = <<>>
          BY <1>2, <1>5, <2>15, <3>2 DEF Connected, Wired
        <4>2. ~ \E j : j \in DOMAIN outq
          BY <4>1, NoMessage
        <4>3. ASSUME NEW x \in Ids PROVE Follow(t, x, followed, entries)
          <5>1. Follow(toServer, x, followed, entries)
            BY <4>1 DEF Inv, Following
          <5>2. Follow(a, x, followed, entries)
            BY <2>4, <2>5, <5>1, FollowBehind
          <5>3. Follow(outq, x, entries, entries)
            BY <4>2, FollowNone
          <5> QED
            BY <2>5, <5>2, <5>3, FollowBehind
        <4>4. Watching(toServer, watched, attribs) /\ Watching(outq, attribs, attribs)
          BY <4>1, <4>2, FollowNone DEF Inv, Following
        <4>5. Watching(a, watched, attribs)
          <5>1. Watching(m, attribs, attribs)
            BY <2>4
          <5> QED
            BY <2>5, <4>4, <5>1, WatchBehind
        <4>6. Watching(t, watched, attribs)
          BY <2>5, <4>4, <4>5, WatchBehind
        <4> QED
          BY <4>3, <4>6
      <3> QED
        BY <2>14, <3>1, <3>2
    <2>16. Following'
      BY <1>1, <2>2, <2>15, FollowingNext DEF Connected
    <2>17. ASSUME NEW u \in Users, u \in entries
           PROVE  \E s, p : /\ s = status'[u] /\ p = presence'[u]
                            /\ Current(u, t, q, s, p)
      <3>1. Current(u, a, q, status[u], presence[u])
        BY <2>4, <2>5, <2>17, CurrentAsked
      <3>2. Current(u, t, q, status[u], presence[u])
        BY <2>5, <3>1, CurrentWritten
      <3> QED
        BY <1>1, <3>2
    <2>18. Fresh'
      BY <1>1, <2>2, <2>7, <2>17, FreshNext
    <2> QED
      BY <2>6, <2>9, <2>12, <2>13, <2>16, <2>18 DEF Inv
  <1> QED
    BY <1>3, <1>4, <1>5

LEMMA Destroy ==
    ASSUME Inv, recv_destroy
    PROVE  Inv'
  <1>1. /\ toClient # <<>> /\ Head(toClient).type = "DESTROY"
        /\ toClient' = Tail(toClient)
        /\ on' = on /\ up' = up /\ nchan' = nchan /\ lists' = lists
        /\ listKeys' = listKeys /\ attribs' = attribs /\ watchers' = watchers
        /\ srvChan' = srvChan /\ followed' = followed /\ watched' = watched
        /\ presence' = presence
        /\ toServer' = toServer /\ listIds' = listIds /\ entries' = entries
        /\ membership' = membership /\ status' = status
    BY DEF recv_destroy, Receives, server
  <1>2. Tables /\ Links /\ Wired
    BY DEF Inv
  <1>3. CASE ~Known
    <2>1. UNCHANGED <<sstate, chan, outq>>
      BY <1>3 DEF recv_destroy
    <2> QED
      BY <1>1, <2>1, Dropped DEF data, server
  <1>4. CASE Known
    <2>1. sstate' = "STOPPED" /\ chan' = 0 /\ outq' = <<>>
      BY <1>4 DEF recv_destroy, stop
    <2>2. Tables'
      BY <1>1, <1>2 DEF Tables
    <2>3. PICK q \in Seq(ToClient) : q = toClient' /\ \A i \in DOMAIN q : q[i].chan = nchan
      BY <1>1, <1>2, Taken DEF Taking
    <2>4. <<>> \in Seq(ToServer)
      BY NoMessage
    <2>5. Links'
      BY <1>1, <1>2, <2>1, <2>3, <2>4 DEF Links
    <2>6. \A i \in DOMAIN toServer : toServer[i].type # "CREATE"
      BY <1>1, <1>2, HeadFacts
    <2>7. on
      BY <1>1, <1>2 DEF Wired
    <2>8. Wired'
      BY <1>1, <1>2, <2>1, <2>3, <2>6, <2>7 DEF Wired
    <2>9. Queued' /\ Following' /\ Fresh'
      BY <2>1 DEF Queued, Following, Fresh, Connected
    <2> QED
      BY <2>2, <2>5, <2>8, <2>9 DEF Inv
  <1> QED
    BY <1>3, <1>4

\* As many requests for u as there are lists it is new to.
LEMMA MemberTold ==
    ASSUME Links, Wired, Live, NEW u \in Ids, NEW n \in Nat, NEW m,
           m = [i \in 1..n |-> Add({u})]
    PROVE  /\ m \in Seq(ToServer)
           /\ \A j \in DOMAIN m : m[j].chan = chan /\ m[j].type # "CREATE"
           /\ \A W : Watching(m, W, W)
           /\ n = 0 => \A x, F : Follow(m, x, F, F)
           /\ n # 0 => \A x, F : Follow(m, x, F, F \cup {u})
  <1>1. Add({u}) \in ToServer
    BY LiveChannel DEF Add, ToServer
  <1>2. m \in Seq(ToServer) /\ DOMAIN m = 1..n
    BY <1>1
  <1>3. \A j \in DOMAIN m : /\ m[j].type = "ADD" /\ m[j].ids = {u}
                            /\ m[j].chan = chan
    BY DEF Add
  <1>4. n = 0 => ~ \E j : j \in DOMAIN m
    BY <1>2
  <1>5. ASSUME n # 0, NEW x, NEW F PROVE Follow(m, x, F, F \cup {u})
    <2>1. CASE x = u
      <3>1. 1 \in DOMAIN m
        BY <1>2, <1>5
      <3>2. \A j \in DOMAIN m : About(m[j], u) /\ m[j].type = "ADD"
        BY <1>3 DEF About
      <3>3. LastSays(m, u, "ADD")
        BY <3>1, <3>2 DEF LastSays
      <3> QED
        BY <2>1, <3>3 DEF Follow
    <2>2. CASE x # u
      <3>1. Silent(m, x)
        <4>1. \A j \in DOMAIN m : x \notin m[j].ids
          BY <1>3, <2>2
        <4> QED
          BY <4>1 DEF Silent, About
      <3> QED
        BY <2>2, <3>1 DEF Follow
    <2> QED
      BY <2>1, <2>2
  <1> QED
    BY <1>2, <1>3, <1>4, <1>5, FollowNone DEF Watching

LEMMA Update ==
    ASSUME Inv, recv_UPDATE
    PROVE  Inv'
  <1>1. PICK h : h = Head(toClient)
    OBVIOUS
  <1>2. /\ toClient # <<>> /\ h.type = "STATUS"
        /\ toClient' = Tail(toClient)
        /\ on' = on /\ up' = up /\ nchan' = nchan /\ lists' = lists
        /\ listKeys' = listKeys /\ attribs' = attribs /\ watchers' = watchers
        /\ srvChan' = srvChan /\ followed' = followed /\ watched' = watched
        /\ presence' = presence /\ sstate' = sstate /\ chan' = chan
    BY <1>1 DEF recv_UPDATE, Receives, server
  <1>3. Tables /\ Links /\ Wired
    BY DEF Inv
  <1>4. h \in ToClient
    BY <1>1, <1>2, <1>3, HeadFacts
  <1>5. h.id \in Users /\ h.id \in Ids /\ h.status \in Presence
    BY <1>2, <1>4, MessageFacts DEF Ids
  <1>6. CASE ~Known
    <2>1. UNCHANGED <<listIds, entries, membership, toServer, outq, status>>
      BY <1>6 DEF recv_UPDATE
    <2>2. ~Connected
      BY <1>2, <1>3, <1>6, HeadFacts DEF Connected, Live
    <2> QED
      BY <1>2, <2>1, <2>2, Dropped DEF data, server
  <1>7. CASE Known
    <2>1. Live /\ status_recv(h.id, h.status)
      BY <1>1, <1>2, <1>3, <1>7, HeadFacts DEF recv_UPDATE
    <2>2. status' = IF h.id \in entries' THEN [status EXCEPT ![h.id] = h.status] ELSE status
      BY <2>1 DEF status_recv
    <2>3. status \in [Ids -> Presence \cup {"unknown", "set"}] /\ entries \subseteq Ids
      BY <1>3 DEF Tables
    <2>4. status' \in [Ids -> Presence \cup {"unknown", "set"}]
      BY <1>5, <2>2, <2>3
    <2>5. \A u \in entries : u \in entries' =>
            status'[u] = IF Tells(Head(toClient), u) THEN Head(toClient).status ELSE status[u]
      BY <1>1, <1>2, <1>5, <2>2, <2>3 DEF Tells
    <2>6. CASE h.group = NoGroup
      <3>1. UNCHANGED <<listIds, entries, membership, toServer, outq>>
        BY <1>1, <1>7, <2>6 DEF recv_UPDATE
      <3>2. Tables'
        BY <1>2, <1>3, <2>4, <3>1 DEF Tables
      <3>3. PICK m : m = <<>>
        OBVIOUS
      <3>4. Sends(m)
        BY <1>3, <3>1, <3>3, EmptySends
      <3>5. m \in Seq(ToServer) /\ ~ \E j : j \in DOMAIN m
        BY <3>3, NoMessage
      <3>6. /\ \A x \in Ids : Follow(m, x, entries, entries')
            /\ Watching(m, attribs, attribs')
        BY <1>2, <3>1, <3>5, FollowNone
      <3> QED
        BY <1>2, <2>5, <3>2, <3>4, <3>5, <3>6, ReceiveKeeps
    <2>7. CASE h.group # NoGroup
      <3>1. PICK g, u : g = h.group /\ u = h.id
        OBVIOUS
      <3>2. group_member_recv(u, g)
        BY <1>1, <1>7, <2>7, <3>1 DEF recv_UPDATE
      <3>3. PICK holders, new, m :
              /\ holders = IF g \in entries THEN membership[g] ELSE {}
              /\ new = {l \in holders : u \notin listIds[l]}
              /\ m = [i \in 1..Cardinality(new) |-> Add({u})]
              /\ list_add(holders, {u})
              /\ Sends(m)
        BY <3>2 DEF group_member_recv
      <3>4. holders \in SUBSET lists
        BY <1>3, <3>3 DEF Tables
      <3>5. {u} \in SUBSET Ids
        BY <1>5, <3>1
      <3>6. /\ listIds' \in [Lists -> SUBSET Ids]
            /\ \A l \in Lists \ lists : listIds'[l] = {}
            /\ membership' = [x \in Ids |-> {l \in Lists : x \in listIds'[l]}]
            /\ entries' = {x \in Ids : membership'[x] # {}}
        BY <1>3, <3>3, <3>4, <3>5, AddTables
      <3>7. Tables'
        BY <1>2, <1>3, <2>4, <3>6, KeysKept
      <3>8. IsFiniteSet(new)
        <4>1. new \subseteq Lists
          BY <1>3, <3>3, <3>4 DEF Tables
        <4> QED
          BY <4>1, IdsAssumption, FS_Subset
      <3>9. Cardinality(new) \in Nat /\ (Cardinality(new) = 0 <=> new = {})
        BY <3>8, FS_CardinalityType, FS_EmptySet
      <3>10. PICK n : n = Cardinality(new)
        OBVIOUS
      <3>11. /\ m \in Seq(ToServer)
             /\ \A j \in DOMAIN m : m[j].chan = chan /\ m[j].type # "CREATE"
             /\ \A W : Watching(m, W, W)
             /\ n = 0 => \A x, F : Follow(m, x, F, F)
             /\ n # 0 => \A x, F : Follow(m, x, F, F \cup {u})
        <4>1. u \in Ids /\ n \in Nat /\ m = [i \in 1..n |-> Add({u})]
          BY <1>5, <3>1, <3>3, <3>9, <3>10
        <4> QED
          BY <1>3, <2>1, <4>1, MemberTold
      <3>12. entries' = IF holders = {} THEN entries ELSE entries \cup {u}
        BY <3>3 DEF list_add
      <3>13. n = 0 => entries' = entries
        <4>1. \A l \in Lists : listIds[l] \subseteq entries
          BY <1>3 DEF Tables
        <4>2. lists \subseteq Lists
          BY <1>3 DEF Tables
        <4> QED
          BY <3>3, <3>4, <3>9, <3>10, <3>12, <4>1, <4>2
      <3>14. n # 0 => entries' = entries \cup {u}
        BY <3>3, <3>9, <3>10, <3>12
      <3>15. \A x \in Ids : Follow(m, x, entries, entries')
        BY <3>11, <3>13, <3>14
      <3>16. Watching(m, attribs, attribs')
        BY <1>2, <3>11
      <3> QED
        BY <1>2, <2>5, <3>3, <3>7, <3>11, <3>15, <3>16, ReceiveKeeps
    <2> QED
      BY <2>6, <2>7
  <1> QED
    BY <1>6, <1>7

-----------------------------------------------------------------------------
(* The session, and the connection.                                        *)

LEMMA TablesKept ==
    ASSUME Tables, UNCHANGED data
    PROVE  Tables' /\ entries' = entries /\ attribs' = attribs /\ status' = status
  BY DEF Tables, data

LEMMA SessionStartsKeeps ==
    ASSUME Inv, SessionStarts
    PROVE  Inv'
  <1>1. /\ on' = TRUE /\ up' = TRUE /\ sstate' = "STARTING" /\ chan' = nchan + 1
        /\ nchan' = nchan + 1 /\ nchan < MaxChans /\ ~on
        /\ toServer' = <<Plain("CREATE", nchan + 1)>>
        /\ outq' = outq /\ UNCHANGED data /\ toClient' = toClient
        /\ srvChan' = srvChan /\ followed' = followed /\ watched' = watched
        /\ presence' = presence
    BY DEF SessionStarts, server
  <1>2. Tables /\ Links /\ Wired
    BY DEF Inv
  <1>3. MaxChans \in Nat /\ nchan \in Nat
    BY <1>2, BoundsAssumption DEF MaxChans, Links
  <1>4. PICK m : m = Plain("CREATE", nchan + 1)
    OBVIOUS
  <1>5. m \in ToServer
    BY <1>1, <1>3, <1>4 DEF Plain, ToServer
  <1>6. PICK t \in Seq(ToServer) : t = toServer' /\ DOMAIN t = {1} /\ t[1] = m
    BY <1>1, <1>4, <1>5, OneMessage
  <1>7. m.type = "CREATE" /\ m.chan = nchan + 1
    BY <1>4 DEF Plain
  <1>8. /\ toClient = <<>> /\ outq = <<>> /\ srvChan = 0
        /\ followed = {} /\ watched = {}
    BY <1>1, <1>2 DEF Wired
  <1>9. Tables' /\ entries' = entries /\ attribs' = attribs
    BY <1>1, <1>2, TablesKept
  <1>10. Links'
    BY <1>1, <1>2, <1>3, <1>6, <1>8 DEF Links
  <1>11. /\ ~ \E j : j \in DOMAIN toClient
         /\ ~ \E j : j \in DOMAIN outq
    BY <1>8, NoMessage
  <1>12. Wired'
    BY <1>1, <1>3, <1>6, <1>7, <1>8, <1>11 DEF Wired
  <1>13. Queued'
    BY <1>1, <1>9, <1>11, FollowNone, QueuedNext
  <1>14. Following' /\ Fresh'
    BY <1>1 DEF Following, Fresh, Connected
  <1> QED
    BY <1>9, <1>10, <1>12, <1>13, <1>14 DEF Inv

LEMMA SessionStopsKeeps ==
    ASSUME Inv, SessionStops
    PROVE  Inv'
  <1>1. /\ on' = FALSE /\ up' = FALSE /\ sstate' = "STOPPED" /\ chan' = 0
        /\ outq' = <<>> /\ toServer' = <<>> /\ toClient' = <<>>
        /\ srvChan' = 0 /\ followed' = {} /\ watched' = {}
        /\ nchan' = nchan /\ UNCHANGED data /\ presence' = presence
    BY DEF SessionStops, stop, Disconnected
  <1>2. Tables /\ Links /\ Wired
    BY DEF Inv
  <1>3. <<>> \in Seq(ToServer) /\ <<>> \in Seq(ToClient) /\ ~ \E j : j \in DOMAIN <<>>
    BY NoMessage
  <1>4. Tables'
    BY <1>1, <1>2, TablesKept
  <1>5. Links'
    <2>1. {on', up'} \subseteq BOOLEAN
      BY <1>1, Zenon
    <2>2. 0 \in 0..nchan /\ nchan \in 0..MaxChans /\ presence \in [Users -> Presence]
      BY <1>2 DEF Links
    <2> QED
      BY <1>1, <1>3, <2>1, <2>2 DEF Links
  <1>6. Wired'
    BY <1>1, <1>3 DEF Wired
  <1>7. Queued' /\ Following' /\ Fresh'
    BY <1>1 DEF Queued, Following, Fresh, Connected
  <1> QED
    BY <1>4, <1>5, <1>6, <1>7 DEF Inv

LEMMA ConnectionBreaksKeeps ==
    ASSUME Inv, ConnectionBreaks
    PROVE  Inv'
  <1>1. /\ up /\ up' = FALSE /\ toServer' = <<>> /\ srvChan' = 0
        /\ followed' = {} /\ watched' = {} /\ on' = on /\ sstate' = sstate
        /\ chan' = chan /\ nchan' = nchan /\ outq' = outq /\ UNCHANGED data
        /\ toClient' = toClient /\ presence' = presence
    BY DEF ConnectionBreaks, Disconnected
  <1>2. Tables /\ Links /\ Wired
    BY DEF Inv
  <1>3. <<>> \in Seq(ToServer) /\ ~ \E j : j \in DOMAIN <<>>
    BY NoMessage
  <1>4. Tables' /\ entries' = entries /\ attribs' = attribs
    BY <1>1, <1>2, TablesKept
  <1>5. Links'
    <2>1. {on', up'} \subseteq BOOLEAN
      <3>1. on \in BOOLEAN
        BY <1>2 DEF Links
      <3> QED
        BY <1>1, <3>1, Zenon
    <2>2. 0 \in 0..nchan
      BY <1>2 DEF Links
    <2> QED
      BY <1>1, <1>2, <1>3, <2>1, <2>2 DEF Links
  <1>6. Wired'
    BY <1>1, <1>2, <1>3 DEF Wired
  <1>7. Queued'
    BY <1>1, <1>4, QueuedNext DEF Inv, Queued
  <1>8. Following' /\ Fresh'
    BY <1>1 DEF Following, Fresh, Connected
  <1> QED
    BY <1>4, <1>5, <1>6, <1>7, <1>8 DEF Inv

LEMMA ServerDestroysKeeps ==
    ASSUME Inv, ServerDestroys
    PROVE  Inv'
  <1>1. /\ srvChan # 0 /\ toClient' = Append(toClient, Plain("DESTROY", srvChan))
        /\ srvChan' = 0 /\ followed' = {} /\ watched' = {}
        /\ on' = on /\ up' = up /\ sstate' = sstate /\ chan' = chan
        /\ nchan' = nchan /\ outq' = outq /\ UNCHANGED data
        /\ toServer' = toServer /\ presence' = presence
    BY DEF ServerDestroys
  <1>2. Tables /\ Links /\ Wired
    BY DEF Inv
  <1>3. PICK m : m = Plain("DESTROY", srvChan)
    OBVIOUS
  <1>4. srvChan = nchan /\ MaxChans \in Nat /\ nchan \in 1..MaxChans
    BY <1>1, <1>2, BoundsAssumption DEF Wired, Links, MaxChans
  <1>5. m \in ToClient /\ m.chan = nchan
    BY <1>3, <1>4 DEF Plain, ToClient
  <1>6. PICK q \in Seq(ToClient) : q = toClient' /\ \A i \in DOMAIN q : q[i].chan = nchan
    <2>1. /\ Append(toClient, m) \in Seq(ToClient)
          /\ \A i \in DOMAIN Append(toClient, m) :
               (i \in DOMAIN toClient /\ Append(toClient, m)[i] = toClient[i])
                 \/ Append(toClient, m)[i] = m
      BY <1>2, <1>5, AppendProperties DEF Links
    <2>2. \A i \in DOMAIN Append(toClient, m) : Append(toClient, m)[i].chan = nchan
      BY <1>2, <1>5, <2>1 DEF Wired
    <2> QED
      BY <1>1, <1>3, <2>1, <2>2
  <1>7. Tables' /\ entries' = entries /\ attribs' = attribs
    BY <1>1, <1>2, TablesKept
  <1>8. Links'
    BY <1>1, <1>2, <1>6 DEF Links
  <1>9. on /\ \A i \in DOMAIN toServer : toServer[i].type # "CREATE"
    BY <1>1, <1>2 DEF Wired
  <1>10. Wired'
    BY <1>1, <1>2, <1>6, <1>9 DEF Wired
  <1>11. Queued'
    BY <1>1, <1>7, QueuedNext DEF Inv, Queued
  <1>12. sstate = "STARTED" => chan # 0
    BY <1>2 DEF Wired
  <1>13. Following' /\ Fresh'
    BY <1>1, <1>12 DEF Following, Fresh, Connected
  <1> QED
    BY <1>7, <1>8, <1>10, <1>11, <1>13 DEF Inv

-----------------------------------------------------------------------------
(* The server reads, and tells.                                            *)

LEMMA SetToSeqFacts ==
    ASSUME NEW A, IsFiniteSet(A)
    PROVE  /\ SetToSeq(A) \in [1..Cardinality(A) -> A] /\ Cardinality(A) \in Nat
           /\ IsInjective(SetToSeq(A))
           /\ \A a \in A : \E i \in 1..Cardinality(A) : SetToSeq(A)[i] = a
  <1>1. Cardinality(A) \in Nat /\ ExistsBijection(1..Cardinality(A), A)
    BY FS_CardinalityType
  <1>2. \E f \in [1..Cardinality(A) -> A] : IsInjective(f)
    BY <1>1 DEF ExistsBijection, Bijection, Injection
  <1>3. SetToSeq(A) \in [1..Cardinality(A) -> A] /\ IsInjective(SetToSeq(A))
    BY <1>2 DEF SetToSeq
  <1>4. PICK f : f = SetToSeq(A)
    OBVIOUS
  <1>5. f \in Injection(1..Cardinality(A), A)
    BY <1>3, <1>4 DEF Injection
  <1>6. IsFiniteSet(1..Cardinality(A)) /\ Cardinality(1..Cardinality(A)) = Cardinality(A)
    BY <1>1, FS_Interval
  <1>7. f \in Surjection(1..Cardinality(A), A)
    BY <1>5, <1>6, FS_Injection
  <1>8. \A a \in A : \E i \in 1..Cardinality(A) : f[i] = a
    BY <1>7 DEF Surjection
  <1> QED
    BY <1>1, <1>3, <1>4, <1>8

\* News of the server, all of it true.
TrueNews(m, p) ==
    \A j \in DOMAIN m : /\ m[j].type = "STATUS" /\ m[j].chan = nchan
                        /\ m[j].status = p[m[j].id]

LEMMA StatusFacts ==
    ASSUME Links, Wired, srvChan # 0, NEW u \in Users, NEW g \in Groups \cup {NoGroup},
           NEW s \in Presence
    PROVE  /\ Status(u, g, s) \in ToClient /\ Status(u, g, s).type = "STATUS"
           /\ Status(u, g, s).chan = nchan /\ Status(u, g, s).id = u
           /\ Status(u, g, s).status = s
  <1>1. MaxChans \in Nat
    BY BoundsAssumption DEF MaxChans
  <1>2. srvChan = nchan /\ nchan \in 1..MaxChans
    BY <1>1 DEF Links, Wired
  <1> QED
    BY <1>2 DEF Status, ToClient

LEMMA NewsFacts ==
    ASSUME Links, Wired, srvChan # 0, NEW xs \in SUBSET Ids, NEW m, m = News(xs)
    PROVE  /\ m \in Seq(ToClient) /\ TrueNews(m, presence)
           /\ \A u \in xs \cap Users : ~Untold(m, u)
  <1>1. PICK users, told, members, others :
          /\ users = SetToSeq(xs \cap Users)
          /\ told = [i \in DOMAIN users |-> Status(users[i], NoGroup, presence[users[i]])]
          /\ members = SetToSeq((xs \cap Groups) \X Users)
          /\ others = [i \in DOMAIN members |->
                         Status(members[i][2], members[i][1], presence[members[i][2]])]
    OBVIOUS
  <1>2. m = told \o others
    BY <1>1 DEF News
  <1>3. presence \in [Users -> Presence]
    BY DEF Links
  <1>4. IsFiniteSet(xs \cap Users) /\ IsFiniteSet((xs \cap Groups) \X Users)
    <2>1. IsFiniteSet(xs \cap Users) /\ IsFiniteSet(xs \cap Groups) /\ IsFiniteSet(Users)
      BY IdsAssumption, FS_Intersection
    <2> QED
      BY <2>1, FS_Product
  <1>5. PICK a \in Nat : /\ users \in [1..a -> xs \cap Users]
                         /\ \A u \in xs \cap Users : \E i \in 1..a : users[i] = u
    <2>1. PICK A : A = xs \cap Users
      OBVIOUS
    <2>2. /\ SetToSeq(A) \in [1..Cardinality(A) -> A] /\ Cardinality(A) \in Nat
          /\ \A u \in A : \E i \in 1..Cardinality(A) : SetToSeq(A)[i] = u
      BY <1>4, <2>1, SetToSeqFacts
    <2> QED
      BY <1>1, <2>1, <2>2
  <1>6. PICK b \in Nat : members \in [1..b -> (xs \cap Groups) \X Users]
    BY <1>1, <1>4, SetToSeqFacts
  <1>7. /\ DOMAIN told = 1..a
        /\ \A i \in 1..a : /\ told[i] \in ToClient /\ told[i].type = "STATUS"
                           /\ told[i].chan = nchan /\ told[i].id = users[i]
                           /\ told[i].status = presence[users[i]]
    <2>1. DOMAIN told = 1..a
      BY <1>1, <1>5
    <2>2. ASSUME NEW i \in 1..a
          PROVE  /\ told[i] \in ToClient /\ told[i].type = "STATUS"
                 /\ told[i].chan = nchan /\ told[i].id = users[i]
                 /\ told[i].status = presence[users[i]]
      <3>1. PICK u \in Users : u = users[i] /\ presence[u] \in Presence
        BY <1>3, <1>5
      <3>2. PICK g \in Groups \cup {NoGroup} : g = NoGroup
        OBVIOUS
      <3>3. told[i] = Status(u, g, presence[u])
        BY <1>1, <1>5, <3>1, <3>2
      <3> QED
        <4>1. /\ told[i] \in ToClient /\ told[i].type = "STATUS"
              /\ told[i].chan = nchan /\ told[i].id = u /\ told[i].status = presence[u]
          BY <3>1, <3>3, StatusFacts
        <4> QED
          BY <3>1, <4>1
    <2> QED
      BY <2>1, <2>2
  <1>8. /\ DOMAIN others = 1..b
        /\ \A i \in 1..b : /\ others[i] \in ToClient /\ others[i].type = "STATUS"
                           /\ others[i].chan = nchan
                           /\ others[i].status = presence[others[i].id]
    <2>1. DOMAIN others = 1..b
      BY <1>1, <1>6
    <2>2. ASSUME NEW i \in 1..b
          PROVE  /\ others[i] \in ToClient /\ others[i].type = "STATUS"
                 /\ others[i].chan = nchan
                 /\ others[i].status = presence[others[i].id]
      <3>1. PICK u \in Users, g \in Groups : members[i][2] = u /\ members[i][1] = g
        BY <1>6
      <3>2. others[i] = Status(u, g, presence[u]) /\ presence[u] \in Presence
        BY <1>1, <1>3, <1>6, <3>1
      <3>3. g \in Groups \cup {NoGroup}
        OBVIOUS
      <3> QED
        BY <3>2, <3>3, StatusFacts
    <2> QED
      BY <2>1, <2>2
  <1>9. told \in Seq(ToClient) /\ others \in Seq(ToClient)
    <2>1. told = [i \in 1..a |-> told[i]] /\ others = [i \in 1..b |-> others[i]]
      BY <1>1, <1>7, <1>8
    <2>2. told \in Seq(ToClient)
      BY <1>7, <2>1
    <2>3. others \in Seq(ToClient)
      BY <1>8, <2>1
    <2> QED
      BY <2>2, <2>3
  <1>10. m \in Seq(ToClient) /\ Behind(m, told, others)
    BY <1>2, <1>9, ConcatBehind
  <1>11. \A j \in DOMAIN m : (j \in 1..a /\ m[j] = told[j]) \/ \E i \in 1..b : m[j] = others[i]
    BY <1>7, <1>8, <1>10 DEF Behind
  <1>12. TrueNews(m, presence)
    BY <1>7, <1>8, <1>11 DEF TrueNews
  <1>13. ASSUME NEW u \in xs \cap Users PROVE ~Untold(m, u)
    <2>1. PICK i \in 1..a : users[i] = u
      BY <1>5
    <2>2. i \in DOMAIN m /\ m[i] = told[i]
      BY <1>7, <1>10 DEF Behind
    <2>3. Tells(m[i], u)
      BY <1>7, <2>1, <2>2 DEF Tells
    <2> QED
      BY <2>2, <2>3 DEF Untold
  <1> QED
    BY <1>10, <1>12, <1>13

\* The server reads a message that does not make the channel, and answers m.
LEMMA ReadKeeps ==
    ASSUME Inv, toServer # <<>>, toServer' = Tail(toServer), UNCHANGED data,
           NEW h, h = Head(toServer), h.type # "CREATE",
           on' = on, up' = up, sstate' = sstate, chan' = chan, nchan' = nchan,
           outq' = outq, presence' = presence, srvChan' = srvChan,
           NEW m \in Seq(ToClient), toClient' = toClient \o m, TrueNews(m, presence),
           NEW F \in SUBSET Ids, NEW W \in SUBSET Keys, F = followed', W = watched',
           srvChan = 0 => F = {} /\ W = {},
           Connected /\ h.type = "ADD" => F = followed \cup h.ids,
           Connected /\ h.type = "REMOVE" => F = followed \ h.ids,
           Connected /\ h.type = "WATCH" => F = followed /\ W = h.keys,
           Connected /\ h.type # "WATCH" => W = watched,
           Connected /\ h.type = "ADD" => \A u \in h.ids \cap Users : ~Untold(m, u)
    PROVE  Inv'
  <1>1. Tables /\ Links /\ Wired
    BY DEF Inv
  <1>2. PICK t \in Seq(ToServer) : /\ t = toServer' /\ Shifted(t, toServer)
                                   /\ h = toServer[1] /\ 1 \in DOMAIN toServer
                                   /\ h \in ToServer
    <2>1. toServer \in Seq(ToServer)
      BY <1>1 DEF Links
    <2>2. PICK t : t = Tail(toServer)
      OBVIOUS
    <2>3. /\ t \in Seq(ToServer) /\ Shifted(t, toServer)
          /\ Head(toServer) = toServer[1] /\ toServer[1] \in ToServer
          /\ 1 \in DOMAIN toServer
      BY <2>1, <2>2, TailShifted
    <2> QED
      BY <2>2, <2>3
  <1>3. PICK q \in Seq(ToClient) : q = toClient' /\ Behind(q, toClient, m)
    BY <1>1, ConcatBehind DEF Links
  <1>4. Tables' /\ entries' = entries /\ attribs' = attribs /\ status' = status
    BY <1>1, TablesKept
  <1>5. Links'
    BY <1>1, <1>2, <1>3 DEF Links
  <1>6. \A i \in DOMAIN q : q[i].chan = nchan
    BY <1>1, <1>3 DEF Wired, Behind, TrueNews
  <1>7. up /\ on /\ sstate # "STARTING"
    BY <1>1, <1>2 DEF Wired
  <1>8. \A i \in DOMAIN toServer : toServer[i].type # "CREATE"
    BY <1>1, <1>7 DEF Wired
  <1>9. \A i \in DOMAIN t : t[i].chan = nchan /\ t[i].type # "CREATE"
    BY <1>1, <1>2, <1>8 DEF Wired, Shifted
  <1>10. Wired'
    BY <1>1, <1>2, <1>3, <1>6, <1>7, <1>9 DEF Wired
  <1>11. Queued'
    BY <1>7 DEF Queued
  <1>12. Connected' => Connected
    BY DEF Connected
  <1>13. h.type \in {"ADD", "REMOVE", "WATCH"}
    BY <1>2, MessageFacts
  <1>14. ASSUME Connected
         PROVE  (\A x \in Ids : Follow(t, x, F, entries)) /\ Watching(t, W, attribs)
    <2>1. ASSUME NEW x \in Ids PROVE Follow(t, x, F, entries)
      <3>1. Follow(toServer, x, followed, entries)
        BY <1>14 DEF Inv, Following
      <3>2. /\ About(h, x) /\ h.type = "ADD" => x \in F
            /\ About(h, x) /\ h.type = "REMOVE" => x \notin F
            /\ ~About(h, x) => (x \in F <=> x \in followed)
        BY <1>13, <1>14 DEF About
      <3> QED
        BY <1>2, <3>1, <3>2, FollowRead
    <2>2. Watching(t, W, attribs)
      <3>1. Watching(toServer, watched, attribs)
        BY <1>14 DEF Inv, Following
      <3> QED
        BY <1>2, <1>14, <3>1, WatchRead
    <2> QED
      BY <2>1, <2>2
  <1>15. Following'
    BY <1>2, <1>4, <1>12, <1>14, FollowingNext
  <1>16. ASSUME Connected, NEW u \in Users, u \in entries
         PROVE  Current(u, t, q, status[u], presence[u])
    <2>1. Current(u, toServer, toClient, status[u], presence[u])
      BY <1>16 DEF Inv, Fresh
    <2>2. \A j \in DOMAIN m : Tells(m[j], u) => m[j].status = presence[u]
      BY DEF TrueNews, Tells
    <2>3. CASE h.type = "ADD" /\ u \in h.ids
      <3>1. ~Untold(m, u)
        BY <1>16, <2>3
      <3> QED
        BY <1>3, <2>2, <3>1, CurrentTold
    <2>4. CASE h.type = "ADD" => u \notin h.ids
      <3>1. Current(u, t, toClient, status[u], presence[u])
        BY <1>2, <2>1, <2>4, CurrentRead
      <3> QED
        BY <1>3, <2>2, <3>1, CurrentTold
    <2> QED
      BY <2>3, <2>4
  <1>17. Fresh'
    BY <1>2, <1>3, <1>4, <1>12, <1>16, FreshNext
  <1> QED
    BY <1>4, <1>5, <1>10, <1>11, <1>15, <1>17 DEF Inv

LEMMA ServerReadsKeeps ==
    ASSUME Inv, ServerReads
    PROVE  Inv'
  <1>1. PICK h : h = Head(toServer)
    OBVIOUS
  <1>2. /\ toServer # <<>> /\ toServer' = Tail(toServer) /\ UNCHANGED data
        /\ on' = on /\ up' = up /\ sstate' = sstate /\ chan' = chan
        /\ nchan' = nchan /\ outq' = outq /\ presence' = presence
    BY DEF ServerReads
  <1>3. Tables /\ Links /\ Wired
    BY DEF Inv
  <1>4. PICK t \in Seq(ToServer) : /\ t = toServer' /\ Shifted(t, toServer)
                                   /\ h = toServer[1] /\ 1 \in DOMAIN toServer
                                   /\ h \in ToServer
    BY <1>1, <1>2, <1>3, TailShifted DEF Links
  <1>5. h.chan = nchan /\ h.chan \in 1..MaxChans
    BY <1>3, <1>4, MessageFacts DEF Wired
  <1>6. followed \in SUBSET Ids /\ watched \in SUBSET Keys /\ toClient \in Seq(ToClient)
    BY <1>3 DEF Links
  <1>7. /\ <<>> \in Seq(ToClient) /\ TrueNews(<<>>, presence)
        /\ toClient \o <<>> = toClient
    BY <1>6, NoMessage, ConcatEmptySeq DEF TrueNews
  <1>8. CASE h.type = "CREATE"
    <2>1. PICK y \in {"ACCEPT", "DESTROY"} :
            /\ toClient' = Append(toClient, Plain(y, h.chan))
            /\ srvChan' \in {srvChan, h.chan}
            /\ followed' = followed /\ watched' = watched
      BY <1>1, <1>8 DEF ServerReads
    <2>2. /\ sstate = "STARTING" /\ srvChan = 0 /\ toClient = <<>>
          /\ followed = {} /\ watched = {} /\ up /\ on
      BY <1>3, <1>4, <1>8 DEF Wired
    <2>3. \A i \in DOMAIN t : FALSE
      <3>1. \A i \in DOMAIN toServer : i = 1
        BY <1>3, <2>2 DEF Wired
      <3> QED
        BY <1>4, <3>1 DEF Shifted
    <2>4. PICK m : m = Plain(y, h.chan)
      OBVIOUS
    <2>5. m \in ToClient /\ m.chan = nchan
      BY <1>5, <2>4 DEF Plain, ToClient
    <2>6. PICK q \in Seq(ToClient) : q = toClient' /\ DOMAIN q = {1} /\ q[1] = m
      <3>1. toClient' = <<m>>
        BY <2>1, <2>2, <2>4
      <3> QED
        BY <2>5, <3>1, OneMessage
    <2>7. Tables' /\ entries' = entries /\ attribs' = attribs
      BY <1>2, <1>3, TablesKept
    <2>8. srvChan' \in 0..nchan /\ srvChan' \in {0, nchan}
      BY <1>3, <1>5, <2>1, <2>2 DEF Links
    <2>9. Links'
      BY <1>2, <1>3, <1>4, <2>1, <2>6, <2>8 DEF Links
    <2>10. Wired'
      BY <1>2, <1>3, <1>4, <2>1, <2>2, <2>3, <2>5, <2>6, <2>8 DEF Wired
    <2>11. Queued'
      BY <1>2, <2>7, QueuedNext DEF Inv, Queued
    <2>12. Following' /\ Fresh'
      BY <1>2, <2>2 DEF Following, Fresh, Connected
    <2> QED
      BY <2>7, <2>9, <2>10, <2>11, <2>12 DEF Inv
  <1>9. CASE /\ h.type # "CREATE" /\ h.chan # srvChan
             /\ UNCHANGED <<toClient, server>>
    <2>1. ~Connected
      BY <1>3, <1>5, <1>9 DEF Connected, Wired
    <2>2. srvChan = 0 => followed = {} /\ watched = {}
      BY <1>3 DEF Wired
    <2> QED
      BY <1>1, <1>2, <1>6, <1>7, <1>9, <2>1, <2>2, ReadKeeps DEF server
  <1>10. CASE /\ h.type = "ADD" /\ h.chan = srvChan
              /\ followed' = followed \cup h.ids
              /\ toClient' = toClient \o News(h.ids)
              /\ UNCHANGED <<srvChan, watched>>
    <2>1. srvChan # 0 /\ h.ids \in SUBSET Ids
      BY <1>4, <1>5, <1>10, MessageFacts
    <2>2. PICK m : m = News(h.ids)
      OBVIOUS
    <2>3. /\ m \in Seq(ToClient) /\ TrueNews(m, presence)
          /\ \A u \in h.ids \cap Users : ~Untold(m, u)
      BY <1>3, <2>1, <2>2, NewsFacts
    <2>4. followed \cup h.ids \in SUBSET Ids
      BY <1>6, <2>1
    <2> QED
      BY <1>1, <1>2, <1>6, <1>10, <2>1, <2>2, <2>3, <2>4, ReadKeeps
  <1>11. CASE /\ h.type = "REMOVE" /\ h.chan = srvChan
              /\ followed' = followed \ h.ids
              /\ UNCHANGED <<toClient, srvChan, watched>>
    <2>1. srvChan # 0 /\ followed \ h.ids \in SUBSET Ids
      BY <1>5, <1>6, <1>11
    <2> QED
      BY <1>1, <1>2, <1>6, <1>7, <1>11, <2>1, ReadKeeps
  <1>12. CASE /\ h.type = "WATCH" /\ h.chan = srvChan
              /\ watched' = h.keys
              /\ UNCHANGED <<toClient, srvChan, followed>>
    <2>1. srvChan # 0 /\ h.keys \in SUBSET Keys
      BY <1>4, <1>5, <1>12, MessageFacts
    <2> QED
      BY <1>1, <1>2, <1>6, <1>7, <1>12, <2>1, ReadKeeps
  <1> QED
    BY <1>1, <1>8, <1>9, <1>10, <1>11, <1>12 DEF ServerReads

LEMMA PresenceChangesKeeps ==
    ASSUME Inv, NEW u \in Users, PresenceChanges(u)
    PROVE  Inv'
  <1>1. /\ on' = on /\ up' = up /\ sstate' = sstate /\ chan' = chan
        /\ nchan' = nchan /\ outq' = outq /\ UNCHANGED data /\ toServer' = toServer
        /\ srvChan' = srvChan /\ followed' = followed /\ watched' = watched
    BY DEF PresenceChanges, server
  <1>2. Tables /\ Links /\ Wired
    BY DEF Inv
  <1>3. PICK reasons : reasons = (followed \cap Groups)
                                   \cup (IF u \in followed THEN {NoGroup} ELSE {})
    OBVIOUS
  <1>4. PICK s \in Presence :
          /\ presence' = [presence EXCEPT ![u] = s]
          /\ reasons = {} => toClient' = toClient
          /\ reasons # {} => \E told \in (SUBSET reasons) \ {{}} :
               toClient' = toClient \o [i \in DOMAIN SetToSeq(told) |->
                                          Status(u, SetToSeq(told)[i], s)]
    <2>1. PICK s \in Presence \ {presence[u]} :
            /\ presence' = [presence EXCEPT ![u] = s]
            /\ IF reasons = {} THEN UNCHANGED toClient
               ELSE \E told \in (SUBSET reasons) \ {{}} :
                      toClient' = toClient \o [i \in DOMAIN SetToSeq(told) |->
                                                 Status(u, SetToSeq(told)[i], s)]
      BY <1>3, Zenon DEF PresenceChanges
    <2> QED
      BY <2>1
  <1>5. PICK p \in [Users -> Presence] :
          /\ p = presence' /\ p[u] = s
          /\ \A v \in Users : v # u => p[v] = presence[v]
    BY <1>2, <1>4 DEF Links
  <1>6. toClient \in Seq(ToClient)
    BY <1>2 DEF Links
  <1>7. PICK m \in Seq(ToClient) :
          /\ toClient' = toClient \o m
          /\ TrueNews(m, p) /\ \A j \in DOMAIN m : m[j].id = u
          /\ reasons = {} => m = <<>>
          /\ reasons # {} => ~Untold(m, u)
    <2>1. CASE reasons = {}
      BY <1>4, <1>6, <2>1, NoMessage, ConcatEmptySeq DEF TrueNews
    <2>2. CASE reasons # {}
      <3>1. PICK told \in (SUBSET reasons) \ {{}} :
              toClient' = toClient \o [i \in DOMAIN SetToSeq(told) |->
                                         Status(u, SetToSeq(told)[i], s)]
        BY <1>4, <2>2
      <3>2. PICK seq, m : /\ seq = SetToSeq(told)
                          /\ m = [i \in DOMAIN seq |-> Status(u, seq[i], s)]
        OBVIOUS
      <3>3. told \subseteq Groups \cup {NoGroup} /\ IsFiniteSet(told) /\ told # {}
        <4>1. told \subseteq Groups \cup {NoGroup} /\ told # {}
          <5>1. reasons \subseteq Groups \cup {NoGroup}
            BY <1>3
          <5>2. told \subseteq reasons /\ told # {}
            BY <3>1
          <5> QED
            BY <5>1, <5>2
        <4>2. IsFiniteSet(Groups \cup {NoGroup})
          BY IdsAssumption, FS_AddElement
        <4> QED
          BY <4>1, <4>2, FS_Subset
      <3>4. PICK n \in Nat : seq \in [1..n -> told] /\ n # 0
        BY <3>2, <3>3, SetToSeqFacts
      <3>5. srvChan # 0
        BY <1>2, <1>3, <2>2 DEF Wired
      <3>6. ASSUME NEW i \in 1..n
            PROVE  /\ m[i] \in ToClient /\ m[i].type = "STATUS" /\ m[i].chan = nchan
                   /\ m[i].id = u /\ m[i].status = s
        <4>1. PICK g \in Groups \cup {NoGroup} : g = seq[i]
          BY <3>3, <3>4
        <4>2. m[i] = Status(u, g, s)
          BY <3>2, <3>4, <4>1
        <4>3. Links /\ Wired /\ s \in Presence
          BY <1>2, <1>4
        <4>4. /\ Status(u, g, s) \in ToClient /\ Status(u, g, s).type = "STATUS"
              /\ Status(u, g, s).chan = nchan /\ Status(u, g, s).id = u
              /\ Status(u, g, s).status = s
          BY <3>5, <4>3, StatusFacts
        <4> QED
          BY <4>2, <4>4
      <3>7. DOMAIN m = 1..n /\ m = [i \in 1..n |-> m[i]]
        BY <3>2, <3>4
      <3>8. m \in Seq(ToClient)
        BY <3>6, <3>7
      <3>9. TrueNews(m, p)
        BY <1>5, <3>6, <3>7 DEF TrueNews
      <3>10. ~Untold(m, u)
        BY <3>4, <3>6, <3>7 DEF Untold, Tells
      <3>11. toClient' = toClient \o m
        BY <3>1, <3>2
      <3> QED
        BY <2>2, <3>6, <3>7, <3>8, <3>9, <3>10, <3>11
    <2> QED
      BY <2>1, <2>2
  <1>8. PICK q \in Seq(ToClient) : q = toClient' /\ Behind(q, toClient, m)
    BY <1>6, <1>7, ConcatBehind
  <1>9. Tables' /\ entries' = entries /\ attribs' = attribs /\ status' = status
    BY <1>1, <1>2, TablesKept
  <1>10. Links'
    BY <1>1, <1>2, <1>5, <1>8 DEF Links
  <1>11. \A i \in DOMAIN q : q[i].chan = nchan
    BY <1>2, <1>7, <1>8 DEF Wired, Behind, TrueNews
  <1>12. followed = {} => q = toClient
    BY <1>3, <1>4, <1>8
  <1>13. Wired'
    <2>1. ~on => q = <<>>
      BY <1>2, <1>12 DEF Wired
    <2>2. \A i \in DOMAIN toServer : toServer[i].type = "CREATE" => q = <<>>
      BY <1>2, <1>12 DEF Wired
    <2> QED
      BY <1>1, <1>2, <1>8, <1>11, <2>1, <2>2 DEF Wired
  <1>14. Queued'
    BY <1>1, <1>9, QueuedNext DEF Inv, Queued
  <1>15. Following'
    BY <1>1, <1>9, FollowingNext DEF Inv, Following, Connected
  <1>16. ASSUME Connected, NEW v \in Users, v \in entries
         PROVE  Current(v, toServer, q, status[v], p[v])
    <2>1. \A j \in DOMAIN m : Tells(m[j], v) => m[j].status = p[v]
      BY <1>7 DEF TrueNews, Tells
    <2>2. CASE v # u
      <3>1. Current(v, toServer, toClient, status[v], p[v])
        BY <1>5, <1>16, <2>2 DEF Inv, Fresh
      <3> QED
        BY <1>8, <2>1, <3>1, CurrentTold
    <2>3. CASE v = u /\ reasons # {}
      BY <1>7, <1>8, <2>1, <2>3, CurrentTold
    <2>4. CASE v = u /\ reasons = {}
      <3>1. u \notin followed /\ u \in entries /\ u \in Ids
        BY <1>3, <1>16, <2>4 DEF Ids
      <3>2. Follow(toServer, u, followed, entries)
        BY <1>16, <3>1 DEF Inv, Following
      <3>3. LastSays(toServer, u, "ADD")
        BY <3>1, <3>2 DEF Follow
      <3>4. Asked(toServer, u)
        BY <3>3 DEF LastSays, About, Asked
      <3> QED
        BY <2>4, <3>4 DEF Current
    <2> QED
      BY <2>2, <2>3, <2>4
  <1>17. Fresh'
    BY <1>1, <1>5, <1>8, <1>9, <1>16, FreshNext DEF Connected
  <1> QED
    BY <1>9, <1>10, <1>13, <1>14, <1>15, <1>17 DEF Inv

-----------------------------------------------------------------------------
(* Together.                                                               *)

LEMMA InitInv == Init => Inv
  <1> SUFFICES ASSUME Init PROVE Inv
    OBVIOUS
  <1>1. MaxChans \in Nat
    BY BoundsAssumption DEF MaxChans
  <1>2. Tables
    BY DEF Init, Tables, Presence
  <1>3. <<>> \in Seq(ToServer) /\ <<>> \in Seq(ToClient) /\ ~ \E j : j \in DOMAIN <<>>
    BY NoMessage
  <1>4. {on, up} \subseteq BOOLEAN
    BY Zenon DEF Init
  <1>5. Links
    BY <1>1, <1>3, <1>4 DEF Init, Links, Presence
  <1>6. Wired
    BY <1>3 DEF Init, Wired
  <1>7. Queued /\ Following /\ Fresh
    BY DEF Init, Queued, Following, Fresh, Connected
  <1> QED
    BY <1>2, <1>5, <1>6, <1>7 DEF Inv

LEMMA StutterInv ==
    ASSUME Inv, UNCHANGED vars
    PROVE  Inv'
  <1>1. /\ UNCHANGED <<on, up, sstate, chan, nchan, outq, data, toServer, toClient>>
        /\ UNCHANGED <<srvChan, followed, watched, presence>>
    BY DEF vars, server
  <1>2. Tables' /\ entries' = entries /\ attribs' = attribs /\ status' = status
    BY <1>1, TablesKept DEF Inv
  <1>3. Links' /\ Wired'
    BY <1>1 DEF Inv, Links, Wired
  <1>4. Queued'
    BY <1>1, <1>2, QueuedNext DEF Inv, Queued
  <1>5. Following'
    BY <1>1, <1>2, FollowingNext DEF Inv, Following, Connected
  <1>6. Fresh'
    BY <1>1, <1>2, FreshNext DEF Inv, Fresh, Connected
  <1> QED
    BY <1>2, <1>3, <1>4, <1>5, <1>6 DEF Inv

LEMMA NextInv == Inv /\ [Next]_vars => Inv'
  <1> SUFFICES ASSUME Inv, [Next]_vars PROVE Inv'
    OBVIOUS
  <1>1. CASE ClientCall
    BY <1>1, ClientCallKeeps
  <1>2. CASE Handle
    BY <1>2, Accept, Destroy, Update DEF Handle
  <1>3. CASE SessionStarts
    BY <1>3, SessionStartsKeeps
  <1>4. CASE SessionStops
    BY <1>4, SessionStopsKeeps
  <1>5. CASE ServerReads
    BY <1>5, ServerReadsKeeps
  <1>6. CASE \E u \in Users : PresenceChanges(u)
    BY <1>6, PresenceChangesKeeps
  <1>7. CASE ServerDestroys
    BY <1>7, ServerDestroysKeeps
  <1>8. CASE ConnectionBreaks
    BY <1>8, ConnectionBreaksKeeps
  <1>9. CASE UNCHANGED vars
    BY <1>9, StutterInv
  <1> QED
    BY <1>1, <1>2, <1>3, <1>4, <1>5, <1>6, <1>7, <1>8, <1>9 DEF Next

LEMMA InvCorrect == Spec => []Inv
  BY InitInv, NextInv, PTL DEF Spec

\* When all is read the server follows what the lists hold, and the status of
\* each entry is the true one.
LEMMA ReadUp ==
    ASSUME Inv
    PROVE  AwareConsistent /\ StatusCurrent
  <1>1. TypeOK
    BY TypeParts DEF Inv
  <1>2. ServerFollows
    <2>1. ASSUME Connected, toServer = <<>>
          PROVE  followed = entries /\ watched = attribs
      <3>1. ~ \E j : j \in DOMAIN toServer
        BY <2>1, NoMessage
      <3>2. \A x \in Ids : x \in followed <=> x \in entries
        BY <2>1, <3>1 DEF Inv, Following, Follow, LastSays
      <3>3. followed \subseteq Ids /\ entries \subseteq Ids
        BY DEF Inv, Links, Tables
      <3>4. watched = attribs
        BY <2>1, <3>1 DEF Inv, Following, Watching, LastWatches
      <3> QED
        BY <3>2, <3>3, <3>4
    <2> QED
      BY <2>1 DEF ServerFollows
  <1>3. StatusCurrent
    <2>1. ASSUME Connected, toServer = <<>>, toClient = <<>>, NEW u \in entries \cap Users
          PROVE  status[u] \in {presence[u], "set"}
      <3>1. ~(\E j : j \in DOMAIN toServer) /\ ~(\E j : j \in DOMAIN toClient)
        BY <2>1, NoMessage
      <3>2. Current(u, toServer, toClient, status[u], presence[u])
        BY <2>1 DEF Inv, Fresh
      <3> QED
        BY <3>1, <3>2 DEF Current, Asked, Told
    <2> QED
      BY <2>1 DEF StatusCurrent
  <1> QED
    BY <1>1, <1>2, <1>3 DEF AwareConsistent

\* For any users, groups, attributes and lists: the tables of the lists and of
\* the service agree, with no entry that no list holds (list_add, remove_unused),
\* and when it has read what it was sent the server follows exactly the entries
\* and watches exactly the attributes (send_add, send_rem, watch_add, and
\* recv_accept, which sends all there is), whatever was added, removed or freed
\* before the channel was accepted, while the service was down, or because a
\* group's member was told of (group_member_recv).
THEOREM AwareCorrect == Spec => []AwareConsistent
  <1>1. Inv => AwareConsistent
    BY ReadUp
  <1> QED
    BY <1>1, InvCorrect, PTL

\* When all is read, both ways, the status an entry has (status_recv) is the
\* user's true one or one the client made up (mwServiceAware_setStatus), though
\* the entry was kept over a restart of the session, or removed and added again
\* while old news of it was on its way.
THEOREM StatusCorrect == Spec => []StatusCurrent
  <1>1. Inv => StatusCurrent
    BY ReadUp
  <1> QED
    BY <1>1, InvCorrect, PTL

=============================================================================
