------------------------------- MODULE Codec -------------------------------
(***************************************************************************)
(* How message.c and common.c write structures to a buffer, read, copy and *)
(* free them.  A put, get, clone or clear function is the list of calls it *)
(* makes; a call names a kind of value, the field it is about and the      *)
(* condition it is made under.  The put and the get function of a          *)
(* structure are translated separately: nothing makes them agree but the   *)
(* code.                                                                   *)
(*                                                                         *)
(* A structure is a function from its fields (paths of names) to the       *)
(* values that are not zero: what g_new0 returns is the empty function.    *)
(* A list or an array is a sequence of structures.                         *)
(***************************************************************************)
EXTENDS Buffers, SequencesExt, FiniteSets, TLC

CONSTANTS Messages,   \* what is sent: [of : {"message", "snapshot"}, m : structure]
          Junk        \* values an uninitialised counter may have

-----------------------------------------------------------------------------
(* Calls. *)

Call(op, p, f) == [op |-> op, at |-> Append(p, f), when |-> {}]
U16(p, f) == Call("u16", p, f)
U32(p, f) == Call("u32", p, f)
Bool(p, f) == Call("bool", p, f)
Str(p, f) == Call("string", p, f)
Opaque(p, f) == Call("opaque", p, f)

\* Writes a constant.
Const16(v) == [op |-> "const16", val |-> v, when |-> {}]
Const32(v) == [op |-> "const32", val |-> v, when |-> {}]

\* An element per entry of the list at p.f, each by the calls in item.
\* Written first to last ("up") or last to first ("down"); read as many as
\* the field count says (one if there is none), put behind or in front of
\* those read before, and, if careful, only as long as there is no error.
PutList(p, f, item, order) ==
    [op |-> "list", at |-> Append(p, f), item |-> item, order |-> order, when |-> {}]
GetList(p, f, item, order, count, careful) ==
    [op |-> "list", at |-> Append(p, f), item |-> item, order |-> order,
     count |-> count, careful |-> careful, when |-> {}]
\* The length of a list.
Count(p, f) == [op |-> "count", at |-> Append(p, f), when |-> {}]
\* Calls on a buffer of their own, which is an opaque of the outer one.
Block(calls) == [op |-> "block", calls |-> calls, when |-> {}]

\* The calls are made only if the number at p.f is at least n; for a list,
\* if it has that many elements.
When(p, f, n, calls) ==
    [i \in DOMAIN calls |-> [calls[i] EXCEPT !.when = @ \cup {<< Append(p, f), n >>}]]

Zero(op) == IF op \in {"string", "opaque", "list"} THEN << >> ELSE 0

Value(m, c) == IF c.at \in DOMAIN m THEN m[c.at] ELSE Zero(c.op)

Store(m, c, v) ==
    IF v = Zero(c.op) THEN [p \in DOMAIN m \ {c.at} |-> m[p]] ELSE (c.at :> v) @@ m

Holds(m, c) ==
    \A w \in c.when : /\ w[1] \in DOMAIN m
                      /\ (IF Last(w[1]) \in {"items", "item"} THEN Len(m[w[1]])
                                                              ELSE m[w[1]]) >= w[2]

RECURSIVE Put(_, _, _)
\* What the calls write of m.
Put(b, calls, m) ==
    LET One(buf, c) ==
          CASE ~ Holds(m, c)     -> buf
            [] c.op = "u16"      -> guint16_put(buf, Value(m, c))
            [] c.op = "u32"      -> guint32_put(buf, Value(m, c))
            [] c.op = "bool"     -> gboolean_put(buf, Value(m, c))
            [] c.op = "string"   -> mwString_put(buf, Value(m, c))
            [] c.op = "opaque"   -> mwOpaque_put(buf, Value(m, c))
            [] c.op = "const16"  -> guint16_put(buf, c.val)
            [] c.op = "const32"  -> guint32_put(buf, c.val)
            [] c.op = "count"    -> guint32_put(buf, IF c.at \in DOMAIN m
                                                     THEN Len(m[c.at]) ELSE 0)
            [] c.op = "list"     ->
                 FoldLeft(LAMBDA x, item : Put(x, c.item, item), buf,
                          IF c.order = "up" THEN Value(m, c) ELSE Reverse(Value(m, c)))
            [] c.op = "block"    ->
                 mwOpaque_put(buf, Put(mwPutBuffer_new, c.calls, m).data)
    IN  FoldLeft(One, b, calls)

RECURSIVE Get(_, _)
\* The calls read s.b into s.m.
Get(s, calls) ==
    LET Items(t, c) ==
          LET n == IF c.count = << >> THEN 1
                   ELSE Value(t.m, [op |-> "u32", at |-> c.count])
              Item(acc, i) ==
                IF c.careful /\ acc.b.error THEN acc
                ELSE LET r == Get([b |-> acc.b, m |-> << >>], c.item)
                     IN  [b |-> r.b,
                          all |-> IF c.order = "behind" THEN Append(acc.all, r.m)
                                                        ELSE << r.m >> \o acc.all]
              read == FoldLeft(Item, [b |-> t.b, all |-> << >>], [i \in 1 .. n |-> i])
          IN  [b |-> read.b, m |-> Store(t.m, c, read.all)]
        One(t, c) ==
          LET old == Value(t.m, c)
              Set(r) == [b |-> r.b, m |-> Store(t.m, c, r.val)]
          IN CASE ~ Holds(t.m, c)   -> t
               [] c.op = "u16"      -> Set(guint16_get(t.b, old))
               [] c.op = "u32"      -> Set(guint32_get(t.b, old))
               [] c.op = "bool"     -> Set(gboolean_get(t.b, old))
               [] c.op = "string"   -> Set(mwString_get(t.b))
               [] c.op = "opaque"   -> Set(mwOpaque_get(t.b))
               [] c.op = "forget"   -> [t EXCEPT !.m = Store(t.m, c, 0)]
               [] c.op = "list"     -> Items(t, c)
               [] c.op = "to"       -> IF t.b.ptr >= old THEN t
                                       ELSE [t EXCEPT !.b = mwGetBuffer_advance(@, old - @.ptr)]
               [] c.op = "block"    ->
                    LET o == mwOpaque_get(t.b)
                    IN  [b |-> o.b, m |-> Get([b |-> mwGetBuffer_wrap(o.val), m |-> t.m], c.calls).m]
    IN  FoldLeft(One, s, calls)

RECURSIVE Copy(_, _)
\* What the calls copy of m into a new structure.
Copy(calls, m) ==
    LET One(to, c) ==
          CASE ~ Holds(to, c) \/ c.at \notin DOMAIN m -> to
            [] c.op # "list" -> Store(to, c, m[c.at])
            [] c.op = "list" -> Store(to, c, [i \in DOMAIN m[c.at] |-> Copy(c.item, m[c.at][i])])
    IN  FoldLeft(One, << >>, calls)

\* The fields f of the structure at p.
At(p, f) == {Append(p, x) : x \in f}

-----------------------------------------------------------------------------
(* common.c: the structures. *)

mwLoginInfo_put(p) ==
    << Str(p, "login_id"), U16(p, "type"), Str(p, "user_id"), Str(p, "user_name"),
       Str(p, "community"), Bool(p, "full") >>
    \o When(p, "full", 1, << Str(p, "desc"), U32(p, "ip_addr"), Str(p, "server_id") >>)

mwLoginInfo_get(p) ==
    << Str(p, "login_id"), U16(p, "type"), Str(p, "user_id"), Str(p, "user_name"),
       Str(p, "community"), Bool(p, "full") >>
    \o When(p, "full", 1, << Str(p, "desc"), U32(p, "ip_addr"), Str(p, "server_id") >>)

mwLoginInfo_clone(p) ==
    << Str(p, "login_id"), U16(p, "type"), Str(p, "user_id"), Str(p, "user_name"),
       Str(p, "community"), Bool(p, "full") >>
    \o When(p, "full", 1, << Str(p, "desc"), U32(p, "ip_addr"), Str(p, "server_id") >>)

mwLoginInfo_clear(p) ==
    At(p, {"login_id", "user_id", "user_name", "community", "desc", "server_id"})

mwUserItem_put(p) ==
    << Bool(p, "full"), Str(p, "id"), Str(p, "community") >>
    \o When(p, "full", 1, << Str(p, "name") >>)

mwUserItem_get(p) ==
    << Bool(p, "full"), Str(p, "id"), Str(p, "community") >>
    \o When(p, "full", 1, << Str(p, "name") >>)

mwUserItem_clone(p) ==
    << Bool(p, "full"), Str(p, "id"), Str(p, "community") >>
    \o When(p, "full", 1, << Str(p, "name") >>)

mwUserItem_clear(p) == At(p, {"id", "community", "name"})

mwPrivacyInfo_put(p) ==
    << Bool(p, "deny"), U32(p, "count"), PutList(p, "users", mwUserItem_put(<< >>), "down") >>

\* The users in the order they come.
PrivacyInfo_get_up(p) ==
    << Bool(p, "deny"), U32(p, "count"),
       GetList(p, "users", mwUserItem_get(<< >>), "behind", Append(p, "count"), FALSE) >>

mwPrivacyInfo_get(p) ==
    << Bool(p, "deny"), U32(p, "count"),
       GetList(p, "users", mwUserItem_get(<< >>), "front", Append(p, "count"), FALSE) >>

mwPrivacyInfo_clone(p) ==
    << Bool(p, "deny"), U32(p, "count"), PutList(p, "users", mwUserItem_clone(<< >>), "down") >>

mwPrivacyInfo_clear(p) ==
    At(p, {"users"}) \cup mwUserItem_clear(Append(p, "users"))

mwUserStatus_put(p) == << U16(p, "status"), U32(p, "time"), Str(p, "desc") >>

\* The time is read, and forgotten.
mwUserStatus_get(p) ==
    << U16(p, "status"), U32(p, "time"), Str(p, "desc"), Call("forget", p, "time") >>

mwUserStatus_clone(p) == << U16(p, "status"), U32(p, "time"), Str(p, "desc") >>

mwUserStatus_clear(p) == At(p, {"desc"})

mwIdBlock_put(p) == << Str(p, "user"), Str(p, "community") >>

mwIdBlock_get(p) == << Str(p, "user"), Str(p, "community") >>

mwIdBlock_clear(p) == At(p, {"user", "community"})

mwEncryptItem_put(p) == << U16(p, "id"), Opaque(p, "info") >>

mwEncryptItem_get(p) == << U16(p, "id"), Opaque(p, "info") >>

mwEncryptItem_clear(p) == At(p, {"info"})

mwAwareIdBlock_get(p) == << U16(p, "type"), Str(p, "user"), Str(p, "community") >>

mwAwareIdBlock_put(p) == << U16(p, "type"), Str(p, "user"), Str(p, "community") >>

mwAwareIdBlock_clone(p) == << U16(p, "type"), Str(p, "user"), Str(p, "community") >>

mwAwareIdBlock_clear(p) == At(p, {"user", "community"})

\* Ends where the block says it ends, if that is further on.
mwAwareSnapshot_get ==
    << U32(<< >>, "end_of_block") >> \o mwAwareIdBlock_get(<< "id" >>)
    \o << Str(<< >>, "group"), Bool(<< >>, "online") >>
    \o When(<< >>, "online", 1,
            << Str(<< >>, "alt_id") >> \o mwUserStatus_get(<< "status" >>)
            \o << Str(<< >>, "name") >>)
    \o << Call("to", << >>, "end_of_block") >>

\* An offline user's group is not copied.
mwAwareSnapshot_clone ==
    mwAwareIdBlock_clone(<< "id" >>) \o << Bool(<< >>, "online") >>
    \o When(<< >>, "online", 1,
            << Str(<< >>, "alt_id") >> \o mwUserStatus_clone(<< "status" >>)
            \o << Str(<< >>, "name"), Str(<< >>, "group") >>)

mwAwareSnapshot_clear ==
    mwAwareIdBlock_clear(<< "id" >>) \cup mwUserStatus_clear(<< "status" >>)
    \cup At(<< >>, {"alt_id", "name", "group"})

-----------------------------------------------------------------------------
(* message.c: the messages.  Body fields are at their own names, those of  *)
(* the head under "head".                                                  *)

HANDSHAKE == 0
HANDSHAKE_ACK == 32768
LOGIN == 1
LOGIN_ACK == 32769
LOGIN_REDIRECT == 24
LOGIN_CONTINUE == 22
CHANNEL_CREATE == 2
CHANNEL_DESTROY == 3
CHANNEL_SEND == 4
CHANNEL_ACCEPT == 6
SET_USER_STATUS == 9
SET_PRIVACY_LIST == 11
SENSE_SERVICE == 17
ADMIN == 25
ANNOUNCE == 34
HAS_ATTRIBS == 32768

KnownTypes == {HANDSHAKE, HANDSHAKE_ACK, LOGIN, LOGIN_ACK, LOGIN_REDIRECT,
    LOGIN_CONTINUE, CHANNEL_CREATE, CHANNEL_DESTROY, CHANNEL_SEND, CHANNEL_ACCEPT,
    SET_USER_STATUS, SET_PRIVACY_LIST, SENSE_SERVICE, ADMIN, ANNOUNCE}

\* HAS_ATTRIBS is the highest bit of the options.
mwMessageHead_put ==
    << U16(<< "head" >>, "type"), U16(<< "head" >>, "options"), U32(<< "head" >>, "channel") >>
    \o When(<< "head" >>, "options", HAS_ATTRIBS, << Opaque(<< "head" >>, "attribs") >>)

mwMessageHead_get ==
    << U16(<< "head" >>, "type"), U16(<< "head" >>, "options"), U32(<< "head" >>, "channel") >>
    \o When(<< "head" >>, "options", HAS_ATTRIBS, << Opaque(<< "head" >>, "attribs") >>)

mwMessageHead_clone ==
    << U16(<< "head" >>, "type"), U16(<< "head" >>, "options"), U32(<< "head" >>, "channel"),
       Opaque(<< "head" >>, "attribs") >>

mwMessageHead_clear == {<< "head", "attribs" >>}

HANDSHAKE_put ==
    << U16(<< >>, "major"), U16(<< >>, "minor"), U32(<< "head" >>, "channel"),
       U32(<< >>, "srvrcalc_addr"), U16(<< >>, "login_type"), U32(<< >>, "loclcalc_addr") >>
    \o When(<< >>, "major", 30, When(<< >>, "minor", 29,
            << U16(<< >>, "unknown_a"), U32(<< >>, "unknown_b"), Str(<< >>, "local_host") >>))

HANDSHAKE_get ==
    << U16(<< >>, "major"), U16(<< >>, "minor"), U32(<< "head" >>, "channel"),
       U32(<< >>, "srvrcalc_addr"), U16(<< >>, "login_type"), U32(<< >>, "loclcalc_addr") >>
    \o When(<< >>, "major", 30, When(<< >>, "minor", 29,
            << U16(<< >>, "unknown_a"), U32(<< >>, "unknown_b"), Str(<< >>, "local_host") >>))

HANDSHAKE_clear == {}

HANDSHAKE_ACK_put ==
    << U16(<< >>, "major"), U16(<< >>, "minor"), U32(<< >>, "srvrcalc_addr") >>
    \o When(<< >>, "major", 30, When(<< >>, "minor", 25,
            << U32(<< >>, "magic"), Opaque(<< >>, "data") >>))

HANDSHAKE_ACK_get ==
    << U16(<< >>, "major"), U16(<< >>, "minor"), U32(<< >>, "srvrcalc_addr") >>
    \o When(<< >>, "major", 30, When(<< >>, "minor", 25,
            << U32(<< >>, "magic"), Opaque(<< >>, "data") >>))

HANDSHAKE_ACK_clear == {<< "data" >>}

\* The last number is never read.
LOGIN_put ==
    << U16(<< >>, "login_type"), Str(<< >>, "name"), Opaque(<< >>, "auth_data"),
       U16(<< >>, "auth_type"), Const16(0) >>

LOGIN_get ==
    << U16(<< >>, "login_type"), Str(<< >>, "name"), Opaque(<< >>, "auth_data"),
       U16(<< >>, "auth_type") >>

LOGIN_clear == {<< "name" >>, << "auth_data" >>}

LOGIN_ACK_get ==
    mwLoginInfo_get(<< "login" >>) \o << U16(<< >>, "junk") >>
    \o mwPrivacyInfo_get(<< "privacy" >>) \o mwUserStatus_get(<< "status" >>)

LOGIN_ACK_clear ==
    mwLoginInfo_clear(<< "login" >>) \cup mwPrivacyInfo_clear(<< "privacy" >>)
    \cup mwUserStatus_clear(<< "status" >>)

LOGIN_CONTINUE_put == << >>
LOGIN_CONTINUE_get == << >>
LOGIN_CONTINUE_clear == {}

LOGIN_REDIRECT_get == << Str(<< >>, "host"), Str(<< >>, "server_id") >>

LOGIN_REDIRECT_put == << Str(<< >>, "host"), Str(<< >>, "server_id") >>

LOGIN_REDIRECT_clear == {<< "host" >>, << "server_id" >>}

\* Without items the mode is all there is.
enc_offer_put(p) ==
    << U16(p, "mode") >>
    \o When(p, "items", 1,
            << Block(<< Count(p, "items"),
                        PutList(p, "items", mwEncryptItem_put(<< >>), "up"),
                        U16(p, "extra"), Bool(p, "flag") >>) >>)

\* skip is the length of the block, or zeros of the trailer.
enc_offer_get(p) ==
    << U16(p, "mode"), U32(p, "skip") >>
    \o When(p, "skip", 7,
            << U32(p, "count"),
               GetList(p, "items", mwEncryptItem_get(<< >>), "behind", Append(p, "count"), TRUE),
               U16(p, "extra"), Bool(p, "flag") >>)

\* Zeros and a number nobody knows.
ChannelTrailer == << Const32(0), Const32(0), Const16(7) >>

CHANNEL_CREATE_put ==
    << U32(<< >>, "reserved"), U32(<< >>, "channel") >> \o mwIdBlock_put(<< "target" >>)
    \o << U32(<< >>, "service"), U32(<< >>, "proto_type"), U32(<< >>, "proto_ver"),
          U32(<< >>, "options"), Opaque(<< >>, "addtl"), Bool(<< >>, "creator_flag") >>
    \o When(<< >>, "creator_flag", 1, mwLoginInfo_put(<< "creator" >>))
    \o enc_offer_put(<< "encrypt" >>) \o ChannelTrailer

CHANNEL_CREATE_get ==
    << U32(<< >>, "reserved"), U32(<< >>, "channel") >> \o mwIdBlock_get(<< "target" >>)
    \o << U32(<< >>, "service"), U32(<< >>, "proto_type"), U32(<< >>, "proto_ver"),
          U32(<< >>, "options"), Opaque(<< >>, "addtl"), Bool(<< >>, "creator_flag") >>
    \o When(<< >>, "creator_flag", 1, mwLoginInfo_get(<< "creator" >>))
    \o enc_offer_get(<< "encrypt" >>)

CHANNEL_CREATE_clear ==
    mwIdBlock_clear(<< "target" >>) \cup {<< "addtl" >>} \cup mwLoginInfo_clear(<< "creator" >>)
    \cup {<< "encrypt", "items" >>} \cup mwEncryptItem_clear(<< "encrypt", "items" >>)

enc_accept_put(p) ==
    << U16(p, "mode") >>
    \o When(p, "item", 1,
            << Block(<< PutList(p, "item", mwEncryptItem_put(<< >>), "up"),
                        U16(p, "extra"), Bool(p, "flag") >>) >>)

enc_accept_get(p) ==
    << U16(p, "mode"), U32(p, "skip") >>
    \o When(p, "skip", 6,
            << GetList(p, "item", mwEncryptItem_get(<< >>), "behind", << >>, FALSE) >>)
    \o When(p, "skip", 9, << U16(p, "extra"), Bool(p, "flag") >>)

CHANNEL_ACCEPT_put ==
    << U32(<< >>, "service"), U32(<< >>, "proto_type"), U32(<< >>, "proto_ver"),
       Opaque(<< >>, "addtl"), Bool(<< >>, "acceptor_flag") >>
    \o When(<< >>, "acceptor_flag", 1, mwLoginInfo_put(<< "acceptor" >>))
    \o enc_accept_put(<< "encrypt" >>) \o ChannelTrailer

CHANNEL_ACCEPT_get ==
    << U32(<< >>, "service"), U32(<< >>, "proto_type"), U32(<< >>, "proto_ver"),
       Opaque(<< >>, "addtl"), Bool(<< >>, "acceptor_flag") >>
    \o When(<< >>, "acceptor_flag", 1, mwLoginInfo_get(<< "acceptor" >>))
    \o enc_accept_get(<< "encrypt" >>)

CHANNEL_ACCEPT_clear ==
    {<< "addtl" >>} \cup mwLoginInfo_clear(<< "acceptor" >>)
    \cup {<< "encrypt", "item" >>} \cup mwEncryptItem_clear(<< "encrypt", "item" >>)

CHANNEL_SEND_put == << U16(<< >>, "type"), Opaque(<< >>, "data") >>
CHANNEL_SEND_get == << U16(<< >>, "type"), Opaque(<< >>, "data") >>
CHANNEL_SEND_clear == {<< "data" >>}

CHANNEL_DESTROY_put == << U32(<< >>, "reason"), Opaque(<< >>, "data") >>
CHANNEL_DESTROY_get == << U32(<< >>, "reason"), Opaque(<< >>, "data") >>
CHANNEL_DESTROY_clear == {<< "data" >>}

SET_USER_STATUS_put == mwUserStatus_put(<< "status" >>)
SET_USER_STATUS_get == mwUserStatus_get(<< "status" >>)
SET_USER_STATUS_clear == mwUserStatus_clear(<< "status" >>)

SET_PRIVACY_LIST_put == mwPrivacyInfo_put(<< "privacy" >>)
SET_PRIVACY_LIST_get == mwPrivacyInfo_get(<< "privacy" >>)
SET_PRIVACY_LIST_clear == mwPrivacyInfo_clear(<< "privacy" >>)

SENSE_SERVICE_put == << U32(<< >>, "service") >>
SENSE_SERVICE_get == << U32(<< >>, "service") >>
SENSE_SERVICE_clear == {}

ADMIN_get == << Str(<< >>, "text") >>
ADMIN_clear == {<< "text" >>}

ANNOUNCE_put ==
    << Bool(<< >>, "sender_present") >>
    \o When(<< >>, "sender_present", 1, mwLoginInfo_put(<< "sender" >>))
    \o << U16(<< >>, "unknown_a"), Block(<< Bool(<< >>, "may_reply"), Str(<< >>, "text") >>),
          Count(<< >>, "recipients"),
          PutList(<< >>, "recipients", << Str(<< >>, "name") >>, "up") >>

\* The recipients end up in the opposite order.
ANNOUNCE_get ==
    << Bool(<< >>, "sender_present") >>
    \o When(<< >>, "sender_present", 1, mwLoginInfo_get(<< "sender" >>))
    \o << U16(<< >>, "unknown_a"), Block(<< Bool(<< >>, "may_reply"), Str(<< >>, "text") >>),
          U32(<< >>, "count"),
          GetList(<< >>, "recipients", << Str(<< >>, "name") >>, "front", << "count" >>, FALSE) >>

ANNOUNCE_clear ==
    mwLoginInfo_clear(<< "sender" >>) \cup {<< "text" >>, << "recipients" >>, << "recipients", "name" >>}

-----------------------------------------------------------------------------
(* Messages as a whole. *)

TypeOf(m) == Value(m, U16(<< "head" >>, "type"))

\* What the server writes of the messages the library only reads.
Server_put(type) ==
    CASE type = LOGIN_ACK -> mwLoginInfo_put(<< "login" >>) \o << Const16(0) >>
                             \o mwPrivacyInfo_put(<< "privacy" >>) \o mwUserStatus_put(<< "status" >>)
      [] type = ADMIN     -> << Str(<< >>, "text") >>
      [] OTHER            -> << >>

\* A snapshot of the server: its end, the fields, and bytes the library does
\* not know.
Snapshot_put(m) ==
    LET body == Put(mwPutBuffer_new,
                    mwAwareIdBlock_put(<< "id" >>) \o << Str(<< >>, "group"), Bool(<< >>, "online") >>
                    \o When(<< >>, "online", 1,
                            << Str(<< >>, "alt_id") >> \o mwUserStatus_put(<< "status" >>)
                            \o << Str(<< >>, "name") >>)
                    \o << Const16(0) >>, m)
    IN  Put(mwPutBuffer_new, << Const32(4 + Len(body.data)) >>, m).data \o body.data

BodyPut(type) ==
    CASE type = HANDSHAKE        -> HANDSHAKE_put
      [] type = HANDSHAKE_ACK    -> HANDSHAKE_ACK_put
      [] type = LOGIN            -> LOGIN_put
      [] type = LOGIN_REDIRECT   -> LOGIN_REDIRECT_put
      [] type = LOGIN_CONTINUE   -> LOGIN_CONTINUE_put
      [] type = CHANNEL_CREATE   -> CHANNEL_CREATE_put
      [] type = CHANNEL_DESTROY  -> CHANNEL_DESTROY_put
      [] type = CHANNEL_SEND     -> CHANNEL_SEND_put
      [] type = CHANNEL_ACCEPT   -> CHANNEL_ACCEPT_put
      [] type = SET_USER_STATUS  -> SET_USER_STATUS_put
      [] type = SET_PRIVACY_LIST -> SET_PRIVACY_LIST_put
      [] type = SENSE_SERVICE    -> SENSE_SERVICE_put
      [] type = ANNOUNCE         -> ANNOUNCE_put
      [] OTHER                   -> Server_put(type)

mwMessage_put(m) == Put(mwPutBuffer_new, mwMessageHead_put \o BodyPut(TypeOf(m)), m)

BodyGet(type) ==
    CASE type = HANDSHAKE        -> HANDSHAKE_get
      [] type = HANDSHAKE_ACK    -> HANDSHAKE_ACK_get
      [] type = LOGIN            -> LOGIN_get
      [] type = LOGIN_REDIRECT   -> LOGIN_REDIRECT_get
      [] type = LOGIN_CONTINUE   -> LOGIN_CONTINUE_get
      [] type = LOGIN_ACK        -> LOGIN_ACK_get
      [] type = CHANNEL_CREATE   -> CHANNEL_CREATE_get
      [] type = CHANNEL_DESTROY  -> CHANNEL_DESTROY_get
      [] type = CHANNEL_SEND     -> CHANNEL_SEND_get
      [] type = CHANNEL_ACCEPT   -> CHANNEL_ACCEPT_get
      [] type = SET_USER_STATUS  -> SET_USER_STATUS_get
      [] type = SET_PRIVACY_LIST -> SET_PRIVACY_LIST_get
      [] type = SENSE_SERVICE    -> SENSE_SERVICE_get
      [] type = ADMIN            -> ADMIN_get
      [] type = ANNOUNCE         -> ANNOUNCE_get

\* Variables of the get functions that are not part of the message; they
\* hold anything until they are read.
Locals == {<< "encrypt", "skip" >>, << "encrypt", "count" >>, << "count" >>, << "junk" >>,
           << "end_of_block" >>}

\* Reading into what m holds by then.
Read(b, m, calls, junk) ==
    LET r == Get([b |-> b, m |-> m @@ [p \in IF junk = 0 THEN {} ELSE Locals |-> junk]], calls)
    IN  [b |-> r.b, null |-> FALSE, m |-> [p \in DOMAIN r.m \ Locals |-> r.m[p]]]

\* A message is returned, with what could be read of it, even when its bytes
\* end too early; none if the head ends too early or the type is unknown.
mwMessage_get(bytes, junk) ==
    LET head == Get([b |-> mwGetBuffer_wrap(bytes), m |-> << >>], mwMessageHead_get)
    IN  IF head.b.error \/ TypeOf(head.m) \notin KnownTypes
        THEN [b |-> head.b, null |-> TRUE, m |-> << >>]
        ELSE Read(head.b, Copy(mwMessageHead_clone, head.m), BodyGet(TypeOf(head.m)), junk)

mwMessage_free(m) ==
    LET type == TypeOf(m)
    IN  mwMessageHead_clear \cup
        CASE type = HANDSHAKE        -> HANDSHAKE_clear
          [] type = HANDSHAKE_ACK    -> HANDSHAKE_ACK_clear
          [] type = LOGIN            -> LOGIN_clear
          [] type = LOGIN_REDIRECT   -> LOGIN_REDIRECT_clear
          [] type = LOGIN_CONTINUE   -> LOGIN_CONTINUE_clear
          [] type = LOGIN_ACK        -> LOGIN_ACK_clear
          [] type = CHANNEL_CREATE   -> CHANNEL_CREATE_clear
          [] type = CHANNEL_DESTROY  -> CHANNEL_DESTROY_clear
          [] type = CHANNEL_SEND     -> CHANNEL_SEND_clear
          [] type = CHANNEL_ACCEPT   -> CHANNEL_ACCEPT_clear
          [] type = SET_USER_STATUS  -> SET_USER_STATUS_clear
          [] type = SET_PRIVACY_LIST -> SET_PRIVACY_LIST_clear
          [] type = SENSE_SERVICE    -> SENSE_SERVICE_clear
          [] type = ADMIN            -> ADMIN_clear
          [] type = ANNOUNCE         -> ANNOUNCE_clear

RECURSIVE Heap(_, _)
\* The memory that the structure m, read by these calls, refers to.
Heap(calls, m) ==
    UNION {CASE c.op \in {"string", "opaque"} -> {c.at} \cap DOMAIN m
             [] c.op = "list" -> IF c.at \notin DOMAIN m THEN {}
                                 ELSE {c.at} \cup {c.at \o q :
                                        q \in UNION {Heap(c.item, x) : x \in Range(m[c.at])}}
             [] c.op = "block" -> Heap(c.calls, m)
             [] OTHER -> {} : c \in Range(calls)}

\* What the handlers of the session and the channels keep of a message.
Kept(type) ==
    CASE type = LOGIN_ACK        -> mwLoginInfo_clone(<< "login" >>)
      [] type = CHANNEL_CREATE   -> mwLoginInfo_clone(<< "creator" >>)
      [] type = CHANNEL_ACCEPT   -> mwLoginInfo_clone(<< "acceptor" >>)
      [] type = SET_USER_STATUS  -> mwUserStatus_clone(<< "status" >>)
      [] type = SET_PRIVACY_LIST -> mwPrivacyInfo_clone(<< "privacy" >>)
      [] OTHER                   -> << >>

-----------------------------------------------------------------------------
(* One message after the other is written, cut short or not, read, copied  *)
(* and freed.                                                              *)

VARIABLES msg,    \* what is sent
          step,   \* "new", "sent", "read", "kept", "freed"
          sent,   \* the buffer it was written to
          cut,    \* how many of the bytes are there when it is read
          got,    \* what was read: [b, null, m]
          copy,   \* what was copied of it
          leak    \* what was not freed of it

codecVars == << msg, step, sent, cut, got, copy, leak >>

Nothing == [b |-> mwGetBuffer_wrap(<< >>), null |-> TRUE, m |-> << >>]

CodecInit ==
    /\ msg \in Messages
    /\ step = "new"
    /\ sent = mwPutBuffer_new
    /\ cut = 0
    /\ got = Nothing
    /\ copy = << >>
    /\ leak = {}

GetCalls == IF msg.of = "snapshot" THEN mwAwareSnapshot_get
            ELSE mwMessageHead_get \o BodyGet(TypeOf(got.m))

Reading(n, junk) ==
    IF msg.of = "snapshot"
    THEN Read(mwGetBuffer_wrap(SubSeq(sent.data, 1, n)), << >>, mwAwareSnapshot_get, junk)
    ELSE mwMessage_get(SubSeq(sent.data, 1, n), junk)

Write ==
    /\ step = "new"
    /\ sent' = IF msg.of = "snapshot"
               THEN [data |-> Snapshot_put(msg.m), len |-> Len(Snapshot_put(msg.m))]
               ELSE mwMessage_put(msg.m)
    /\ step' = "sent"
    /\ UNCHANGED << msg, cut, got, copy, leak >>

\* Long messages are not cut.
Cuttable == 200

GetMessage ==
    /\ step = "sent"
    /\ \E n \in IF Len(sent.data) <= Cuttable THEN 0 .. Len(sent.data) ELSE {Len(sent.data)} :
       \E junk \in Junk :
          /\ cut' = n
          /\ got' = Reading(n, junk)
    /\ step' = "read"
    /\ UNCHANGED << msg, sent, copy, leak >>

Clone ==
    /\ step = "read"
    /\ ~ got.null
    /\ copy' = IF msg.of = "snapshot" THEN Copy(mwAwareSnapshot_clone, got.m)
               ELSE Copy(Kept(TypeOf(got.m)), got.m)
    /\ step' = "kept"
    /\ UNCHANGED << msg, sent, cut, got, leak >>

Free ==
    /\ step = "kept"
    /\ leak' = Heap(GetCalls, got.m)
               \ (IF msg.of = "snapshot" THEN mwAwareSnapshot_clear ELSE mwMessage_free(got.m))
    /\ step' = "freed"
    /\ UNCHANGED << msg, sent, cut, got, copy >>

CodecNext == Write \/ GetMessage \/ Clone \/ Free

-----------------------------------------------------------------------------
(* Properties. *)

\* What a message is expected to be when it is read: the same, but for the
\* time of a status and the order of the recipients.
Expected(m) ==
    LET times == {p \in DOMAIN m : Last(p) = "time"}
        kept == [p \in DOMAIN m \ times |-> m[p]]
    IN  IF << "recipients" >> \notin DOMAIN m THEN kept
        ELSE [kept EXCEPT ![<< "recipients" >>] = Reverse(@)]

Overlong(m) == \E c \in Range(BodyPut(TypeOf(m))) :
                  c.op = "string" /\ Len(Value(m, c)) > 65535

\* A message reads back as it was written, over the versions, options and
\* flags that decide which fields there are, and for opaques of any length,
\* exactly if none of its strings needs more than the 16 bits of its length.
ReadsBack ==
    step = "read" /\ cut = Len(sent.data) =>
        IF msg.of = "message" /\ TypeOf(msg.m) \notin KnownTypes THEN got.null
        ELSE ((~ got.b.error /\ got.m = Expected(msg.m)) <=> ~ Overlong(msg.m))

\* A message cut short is noticed: either the error flag is set, or only
\* bytes nobody reads are missing and the message is the whole one.
CutNoticed ==
    step = "read" => got.b.error \/ got.null \/ got.m = Reading(Len(sent.data), 0).m

\* Writing never passes the end of the memory allocated, reading never the
\* end of the message.
WithinBounds ==
    /\ Len(sent.data) <= sent.len
    /\ got.b.ptr \in 0 .. Len(got.b.buf)

\* Whatever was read of a message, cut short or not, is freed with it, but
\* for the host name of a HANDSHAKE.
FreesWhatItRead == leak \subseteq {<< "local_host" >>}

\* What is read or written stays in its memory, and what was allocated for it is
\* freed with it (ensure_buffer, check_buffer, mwMessage_free).
MemoryKept == WithinBounds /\ FreesWhatItRead

\* The copies kept of a message are what was read, but that the group of a
\* user who is offline is left out.
CloneKeeps ==
    step = "kept" =>
        copy = IF msg.of = "snapshot"
               THEN [p \in DOMAIN got.m \ {<< x >> : x \in IF << "online" >> \in DOMAIN got.m
                                                          THEN {} ELSE {"group"}} |-> got.m[p]]
               ELSE [p \in {q \in DOMAIN got.m : \E c \in Range(Kept(TypeOf(got.m))) : c.at[1] = q[1]}
                        |-> got.m[p]]

\* A message goes over the wire and into the copies kept of it unchanged
\* (mwMessage_put and _get, the clone functions).
RoundTrip == ReadsBack /\ CloneKeeps

=============================================================================
