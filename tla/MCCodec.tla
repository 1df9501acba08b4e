------------------------------ MODULE MCCodec ------------------------------
(***************************************************************************)
(* The messages Codec is checked with: every type, with every combination  *)
(* of the fields that decide which others there are, empty and long lists, *)
(* and strings and opaques around the limits of their lengths.             *)
(***************************************************************************)
EXTENDS Codec

\* A message of that type with the fields given; every other one holds a
\* number made of its place, so that no two fields hold the same.
Filled(calls, given) ==
    LET One(m, i) ==
          LET c == calls[i]
          IN CASE ~ Holds(m, c) \/ c.op \notin {"u16", "u32", "string", "opaque"} -> m
               [] c.at \in DOMAIN given \/ Last(c.at) = "count" -> m
               [] c.op \in {"u16", "u32"} -> Store(m, c, 256 * i + 1)
               [] c.op \in {"string", "opaque"} -> Store(m, c, << 96 + i, 97 >>)
    IN  FoldLeft(One, given, [i \in DOMAIN calls |-> i])

Msg(type, given) ==
    [of |-> "message",
     m |-> LET all == Filled(mwMessageHead_put \o BodyPut(type),
                             given @@ (<< "head", "type" >> :> type))
           IN  IF type = HANDSHAKE THEN [p \in DOMAIN all \ {<< "head", "type" >>} |-> all[p]] ELSE all]

None == << >>
Attribs == (<< "head", "options" >> :> HAS_ATTRIBS + 5) @@ (<< "head", "attribs" >> :> << 1, 2 >>)
Empty == (<< "head", "options" >> :> HAS_ATTRIBS)
Version(a, b) == (<< "major" >> :> a) @@ (<< "minor" >> :> b)
Flag(p) == p :> 1
User(i) == IF i % 2 = 0 THEN (<< "full" >> :> 1) @@ (<< "id" >> :> << i >>) @@ (<< "name" >> :> << i, i >>)
           ELSE (<< "id" >> :> << i >>) @@ (<< "community" >> :> << i, 9 >>)
Users(n) == IF n = 0 THEN None
            ELSE (<< "privacy", "count" >> :> n) @@ (<< "privacy", "users" >> :> [i \in 1 .. n |-> User(i)])
Item(i) == IF i = 1 THEN (<< "id" >> :> 1) ELSE (<< "id" >> :> i) @@ (<< "info" >> :> << i, i + 1 >>)
Enc(f, n) == IF n = 0 THEN None
             ELSE (<< "encrypt", f >> :> [i \in 1 .. n |-> Item(i)])
                  @@ (<< "encrypt", "extra" >> :> 513) @@ (<< "encrypt", "flag" >> :> 1)
Recipients(n) == IF n = 0 THEN None
                 ELSE << "recipients" >> :> [i \in 1 .. n |-> << "name" >> :> << 64, i >>]
Text == (<< "may_reply" >> :> 1) @@ (<< "text" >> :> << 104, 105 >>)
Chars(n) == [i \in 1 .. n |-> 97 + (i % 3)]
Snapshot(given) ==
    [of |-> "snapshot",
     m |-> Filled(mwAwareIdBlock_put(<< "id" >>) \o << Str(<< >>, "group") >>
                  \o When(<< >>, "online", 1, << Str(<< >>, "alt_id") >>
                          \o mwUserStatus_put(<< "status" >>) \o << Str(<< >>, "name") >>), given)]

MCMessages ==
    {Msg(HANDSHAKE, Version(v[1], v[2]) @@ h) :
        v \in {<< 30, 29 >>, << 30, 28 >>, << 29, 29 >>}, h \in {None, Attribs}} \cup
    {Msg(HANDSHAKE_ACK, Version(30, b)) : b \in {24, 25}} \cup
    {Msg(t, h) : t \in {LOGIN, LOGIN_REDIRECT, LOGIN_CONTINUE, CHANNEL_SEND, CHANNEL_DESTROY,
                        SENSE_SERVICE, SET_USER_STATUS, ADMIN}, h \in {None, Empty}} \cup
    {Msg(LOGIN_ACK, Users(n) @@ l) : n \in {0, 2}, l \in {None, Flag(<< "login", "full" >>)}} \cup
    {Msg(SET_PRIVACY_LIST, Users(n) @@ d) : n \in {0, 3}, d \in {None, Flag(<< "privacy", "deny" >>)}} \cup
    {Msg(CHANNEL_CREATE, Enc("items", n) @@ c) : n \in {0, 1, 2},
        c \in {None, Flag(<< "creator_flag" >>), Flag(<< "creator_flag" >>) @@ Flag(<< "creator", "full" >>)}} \cup
    {Msg(CHANNEL_ACCEPT, Enc("item", n) @@ c) : n \in {0, 1}, c \in {None, Flag(<< "acceptor_flag" >>)}} \cup
    {Msg(ANNOUNCE, Recipients(n) @@ s @@ t) : n \in {0, 3},
        s \in {None, Flag(<< "sender_present" >>)}, t \in {None, Text}} \cup
    {Msg(119, None)} \cup
    {Msg(LOGIN, << "name" >> :> Chars(n)) : n \in {65535, 65536, 65539}} \cup
    {Msg(SET_USER_STATUS, << "status", "desc" >> :> Chars(65540)),
     Msg(HANDSHAKE, Version(30, 29) @@ (<< "local_host" >> :> Chars(65536))),
     Msg(CHANNEL_SEND, << "data" >> :> Chars(1010)), Msg(CHANNEL_SEND, << "data" >> :> Chars(1011)),
     Msg(CHANNEL_SEND, << "data" >> :> Chars(70000))} \cup
    {Snapshot(o) : o \in {None, Flag(<< "online" >>)}}

=============================================================================
