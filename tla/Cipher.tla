------------------------------- MODULE Cipher -------------------------------
(***************************************************************************)
(* The two ciphers of cipher.c at the two ends of a channel: RC2/40, whose *)
(* keys are the login ids of the ends, and RC2/128, whose key is agreed on *)
(* by a Diffie-Hellman exchange in the offer and the acceptance.  The      *)
(* cipher objects belong to the sessions and outlive every login; their    *)
(* instances belong to a channel.                                          *)
(*                                                                         *)
(* Which cipher is chosen, and what happens when messages meet a channel   *)
(* that is not open, is the subject of Channel; here the channel only      *)
(* carries keys and messages, in order.  A session that logs in again      *)
(* loses the channel (Session); the other end is told by the server.       *)
(***************************************************************************)
EXTENDS Mpi, RC2

CONSTANTS
    DhPrime,      \* dh_prime, as an integer
    DH_BASE,      \* base of the exchange
    PrivateBits,  \* bits of a private key: 512
    SecretTail,   \* bytes of the shared secret that make the key: 16
    LoginIds,     \* login ids, as bytes
    Stray,        \* values of the bytes that happen to be before a buffer
    Texts,        \* the messages the services send
    MaxChannels,  \* bound: channels created
    MaxSends      \* bound: messages sent on a channel

ASSUME CipherAssumption ==
    /\ DhPrime \in Nat /\ DH_BASE \in Nat /\ PrivateBits \in Nat
    /\ \A id \in LoginIds : id \in Seq(0..255) /\ Len(id) >= 5
    /\ Stray \subseteq 0..255 /\ Stray # {}
    /\ Texts \subseteq Seq(0..255)
    /\ {SecretTail, MaxChannels, MaxSends} \subseteq Nat \ {0}

Ends == {"A", "B"}
Other(e) == IF e = "A" THEN "B" ELSE "A"
Types == {"RC2_40", "RC2_128"}
Unset == << >>      \* a key that was not computed

VARIABLES
    login_id,     \* login_id[e]: of the current login of end e
    session_key,  \* session_key[e]: mwCipher_RC2_40, Unset until it is ready
    private_key,  \* private_key[e]: mwCipher_RC2_128
    public_key,   \* public_key[e]: the same, exported
    st,           \* st[e]: the channel at end e: none, offered, wait or open
    instances,    \* instances[e]: the cipher instances of the channel
    selected,     \* the cipher the channel was accepted with
    user,         \* user[e]: login id of the other end, as the channel has it
    net,          \* net[e]: messages on their way to e
    said,         \* said[e]: what the service of e sent on this channel
    heard,        \* heard[e]: what the service of e was handed
    created       \* channels created so far

cipherVars == << login_id, session_key, private_key, public_key, st, instances,
                 selected, user, net, said, heard, created >>

-----------------------------------------------------------------------------
(* The Diffie-Hellman exchange                                             *)

mwInitDHPrime == mw_mp_set_int(DhPrime)
mwInitDHBase == mw_mp_set_int(DH_BASE)

\* The random keys mw_mp_set_rand may come up with: one byte more than the
\* bits fill, of which only the remaining bits are kept.
mw_mp_set_rand(bits) ==
    {mw_mp_read_unsigned_bin(bytes) :
       bytes \in {b \in [1 .. (bits \div CHAR_BIT) + 1 -> 0 .. 2 ^ CHAR_BIT - 1] :
                    b[1] < 2 ^ (bits % CHAR_BIT)}}

mwDHExportKey(key) == mw_mp_to_unsigned_bin(key)
mwDHImportKey(o) == mw_mp_read_unsigned_bin(o)

\* The public key of a private key.
mwDHRandKeypair(private) == mw_mp_exptmod(mwInitDHBase, private, mwInitDHPrime)

mwDHCalculateShared(remote, private) ==
    mw_mp_exptmod(remote, private, mwInitDHPrime)

\* The keys made from the end of a secret.  When the secret is shorter than
\* that the code reads what is in memory before it.
SecretKeys(sho) ==
    IF Len(sho) >= SecretTail
    THEN {SubSeq(sho, Len(sho) - SecretTail + 1, Len(sho))}
    ELSE {before \o sho : before \in [1 .. SecretTail - Len(sho) -> Stray]}

-----------------------------------------------------------------------------
(* The instances.  key: incoming_key of RC2/40, shared of RC2/128          *)

Instance(key, in, out) == [key |-> key, incoming_iv |-> in, outgoing_iv |-> out]

new_instance == Instance(Unset, mwIV_init, mwIV_init)

\* new_instance_RC2_40: computed for the first instance and kept from then on.
ReadySessionKey(e) ==
    IF session_key[e] = Unset THEN mwKeyExpand(SubSeq(login_id[e], 1, 5))
    ELSE session_key[e]

\* What an instance offers, and what it accepts with.
new_item_RC2_40 == [id |-> "RC2_40", info |-> << >>]
offer_RC2_128(e) == [id |-> "RC2_128", info |-> public_key[e]]

mwCipherInstance_offer(e, type) ==
    IF type = "RC2_128" THEN offer_RC2_128(e) ELSE new_item_RC2_40

\* offered_RC2_128: what the instance may become.
offered_RC2_128(e, ci, item) ==
    LET sho == mwDHExportKey(mwDHCalculateShared(mwDHImportKey(item.info),
                                                 private_key[e]))
    IN  {[ci EXCEPT !.key = mwKeyExpand(k)] : k \in SecretKeys(sho)}

accepted_RC2_40(ci, id) == [ci EXCEPT !.key = mwKeyExpand(SubSeq(id, 1, 5))]

mwCipherInstance_offered(e, ci, item) ==
    IF item.id = "RC2_128" THEN offered_RC2_128(e, ci, item) ELSE {ci}

\* id: login id of the other end of the channel
mwCipherInstance_accepted(e, ci, item, id) ==
    IF item.id = "RC2_128" THEN offered_RC2_128(e, ci, item)
    ELSE {accepted_RC2_40(ci, id)}

\* accept_RC2_40 derives the incoming key; RC2/128 has had its key offered.
\* The item accepted with is the one offered.
mwCipherInstance_accept(ci, type, id) ==
    IF type = "RC2_40" THEN accepted_RC2_40(ci, id) ELSE ci

\* RC2/40 sends under the key of its own login id, RC2/128 under the shared
\* one.  The vectors are left as the last block made them.
encrypt_RC2_40(e, ci, data) ==
    mwEncryptExpanded(session_key[e], ci.outgoing_iv, data)
encrypt_RC2_128(ci, data) == mwEncryptExpanded(ci.key, ci.outgoing_iv, data)

\* mutant: every message starts from the same vector
encrypt_afresh(e, ci, data) ==
    LET fresh == [ci EXCEPT !.outgoing_iv = mwIV_init]
        o == IF selected = "RC2_40" THEN encrypt_RC2_40(e, fresh, data)
             ELSE encrypt_RC2_128(fresh, data)
    IN  [ci |-> [ci EXCEPT !.outgoing_iv = o.iv], data |-> o.data]

mwCipherInstance_encrypt(e, ci, data) ==
    LET o == IF selected = "RC2_40" THEN encrypt_RC2_40(e, ci, data)
             ELSE encrypt_RC2_128(ci, data)
    IN  [ci |-> [ci EXCEPT !.outgoing_iv = o.iv], data |-> o.data]

\* decrypt_RC2_40 and decrypt_RC2_128 both use the key and the vector of the
\* instance.
decrypt_RC2(ci, data) == mwDecryptExpanded(ci.key, ci.incoming_iv, data)

mwCipherInstance_decrypt(ci, data) ==
    LET o == decrypt_RC2(ci, data)
    IN  [ci |-> [ci EXCEPT !.incoming_iv = o.iv], data |-> o.data]

-----------------------------------------------------------------------------
NoInstances == [t \in {} |-> new_instance]

mwCipher_new_RC2_40 == session_key = [e \in Ends |-> Unset]

mwCipher_new_RC2_128 ==
    /\ private_key \in [Ends -> mw_mp_set_rand(PrivateBits)]
    /\ public_key = [e \in Ends |->
                       mwDHExportKey(mwDHRandKeypair(private_key[e]))]

CipherInit ==
    /\ login_id \in [Ends -> LoginIds]
    /\ mwCipher_new_RC2_40
    /\ mwCipher_new_RC2_128
    /\ st = [e \in Ends |-> "none"]
    /\ instances = [e \in Ends |-> NoInstances]
    /\ selected = "none"
    /\ user = [e \in Ends |-> << >>]
    /\ net = [e \in Ends |-> << >>]
    /\ said = [e \in Ends |-> << >>]
    /\ heard = [e \in Ends |-> << >>]
    /\ created = 0

Send(e, m) == net' = [net EXCEPT ![Other(e)] = Append(@, m)]

\* mwChannel_create: an instance of every cipher of the session is offered;
\* the server adds who the creator is.
Create(e) ==
    /\ created < MaxChannels
    /\ \A x \in Ends : st[x] = "none"
    /\ created' = created + 1
    /\ st' = [st EXCEPT ![e] = "wait"]
    /\ session_key' = [session_key EXCEPT ![e] = ReadySessionKey(e)]
    /\ instances' = [instances EXCEPT ![e] = [t \in Types |-> new_instance]]
    /\ Send(e, [type |-> "CREATE", creator |-> login_id[e],
                items |-> {mwCipherInstance_offer(e, t) : t \in Types}])
    /\ UNCHANGED << login_id, private_key, public_key, selected, user, said,
                    heard >>

\* mwChannel_recvCreate: an instance is made of every cipher offered.
RecvCreate(e) ==
    /\ net[e] # << >>
    /\ Head(net[e]).type = "CREATE"
    /\ session_key' = [session_key EXCEPT ![e] = ReadySessionKey(e)]
    /\ \E cis \in [Types -> UNION {mwCipherInstance_offered(e, new_instance, item) :
                                     item \in Head(net[e]).items}] :
         /\ \A item \in Head(net[e]).items :
              cis[item.id] \in mwCipherInstance_offered(e, new_instance, item)
         /\ instances' = [instances EXCEPT ![e] = cis]
    /\ user' = [user EXCEPT ![e] = Head(net[e]).creator]
    /\ st' = [st EXCEPT ![e] = "offered"]
    /\ net' = [net EXCEPT ![e] = Tail(@)]
    /\ UNCHANGED << login_id, private_key, public_key, selected, said, heard,
                    created >>

\* mwChannel_accept with one of the ciphers; the instances of the others are
\* freed.
Accept(e) ==
    /\ st[e] = "offered"
    /\ \E t \in Types :
         /\ selected' = t
         /\ instances' = [instances EXCEPT ![e] =
              (t :> mwCipherInstance_accept(@[t], t, user[e]))]
         /\ Send(e, [type |-> "ACCEPT", acceptor |-> login_id[e],
                     item |-> mwCipherInstance_offer(e, t)])
    /\ st' = [st EXCEPT ![e] = "open"]
    /\ UNCHANGED << login_id, session_key, private_key, public_key, user, said,
                    heard, created >>

\* mwChannel_recvAccept
RecvAccept(e) ==
    /\ net[e] # << >>
    /\ Head(net[e]).type = "ACCEPT"
    /\ LET m == Head(net[e])
       IN  /\ user' = [user EXCEPT ![e] = m.acceptor]
           /\ \E ci \in mwCipherInstance_accepted(e, instances[e][m.item.id],
                                                  m.item, m.acceptor) :
                instances' = [instances EXCEPT ![e] = (m.item.id :> ci)]
    /\ st' = [st EXCEPT ![e] = "open"]
    /\ net' = [net EXCEPT ![e] = Tail(@)]
    /\ UNCHANGED << login_id, session_key, private_key, public_key, selected,
                    said, heard, created >>

\* mwChannel_sendEncrypted
SendText(e) ==
    /\ st[e] = "open"
    /\ Len(said["A"]) + Len(said["B"]) < MaxSends
    /\ \E text \in Texts :
         /\ said' = [said EXCEPT ![e] = Append(@, text)]
         /\ \/ /\ Send(e, [type |-> "SEND", encrypted |-> FALSE, data |-> text])
               /\ UNCHANGED instances
            \/ LET o == mwCipherInstance_encrypt(e, instances[e][selected], text)
               IN  /\ Send(e, [type |-> "SEND", encrypted |-> TRUE,
                               data |-> o.data])
                   /\ instances' = [instances EXCEPT ![e][selected] = o.ci]
    /\ UNCHANGED << login_id, session_key, private_key, public_key, st, selected,
                    user, heard, created >>

\* channel_recv
RecvText(e) ==
    /\ net[e] # << >>
    /\ Head(net[e]).type = "SEND"
    /\ LET m == Head(net[e])
           o == mwCipherInstance_decrypt(instances[e][selected], m.data)
       IN  IF m.encrypted
           THEN /\ heard' = [heard EXCEPT ![e] = Append(@, o.data)]
                /\ instances' = [instances EXCEPT ![e][selected] = o.ci]
           ELSE /\ heard' = [heard EXCEPT ![e] = Append(@, m.data)]
                /\ UNCHANGED instances
    /\ net' = [net EXCEPT ![e] = Tail(@)]
    /\ UNCHANGED << login_id, session_key, private_key, public_key, st, selected,
                    user, said, created >>

\* The session of e stops and logs in again: the channel is gone at both ends
\* and the server may assign another login id.  Its ciphers stay.
Relogin(e) ==
    /\ created \in 1 .. MaxChannels - 1
    /\ \E id \in LoginIds : login_id' = [login_id EXCEPT ![e] = id]
    /\ st' = [x \in Ends |-> "none"]
    /\ instances' = [x \in Ends |-> NoInstances]
    /\ selected' = "none"
    /\ user' = [x \in Ends |-> << >>]
    /\ net' = [x \in Ends |-> << >>]
    /\ said' = [x \in Ends |-> << >>]
    /\ heard' = [x \in Ends |-> << >>]
    /\ UNCHANGED << session_key, private_key, public_key, created >>

CipherNext ==
    \E e \in Ends :
      \/ Create(e)
      \/ RecvCreate(e)
      \/ Accept(e)
      \/ RecvAccept(e)
      \/ SendText(e)
      \/ RecvText(e)
      \/ Relogin(e)

-----------------------------------------------------------------------------
\* The key an end sends under was made for an earlier login (cr->ready).
StaleKey(e) ==
    /\ selected = "RC2_40"
    /\ session_key[e] # mwKeyExpand(SubSeq(login_id[e], 1, 5))

\* The shared secret does not fill a key (sho.len < 16).
ShortSecret ==
    /\ selected = "RC2_128"
    /\ Len(mwDHExportKey(mwDHCalculateShared(mwDHImportKey(public_key["A"]),
                                             private_key["B"]))) < SecretTail

\* Each end is handed, in order, exactly what the other end's service sent,
\* whichever end offered the channel, whichever cipher was accepted, whatever
\* was encrypted and whatever was not: both ends come to the same keys, chain
\* their vectors in step and find the padding.  The two exceptions are in the
\* code: a RC2/40 key is kept from the first login of the session, so that a
\* session logged in again under another id is no longer understood; and a
\* RC2/128 secret of fewer than 16 bytes is read from before its buffer.
ReadsWhatWasSent ==
    \A e \in Ends :
      \/ IsPrefix(heard[e], said[Other(e)])
      \/ StaleKey(Other(e))
      \/ ShortSecret
=============================================================================
