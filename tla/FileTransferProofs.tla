------------------------- MODULE FileTransferProofs -------------------------
(***************************************************************************)
(* Proofs about a file transfer, for files of every size, sent in any      *)
(* number of chunks.                                                       *)
(*                                                                         *)
(* No property is inductive: they compare the two ends, and what holds     *)
(* between them is a matter of what is on its way.  The inductive          *)
(* invariant counts it: Shape says in which order the two ends get through *)
(* their states and what may be in flight meanwhile; Account says that     *)
(* chunks and bytes add up (Balance), with equality as long as no chunk    *)
(* was lost to a connection or a channel that is gone, what the receiver's *)
(* state says of its bytes (Receiver), and when a success is one.          *)
(***************************************************************************)
EXTENDS FileTransfer, SequenceTheorems, FunctionTheorems,
        FiniteSetTheorems, TLAPS

-----------------------------------------------------------------------------
(* What a queue weighs.  A message m weighs f[m], at most M; a queue, the  *)
(* number of its units: unit b[2] of the message at b[1].                  *)

Units(q, f, M) == {b \in (1..Len(q)) \X (1..M) : b[2] <= f[q[b[1]]]}
Weight(q, f, M) == Cardinality(Units(q, f, M))

\* The units of one message.
Column(p, k) == {p} \X (1..k)

LEMMA ColumnFacts ==
    ASSUME NEW p, NEW k \in Nat
    PROVE  IsFiniteSet(Column(p, k)) /\ Cardinality(Column(p, k)) = k
  <1>1. IsFiniteSet({p}) /\ Cardinality({p}) = 1
    BY FS_Singleton
  <1>2. IsFiniteSet(1..k) /\ Cardinality(1..k) = k
    BY FS_Interval
  <1>3. /\ IsFiniteSet({p} \X (1..k))
        /\ Cardinality({p} \X (1..k)) = Cardinality({p}) * Cardinality(1..k)
    BY <1>1, <1>2, FS_Product, Zenon
  <1>4. Cardinality(Column(p, k)) = Cardinality({p}) * Cardinality(1..k)
    BY <1>3, Zenon DEF Column
  <1>5. IsFiniteSet(Column(p, k))
    BY <1>3, Zenon DEF Column
  <1> QED
    BY <1>1, <1>2, <1>4, <1>5

LEMMA WeightType ==
    ASSUME NEW S, NEW q \in Seq(S), NEW M \in Nat, NEW f
    PROVE  IsFiniteSet(Units(q, f, M)) /\ Weight(q, f, M) \in Nat
  <1>1. Len(q) \in Nat
    BY LenProperties
  <1>2. IsFiniteSet((1..Len(q)) \X (1..M))
    <2>1. IsFiniteSet(1..Len(q)) /\ IsFiniteSet(1..M)
      BY <1>1, FS_Interval
    <2> QED
      BY <2>1, FS_Product, Zenon
  <1>3. Units(q, f, M) \subseteq (1..Len(q)) \X (1..M)
    BY DEF Units
  <1>4. IsFiniteSet(Units(q, f, M))
    BY <1>2, <1>3, FS_Subset
  <1> QED
    BY <1>4, FS_CardinalityType DEF Weight

LEMMA WeightEmpty ==
    ASSUME NEW M \in Nat, NEW f
    PROVE  Weight(<<>>, f, M) = 0
  <1>1. Units(<<>>, f, M) = {}
    BY DEF Units
  <1> QED
    BY <1>1, FS_EmptySet DEF Weight

LEMMA WeightOne ==
    ASSUME NEW S, NEW m \in S, NEW M \in Nat, NEW f \in [S -> 0..M]
    PROVE  Weight(<<m>>, f, M) = f[m]
  <1>1. f[m] \in 0..M
    OBVIOUS
  <1>2. Units(<<m>>, f, M) = Column(1, f[m])
    BY <1>1 DEF Units, Column
  <1> QED
    BY <1>1, <1>2, ColumnFacts DEF Weight

LEMMA WeightConcat ==
    ASSUME NEW S, NEW q \in Seq(S), NEW t \in Seq(S), NEW M \in Nat, NEW f
    PROVE  Weight(q \o t, f, M) = Weight(q, f, M) + Weight(t, f, M)
  <1> DEFINE r == q \o t
             U == Units(q, f, M)
             V == Units(t, f, M)
             Z == {b \in Units(r, f, M) : b[1] > Len(q)}
             g == [b \in V |-> <<b[1] + Len(q), b[2]>>]
  <1>1. /\ Len(q) \in Nat /\ Len(t) \in Nat /\ Len(r) = Len(q) + Len(t)
        /\ \A p \in 1..Len(q) : r[p] = q[p]
    BY LenProperties, ConcatProperties
  <1>2. \A p \in 1..Len(t) : p + Len(q) \in 1..Len(r) /\ p + Len(q) > Len(q) /\ r[p + Len(q)] = t[p]
    BY <1>1, ConcatProperties
  <1> HIDE DEF r
  <1>3. Units(r, f, M) = Z \cup U
    <2>1. \A b \in U : b \in Units(r, f, M)
      BY <1>1 DEF Units
    <2>2. \A b \in Units(r, f, M) : b \in Z \cup U
      BY <1>1 DEF Units
    <2> QED
      BY <2>1, <2>2
  <1>4. Z \cap U = {}
    BY <1>1 DEF Units
  <1>5. g \in Bijection(V, Z)
    <2>1. \A b \in V : /\ b[1] \in 1..Len(t) /\ b[2] \in 1..M /\ b = <<b[1], b[2]>>
                       /\ b[2] <= f[t[b[1]]]
      BY DEF Units
    <2>2. \A b \in V : g[b] \in Z
      <3> TAKE b \in V
      <3>1. b[1] \in 1..Len(t)
        BY <2>1
      <3>2. b[1] + Len(q) \in 1..Len(r) /\ b[1] + Len(q) > Len(q) /\ t[b[1]] = r[b[1] + Len(q)]
        BY <1>2, <3>1
      <3>3. <<b[1] + Len(q), b[2]>> \in Units(r, f, M)
        BY <2>1, <3>2 DEF Units
      <3> QED
        BY <3>2, <3>3
    <2>3. \A b, c \in V : g[b] = g[c] => b = c
      <3> SUFFICES ASSUME NEW b \in V, NEW c \in V, g[b] = g[c] PROVE b = c
        OBVIOUS
      <3>1. b[1] + Len(q) = c[1] + Len(q) /\ b[2] = c[2]
        OBVIOUS
      <3>2. b[1] = c[1]
        BY <1>1, <2>1, <3>1
      <3> QED
        BY <2>1, <3>1, <3>2
    <2>4. \A z \in Z : \E b \in V : g[b] = z
      <3> TAKE z \in Z
      <3>1. /\ z \in (1..Len(r)) \X (1..M) /\ z[1] > Len(q) /\ z[2] <= f[r[z[1]]]
            /\ z[1] \in 1..Len(r) /\ z[2] \in 1..M /\ z = <<z[1], z[2]>>
        BY DEF Units
      <3>2. z[1] - Len(q) \in 1..Len(t) /\ (z[1] - Len(q)) + Len(q) = z[1]
        BY <1>1, <3>1
      <3>3. t[z[1] - Len(q)] = r[z[1]]
        BY <1>2, <3>2
      <3>4. <<z[1] - Len(q), z[2]>> \in V
        BY <3>1, <3>2, <3>3 DEF Units
      <3>5. g[<<z[1] - Len(q), z[2]>>] = <<(z[1] - Len(q)) + Len(q), z[2]>>
        BY <3>4
      <3> QED
        BY <3>1, <3>2, <3>4, <3>5
    <2> QED
      BY <2>2, <2>3, <2>4, Fun_IsBij
  <1>6. IsFiniteSet(V) /\ Cardinality(V) \in Nat /\ IsFiniteSet(U) /\ Cardinality(U) \in Nat
    BY WeightType DEF Weight
  <1> HIDE DEF U, V, Z, g
  <1>7. IsFiniteSet(Z) /\ Cardinality(Z) = Cardinality(V)
    <2>1. ExistsBijection(V, Z)
      BY <1>5, Fun_ExistsBij
    <2> QED
      BY <1>6, <2>1, FS_Bijection
  <1>8. Cardinality(Z \cup U) = Cardinality(Z) + Cardinality(U) - Cardinality(Z \cap U)
    BY <1>6, <1>7, FS_Union
  <1>9. Cardinality(Z \cap U) = 0
    BY <1>4, FS_EmptySet
  <1>10. Cardinality(Units(r, f, M)) = Cardinality(U) + Cardinality(V)
    BY <1>3, <1>6, <1>7, <1>8, <1>9
  <1> QED
    BY <1>10 DEF Weight, U, V, r

-----------------------------------------------------------------------------
(* Messages and bytes of a queue.                                          *)

Is(t) == [m \in Messages |-> IF m.type = t THEN 1 ELSE 0]
Sizes == [m \in Messages |-> IF m.type = "TRANSFER" THEN m.n ELSE 0]
Count(q, t) == Weight(q, Is(t), 1)

LEMMA GaugeTypes ==
    ASSUME NEW t
    PROVE  Is(t) \in [Messages -> 0..1] /\ Sizes \in [Messages -> 0..MaxSize]
  BY BoundsAssumption DEF Is, Sizes, Messages

LEMMA CountType ==
    ASSUME NEW q \in Seq(Messages), NEW t
    PROVE  Count(q, t) \in Nat
  BY WeightType DEF Count

LEMMA CountEmpty ==
    ASSUME NEW t
    PROVE  Count(<<>>, t) = 0
  BY WeightEmpty DEF Count

LEMMA CountOne ==
    ASSUME NEW m \in Messages, NEW t
    PROVE  Count(<<m>>, t) = IF m.type = t THEN 1 ELSE 0
  <1>1. Weight(<<m>>, Is(t), 1) = Is(t)[m]
    BY GaugeTypes, WeightOne
  <1> QED
    BY <1>1 DEF Count, Is

LEMMA CountConcat ==
    ASSUME NEW q \in Seq(Messages), NEW r \in Seq(Messages), NEW t
    PROVE  Count(q \o r, t) = Count(q, t) + Count(r, t)
  BY WeightConcat DEF Count

LEMMA BytesWeight ==
    ASSUME NEW q \in Seq(Messages)
    PROVE  Bytes(q) = Weight(q, Sizes, MaxSize)
  <1>1. /\ DOMAIN q = 1..Len(q)
        /\ \A p \in 1..Len(q) : q[p] \in Messages
    BY LenProperties, ElementOfSeq
  <1>2. \A p \in 1..Len(q), j \in 1..MaxSize :
          j <= Sizes[q[p]] <=> q[p].type = "TRANSFER" /\ j <= q[p].n
    BY <1>1, BoundsAssumption DEF Sizes
  <1>3. {b \in (DOMAIN q) \X (1..MaxSize) : q[b[1]].type = "TRANSFER" /\ b[2] <= q[b[1]].n}
          = Units(q, Sizes, MaxSize)
    BY <1>1, <1>2 DEF Units
  <1> QED
    BY <1>3 DEF Bytes, Weight

LEMMA BytesType ==
    ASSUME NEW q \in Seq(Messages)
    PROVE  Bytes(q) \in Nat
  BY BytesWeight, WeightType, BoundsAssumption

LEMMA BytesEmpty == Bytes(<<>>) = 0
  <1>1. <<>> \in Seq(Messages)
    OBVIOUS
  <1> QED
    BY <1>1, BytesWeight, WeightEmpty, BoundsAssumption

LEMMA BytesOne ==
    ASSUME NEW m \in Messages
    PROVE  Bytes(<<m>>) = IF m.type = "TRANSFER" THEN m.n ELSE 0
  <1>1. <<m>> \in Seq(Messages)
    OBVIOUS
  <1>2. Weight(<<m>>, Sizes, MaxSize) = Sizes[m]
    BY GaugeTypes, WeightOne, BoundsAssumption
  <1> QED
    BY <1>1, <1>2, BytesWeight DEF Sizes

LEMMA BytesConcat ==
    ASSUME NEW q \in Seq(Messages), NEW r \in Seq(Messages)
    PROVE  Bytes(q \o r) = Bytes(q) + Bytes(r)
  <1>1. q \o r \in Seq(Messages)
    BY ConcatProperties
  <1>2. Weight(q \o r, Sizes, MaxSize) = Weight(q, Sizes, MaxSize) + Weight(r, Sizes, MaxSize)
    BY WeightConcat, BoundsAssumption
  <1> QED
    BY <1>1, <1>2, BytesWeight

\* A message is taken off the queue.
LEMMA Taken ==
    ASSUME NEW q \in Seq(Messages), q # <<>>, NEW t
    PROVE  /\ Head(q) \in Messages /\ Tail(q) \in Seq(Messages)
           /\ Head(q).type = t => Count(q, t) = Count(Tail(q), t) + 1
           /\ Head(q).type # t => Count(q, t) = Count(Tail(q), t)
           /\ Head(q).type = "TRANSFER" => Bytes(q) = Bytes(Tail(q)) + Head(q).n
           /\ Head(q).type # "TRANSFER" => Bytes(q) = Bytes(Tail(q))
  <1>1. Head(q) \in Messages /\ Tail(q) \in Seq(Messages) /\ <<Head(q)>> \in Seq(Messages)
    BY HeadTailProperties
  <1>2. q = <<Head(q)>> \o Tail(q)
    BY HeadTailProperties
  <1>3. Count(<<Head(q)>> \o Tail(q), t) = Count(<<Head(q)>>, t) + Count(Tail(q), t)
    BY <1>1, CountConcat
  <1>4. Bytes(<<Head(q)>> \o Tail(q)) = Bytes(<<Head(q)>>) + Bytes(Tail(q))
    BY <1>1, BytesConcat
  <1>5. /\ Count(q, t) = Count(<<Head(q)>>, t) + Count(Tail(q), t)
        /\ Bytes(q) = Bytes(<<Head(q)>>) + Bytes(Tail(q))
    BY <1>2, <1>3, <1>4
  <1>6. Count(Tail(q), t) \in Nat /\ Bytes(Tail(q)) \in Nat
    BY <1>1, CountType, BytesType
  <1>7. Head(q).n \in Nat
    BY <1>1, BoundsAssumption DEF Messages
  <1> QED
    BY <1>1, <1>5, <1>6, <1>7, CountOne, BytesOne

\* The first messages of a queue.
LEMMA Prefix ==
    ASSUME NEW q \in Seq(Messages), NEW k \in 0..Len(q), NEW t
    PROVE  /\ SubSeq(q, 1, k) \in Seq(Messages)
           /\ Count(SubSeq(q, 1, k), t) <= Count(q, t)
           /\ Bytes(SubSeq(q, 1, k)) <= Bytes(q)
           /\ Count(SubSeq(q, 1, k), "TRANSFER") = Count(q, "TRANSFER")
                => Bytes(SubSeq(q, 1, k)) = Bytes(q)
  <1> DEFINE r == SubSeq(q, 1, k)
  <1>1. /\ r \in Seq(Messages) /\ Len(r) = k /\ Len(q) \in Nat
        /\ \A p \in 1..k : r[p] = q[p]
        /\ \A p \in 1..Len(q) : q[p] \in Messages
    BY SubSeqProperties, LenProperties, ElementOfSeq
  <1> HIDE DEF r
  <1>2. ASSUME NEW M \in Nat, NEW f
        PROVE  Units(r, f, M) \subseteq Units(q, f, M) /\ Weight(r, f, M) <= Weight(q, f, M)
    <2>1. Units(r, f, M) \subseteq Units(q, f, M)
      BY <1>1 DEF Units
    <2>2. IsFiniteSet(Units(q, f, M))
      BY WeightType
    <2> QED
      BY <2>1, <2>2, FS_Subset DEF Weight
  <1>3. Count(r, t) <= Count(q, t)
    BY <1>2 DEF Count
  <1>4. Bytes(r) <= Bytes(q)
    BY <1>1, <1>2, BytesWeight, BoundsAssumption
  <1>5. ASSUME Count(r, "TRANSFER") = Count(q, "TRANSFER")
        PROVE  Bytes(r) = Bytes(q)
    <2>1. IsFiniteSet(Units(q, Is("TRANSFER"), 1))
      BY WeightType
    <2>2. Units(r, Is("TRANSFER"), 1) = Units(q, Is("TRANSFER"), 1)
      BY <1>2, <1>5, <2>1, FS_Subset DEF Count, Weight
    <2>3. \A p \in 1..Len(q) : q[p].type = "TRANSFER" => p \in 1..k
      <3> SUFFICES ASSUME NEW p \in 1..Len(q), q[p].type = "TRANSFER" PROVE p \in 1..k
        OBVIOUS
      <3>1. Is("TRANSFER")[q[p]] = 1
        BY <1>1 DEF Is
      <3>2. <<p, 1>> \in Units(q, Is("TRANSFER"), 1)
        BY <3>1 DEF Units
      <3>3. <<p, 1>> \in Units(r, Is("TRANSFER"), 1)
        BY <2>2, <3>2
      <3> QED
        BY <1>1, <3>3 DEF Units
    <2>4. \A b \in Units(q, Sizes, MaxSize) : b \in Units(r, Sizes, MaxSize)
      <3> TAKE b \in Units(q, Sizes, MaxSize)
      <3>1. b \in (1..Len(q)) \X (1..MaxSize) /\ b[2] <= Sizes[q[b[1]]]
        BY DEF Units
      <3>2. b[1] \in 1..Len(q) /\ b[2] \in 1..MaxSize /\ b = <<b[1], b[2]>>
        BY <3>1
      <3>3. q[b[1]].type = "TRANSFER"
        BY <1>1, <3>1, <3>2, BoundsAssumption DEF Sizes
      <3>4. b[1] \in 1..k
        BY <2>3, <3>2, <3>3
      <3> QED
        BY <1>1, <3>1, <3>2, <3>4 DEF Units
    <2>5. Units(q, Sizes, MaxSize) = Units(r, Sizes, MaxSize)
      BY <1>2, <2>4, BoundsAssumption
    <2> QED
      BY <1>1, <2>5, BytesWeight DEF Weight
  <1> QED
    BY <1>1, <1>3, <1>4, <1>5 DEF r

\* Without a chunk there is no byte.
LEMMA NoChunks ==
    ASSUME NEW q \in Seq(Messages), Count(q, "TRANSFER") = 0
    PROVE  Bytes(q) = 0
  <1>1. 0 \in 0..Len(q)
    BY LenProperties
  <1>2. SubSeq(q, 1, 0) = <<>>
    BY SubSeqProperties, EmptySeq
  <1>3. Count(SubSeq(q, 1, 0), "TRANSFER") = Count(q, "TRANSFER")
          => Bytes(SubSeq(q, 1, 0)) = Bytes(q)
    BY <1>1, Prefix
  <1> QED
    BY <1>2, <1>3, CountEmpty, BytesEmpty

-----------------------------------------------------------------------------
(* The inductive invariant.                                                *)

Both == up["snd"] /\ up["rcv"]

\* What is on its way: acceptances and acknowledgements to the sender, offers
\* and chunks to the receiver.
Accepts == Count(net["snd"], "ACCEPT")
Replies == Count(net["snd"], "RECEIVED")
Offers == Count(net["rcv"], "CREATE")
Pieces == Count(net["rcv"], "TRANSFER")
InFlight == Bytes(net["rcv"])

Typed ==
    /\ client \in Clients
    /\ size \in 0..MaxSize
    /\ state \in [Ends -> FTState]
    /\ chan \in [Ends -> {"none", "WAIT", "OPEN"}]
    /\ remaining \in [Ends -> 0..MaxSize]
    /\ net \in [Ends -> Seq(Messages)]
    /\ closed \in [Ends -> 0..1]
    /\ received \in Nat
    /\ chunks \in 0..MaxChunks
    /\ acked \in Nat
    /\ owed \in Nat

Flags == up \in [Ends -> BOOLEAN] /\ finished \in BOOLEAN

\* What the state of a transfer says of its channel, at one end.
Life(e) ==
    /\ state[e] \in {"none", "NEW", "freed"} => chan[e] = "none"
    /\ closed[e] > 0 => chan[e] = "none" /\ state[e] \notin {"none", "NEW", "OPEN"}
    /\ chan[e] = "WAIT" => state[e] = "PENDING"
    /\ chan[e] = "OPEN" => state[e] \in {"OPEN", "DONE"}
    /\ state[e] = "OPEN" => chan[e] = "OPEN"

\* Before the transfer is open at both ends: there is at most one offer, at the
\* head of the queue, and nothing was sent that could overtake it.
Early ==
    /\ Offers <= 1
    /\ Offers > 0 => /\ net["rcv"] # <<>>
                     /\ Head(net["rcv"]) = Create(size)
                     /\ state["rcv"] = "none"
                     /\ state["snd"] \notin {"none", "NEW"}
    /\ state["rcv"] # "NEW"
    /\ state["snd"] \in {"none", "NEW"} =>
          state["rcv"] = "none" /\ (Both => net["rcv"] = <<>>)
    /\ state["rcv"] = "none" \/ chan["rcv"] = "WAIT" =>
          chan["snd"] # "OPEN" /\ Accepts = 0
    /\ state["snd"] = "none" => chunks = 0 /\ size = 0 /\ remaining["snd"] = 0
    /\ state["snd"] \in {"NEW", "PENDING"} => chunks = 0 /\ remaining["snd"] = size

\* Chunks and bytes are accounted for.  Some may be lost once a connection or
\* the channel is gone; if no chunk is, no byte is either.
Balance ==
    /\ acked + Replies + owed + Pieces <= chunks
    /\ client = "waiting" => chunks <= acked + 1
    /\ received + InFlight + remaining["snd"] <= size
    /\ acked + Replies + owed + Pieces = chunks =>
          received + InFlight + remaining["snd"] = size

\* What the receiver has, and what its state says of it.
Receiver ==
    /\ state["rcv"] = "none" => received = 0
    /\ state["rcv"] # "none" => received + remaining["rcv"] = size
    /\ state["rcv"] = "DONE" => remaining["rcv"] = 0
    /\ state["rcv"] \notin {"none", "DONE", "freed"} /\ size > 0 => remaining["rcv"] > 0

\* Neither end is ahead of the other by more than what is on its way.
Even ==
    chan["snd"] # "none" /\ chan["rcv"] = "OPEN" /\ Both =>
        remaining["rcv"] = remaining["snd"] + InFlight

Success == (finished => closed["snd"] > 0) /\ WaitingSuccess

\* In two parts: the first does without the second.
Shape == Typed /\ Flags /\ Life("snd") /\ Life("rcv") /\ Early
Account == Balance /\ Receiver /\ Even /\ Success

-----------------------------------------------------------------------------
(* What the messages do to the counts.                                     *)

LEMMA CountTypes ==
    Typed => /\ Accepts \in Nat /\ Replies \in Nat
             /\ Offers \in Nat /\ Pieces \in Nat /\ InFlight \in Nat
  <1>1. Typed => net["snd"] \in Seq(Messages) /\ net["rcv"] \in Seq(Messages)
    BY DEF Typed, Ends
  <1> QED
    BY <1>1, CountType, BytesType DEF Accepts, Replies, Offers, Pieces, InFlight

LEMMA Kinds ==
    ASSUME NEW n \in 0..MaxSize, NEW type \in {"CREATE", "ACCEPT", "TRANSFER", "RECEIVED", "DESTROY"}
    PROVE  /\ Create(n) \in Messages /\ Transfer(n) \in Messages /\ Plain(type) \in Messages
           /\ Create(n).type = "CREATE" /\ Transfer(n).type = "TRANSFER" /\ Plain(type).type = type
           /\ Create(n).n = n /\ Transfer(n).n = n /\ Plain(type).n = 0
  BY BoundsAssumption DEF Create, Transfer, Plain, Messages

\* What is written, and what it counts for.
LEMMA PlainWritten ==
    ASSUME NEW type \in {"CREATE", "ACCEPT", "TRANSFER", "RECEIVED", "DESTROY"}
    PROVE  /\ <<Plain(type)>> \in Seq(Messages)
           /\ Bytes(<<Plain(type)>>) = 0
           /\ \A t : Count(<<Plain(type)>>, t) = IF type = t THEN 1 ELSE 0
  <1>1. /\ Plain(type) \in Messages /\ Plain(type).type = type /\ Plain(type).n = 0
    BY Kinds, BoundsAssumption
  <1>2. <<Plain(type)>> \in Seq(Messages)
    BY <1>1
  <1>3. \A t : Count(<<Plain(type)>>, t) = IF type = t THEN 1 ELSE 0
    BY <1>1, CountOne
  <1>4. Bytes(<<Plain(type)>>) = 0
    BY <1>1, BytesOne
  <1> QED
    BY <1>2, <1>3, <1>4

LEMMA TransferWritten ==
    ASSUME NEW n \in 0..MaxSize
    PROVE  /\ <<Transfer(n)>> \in Seq(Messages) /\ Len(<<Transfer(n)>>) = 1
           /\ Bytes(<<Transfer(n)>>) = n
           /\ \A t : Count(<<Transfer(n)>>, t) = IF "TRANSFER" = t THEN 1 ELSE 0
  <1>1. /\ Transfer(n) \in Messages /\ Transfer(n).type = "TRANSFER" /\ Transfer(n).n = n
    BY Kinds
  <1>2. <<Transfer(n)>> \in Seq(Messages) /\ Len(<<Transfer(n)>>) = 1
    BY <1>1
  <1>3. \A t : Count(<<Transfer(n)>>, t) = IF "TRANSFER" = t THEN 1 ELSE 0
    BY <1>1, CountOne
  <1>4. Bytes(<<Transfer(n)>>) = n
    BY <1>1, BytesOne
  <1> QED
    BY <1>2, <1>3, <1>4

LEMMA CreateWritten ==
    ASSUME NEW n \in 0..MaxSize
    PROVE  /\ <<Create(n)>> \in Seq(Messages)
           /\ Bytes(<<Create(n)>>) = 0
           /\ \A t : Count(<<Create(n)>>, t) = IF "CREATE" = t THEN 1 ELSE 0
  <1>1. /\ Create(n) \in Messages /\ Create(n).type = "CREATE" /\ Create(n).n = n
    BY Kinds
  <1>2. <<Create(n)>> \in Seq(Messages)
    BY <1>1
  <1>3. \A t : Count(<<Create(n)>>, t) = IF "CREATE" = t THEN 1 ELSE 0
    BY <1>1, CountOne
  <1>4. Bytes(<<Create(n)>>) = 0
    BY <1>1, BytesOne
  <1> QED
    BY <1>2, <1>3, <1>4

LEMMA NothingWritten ==
    /\ <<>> \in Seq(Messages)
    /\ Bytes(<<>>) = 0
    /\ \A t : Count(<<>>, t) = 0
  BY BytesEmpty, CountEmpty

LEMMA DestroyWritten ==
    ASSUME NEW ch
    PROVE  /\ Destroying(ch) \in Seq(Messages)
           /\ Bytes(Destroying(ch)) = 0
           /\ \A t : t # "DESTROY" => Count(Destroying(ch), t) = 0
  BY NothingWritten, PlainWritten DEF Destroying

\* The first message stays the first.
LEMMA HeadStays ==
    ASSUME NEW q \in Seq(Messages), NEW r \in Seq(Messages)
    PROVE  /\ q \o r \in Seq(Messages)
           /\ q # <<>> => q \o r # <<>> /\ Head(q \o r) = Head(q)
  BY ConcatProperties

\* End snd writes.
LEMMA SndWrites ==
    ASSUME Typed, NEW rest \in Seq(Messages), NEW msgs \in Seq(Messages),
           Sends("snd", rest, msgs)
    PROVE  /\ net' \in [Ends -> Seq(Messages)]
           /\ net'["snd"] = rest
           /\ net'["rcv"] = IF Both THEN net["rcv"] \o msgs ELSE net["rcv"]
           /\ net["rcv"] # <<>> => net'["rcv"] # <<>> /\ Head(net'["rcv"]) = Head(net["rcv"])
           /\ Both => /\ Offers' = Offers + Count(msgs, "CREATE")
                      /\ Pieces' = Pieces + Count(msgs, "TRANSFER")
                      /\ InFlight' = InFlight + Bytes(msgs)
           /\ ~Both => Offers' = Offers /\ Pieces' = Pieces /\ InFlight' = InFlight
  <1>1. net["snd"] \in Seq(Messages) /\ net["rcv"] \in Seq(Messages) /\ net \in [Ends -> Seq(Messages)]
    BY DEF Typed, Ends
  <1>2. net' = [net EXCEPT !["snd"] = rest, !["rcv"] = IF Both THEN @ \o msgs ELSE @]
    BY DEF Sends, Other, Both
  <1>3. net["rcv"] \o msgs \in Seq(Messages)
    BY <1>1, HeadStays
  <1>4. /\ net'["snd"] = rest
        /\ net'["rcv"] = IF Both THEN net["rcv"] \o msgs ELSE net["rcv"]
        /\ net' \in [Ends -> Seq(Messages)]
    BY <1>1, <1>2, <1>3 DEF Ends
  <1>5. /\ Offers' = Count(net'["rcv"], "CREATE")
        /\ Pieces' = Count(net'["rcv"], "TRANSFER")
        /\ InFlight' = Bytes(net'["rcv"])
    BY DEF Offers, Pieces, InFlight, Count, Weight, Units, Bytes
  <1>6. /\ Count(net["rcv"] \o msgs, "CREATE") = Offers + Count(msgs, "CREATE")
        /\ Count(net["rcv"] \o msgs, "TRANSFER") = Pieces + Count(msgs, "TRANSFER")
        /\ Bytes(net["rcv"] \o msgs) = InFlight + Bytes(msgs)
    BY <1>1, CountConcat, BytesConcat DEF Offers, Pieces, InFlight
  <1>7. net["rcv"] # <<>> => net'["rcv"] # <<>> /\ Head(net'["rcv"]) = Head(net["rcv"])
    BY <1>1, <1>4, HeadStays
  <1>8. CASE Both
    BY <1>4, <1>5, <1>6, <1>7, <1>8
  <1>9. CASE ~Both
    BY <1>4, <1>5, <1>7, <1>9 DEF Offers, Pieces, InFlight
  <1> QED
    BY <1>8, <1>9

\* End rcv writes.
LEMMA RcvWrites ==
    ASSUME Typed, NEW rest \in Seq(Messages), NEW msgs \in Seq(Messages),
           Sends("rcv", rest, msgs)
    PROVE  /\ net' \in [Ends -> Seq(Messages)]
           /\ net'["rcv"] = rest
           /\ Both => /\ Accepts' = Accepts + Count(msgs, "ACCEPT")
                      /\ Replies' = Replies + Count(msgs, "RECEIVED")
           /\ ~Both => Accepts' = Accepts /\ Replies' = Replies
  <1>1. net["snd"] \in Seq(Messages) /\ net["rcv"] \in Seq(Messages) /\ net \in [Ends -> Seq(Messages)]
    BY DEF Typed, Ends
  <1>2. net' = [net EXCEPT !["rcv"] = rest, !["snd"] = IF Both THEN @ \o msgs ELSE @]
    BY DEF Sends, Other, Both
  <1>3. net["snd"] \o msgs \in Seq(Messages)
    BY <1>1, HeadStays
  <1>4. /\ net'["rcv"] = rest
        /\ net'["snd"] = IF Both THEN net["snd"] \o msgs ELSE net["snd"]
        /\ net' \in [Ends -> Seq(Messages)]
    BY <1>1, <1>2, <1>3 DEF Ends
  <1>5. /\ Accepts' = Count(net'["snd"], "ACCEPT")
        /\ Replies' = Count(net'["snd"], "RECEIVED")
    BY DEF Accepts, Replies, Count, Weight, Units
  <1>6. /\ Count(net["snd"] \o msgs, "ACCEPT") = Accepts + Count(msgs, "ACCEPT")
        /\ Count(net["snd"] \o msgs, "RECEIVED") = Replies + Count(msgs, "RECEIVED")
    BY <1>1, CountConcat DEF Accepts, Replies
  <1>7. CASE Both
    BY <1>4, <1>5, <1>6, <1>7
  <1>8. CASE ~Both
    BY <1>4, <1>5, <1>8 DEF Accepts, Replies
  <1> QED
    BY <1>7, <1>8

\* End snd takes its first message, or none.
LEMMA SndReads ==
    ASSUME Typed
    PROVE  /\ net["snd"] \in Seq(Messages)
           /\ net["snd"] # <<>> => Head(net["snd"]) \in Messages /\ Tail(net["snd"]) \in Seq(Messages)
           /\ net'["snd"] = net["snd"] => Accepts' = Accepts /\ Replies' = Replies
           /\ net["snd"] # <<>> /\ net'["snd"] = Tail(net["snd"]) =>
                 /\ Head(net["snd"]).type = "ACCEPT" => Accepts = Accepts' + 1
                 /\ Head(net["snd"]).type # "ACCEPT" => Accepts = Accepts'
                 /\ Head(net["snd"]).type = "RECEIVED" => Replies = Replies' + 1
                 /\ Head(net["snd"]).type # "RECEIVED" => Replies = Replies'
  <1>1. net["snd"] \in Seq(Messages)
    BY DEF Typed, Ends
  <1>2. /\ Accepts' = Count(net'["snd"], "ACCEPT")
        /\ Replies' = Count(net'["snd"], "RECEIVED")
    BY DEF Accepts, Replies, Count, Weight, Units
  <1>3. CASE net["snd"] = <<>>
    BY <1>1, <1>2, <1>3 DEF Accepts, Replies
  <1>4. CASE net["snd"] # <<>>
    BY <1>1, <1>2, <1>4, Taken DEF Accepts, Replies
  <1> QED
    BY <1>3, <1>4

\* End rcv takes its first message, or none.
LEMMA RcvReads ==
    ASSUME Typed
    PROVE  /\ net["rcv"] \in Seq(Messages)
           /\ net["rcv"] # <<>> => /\ Head(net["rcv"]) \in Messages /\ Tail(net["rcv"]) \in Seq(Messages)
                                   /\ Head(net["rcv"]).n \in 0..MaxSize
           /\ net'["rcv"] = net["rcv"] => Offers' = Offers /\ Pieces' = Pieces /\ InFlight' = InFlight
           /\ net["rcv"] # <<>> /\ net'["rcv"] = Tail(net["rcv"]) =>
                 /\ Head(net["rcv"]).type = "CREATE" => Offers = Offers' + 1
                 /\ Head(net["rcv"]).type # "CREATE" => Offers = Offers'
                 /\ Head(net["rcv"]).type = "TRANSFER" =>
                       Pieces = Pieces' + 1 /\ InFlight = InFlight' + Head(net["rcv"]).n
                 /\ Head(net["rcv"]).type # "TRANSFER" => Pieces = Pieces' /\ InFlight = InFlight'
  <1>1. net["rcv"] \in Seq(Messages)
    BY DEF Typed, Ends
  <1>2. /\ Offers' = Count(net'["rcv"], "CREATE")
        /\ Pieces' = Count(net'["rcv"], "TRANSFER")
        /\ InFlight' = Bytes(net'["rcv"])
    BY DEF Offers, Pieces, InFlight, Count, Weight, Units, Bytes
  <1>3. CASE net["rcv"] = <<>>
    BY <1>1, <1>2, <1>3 DEF Offers, Pieces, InFlight
  <1>4. CASE net["rcv"] # <<>>
    <2>1. /\ Head(net["rcv"]) \in Messages /\ Tail(net["rcv"]) \in Seq(Messages)
      BY <1>1, <1>4, Taken
    <2>2. Head(net["rcv"]).n \in 0..MaxSize
      BY <2>1 DEF Messages
    <2>3. /\ Head(net["rcv"]).type = "CREATE" =>
                Count(net["rcv"], "CREATE") = Count(Tail(net["rcv"]), "CREATE") + 1
          /\ Head(net["rcv"]).type # "CREATE" =>
                Count(net["rcv"], "CREATE") = Count(Tail(net["rcv"]), "CREATE")
          /\ Head(net["rcv"]).type = "TRANSFER" =>
                /\ Count(net["rcv"], "TRANSFER") = Count(Tail(net["rcv"]), "TRANSFER") + 1
                /\ Bytes(net["rcv"]) = Bytes(Tail(net["rcv"])) + Head(net["rcv"]).n
          /\ Head(net["rcv"]).type # "TRANSFER" =>
                /\ Count(net["rcv"], "TRANSFER") = Count(Tail(net["rcv"]), "TRANSFER")
                /\ Bytes(net["rcv"]) = Bytes(Tail(net["rcv"]))
      BY <1>1, <1>4, Taken
    <2> QED
      BY <1>1, <1>2, <1>4, <2>1, <2>2, <2>3 DEF Offers, Pieces, InFlight
  <1> QED
    BY <1>3, <1>4

\* A connection breaks: what was on its way to end e is lost, and from some
\* message on what was on its way to the other end.
LEMMA BreakLoses ==
    ASSUME Typed, NEW e \in Ends, LinkBreaks(e)
    PROVE  /\ net' \in [Ends -> Seq(Messages)]
           /\ Accepts' <= Accepts /\ Replies' <= Replies
           /\ Offers' <= Offers /\ Pieces' <= Pieces /\ InFlight' <= InFlight
           /\ Pieces' = Pieces => InFlight' = InFlight
           /\ Offers' > 0 => net'["rcv"] # <<>> /\ Head(net'["rcv"]) = Head(net["rcv"])
  <1> DEFINE D == <<Plain("DESTROY")>>
  <1>1. net["snd"] \in Seq(Messages) /\ net["rcv"] \in Seq(Messages) /\ net \in [Ends -> Seq(Messages)]
    BY DEF Typed, Ends
  <1>2. D \in Seq(Messages) /\ Bytes(D) = 0 /\ \A t : t # "DESTROY" => Count(D, t) = 0
    BY PlainWritten
  <1>3. Plain("DESTROY") \in Messages
    BY Kinds, BoundsAssumption
  <1>4. PICK n \in 0..Len(net[Other(e)]) :
          net' = [net EXCEPT ![e] = <<>>,
                             ![Other(e)] = Append(SubSeq(@, 1, n), Plain("DESTROY"))]
    BY DEF LinkBreaks
  <1>5. /\ Accepts' = Count(net'["snd"], "ACCEPT")
        /\ Replies' = Count(net'["snd"], "RECEIVED")
        /\ Offers' = Count(net'["rcv"], "CREATE")
        /\ Pieces' = Count(net'["rcv"], "TRANSFER")
        /\ InFlight' = Bytes(net'["rcv"])
    BY DEF Accepts, Replies, Offers, Pieces, InFlight, Count, Weight, Units, Bytes
  <1>6. Accepts \in Nat /\ Replies \in Nat /\ Offers \in Nat /\ Pieces \in Nat /\ InFlight \in Nat
    BY CountTypes
  <1>7. ASSUME NEW q \in Seq(Messages), NEW k \in 0..Len(q)
        PROVE  /\ Append(SubSeq(q, 1, k), Plain("DESTROY")) \in Seq(Messages)
               /\ \A t : t # "DESTROY" => Count(Append(SubSeq(q, 1, k), Plain("DESTROY")), t) = Count(SubSeq(q, 1, k), t)
               /\ Bytes(Append(SubSeq(q, 1, k), Plain("DESTROY"))) = Bytes(SubSeq(q, 1, k))
               /\ k > 0 => /\ Append(SubSeq(q, 1, k), Plain("DESTROY")) # <<>>
                           /\ Head(Append(SubSeq(q, 1, k), Plain("DESTROY"))) = Head(q)
               /\ k = 0 => SubSeq(q, 1, k) = <<>>
    <2>1. PICK r : r = SubSeq(q, 1, k)
      OBVIOUS
    <2>2. /\ r \in Seq(Messages) /\ Len(r) = k
          /\ \A i \in 1..k : r[i] = q[i]
      BY <2>1, SubSeqProperties, LenProperties
    <2>3. Append(r, Plain("DESTROY")) = r \o D
      BY <2>2, <1>3, AppendIsConcat
    <2>4. /\ r \o D \in Seq(Messages)
          /\ Bytes(r \o D) = Bytes(r) + Bytes(D)
          /\ \A t : Count(r \o D, t) = Count(r, t) + Count(D, t)
      BY <1>2, <2>2, CountConcat, BytesConcat, HeadStays
    <2>5. Bytes(r) \in Nat /\ \A t : Count(r, t) \in Nat
      BY <2>2, CountType, BytesType
    <2>6. /\ Bytes(r \o D) = Bytes(r)
          /\ \A t : t # "DESTROY" => Count(r \o D, t) = Count(r, t)
      BY <1>2, <2>4, <2>5
    <2>7. k > 0 => r # <<>> /\ Head(r) = Head(q)
      BY <2>2
    <2>8. k > 0 => r \o D # <<>> /\ Head(r \o D) = Head(q)
      BY <1>2, <2>2, <2>7, HeadStays
    <2>9. k = 0 => r = <<>>
      BY <2>2, EmptySeq
    <2> QED
      BY <2>1, <2>3, <2>4, <2>6, <2>8, <2>9
  <1>8. CASE e = "snd"
    <2>1. PICK q : q = net["rcv"]
      OBVIOUS
    <2>2. n \in 0..Len(q) /\ q \in Seq(Messages)
      BY <1>1, <1>4, <1>8, <2>1 DEF Other
    <2>3. net'["snd"] = <<>> /\ net'["rcv"] = Append(SubSeq(q, 1, n), Plain("DESTROY"))
      BY <1>1, <1>4, <1>8, <2>1 DEF Other, Ends
    <2>4. Append(SubSeq(q, 1, n), Plain("DESTROY")) \in Seq(Messages)
      BY <1>7, <2>2
    <2>5. PICK a \in Seq(Messages) : a = Append(SubSeq(q, 1, n), Plain("DESTROY"))
      BY <2>4
    <2>6. net' = [net EXCEPT !["snd"] = <<>>, !["rcv"] = a]
      BY <1>1, <1>4, <1>8, <2>1, <2>5 DEF Other, Ends
    <2>7. net' \in [Ends -> Seq(Messages)]
      BY <1>1, <2>6, NothingWritten DEF Ends
    <2>8. Accepts' = 0 /\ Replies' = 0
      BY <1>5, <2>3, CountEmpty
    <2>9. /\ Offers' = Count(SubSeq(q, 1, n), "CREATE")
          /\ Pieces' = Count(SubSeq(q, 1, n), "TRANSFER")
          /\ InFlight' = Bytes(SubSeq(q, 1, n))
      BY <1>5, <1>7, <2>2, <2>3
    <2>10. /\ Offers = Count(q, "CREATE")
           /\ Pieces = Count(q, "TRANSFER")
           /\ InFlight = Bytes(q)
      BY <2>1 DEF Offers, Pieces, InFlight
    <2>11. /\ Count(SubSeq(q, 1, n), "CREATE") <= Count(q, "CREATE")
           /\ Count(SubSeq(q, 1, n), "TRANSFER") <= Count(q, "TRANSFER")
           /\ Bytes(SubSeq(q, 1, n)) <= Bytes(q)
           /\ Count(SubSeq(q, 1, n), "TRANSFER") = Count(q, "TRANSFER")
                 => Bytes(SubSeq(q, 1, n)) = Bytes(q)
      BY <2>2, Prefix
    <2>12. n = 0 => Offers' = 0
      BY <1>7, <2>2, <2>9, CountEmpty
    <2>13. n > 0 => net'["rcv"] # <<>> /\ Head(net'["rcv"]) = Head(net["rcv"])
      BY <1>7, <2>1, <2>2, <2>3
    <2>14. n \in Nat
      BY <2>2
    <2> QED
      BY <1>6, <2>7, <2>8, <2>9, <2>10, <2>11, <2>12, <2>13, <2>14
  <1>9. CASE e = "rcv"
    <2>1. PICK q : q = net["snd"]
      OBVIOUS
    <2>2. n \in 0..Len(q) /\ q \in Seq(Messages)
      BY <1>1, <1>4, <1>9, <2>1 DEF Other
    <2>3. net'["rcv"] = <<>> /\ net'["snd"] = Append(SubSeq(q, 1, n), Plain("DESTROY"))
      BY <1>1, <1>4, <1>9, <2>1 DEF Other, Ends
    <2>4. Append(SubSeq(q, 1, n), Plain("DESTROY")) \in Seq(Messages)
      BY <1>7, <2>2
    <2>5. PICK a \in Seq(Messages) : a = Append(SubSeq(q, 1, n), Plain("DESTROY"))
      BY <2>4
    <2>6. net' = [net EXCEPT !["rcv"] = <<>>, !["snd"] = a]
      BY <1>1, <1>4, <1>9, <2>1, <2>5 DEF Other, Ends
    <2>7. net' \in [Ends -> Seq(Messages)]
      BY <1>1, <2>6, NothingWritten DEF Ends
    <2>8. Offers' = 0 /\ Pieces' = 0 /\ InFlight' = 0
      BY <1>5, <2>3, CountEmpty, BytesEmpty
    <2>9. /\ Accepts' = Count(SubSeq(q, 1, n), "ACCEPT")
          /\ Replies' = Count(SubSeq(q, 1, n), "RECEIVED")
      BY <1>5, <1>7, <2>2, <2>3
    <2>10. /\ Accepts = Count(q, "ACCEPT")
           /\ Replies = Count(q, "RECEIVED")
      BY <2>1 DEF Accepts, Replies
    <2>11. /\ Count(SubSeq(q, 1, n), "ACCEPT") <= Count(q, "ACCEPT")
           /\ Count(SubSeq(q, 1, n), "RECEIVED") <= Count(q, "RECEIVED")
      BY <2>2, Prefix
    <2>12. Pieces = 0 => InFlight = 0
      BY <1>1, NoChunks DEF Pieces, InFlight
    <2> QED
      BY <1>6, <2>7, <2>8, <2>9, <2>10, <2>11, <2>12
  <1> QED
    BY <1>8, <1>9 DEF Ends

-----------------------------------------------------------------------------
(* Every action keeps the invariant.                                       *)

Inv == Shape /\ Account

LEMMA CountedNext ==
    Typed' => \E a, r, o, p, b \in Nat :
                 /\ Accepts' = a /\ Replies' = r
                 /\ Offers' = o /\ Pieces' = p /\ InFlight' = b
  <1>1. Typed' => (/\ Accepts \in Nat /\ Replies \in Nat
                   /\ Offers \in Nat /\ Pieces \in Nat /\ InFlight \in Nat)'
    BY CountTypes, PTL
  <1> QED
    BY <1>1, Zenon

LEMMA Counted ==
    ASSUME Typed
    PROVE  /\ size \in Nat /\ remaining["snd"] \in Nat /\ remaining["rcv"] \in Nat
           /\ received \in Nat /\ chunks \in Nat /\ acked \in Nat /\ owed \in Nat
           /\ closed["snd"] \in 0..1 /\ closed["rcv"] \in 0..1
           /\ Accepts \in Nat /\ Replies \in Nat /\ Offers \in Nat
           /\ Pieces \in Nat /\ InFlight \in Nat
  BY CountTypes, BoundsAssumption DEF Typed, Ends

\* mwFileTransfer_new: nothing was sent before it.
LEMMA NewKeeps ==
    ASSUME Inv, NEW n \in 0..MaxSize, mwFileTransfer_new(n)
    PROVE  Inv'
  <1>1. /\ Typed /\ Flags /\ Life("snd") /\ Life("rcv") /\ Early
        /\ Balance /\ Receiver /\ Even /\ Success
    BY DEF Inv, Shape, Account
  <1>2. /\ net' = net /\ Accepts' = Accepts /\ Replies' = Replies
        /\ Offers' = Offers /\ Pieces' = Pieces /\ InFlight' = InFlight
    BY DEF mwFileTransfer_new, Accepts, Replies, Offers, Pieces, InFlight
  <1>3. /\ state["snd"] = "none" /\ size' = n
        /\ state' = [state EXCEPT !["snd"] = "NEW"]
        /\ remaining' = [remaining EXCEPT !["snd"] = n]
        /\ state'["snd"] = "NEW" /\ state'["rcv"] = state["rcv"]
        /\ remaining'["snd"] = n /\ remaining'["rcv"] = remaining["rcv"]
        /\ client' = client /\ chan' = chan /\ closed' = closed
        /\ received' = received /\ chunks' = chunks /\ acked' = acked /\ owed' = owed
    BY <1>1 DEF mwFileTransfer_new, progress, Typed, Ends
  <1>4. up' = up /\ finished' = finished /\ (Both' <=> Both)
    BY DEF mwFileTransfer_new, setting, progress, Both
  <1>5. Typed'
    BY <1>1, <1>2, <1>3 DEF Typed, Ends, FTState
  <1>6. Flags'
    BY <1>1, <1>4, Zenon DEF Flags
  <1>7. PICK a, r, o, p, b \in Nat :
          Accepts' = a /\ Replies' = r /\ Offers' = o /\ Pieces' = p /\ InFlight' = b
    BY <1>5, CountedNext
  <1>8. /\ size \in Nat /\ remaining["snd"] \in Nat /\ remaining["rcv"] \in Nat
        /\ received \in Nat /\ chunks \in Nat /\ acked \in Nat /\ owed \in Nat
        /\ closed["snd"] \in 0..1 /\ closed["rcv"] \in 0..1
        /\ Accepts \in Nat /\ Replies \in Nat /\ Offers \in Nat
        /\ Pieces \in Nat /\ InFlight \in Nat
    BY <1>1, Counted
  <1>9. Life("snd")'
    BY <1>1, <1>3, <1>7, <1>8 DEF Life, Typed
  <1>10. Life("rcv")'
    BY <1>1, <1>3, <1>7, <1>8 DEF Life, Typed
  <1>11. Early'
    BY <1>1, <1>2, <1>3, <1>4, <1>7, <1>8 DEF Early, Life
  <1>12. Balance'
    <2>1. chunks = 0 /\ size = 0 /\ remaining["snd"] = 0
      BY <1>1, <1>3 DEF Early
    <2>2. /\ received = 0 /\ InFlight = 0
          /\ acked = 0 /\ Replies = 0 /\ owed = 0 /\ Pieces = 0
      BY <1>1, <1>8, <2>1 DEF Balance
    <2> QED
      BY <1>2, <1>3, <2>1, <2>2 DEF Balance
  <1>13. Receiver'
    BY <1>1, <1>2, <1>3, <1>7, <1>8 DEF Receiver, Early
  <1>14. Even'
    BY <1>1, <1>2, <1>3, <1>4, <1>7, <1>8 DEF Even, Life
  <1>15. Success'
    BY <1>1, <1>2, <1>3, <1>4, <1>7, <1>8 DEF Success, WaitingSuccess, Balance, Life
  <1> QED
    BY <1>5, <1>6, <1>9, <1>10, <1>11, <1>12, <1>13, <1>14, <1>15
       DEF Inv, Shape, Account

\* mwFileTransfer_offer: the offer is the first message on the channel.
LEMMA OfferKeeps ==
    ASSUME Inv, mwFileTransfer_offer, up["snd"]
    PROVE  Inv'
  <1>1. /\ Typed /\ Flags /\ Life("snd") /\ Life("rcv") /\ Early
        /\ Balance /\ Receiver /\ Even /\ Success
    BY DEF Inv, Shape, Account
  <1>2. /\ net' \in [Ends -> Seq(Messages)]
        /\ Accepts' = Accepts /\ Replies' = Replies /\ Pieces' = Pieces /\ InFlight' = InFlight
        /\ Both => net'["rcv"] = <<Create(size)>> /\ Offers' = 1
        /\ ~Both => net'["rcv"] = net["rcv"] /\ Offers' = Offers
    <2>1. PICK m : m = <<Create(size)>>
      OBVIOUS
    <2>2. /\ m \in Seq(Messages) /\ Bytes(m) = 0
          /\ Count(m, "CREATE") = 1 /\ Count(m, "TRANSFER") = 0
      BY <1>1, <2>1, CreateWritten DEF Typed
    <2>3. PICK r : r = net["snd"]
      OBVIOUS
    <2>4. Sends("snd", r, m)
      BY <2>1, <2>3 DEF mwFileTransfer_offer
    <2>5. r \in Seq(Messages)
      BY <1>1, <2>3, SndReads
    <2>6. /\ net' \in [Ends -> Seq(Messages)]
          /\ net'["snd"] = r
          /\ net'["rcv"] = IF Both THEN net["rcv"] \o m ELSE net["rcv"]
          /\ Both => /\ Offers' = Offers + Count(m, "CREATE")
                     /\ Pieces' = Pieces + Count(m, "TRANSFER")
                     /\ InFlight' = InFlight + Bytes(m)
          /\ ~Both => Offers' = Offers /\ Pieces' = Pieces /\ InFlight' = InFlight
      BY <1>1, <2>2, <2>4, <2>5, SndWrites
    <2>7. Offers \in Nat /\ Pieces \in Nat /\ InFlight \in Nat
      BY <1>1, CountTypes
    <2>8. Accepts' = Accepts /\ Replies' = Replies
      BY <1>1, <2>3, <2>6, SndReads
    <2>9. Both => net["rcv"] = <<>>
      BY <1>1 DEF Early, mwFileTransfer_offer
    <2>10. Both => Offers = 0
      BY <2>9, CountEmpty DEF Offers
    <2>11. Both => net'["rcv"] = <<Create(size)>>
      BY <2>1, <2>2, <2>6, <2>9, ConcatEmptySeq
    <2> QED
      BY <2>2, <2>6, <2>7, <2>8, <2>10, <2>11
  <1>3. /\ state["snd"] = "NEW" /\ chan["snd"] = "none"
        /\ state' = [state EXCEPT !["snd"] = "PENDING"]
        /\ chan' = [chan EXCEPT !["snd"] = "WAIT"]
        /\ state'["snd"] = "PENDING" /\ state'["rcv"] = state["rcv"]
        /\ chan'["snd"] = "WAIT" /\ chan'["rcv"] = chan["rcv"]
        /\ client' = client /\ size' = size /\ closed' = closed /\ remaining' = remaining
        /\ received' = received /\ chunks' = chunks /\ acked' = acked /\ owed' = owed
    BY <1>1 DEF mwFileTransfer_offer, setting, progress, Typed, Ends
  <1>4. up' = up /\ finished' = finished /\ (Both' <=> Both)
    BY DEF mwFileTransfer_offer, setting, progress, Both
  <1>5. Typed'
    BY <1>1, <1>2, <1>3 DEF Typed, Ends, FTState
  <1>6. Flags'
    BY <1>1, <1>4, Zenon DEF Flags
  <1>7. PICK a, r, o, p, b \in Nat :
          Accepts' = a /\ Replies' = r /\ Offers' = o /\ Pieces' = p /\ InFlight' = b
    BY <1>5, CountedNext
  <1>8. /\ size \in Nat /\ remaining["snd"] \in Nat /\ remaining["rcv"] \in Nat
        /\ received \in Nat /\ chunks \in Nat /\ acked \in Nat /\ owed \in Nat
        /\ closed["snd"] \in 0..1 /\ closed["rcv"] \in 0..1
        /\ Accepts \in Nat /\ Replies \in Nat /\ Offers \in Nat
        /\ Pieces \in Nat /\ InFlight \in Nat
    BY <1>1, Counted
  <1>9. Life("snd")'
    BY <1>1, <1>3, <1>7, <1>8 DEF Life, Typed
  <1>10. Life("rcv")'
    BY <1>1, <1>3, <1>7, <1>8 DEF Life, Typed
  <1>11. Early'
    <2>1. <<Create(size)>> # <<>> /\ Head(<<Create(size)>>) = Create(size)
      OBVIOUS
    <2>2. Offers = 0 /\ state["rcv"] = "none"
      BY <1>1, <1>3, <1>7, <1>8 DEF Early
    <2>3. /\ Offers' <= 1 /\ state["rcv"] = "none"
          /\ Offers' > 0 => net'["rcv"] # <<>> /\ Head(net'["rcv"]) = Create(size)
      <3>1. CASE Both
        <4>1. Offers' = 1 /\ net'["rcv"] = <<Create(size)>>
          BY <1>2, <3>1
        <4>2. net'["rcv"] # <<>> /\ Head(net'["rcv"]) = Create(size)
          BY <2>1, <4>1
        <4> QED
          BY <2>2, <4>1, <4>2
      <3>2. CASE ~Both
        <4>1. Offers' = 0
          BY <1>2, <2>2, <3>2
        <4> QED
          BY <2>2, <4>1
      <3> QED
        BY <3>1, <3>2
    <2>4. Create(size)' = Create(size)
      BY <1>3 DEF Create
    <2> QED
      BY <1>1, <1>2, <1>3, <1>7, <1>8, <2>3, <2>4 DEF Early
  <1>12. Balance'
    BY <1>1, <1>2, <1>3, <1>7, <1>8 DEF Balance
  <1>13. Receiver'
    BY <1>1, <1>2, <1>3, <1>7, <1>8 DEF Receiver, Life
  <1>14. Even'
    BY <1>1, <1>3 DEF Even, Early, Life
  <1>15. Success'
    BY <1>1, <1>2, <1>3, <1>4, <1>7, <1>8 DEF Success, WaitingSuccess, Balance, Life
  <1> QED
    BY <1>5, <1>6, <1>9, <1>10, <1>11, <1>12, <1>13, <1>14, <1>15
       DEF Inv, Shape, Account

\* mwFileTransfer_accept: nothing was sent before the sender hears of it.
LEMMA AcceptKeeps ==
    ASSUME Inv, mwFileTransfer_accept, up["rcv"]
    PROVE  Inv'
  <1>1. /\ Typed /\ Flags /\ Life("snd") /\ Life("rcv") /\ Early
        /\ Balance /\ Receiver /\ Even /\ Success
    BY DEF Inv, Shape, Account
  <1>2. /\ net' \in [Ends -> Seq(Messages)] /\ net'["rcv"] = net["rcv"]
        /\ Offers' = Offers /\ Pieces' = Pieces /\ InFlight' = InFlight
        /\ Replies' = Replies
    <2>1. PICK m : m = <<Plain("ACCEPT")>>
      OBVIOUS
    <2>2. /\ m \in Seq(Messages)
          /\ Count(m, "ACCEPT") = 1 /\ Count(m, "RECEIVED") = 0
      BY <2>1, PlainWritten
    <2>3. PICK r : r = net["rcv"]
      OBVIOUS
    <2>4. Sends("rcv", r, m)
      BY <2>1, <2>3 DEF mwFileTransfer_accept
    <2>5. r \in Seq(Messages)
      BY <1>1, <2>3, RcvReads
    <2>6. /\ net' \in [Ends -> Seq(Messages)]
          /\ net'["rcv"] = r
          /\ Both => /\ Accepts' = Accepts + Count(m, "ACCEPT")
                     /\ Replies' = Replies + Count(m, "RECEIVED")
          /\ ~Both => Accepts' = Accepts /\ Replies' = Replies
      BY <1>1, <2>2, <2>4, <2>5, RcvWrites
    <2>7. Accepts \in Nat /\ Replies \in Nat
      BY <1>1, CountTypes
    <2>8. Offers' = Offers /\ Pieces' = Pieces /\ InFlight' = InFlight
      BY <1>1, <2>3, <2>6, RcvReads
    <2> QED
      BY <2>2, <2>3, <2>6, <2>7, <2>8
  <1>3. /\ state["rcv"] = "PENDING" /\ chan["rcv"] = "WAIT"
        /\ state' = [state EXCEPT !["rcv"] = "OPEN"]
        /\ chan' = [chan EXCEPT !["rcv"] = "OPEN"]
        /\ state'["rcv"] = "OPEN" /\ state'["snd"] = state["snd"]
        /\ chan'["rcv"] = "OPEN" /\ chan'["snd"] = chan["snd"]
        /\ client' = client /\ size' = size /\ closed' = closed /\ remaining' = remaining
        /\ received' = received /\ chunks' = chunks /\ acked' = acked /\ owed' = owed
    BY <1>1 DEF mwFileTransfer_accept, setting, progress, Typed, Ends
  <1>4. up' = up /\ finished' = finished /\ (Both' <=> Both)
    BY DEF mwFileTransfer_accept, setting, progress, Both
  <1>5. Typed'
    BY <1>1, <1>2, <1>3 DEF Typed, Ends, FTState
  <1>6. Flags'
    BY <1>1, <1>4, Zenon DEF Flags
  <1>7. PICK a, r, o, p, b \in Nat :
          Accepts' = a /\ Replies' = r /\ Offers' = o /\ Pieces' = p /\ InFlight' = b
    BY <1>5, CountedNext
  <1>8. /\ size \in Nat /\ remaining["snd"] \in Nat /\ remaining["rcv"] \in Nat
        /\ received \in Nat /\ chunks \in Nat /\ acked \in Nat /\ owed \in Nat
        /\ closed["snd"] \in 0..1 /\ closed["rcv"] \in 0..1
        /\ Accepts \in Nat /\ Replies \in Nat /\ Offers \in Nat
        /\ Pieces \in Nat /\ InFlight \in Nat
    BY <1>1, Counted
  <1>9. Life("snd")'
    BY <1>1, <1>3, <1>7, <1>8 DEF Life, Typed
  <1>10. Life("rcv")'
    BY <1>1, <1>3, <1>7, <1>8 DEF Life, Typed
  <1>11. Early'
    <2>1. Create(size)' = Create(size)
      BY <1>3 DEF Create
    <2> QED
      BY <1>1, <1>2, <1>3, <1>4, <1>7, <1>8, <2>1 DEF Early, Life
  <1>12. Balance'
    BY <1>1, <1>2, <1>3, <1>7, <1>8 DEF Balance
  <1>13. Receiver'
    BY <1>1, <1>2, <1>3, <1>7, <1>8 DEF Receiver, Life
  <1>14. Even'
    <2>1. chan["snd"] # "none" => chan["snd"] = "WAIT" /\ state["snd"] = "PENDING"
      BY <1>1, <1>3 DEF Typed, Ends, Early, Life
    <2>2. chan["snd"] # "none" => chunks = 0 /\ remaining["snd"] = size
      BY <1>1, <2>1 DEF Early
    <2>3. chan["snd"] # "none" => received = 0 /\ InFlight = 0
      BY <1>1, <1>7, <1>8, <2>2 DEF Balance
    <2>4. received + remaining["rcv"] = size
      BY <1>1, <1>3 DEF Receiver
    <2> QED
      BY <1>2, <1>3, <1>7, <1>8, <2>2, <2>3, <2>4 DEF Even
  <1>15. Success'
    BY <1>1, <1>2, <1>3, <1>4, <1>7, <1>8 DEF Success, WaitingSuccess, Balance, Life
  <1> QED
    BY <1>5, <1>6, <1>9, <1>10, <1>11, <1>12, <1>13, <1>14, <1>15
       DEF Inv, Shape, Account

\* mwFileTransfer_send: a chunk goes out, or is lost with the connection.
LEMMA SendKeeps ==
    ASSUME Inv, NEW n \in 0..MaxSize, mwFileTransfer_send(n)
    PROVE  Inv'
  <1>1. /\ Typed /\ Flags /\ Life("snd") /\ Life("rcv") /\ Early
        /\ Balance /\ Receiver /\ Even /\ Success
    BY DEF Inv, Shape, Account
  <1>2. /\ net' \in [Ends -> Seq(Messages)]
        /\ Accepts' = Accepts /\ Replies' = Replies /\ Offers' = Offers
        /\ Both => Pieces' = Pieces + 1 /\ InFlight' = InFlight + n
        /\ ~Both => Pieces' = Pieces /\ InFlight' = InFlight
        /\ net["rcv"] # <<>> => net'["rcv"] # <<>> /\ Head(net'["rcv"]) = Head(net["rcv"])
    <2>1. PICK m : m = <<Transfer(n)>>
      OBVIOUS
    <2>2. /\ m \in Seq(Messages) /\ Bytes(m) = n
          /\ Count(m, "CREATE") = 0 /\ Count(m, "TRANSFER") = 1
      BY <2>1, TransferWritten
    <2>3. PICK r : r = net["snd"]
      OBVIOUS
    <2>4. Sends("snd", r, m)
      BY <2>1, <2>3 DEF mwFileTransfer_send
    <2>5. r \in Seq(Messages)
      BY <1>1, <2>3, SndReads
    <2>6. /\ net' \in [Ends -> Seq(Messages)]
          /\ net'["snd"] = r
          /\ net["rcv"] # <<>> => net'["rcv"] # <<>> /\ Head(net'["rcv"]) = Head(net["rcv"])
          /\ Both => /\ Offers' = Offers + Count(m, "CREATE")
                     /\ Pieces' = Pieces + Count(m, "TRANSFER")
                     /\ InFlight' = InFlight + Bytes(m)
          /\ ~Both => Offers' = Offers /\ Pieces' = Pieces /\ InFlight' = InFlight
      BY <1>1, <2>2, <2>4, <2>5, SndWrites
    <2>7. Offers \in Nat /\ Pieces \in Nat /\ InFlight \in Nat
      BY <1>1, CountTypes
    <2>8. Accepts' = Accepts /\ Replies' = Replies
      BY <1>1, <2>3, <2>6, SndReads
    <2> QED
      BY <2>2, <2>6, <2>7, <2>8
  <1>3. /\ state["snd"] = "OPEN" /\ n <= remaining["snd"]
        /\ client = "waiting" => acked = chunks
        /\ chunks < MaxChunks /\ chunks' = chunks + 1
        /\ remaining' = [remaining EXCEPT !["snd"] = remaining["snd"] - n]
        /\ remaining'["snd"] = remaining["snd"] - n /\ remaining'["rcv"] = remaining["rcv"]
        /\ client' = client /\ size' = size /\ state' = state /\ chan' = chan /\ closed' = closed
        /\ received' = received /\ acked' = acked /\ owed' = owed
    BY <1>1 DEF mwFileTransfer_send, setting, Typed, Ends
  <1>4. up' = up /\ finished' = finished /\ (Both' <=> Both)
    BY DEF mwFileTransfer_send, setting, progress, Both
  <1>5. Typed'
    BY <1>1, <1>2, <1>3, BoundsAssumption DEF Typed, Ends, FTState
  <1>6. Flags'
    BY <1>1, <1>4, Zenon DEF Flags
  <1>7. PICK a, r, o, p, b \in Nat :
          Accepts' = a /\ Replies' = r /\ Offers' = o /\ Pieces' = p /\ InFlight' = b
    BY <1>5, CountedNext
  <1>8. /\ size \in Nat /\ remaining["snd"] \in Nat /\ remaining["rcv"] \in Nat
        /\ received \in Nat /\ chunks \in Nat /\ acked \in Nat /\ owed \in Nat
        /\ closed["snd"] \in 0..1 /\ closed["rcv"] \in 0..1
        /\ Accepts \in Nat /\ Replies \in Nat /\ Offers \in Nat
        /\ Pieces \in Nat /\ InFlight \in Nat
    BY <1>1, Counted
  <1>9. Life("snd")'
    BY <1>1, <1>3, <1>7, <1>8 DEF Life, Typed
  <1>10. Life("rcv")'
    BY <1>1, <1>3, <1>7, <1>8 DEF Life, Typed
  <1>11. Early'
    <2>1. Create(size)' = Create(size)
      BY <1>3 DEF Create
    <2> QED
      BY <1>1, <1>2, <1>3, <1>4, <1>7, <1>8, <2>1 DEF Early, Life
  <1>12. Balance'
    <2>1. CASE Both
      BY <1>1, <1>2, <1>3, <1>7, <1>8, <2>1 DEF Balance
    <2>2. CASE ~Both
      BY <1>1, <1>2, <1>3, <1>7, <1>8, <2>2 DEF Balance
    <2> QED
      BY <2>1, <2>2
  <1>13. Receiver'
    BY <1>1, <1>2, <1>3, <1>7, <1>8 DEF Receiver, Life
  <1>14. Even'
    BY <1>1, <1>2, <1>3, <1>4, <1>7, <1>8 DEF Even
  <1>15. Success'
    BY <1>1, <1>2, <1>3, <1>4, <1>7, <1>8 DEF Success, WaitingSuccess, Balance, Life
  <1> QED
    BY <1>5, <1>6, <1>9, <1>10, <1>11, <1>12, <1>13, <1>14, <1>15
       DEF Inv, Shape, Account

\* mwFileTransfer_ack: an acknowledgement goes out, or is lost.
LEMMA AckKeeps ==
    ASSUME Inv, mwFileTransfer_ack
    PROVE  Inv'
  <1>1. /\ Typed /\ Flags /\ Life("snd") /\ Life("rcv") /\ Early
        /\ Balance /\ Receiver /\ Even /\ Success
    BY DEF Inv, Shape, Account
  <1>2. /\ net' \in [Ends -> Seq(Messages)] /\ net'["rcv"] = net["rcv"]
        /\ Offers' = Offers /\ Pieces' = Pieces /\ InFlight' = InFlight
        /\ Accepts' = Accepts /\ (Both => Replies' = Replies + 1) /\ (~Both => Replies' = Replies)
    <2>1. PICK m : m = <<Plain("RECEIVED")>>
      OBVIOUS
    <2>2. /\ m \in Seq(Messages)
          /\ Count(m, "ACCEPT") = 0 /\ Count(m, "RECEIVED") = 1
      BY <2>1, PlainWritten
    <2>3. PICK r : r = net["rcv"]
      OBVIOUS
    <2>4. Sends("rcv", r, m)
      BY <2>1, <2>3 DEF mwFileTransfer_ack
    <2>5. r \in Seq(Messages)
      BY <1>1, <2>3, RcvReads
    <2>6. /\ net' \in [Ends -> Seq(Messages)]
          /\ net'["rcv"] = r
          /\ Both => /\ Accepts' = Accepts + Count(m, "ACCEPT")
                     /\ Replies' = Replies + Count(m, "RECEIVED")
          /\ ~Both => Accepts' = Accepts /\ Replies' = Replies
      BY <1>1, <2>2, <2>4, <2>5, RcvWrites
    <2>7. Accepts \in Nat /\ Replies \in Nat
      BY <1>1, CountTypes
    <2>8. Offers' = Offers /\ Pieces' = Pieces /\ InFlight' = InFlight
      BY <1>1, <2>3, <2>6, RcvReads
    <2> QED
      BY <2>2, <2>3, <2>6, <2>7, <2>8
  <1>3. /\ owed > 0 /\ owed' = owed - 1
        /\ client' = client /\ size' = size /\ state' = state /\ chan' = chan
        /\ closed' = closed /\ remaining' = remaining
        /\ received' = received /\ chunks' = chunks /\ acked' = acked
    BY DEF mwFileTransfer_ack, setting
  <1>4. up' = up /\ finished' = finished /\ (Both' <=> Both)
    BY DEF mwFileTransfer_ack, setting, progress, Both
  <1>5. Typed'
    BY <1>1, <1>2, <1>3 DEF Typed, Ends, FTState
  <1>6. Flags'
    BY <1>1, <1>4, Zenon DEF Flags
  <1>7. PICK a, r, o, p, b \in Nat :
          Accepts' = a /\ Replies' = r /\ Offers' = o /\ Pieces' = p /\ InFlight' = b
    BY <1>5, CountedNext
  <1>8. /\ size \in Nat /\ remaining["snd"] \in Nat /\ remaining["rcv"] \in Nat
        /\ received \in Nat /\ chunks \in Nat /\ acked \in Nat /\ owed \in Nat
        /\ closed["snd"] \in 0..1 /\ closed["rcv"] \in 0..1
        /\ Accepts \in Nat /\ Replies \in Nat /\ Offers \in Nat
        /\ Pieces \in Nat /\ InFlight \in Nat
    BY <1>1, Counted
  <1>9. Life("snd")'
    BY <1>1, <1>3, <1>7, <1>8 DEF Life, Typed
  <1>10. Life("rcv")'
    BY <1>1, <1>3, <1>7, <1>8 DEF Life, Typed
  <1>11. Early'
    <2>1. Create(size)' = Create(size)
      BY <1>3 DEF Create
    <2> QED
      BY <1>1, <1>2, <1>3, <1>4, <1>7, <1>8, <2>1 DEF Early, Life
  <1>12. Balance'
    <2>1. CASE Both
      BY <1>1, <1>2, <1>3, <1>7, <1>8, <2>1 DEF Balance
    <2>2. CASE ~Both
      BY <1>1, <1>2, <1>3, <1>7, <1>8, <2>2 DEF Balance
    <2> QED
      BY <2>1, <2>2
  <1>13. Receiver'
    BY <1>1, <1>2, <1>3, <1>7, <1>8 DEF Receiver, Life
  <1>14. Even'
    BY <1>1, <1>2, <1>3, <1>4, <1>7, <1>8 DEF Even
  <1>15. Success'
    BY <1>1, <1>2, <1>3, <1>4, <1>7, <1>8 DEF Success, WaitingSuccess, Balance, Life
  <1> QED
    BY <1>5, <1>6, <1>9, <1>10, <1>11, <1>12, <1>13, <1>14, <1>15
       DEF Inv, Shape, Account

\* A message that is taken and not counted only lowers what is on its way.
LEMMA SndTakes ==
    ASSUME Typed, NEW rest, net'["snd"] = rest,
           rest = net["snd"] \/ (net["snd"] # <<>> /\ rest = Tail(net["snd"]))
    PROVE  rest \in Seq(Messages) /\ Accepts' <= Accepts /\ Replies' <= Replies
  <1>1. Accepts \in Nat /\ Replies \in Nat
    BY CountTypes
  <1>2. rest \in Seq(Messages)
    BY SndReads
  <1>3. /\ Accepts' = Count(net'["snd"], "ACCEPT")
        /\ Replies' = Count(net'["snd"], "RECEIVED")
    BY DEF Accepts, Replies, Count, Weight, Units
  <1>4. PICK a, r \in Nat : Accepts' = a /\ Replies' = r
    BY <1>2, <1>3, CountType
  <1>5. CASE rest = net["snd"]
    BY <1>1, <1>2, <1>5, SndReads
  <1>6. CASE net["snd"] # <<>> /\ rest = Tail(net["snd"])
    BY <1>1, <1>2, <1>4, <1>6, SndReads
  <1> QED
    BY <1>5, <1>6

LEMMA RcvTakes ==
    ASSUME Typed, Early, NEW rest, net'["rcv"] = rest,
           rest = net["rcv"] \/ (net["rcv"] # <<>> /\ rest = Tail(net["rcv"]))
    PROVE  /\ rest \in Seq(Messages)
           /\ Offers' <= Offers /\ Pieces' <= Pieces /\ InFlight' <= InFlight
           /\ Pieces' = Pieces => InFlight' = InFlight
           /\ Offers' > 0 => rest = net["rcv"]
  <1>1. Offers \in Nat /\ Pieces \in Nat /\ InFlight \in Nat
    BY CountTypes
  <1>2. rest \in Seq(Messages)
    BY RcvReads
  <1>3. /\ Offers' = Count(net'["rcv"], "CREATE")
        /\ Pieces' = Count(net'["rcv"], "TRANSFER")
        /\ InFlight' = Bytes(net'["rcv"])
    BY DEF Offers, Pieces, InFlight, Count, Weight, Units, Bytes
  <1>4. PICK o, p, b \in Nat : Offers' = o /\ Pieces' = p /\ InFlight' = b
    BY <1>2, <1>3, CountType, BytesType
  <1>5. CASE rest = net["rcv"]
    BY <1>1, <1>2, <1>5, RcvReads
  <1>6. CASE net["rcv"] # <<>> /\ rest = Tail(net["rcv"])
    <2>1. /\ Head(net["rcv"]).type = "CREATE" => Offers = Offers' + 1
          /\ Head(net["rcv"]).type # "CREATE" => Offers = Offers'
          /\ Head(net["rcv"]).type = "TRANSFER" =>
                Pieces = Pieces' + 1 /\ InFlight = InFlight' + Head(net["rcv"]).n
          /\ Head(net["rcv"]).type # "TRANSFER" => Pieces = Pieces' /\ InFlight = InFlight'
          /\ Head(net["rcv"]).n \in 0..MaxSize
      BY <1>6, RcvReads
    <2>2. Offers <= 1 /\ (Offers > 0 => Head(net["rcv"]).type = "CREATE")
      BY DEF Early, Create
    <2>3. Offers' = 0
      BY <1>1, <1>4, <2>1, <2>2
    <2>4. Pieces' <= Pieces /\ InFlight' <= InFlight /\ (Pieces' = Pieces => InFlight' = InFlight)
      BY <1>1, <1>4, <2>1, BoundsAssumption
    <2> QED
      BY <1>1, <1>2, <2>3, <2>4
  <1> QED
    BY <1>5, <1>6

\* What is lost does not upset the balance.
LEMMA Lighter ==
    ASSUME Typed, Balance, NEW r \in Nat, NEW p \in Nat, NEW b \in Nat,
           r <= Replies, p <= Pieces, b <= InFlight, p = Pieces => b = InFlight
    PROVE  /\ acked + r + owed + p <= chunks
           /\ received + b + remaining["snd"] <= size
           /\ acked + r + owed + p = chunks => received + b + remaining["snd"] = size
  <1>1. /\ size \in Nat /\ remaining["snd"] \in Nat
        /\ received \in Nat /\ chunks \in Nat /\ acked \in Nat /\ owed \in Nat
        /\ Replies \in Nat /\ Pieces \in Nat /\ InFlight \in Nat
    BY Counted
  <1> QED
    BY <1>1 DEF Balance

\* A message of the end that the counts do not tell apart.
LEMMA SndAdds ==
    ASSUME Typed, NEW rest \in Seq(Messages), NEW msgs \in Seq(Messages), Sends("snd", rest, msgs),
           Count(msgs, "CREATE") = 0, Count(msgs, "TRANSFER") = 0, Bytes(msgs) = 0
    PROVE  /\ net' \in [Ends -> Seq(Messages)] /\ net'["snd"] = rest
           /\ Offers' = Offers /\ Pieces' = Pieces /\ InFlight' = InFlight
           /\ net["rcv"] # <<>> => net'["rcv"] # <<>> /\ Head(net'["rcv"]) = Head(net["rcv"])
           /\ msgs = <<>> => net'["rcv"] = net["rcv"]
  <1>1. Offers \in Nat /\ Pieces \in Nat /\ InFlight \in Nat
    BY CountTypes
  <1>2. /\ net' \in [Ends -> Seq(Messages)] /\ net'["snd"] = rest
        /\ net["rcv"] # <<>> => net'["rcv"] # <<>> /\ Head(net'["rcv"]) = Head(net["rcv"])
        /\ net'["rcv"] = IF Both THEN net["rcv"] \o msgs ELSE net["rcv"]
        /\ Both => Offers' = Offers + 0 /\ Pieces' = Pieces + 0 /\ InFlight' = InFlight + 0
        /\ ~Both => Offers' = Offers /\ Pieces' = Pieces /\ InFlight' = InFlight
    BY SndWrites
  <1>3. msgs = <<>> => net["rcv"] \o msgs = net["rcv"]
    BY RcvReads, ConcatEmptySeq
  <1>4. CASE Both
    BY <1>1, <1>2, <1>3, <1>4
  <1>5. CASE ~Both
    BY <1>2, <1>5
  <1> QED
    BY <1>4, <1>5

LEMMA RcvAdds ==
    ASSUME Typed, NEW rest \in Seq(Messages), NEW msgs \in Seq(Messages), Sends("rcv", rest, msgs),
           Count(msgs, "ACCEPT") = 0, Count(msgs, "RECEIVED") = 0
    PROVE  /\ net' \in [Ends -> Seq(Messages)] /\ net'["rcv"] = rest
           /\ Accepts' = Accepts /\ Replies' = Replies
  <1>1. Accepts \in Nat /\ Replies \in Nat
    BY CountTypes
  <1>2. /\ net' \in [Ends -> Seq(Messages)] /\ net'["rcv"] = rest
        /\ Both => Accepts' = Accepts + 0 /\ Replies' = Replies + 0
        /\ ~Both => Accepts' = Accepts /\ Replies' = Replies
    BY RcvWrites
  <1> QED
    BY <1>1, <1>2

\* The sender gives the channel up: closed, freed or told of its destruction.
LEMMA SndEnds ==
    ASSUME Inv, NEW s \in FTState \ {"none", "NEW", "OPEN"}, NEW c \in 0..1, c >= closed["snd"],
           s = "DONE" => state["snd"] = "DONE", s = "PENDING" => state["snd"] = "PENDING",
           NEW rest, rest = net["snd"] \/ (net["snd"] # <<>> /\ rest = Tail(net["snd"])),
           NEW ch, Sends("snd", rest, Destroying(ch)),
           state' = [state EXCEPT !["snd"] = s],
           chan' = [chan EXCEPT !["snd"] = "none"],
           closed' = [closed EXCEPT !["snd"] = c],
           UNCHANGED <<setting, remaining, progress>>
    PROVE  Inv'
  <1>1. /\ Typed /\ Flags /\ Life("snd") /\ Life("rcv") /\ Early
        /\ Balance /\ Receiver /\ Even /\ Success
    BY DEF Inv, Shape, Account
  <1>2. /\ net' \in [Ends -> Seq(Messages)]
        /\ Accepts' <= Accepts /\ Replies' <= Replies
        /\ Offers' = Offers /\ Pieces' = Pieces /\ InFlight' = InFlight
        /\ net["rcv"] # <<>> => net'["rcv"] # <<>> /\ Head(net'["rcv"]) = Head(net["rcv"])
    <2>1. PICK m : m = Destroying(ch)
      OBVIOUS
    <2>2. /\ m \in Seq(Messages) /\ Bytes(m) = 0
          /\ Count(m, "CREATE") = 0 /\ Count(m, "TRANSFER") = 0
      BY <2>1, DestroyWritten
    <2>3. rest \in Seq(Messages)
      BY <1>1, SndReads
    <2>4. Sends("snd", rest, m)
      BY <2>1
    <2>5. /\ net' \in [Ends -> Seq(Messages)] /\ net'["snd"] = rest
          /\ Offers' = Offers /\ Pieces' = Pieces /\ InFlight' = InFlight
          /\ net["rcv"] # <<>> => net'["rcv"] # <<>> /\ Head(net'["rcv"]) = Head(net["rcv"])
      BY <1>1, <2>2, <2>3, <2>4, SndAdds
    <2> QED
      BY <1>1, <2>5, SndTakes
  <1>3. /\ state'["snd"] = s /\ state'["rcv"] = state["rcv"]
        /\ chan'["snd"] = "none" /\ chan'["rcv"] = chan["rcv"]
        /\ closed'["snd"] = c /\ closed'["rcv"] = closed["rcv"]
        /\ client' = client /\ size' = size /\ remaining' = remaining
        /\ received' = received /\ chunks' = chunks /\ acked' = acked /\ owed' = owed
    BY <1>1 DEF setting, progress, Typed, Ends
  <1>4. up' = up /\ finished' = finished /\ (Both' <=> Both)
    BY DEF setting, progress, Both
  <1>5. Typed'
    BY <1>1, <1>2, <1>3 DEF Typed, Ends, FTState
  <1>6. Flags'
    BY <1>1, <1>4, Zenon DEF Flags
  <1>7. PICK a, r, o, p, b \in Nat :
          Accepts' = a /\ Replies' = r /\ Offers' = o /\ Pieces' = p /\ InFlight' = b
    BY <1>5, CountedNext
  <1>8. /\ size \in Nat /\ remaining["snd"] \in Nat /\ remaining["rcv"] \in Nat
        /\ received \in Nat /\ chunks \in Nat /\ acked \in Nat /\ owed \in Nat
        /\ closed["snd"] \in 0..1 /\ closed["rcv"] \in 0..1
        /\ Accepts \in Nat /\ Replies \in Nat /\ Offers \in Nat
        /\ Pieces \in Nat /\ InFlight \in Nat
    BY <1>1, Counted
  <1>9. Life("snd")'
    BY <1>1, <1>3, <1>7, <1>8 DEF Life, Typed
  <1>10. Life("rcv")'
    BY <1>1, <1>3, <1>7, <1>8 DEF Life, Typed
  <1>11. Early'
    <2>1. Create(size)' = Create(size)
      BY <1>3 DEF Create
    <2> QED
      BY <1>1, <1>2, <1>3, <1>4, <1>7, <1>8, <2>1 DEF Early, Life
  <1>12. Balance'
    <2>1. r <= Replies /\ p <= Pieces /\ b <= InFlight /\ (p = Pieces => b = InFlight)
      BY <1>2, <1>7, <1>8
    <2>2. /\ acked + r + owed + p <= chunks
          /\ received + b + remaining["snd"] <= size
          /\ acked + r + owed + p = chunks => received + b + remaining["snd"] = size
      BY <1>1, <1>7, <2>1, Lighter
    <2> QED
      BY <1>1, <1>3, <1>7, <2>2 DEF Balance
  <1>13. Receiver'
    BY <1>1, <1>2, <1>3, <1>7, <1>8 DEF Receiver, Life
  <1>14. Even'
    BY <1>3 DEF Even
  <1>15. Success'
    BY <1>1, <1>2, <1>3, <1>4, <1>7, <1>8 DEF Success, WaitingSuccess, Balance, Life
  <1> QED
    BY <1>5, <1>6, <1>9, <1>10, <1>11, <1>12, <1>13, <1>14, <1>15
       DEF Inv, Shape, Account

\* The receiver gives the channel up.
LEMMA RcvEnds ==
    ASSUME Inv, NEW s \in FTState \ {"none", "NEW", "OPEN"}, NEW c \in 0..1, c >= closed["rcv"],
           state["rcv"] # "none", s = "DONE" => state["rcv"] = "DONE",
           s \notin {"DONE", "freed"} => state["rcv"] \notin {"DONE", "freed"},
           NEW rest, rest = net["rcv"] \/ (net["rcv"] # <<>> /\ rest = Tail(net["rcv"])),
           NEW ch, Sends("rcv", rest, Destroying(ch)),
           state' = [state EXCEPT !["rcv"] = s],
           chan' = [chan EXCEPT !["rcv"] = "none"],
           closed' = [closed EXCEPT !["rcv"] = c],
           UNCHANGED <<setting, remaining, progress>>
    PROVE  Inv'
  <1>1. /\ Typed /\ Flags /\ Life("snd") /\ Life("rcv") /\ Early
        /\ Balance /\ Receiver /\ Even /\ Success
    BY DEF Inv, Shape, Account
  <1>2. /\ net' \in [Ends -> Seq(Messages)]
        /\ Accepts' = Accepts /\ Replies' = Replies
        /\ Offers' = 0 /\ Pieces' <= Pieces /\ InFlight' <= InFlight
        /\ Pieces' = Pieces => InFlight' = InFlight
    <2>1. PICK m : m = Destroying(ch)
      OBVIOUS
    <2>2. /\ m \in Seq(Messages)
          /\ Count(m, "ACCEPT") = 0 /\ Count(m, "RECEIVED") = 0
      BY <2>1, DestroyWritten
    <2>3. rest \in Seq(Messages)
      BY <1>1, RcvReads
    <2>4. Sends("rcv", rest, m)
      BY <2>1
    <2>5. /\ net' \in [Ends -> Seq(Messages)] /\ net'["rcv"] = rest
          /\ Accepts' = Accepts /\ Replies' = Replies
      BY <1>1, <2>2, <2>3, <2>4, RcvAdds
    <2>6. /\ Offers' <= Offers /\ Pieces' <= Pieces /\ InFlight' <= InFlight
          /\ Pieces' = Pieces => InFlight' = InFlight
      BY <1>1, <2>5, RcvTakes
    <2>7. Offers \in Nat /\ (Offers > 0 => state["rcv"] = "none")
      BY <1>1, CountTypes DEF Early
    <2>8. Offers' = Count(rest, "CREATE")
      BY <2>5 DEF Offers, Count, Weight, Units
    <2>9. PICK o \in Nat : Offers' = o
      BY <2>3, <2>8, CountType
    <2> QED
      BY <2>5, <2>6, <2>7, <2>9
  <1>3. /\ state'["rcv"] = s /\ state'["snd"] = state["snd"]
        /\ chan'["rcv"] = "none" /\ chan'["snd"] = chan["snd"]
        /\ closed'["rcv"] = c /\ closed'["snd"] = closed["snd"]
        /\ client' = client /\ size' = size /\ remaining' = remaining
        /\ received' = received /\ chunks' = chunks /\ acked' = acked /\ owed' = owed
    BY <1>1 DEF setting, progress, Typed, Ends
  <1>4. up' = up /\ finished' = finished /\ (Both' <=> Both)
    BY DEF setting, progress, Both
  <1>5. Typed'
    BY <1>1, <1>2, <1>3 DEF Typed, Ends, FTState
  <1>6. Flags'
    BY <1>1, <1>4, Zenon DEF Flags
  <1>7. PICK a, r, o, p, b \in Nat :
          Accepts' = a /\ Replies' = r /\ Offers' = o /\ Pieces' = p /\ InFlight' = b
    BY <1>5, CountedNext
  <1>8. /\ size \in Nat /\ remaining["snd"] \in Nat /\ remaining["rcv"] \in Nat
        /\ received \in Nat /\ chunks \in Nat /\ acked \in Nat /\ owed \in Nat
        /\ closed["snd"] \in 0..1 /\ closed["rcv"] \in 0..1
        /\ Accepts \in Nat /\ Replies \in Nat /\ Offers \in Nat
        /\ Pieces \in Nat /\ InFlight \in Nat
    BY <1>1, Counted
  <1>9. Life("snd")'
    BY <1>1, <1>3, <1>7, <1>8 DEF Life, Typed
  <1>10. Life("rcv")'
    BY <1>1, <1>3, <1>7, <1>8 DEF Life, Typed
  <1>11. Early'
    <2>1. state["snd"] \notin {"none", "NEW"}
      BY <1>1 DEF Early
    <2> QED
      BY <1>1, <1>2, <1>3, <1>7, <1>8, <2>1 DEF Early
  <1>12. Balance'
    <2>1. r <= Replies /\ p <= Pieces /\ b <= InFlight /\ (p = Pieces => b = InFlight)
      BY <1>2, <1>7, <1>8
    <2>2. /\ acked + r + owed + p <= chunks
          /\ received + b + remaining["snd"] <= size
          /\ acked + r + owed + p = chunks => received + b + remaining["snd"] = size
      BY <1>1, <1>7, <2>1, Lighter
    <2> QED
      BY <1>1, <1>3, <1>7, <2>2 DEF Balance
  <1>13. Receiver'
    BY <1>1, <1>2, <1>3, <1>7, <1>8 DEF Receiver, Life
  <1>14. Even'
    BY <1>3 DEF Even
  <1>15. Success'
    BY <1>1, <1>2, <1>3, <1>4, <1>7, <1>8 DEF Success, WaitingSuccess, Balance, Life
  <1> QED
    BY <1>5, <1>6, <1>9, <1>10, <1>11, <1>12, <1>13, <1>14, <1>15
       DEF Inv, Shape, Account

\* The sender drops a message that finds no channel.
LEMMA SndDrops ==
    ASSUME Inv, net["snd"] # <<>>, Dropped("snd")
    PROVE  Inv'
  <1>1. /\ Typed /\ Flags /\ Life("snd") /\ Life("rcv") /\ Early
        /\ Balance /\ Receiver /\ Even /\ Success
    BY DEF Inv, Shape, Account
  <1>2. /\ net' \in [Ends -> Seq(Messages)] /\ net'["rcv"] = net["rcv"]
        /\ Accepts' <= Accepts /\ Replies' <= Replies
        /\ Offers' = Offers /\ Pieces' = Pieces /\ InFlight' = InFlight
    <2>1. PICK r : r = Tail(net["snd"])
      OBVIOUS
    <2>2. Sends("snd", r, <<>>)
      BY <2>1 DEF Dropped, Rest
    <2>3. r \in Seq(Messages)
      BY <1>1, <2>1, SndReads
    <2>4. /\ net' \in [Ends -> Seq(Messages)] /\ net'["snd"] = r /\ net'["rcv"] = net["rcv"]
          /\ Offers' = Offers /\ Pieces' = Pieces /\ InFlight' = InFlight
      BY <1>1, <2>2, <2>3, NothingWritten, SndAdds
    <2> QED
      BY <1>1, <2>1, <2>4, SndTakes
  <1>3. /\ state' = state /\ chan' = chan /\ closed' = closed
        /\ client' = client /\ size' = size /\ remaining' = remaining
        /\ received' = received /\ chunks' = chunks /\ acked' = acked /\ owed' = owed
    BY DEF Dropped, setting, progress
  <1>4. up' = up /\ finished' = finished /\ (Both' <=> Both)
    BY DEF Dropped, setting, progress, Both
  <1>5. Typed'
    BY <1>1, <1>2, <1>3 DEF Typed, Ends, FTState
  <1>6. Flags'
    BY <1>1, <1>4, Zenon DEF Flags
  <1>7. PICK a, r, o, p, b \in Nat :
          Accepts' = a /\ Replies' = r /\ Offers' = o /\ Pieces' = p /\ InFlight' = b
    BY <1>5, CountedNext
  <1>8. /\ size \in Nat /\ remaining["snd"] \in Nat /\ remaining["rcv"] \in Nat
        /\ received \in Nat /\ chunks \in Nat /\ acked \in Nat /\ owed \in Nat
        /\ closed["snd"] \in 0..1 /\ closed["rcv"] \in 0..1
        /\ Accepts \in Nat /\ Replies \in Nat /\ Offers \in Nat
        /\ Pieces \in Nat /\ InFlight \in Nat
    BY <1>1, Counted
  <1>9. Life("snd")'
    BY <1>1, <1>3, <1>7, <1>8 DEF Life, Typed
  <1>10. Life("rcv")'
    BY <1>1, <1>3, <1>7, <1>8 DEF Life, Typed
  <1>11. Early'
    <2>1. Create(size)' = Create(size)
      BY <1>3 DEF Create
    <2> QED
      BY <1>1, <1>2, <1>3, <1>4, <1>7, <1>8, <2>1 DEF Early, Life
  <1>12. Balance'
    <2>1. r <= Replies /\ p <= Pieces /\ b <= InFlight /\ (p = Pieces => b = InFlight)
      BY <1>2, <1>7, <1>8
    <2>2. /\ acked + r + owed + p <= chunks
          /\ received + b + remaining["snd"] <= size
          /\ acked + r + owed + p = chunks => received + b + remaining["snd"] = size
      BY <1>1, <1>7, <2>1, Lighter
    <2> QED
      BY <1>1, <1>3, <1>7, <2>2 DEF Balance
  <1>13. Receiver'
    BY <1>1, <1>2, <1>3, <1>7, <1>8 DEF Receiver, Life
  <1>14. Even'
    BY <1>1, <1>2, <1>3, <1>4, <1>7, <1>8 DEF Even
  <1>15. Success'
    BY <1>1, <1>2, <1>3, <1>4, <1>7, <1>8 DEF Success, WaitingSuccess, Balance, Life
  <1> QED
    BY <1>5, <1>6, <1>9, <1>10, <1>11, <1>12, <1>13, <1>14, <1>15
       DEF Inv, Shape, Account

\* The receiver drops a message that finds no channel, or a chunk that it does
\* not expect; of the latter there is none while both ends are connected.
LEMMA RcvDrops ==
    ASSUME Inv, net["rcv"] # <<>>, Dropped("rcv"),
           chan["rcv"] = "none" \/ Head(net["rcv"]).type = "TRANSFER",
           chan["rcv"] = "none" \/ state["rcv"] # "OPEN" \/ remaining["rcv"] < Head(net["rcv"]).n
    PROVE  Inv'
  <1>1. /\ Typed /\ Flags /\ Life("snd") /\ Life("rcv") /\ Early
        /\ Balance /\ Receiver /\ Even /\ Success
    BY DEF Inv, Shape, Account
  <1>2. /\ net' \in [Ends -> Seq(Messages)] /\ net'["rcv"] = Tail(net["rcv"])
        /\ Accepts' = Accepts /\ Replies' = Replies
        /\ Offers' <= Offers /\ Pieces' <= Pieces /\ InFlight' <= InFlight
        /\ Pieces' = Pieces => InFlight' = InFlight
        /\ Offers' > 0 => net'["rcv"] = net["rcv"]
    <2>1. PICK r : r = Tail(net["rcv"])
      OBVIOUS
    <2>2. Sends("rcv", r, <<>>)
      BY <2>1 DEF Dropped, Rest
    <2>3. r \in Seq(Messages)
      BY <1>1, <2>1, RcvReads
    <2>4. /\ net' \in [Ends -> Seq(Messages)] /\ net'["rcv"] = r
          /\ Accepts' = Accepts /\ Replies' = Replies
      BY <1>1, <2>2, <2>3, NothingWritten, RcvAdds
    <2>5. /\ Offers' <= Offers /\ Pieces' <= Pieces /\ InFlight' <= InFlight
          /\ Pieces' = Pieces => InFlight' = InFlight
          /\ Offers' > 0 => r = net["rcv"]
      BY <1>1, <2>1, <2>4, RcvTakes
    <2> QED
      BY <2>1, <2>4, <2>5
  <1>3. /\ state' = state /\ chan' = chan /\ closed' = closed
        /\ client' = client /\ size' = size /\ remaining' = remaining
        /\ received' = received /\ chunks' = chunks /\ acked' = acked /\ owed' = owed
    BY DEF Dropped, setting, progress
  <1>4. up' = up /\ finished' = finished /\ (Both' <=> Both)
    BY DEF Dropped, setting, progress, Both
  <1>5. Typed'
    BY <1>1, <1>2, <1>3 DEF Typed, Ends, FTState
  <1>6. Flags'
    BY <1>1, <1>4, Zenon DEF Flags
  <1>7. PICK a, r, o, p, b \in Nat :
          Accepts' = a /\ Replies' = r /\ Offers' = o /\ Pieces' = p /\ InFlight' = b
    BY <1>5, CountedNext
  <1>8. /\ size \in Nat /\ remaining["snd"] \in Nat /\ remaining["rcv"] \in Nat
        /\ received \in Nat /\ chunks \in Nat /\ acked \in Nat /\ owed \in Nat
        /\ closed["snd"] \in 0..1 /\ closed["rcv"] \in 0..1
        /\ Accepts \in Nat /\ Replies \in Nat /\ Offers \in Nat
        /\ Pieces \in Nat /\ InFlight \in Nat
    BY <1>1, Counted
  <1>9. Life("snd")'
    BY <1>1, <1>3, <1>7, <1>8 DEF Life, Typed
  <1>10. Life("rcv")'
    BY <1>1, <1>3, <1>7, <1>8 DEF Life, Typed
  <1>11. Early'
    <2>1. Create(size)' = Create(size)
      BY <1>3 DEF Create
    <2>2. net["rcv"] # <<>>
      OBVIOUS
    <2>3. /\ o <= Offers /\ (o > 0 => net'["rcv"] = net["rcv"])
      BY <1>2, <1>7, <1>8
    <2>4. state["snd"] \in {"none", "NEW"} => ~Both
      BY <1>1, <2>2 DEF Early
    <2>5. /\ Offers' <= 1
          /\ Offers' > 0 => /\ net'["rcv"] # <<>>
                             /\ Head(net'["rcv"]) = Create(size)'
                             /\ state'["rcv"] = "none"
                             /\ state'["snd"] \notin {"none", "NEW"}
      BY <1>1, <1>3, <1>7, <1>8, <2>1, <2>2, <2>3 DEF Early
    <2>6. state'["snd"] \in {"none", "NEW"} =>
            state'["rcv"] = "none" /\ (Both' => net'["rcv"] = <<>>)
      BY <1>1, <1>3, <1>4, <2>4 DEF Early
    <2> QED
      BY <1>1, <1>2, <1>3, <2>5, <2>6 DEF Early
  <1>12. Balance'
    <2>1. r <= Replies /\ p <= Pieces /\ b <= InFlight /\ (p = Pieces => b = InFlight)
      BY <1>2, <1>7, <1>8
    <2>2. /\ acked + r + owed + p <= chunks
          /\ received + b + remaining["snd"] <= size
          /\ acked + r + owed + p = chunks => received + b + remaining["snd"] = size
      BY <1>1, <1>7, <2>1, Lighter
    <2> QED
      BY <1>1, <1>3, <1>7, <2>2 DEF Balance
  <1>13. Receiver'
    BY <1>1, <1>2, <1>3, <1>7, <1>8 DEF Receiver, Life
  <1>14. Even'
    <2>1. SUFFICES ASSUME chan["snd"] # "none", chan["rcv"] = "OPEN", Both
                 PROVE  remaining["rcv"] = remaining["snd"] + InFlight'
      BY <1>3, <1>4 DEF Even
    <2>2. remaining["rcv"] = remaining["snd"] + InFlight
      BY <1>1, <2>1 DEF Even
    <2>3. Head(net["rcv"]).type = "TRANSFER"
      BY <2>1
    <2>4. Head(net["rcv"]).n \in Nat
      BY <1>1, RcvReads, BoundsAssumption
    <2>5. InFlight = InFlight' + Head(net["rcv"]).n
      BY <1>1, <1>2, <2>3, RcvReads
    <2>6. /\ Head(net["rcv"]).type = "TRANSFER" /\ Head(net["rcv"]).n \in Nat
          /\ InFlight = b + Head(net["rcv"]).n
      BY <1>7, <2>3, <2>4, <2>5
    <2>7. state["rcv"] = "DONE"
      BY <1>1, <1>7, <1>8, <2>1, <2>2, <2>6 DEF Life
    <2>8. remaining["rcv"] = 0
      BY <1>1, <2>7 DEF Receiver
    <2> QED
      BY <1>7, <1>8, <2>2, <2>6, <2>8
  <1>15. Success'
    BY <1>1, <1>2, <1>3, <1>4, <1>7, <1>8 DEF Success, WaitingSuccess, Balance, Life
  <1> QED
    BY <1>5, <1>6, <1>9, <1>10, <1>11, <1>12, <1>13, <1>14, <1>15
       DEF Inv, Shape, Account

\* The offer arrives: it finds no transfer, and nothing is behind it.
LEMMA CreateKeeps ==
    ASSUME Inv, Receives("rcv", "CREATE"),
           state' = [state EXCEPT !["rcv"] = "PENDING"],
           chan' = [chan EXCEPT !["rcv"] = "WAIT"],
           remaining' = [remaining EXCEPT !["rcv"] = Head(net["rcv"]).n],
           Sends("rcv", Rest("rcv"), <<>>),
           UNCHANGED <<setting, closed, progress>>
    PROVE  Inv'
  <1>1. /\ Typed /\ Flags /\ Life("snd") /\ Life("rcv") /\ Early
        /\ Balance /\ Receiver /\ Even /\ Success
    BY DEF Inv, Shape, Account
  <1>2. Offers # 0
    <2>1. net["rcv"] \in Seq(Messages) /\ net["rcv"] # <<>> /\ Head(net["rcv"]).type = "CREATE"
      BY <1>1, RcvReads DEF Receives
    <2>2. /\ Offers = Count(Tail(net["rcv"]), "CREATE") + 1
          /\ Tail(net["rcv"]) \in Seq(Messages)
      BY <2>1, Taken DEF Offers
    <2>3. Count(Tail(net["rcv"]), "CREATE") \in Nat
      BY <2>2, CountType
    <2> QED
      BY <2>2, <2>3
  <1>3. /\ net' \in [Ends -> Seq(Messages)]
        /\ Accepts' = Accepts /\ Replies' = Replies /\ Pieces' = Pieces /\ InFlight' = InFlight
        /\ Offers' = 0
    <2>1. PICK r : r = Tail(net["rcv"])
      OBVIOUS
    <2>2. Sends("rcv", r, <<>>)
      BY <2>1 DEF Receives, Rest
    <2>3. r \in Seq(Messages)
      BY <1>1, <2>1, RcvReads DEF Receives
    <2>4. /\ net' \in [Ends -> Seq(Messages)] /\ net'["rcv"] = r
          /\ Accepts' = Accepts /\ Replies' = Replies
      BY <1>1, <2>2, <2>3, NothingWritten, RcvAdds
    <2>5. net["rcv"] # <<>> /\ Head(net["rcv"]).type = "CREATE"
      BY DEF Receives
    <2>6. Offers = Offers' + 1 /\ Pieces = Pieces' /\ InFlight = InFlight'
      BY <1>1, <2>1, <2>4, <2>5, RcvReads
    <2>7. Offers' = Count(r, "CREATE")
      BY <2>4 DEF Offers, Count, Weight, Units
    <2>8. PICK o \in Nat : Offers' = o
      BY <2>3, <2>7, CountType
    <2>9. Offers <= 1
      BY <1>1 DEF Early
    <2>10. Offers' = 0
      BY <2>6, <2>8, <2>9
    <2> QED
      BY <2>4, <2>6, <2>10
  <1>4. /\ state["rcv"] = "none" /\ state["snd"] \notin {"none", "NEW"}
        /\ state'["rcv"] = "PENDING" /\ state'["snd"] = state["snd"]
        /\ chan'["rcv"] = "WAIT" /\ chan'["snd"] = chan["snd"]
        /\ remaining'["rcv"] = size /\ remaining'["snd"] = remaining["snd"]
        /\ client' = client /\ size' = size /\ closed' = closed
        /\ received' = received /\ chunks' = chunks /\ acked' = acked /\ owed' = owed
    <2>1. Offers \in Nat /\ Offers > 0
      BY <1>1, <1>2, CountTypes
    <2>2. /\ state["rcv"] = "none" /\ state["snd"] \notin {"none", "NEW"}
          /\ Head(net["rcv"]).n = size
      BY <1>1, <2>1 DEF Early, Create
    <2> QED
      BY <1>1, <2>2 DEF setting, progress, Typed, Ends
  <1>5. up' = up /\ finished' = finished /\ (Both' <=> Both)
    BY DEF Inv, setting, progress, Both
  <1>6. Typed'
    <2>1. Head(net["rcv"]).n \in 0..MaxSize
      BY <1>1, RcvReads DEF Receives
    <2> QED
      BY <1>1, <1>3, <1>4, <2>1 DEF Typed, Ends, FTState
  <1>7. Flags'
    BY <1>1, <1>5, Zenon DEF Flags
  <1>8. PICK a, r, o, p, b \in Nat :
          Accepts' = a /\ Replies' = r /\ Offers' = o /\ Pieces' = p /\ InFlight' = b
    BY <1>6, CountedNext
  <1>9. /\ size \in Nat /\ remaining["snd"] \in Nat /\ remaining["rcv"] \in Nat
        /\ received \in Nat /\ chunks \in Nat /\ acked \in Nat /\ owed \in Nat
        /\ closed["snd"] \in 0..1 /\ closed["rcv"] \in 0..1
        /\ Accepts \in Nat /\ Replies \in Nat /\ Offers \in Nat
        /\ Pieces \in Nat /\ InFlight \in Nat
    BY <1>1, Counted
  <1>10. Life("snd")'
    BY <1>1, <1>4, <1>8, <1>9 DEF Life, Typed
  <1>11. Life("rcv")'
    BY <1>1, <1>4, <1>8, <1>9 DEF Life, Typed
  <1>12. Early'
    <2>1. Offers' <= 1 /\ ~(Offers' > 0)
      BY <1>3
    <2> QED
      BY <1>1, <1>3, <1>4, <2>1 DEF Early
  <1>13. Balance'
    <2>1. r <= Replies /\ p <= Pieces /\ b <= InFlight /\ (p = Pieces => b = InFlight)
      BY <1>3, <1>8, <1>9
    <2>2. /\ acked + r + owed + p <= chunks
          /\ received + b + remaining["snd"] <= size
          /\ acked + r + owed + p = chunks => received + b + remaining["snd"] = size
      BY <1>1, <1>8, <2>1, Lighter
    <2> QED
      BY <1>1, <1>4, <1>8, <2>2 DEF Balance
  <1>14. Receiver'
    BY <1>1, <1>4, <1>9 DEF Receiver
  <1>15. Even'
    BY <1>4 DEF Even
  <1>16. Success'
    BY <1>1, <1>3, <1>4, <1>5, <1>8, <1>9 DEF Success, WaitingSuccess, Balance, Life
  <1> QED
    BY <1>6, <1>7, <1>10, <1>11, <1>12, <1>13, <1>14, <1>15, <1>16
       DEF Inv, Shape, Account

\* The offer does not parse: the channel is destroyed.
LEMMA BadOfferKeeps ==
    ASSUME Inv, net["rcv"] # <<>>, Receives("rcv", "CREATE"),
           Sends("rcv", Rest("rcv"), <<Plain("DESTROY")>>),
           UNCHANGED <<state, chan, remaining>>,
           UNCHANGED <<setting, closed, progress>>
    PROVE  Inv'
  <1>1. /\ Typed /\ Flags /\ Life("snd") /\ Life("rcv") /\ Early
        /\ Balance /\ Receiver /\ Even /\ Success
    BY DEF Inv, Shape, Account
  <1>2. /\ net' \in [Ends -> Seq(Messages)] /\ net'["rcv"] = Tail(net["rcv"])
        /\ Accepts' = Accepts /\ Replies' = Replies
        /\ Pieces' = Pieces /\ InFlight' = InFlight
        /\ Offers' <= Offers
        /\ Offers' > 0 => net'["rcv"] = net["rcv"]
    <2>1. PICK r : r = Tail(net["rcv"])
      OBVIOUS
    <2>2. PICK m : m = <<Plain("DESTROY")>>
      OBVIOUS
    <2>3. Sends("rcv", r, m)
      BY <2>1, <2>2 DEF Rest
    <2>4. r \in Seq(Messages)
      BY <1>1, <2>1, RcvReads
    <2>5. m \in Seq(Messages) /\ Count(m, "ACCEPT") = 0 /\ Count(m, "RECEIVED") = 0
      BY <2>2, PlainWritten
    <2>6. /\ net' \in [Ends -> Seq(Messages)] /\ net'["rcv"] = r
          /\ Accepts' = Accepts /\ Replies' = Replies
      BY <1>1, <2>3, <2>4, <2>5, RcvAdds
    <2>7. Offers' <= Offers /\ (Offers' > 0 => r = net["rcv"])
      BY <1>1, <2>1, <2>6, RcvTakes
    <2>8. Pieces' = Pieces /\ InFlight' = InFlight
      BY <1>1, <2>1, <2>6, RcvReads DEF Receives
    <2> QED
      BY <2>1, <2>6, <2>7, <2>8
  <1>3. /\ state' = state /\ chan' = chan /\ closed' = closed
        /\ client' = client /\ size' = size /\ remaining' = remaining
        /\ received' = received /\ chunks' = chunks /\ acked' = acked /\ owed' = owed
    BY DEF setting, progress
  <1>4. up' = up /\ finished' = finished /\ (Both' <=> Both)
    BY DEF Inv, setting, progress, Both
  <1>5. Typed'
    BY <1>1, <1>2, <1>3 DEF Typed, Ends, FTState
  <1>6. Flags'
    BY <1>1, <1>4, Zenon DEF Flags
  <1>7. PICK a, r, o, p, b \in Nat :
          Accepts' = a /\ Replies' = r /\ Offers' = o /\ Pieces' = p /\ InFlight' = b
    BY <1>5, CountedNext
  <1>8. /\ size \in Nat /\ remaining["snd"] \in Nat /\ remaining["rcv"] \in Nat
        /\ received \in Nat /\ chunks \in Nat /\ acked \in Nat /\ owed \in Nat
        /\ closed["snd"] \in 0..1 /\ closed["rcv"] \in 0..1
        /\ Accepts \in Nat /\ Replies \in Nat /\ Offers \in Nat
        /\ Pieces \in Nat /\ InFlight \in Nat
    BY <1>1, Counted
  <1>9. Life("snd")'
    BY <1>1, <1>3, <1>7, <1>8 DEF Life, Typed
  <1>10. Life("rcv")'
    BY <1>1, <1>3, <1>7, <1>8 DEF Life, Typed
  <1>11. Early'
    <2>1. Create(size)' = Create(size)
      BY <1>3 DEF Create
    <2>2. net["rcv"] # <<>>
      OBVIOUS
    <2>3. /\ o <= Offers /\ (o > 0 => net'["rcv"] = net["rcv"])
      BY <1>2, <1>7, <1>8
    <2>4. state["snd"] \in {"none", "NEW"} => ~Both
      BY <1>1, <2>2 DEF Early
    <2>5. /\ Offers' <= 1
          /\ Offers' > 0 => /\ net'["rcv"] # <<>>
                             /\ Head(net'["rcv"]) = Create(size)'
                             /\ state'["rcv"] = "none"
                             /\ state'["snd"] \notin {"none", "NEW"}
      BY <1>1, <1>3, <1>7, <1>8, <2>1, <2>2, <2>3 DEF Early
    <2>6. state'["snd"] \in {"none", "NEW"} =>
            state'["rcv"] = "none" /\ (Both' => net'["rcv"] = <<>>)
      BY <1>1, <1>3, <1>4, <2>4 DEF Early
    <2> QED
      BY <1>1, <1>2, <1>3, <2>5, <2>6 DEF Early
  <1>12. Balance'
    <2>1. r <= Replies /\ p <= Pieces /\ b <= InFlight /\ (p = Pieces => b = InFlight)
      BY <1>2, <1>7, <1>8
    <2>2. /\ acked + r + owed + p <= chunks
          /\ received + b + remaining["snd"] <= size
          /\ acked + r + owed + p = chunks => received + b + remaining["snd"] = size
      BY <1>1, <1>7, <2>1, Lighter
    <2> QED
      BY <1>1, <1>3, <1>7, <2>2 DEF Balance
  <1>13. Receiver'
    BY <1>1, <1>2, <1>3, <1>7, <1>8 DEF Receiver, Life
  <1>14. Even'
    BY <1>1, <1>2, <1>3, <1>4 DEF Even
  <1>15. Success'
    BY <1>1, <1>2, <1>3, <1>4, <1>7, <1>8 DEF Success, WaitingSuccess, Balance, Life
  <1> QED
    BY <1>5, <1>6, <1>9, <1>10, <1>11, <1>12, <1>13, <1>14, <1>15
       DEF Inv, Shape, Account

\* The acceptance arrives: the receiver is past its offer by then.
LEMMA AcceptedKeeps ==
    ASSUME Inv, Receives("snd", "ACCEPT"), chan["snd"] = "WAIT",
           state' = [state EXCEPT !["snd"] = "OPEN"],
           chan' = [chan EXCEPT !["snd"] = "OPEN"],
           Sends("snd", Rest("snd"), <<>>),
           UNCHANGED <<setting, remaining, closed, progress>>
    PROVE  Inv'
  <1>1. /\ Typed /\ Flags /\ Life("snd") /\ Life("rcv") /\ Early
        /\ Balance /\ Receiver /\ Even /\ Success
    BY DEF Inv, Shape, Account
  <1>2. /\ net' \in [Ends -> Seq(Messages)] /\ net'["rcv"] = net["rcv"]
        /\ Accepts # 0 /\ Accepts' <= Accepts /\ Replies' <= Replies
        /\ Offers' = Offers /\ Pieces' = Pieces /\ InFlight' = InFlight
    <2>1. PICK r : r = Tail(net["snd"])
      OBVIOUS
    <2>2. Sends("snd", r, <<>>)
      BY <2>1 DEF Receives, Rest
    <2>3. r \in Seq(Messages)
      BY <1>1, <2>1, SndReads DEF Receives
    <2>4. /\ net' \in [Ends -> Seq(Messages)] /\ net'["snd"] = r /\ net'["rcv"] = net["rcv"]
          /\ Offers' = Offers /\ Pieces' = Pieces /\ InFlight' = InFlight
      BY <1>1, <2>2, <2>3, NothingWritten, SndAdds
    <2>5. net["snd"] # <<>> /\ Head(net["snd"]).type = "ACCEPT"
      BY DEF Receives
    <2>6. Accepts' <= Accepts /\ Replies' <= Replies
      BY <1>1, <2>1, <2>4, <2>5, SndTakes
    <2>7. /\ Accepts = Count(Tail(net["snd"]), "ACCEPT") + 1
          /\ Tail(net["snd"]) \in Seq(Messages)
      BY <1>1, <2>5, SndReads, Taken DEF Accepts
    <2>8. Count(Tail(net["snd"]), "ACCEPT") \in Nat
      BY <2>7, CountType
    <2>9. Accepts # 0
      BY <2>7, <2>8
    <2> QED
      BY <2>4, <2>6, <2>9
  <1>3. /\ state["snd"] = "PENDING" /\ closed["snd"] = 0
        /\ state'["snd"] = "OPEN" /\ state'["rcv"] = state["rcv"]
        /\ chan'["snd"] = "OPEN" /\ chan'["rcv"] = chan["rcv"]
        /\ closed' = closed /\ client' = client /\ size' = size /\ remaining' = remaining
        /\ received' = received /\ chunks' = chunks /\ acked' = acked /\ owed' = owed
    <2>1. closed["snd"] \in 0..1
      BY <1>1 DEF Typed, Ends
    <2>2. state["snd"] = "PENDING" /\ closed["snd"] = 0
      BY <1>1, <2>1 DEF Life
    <2> QED
      BY <1>1, <2>2 DEF setting, progress, Typed, Ends
  <1>4. up' = up /\ finished' = finished /\ (Both' <=> Both)
    BY DEF Inv, setting, progress, Both
  <1>5. Typed'
    BY <1>1, <1>2, <1>3 DEF Typed, Ends, FTState
  <1>6. Flags'
    BY <1>1, <1>4, Zenon DEF Flags
  <1>7. PICK a, r, o, p, b \in Nat :
          Accepts' = a /\ Replies' = r /\ Offers' = o /\ Pieces' = p /\ InFlight' = b
    BY <1>5, CountedNext
  <1>8. /\ size \in Nat /\ remaining["snd"] \in Nat /\ remaining["rcv"] \in Nat
        /\ received \in Nat /\ chunks \in Nat /\ acked \in Nat /\ owed \in Nat
        /\ closed["snd"] \in 0..1 /\ closed["rcv"] \in 0..1
        /\ Accepts \in Nat /\ Replies \in Nat /\ Offers \in Nat
        /\ Pieces \in Nat /\ InFlight \in Nat
    BY <1>1, Counted
  <1>9. Life("snd")'
    BY <1>1, <1>3, <1>7, <1>8 DEF Life, Typed
  <1>10. Life("rcv")'
    BY <1>1, <1>3, <1>7, <1>8 DEF Life, Typed
  <1>11. Early'
    <2>1. Create(size)' = Create(size)
      BY <1>3 DEF Create
    <2> QED
      BY <1>1, <1>2, <1>3, <1>4, <1>7, <1>8, <2>1 DEF Early, Life
  <1>12. Balance'
    <2>1. r <= Replies /\ p <= Pieces /\ b <= InFlight /\ (p = Pieces => b = InFlight)
      BY <1>2, <1>7, <1>8
    <2>2. /\ acked + r + owed + p <= chunks
          /\ received + b + remaining["snd"] <= size
          /\ acked + r + owed + p = chunks => received + b + remaining["snd"] = size
      BY <1>1, <1>7, <2>1, Lighter
    <2> QED
      BY <1>1, <1>3, <1>7, <2>2 DEF Balance
  <1>13. Receiver'
    BY <1>1, <1>2, <1>3, <1>7, <1>8 DEF Receiver, Life
  <1>14. Even'
    BY <1>1, <1>2, <1>3, <1>4 DEF Even
  <1>15. Success'
    BY <1>1, <1>3, <1>4 DEF Success, WaitingSuccess
  <1> QED
    BY <1>5, <1>6, <1>9, <1>10, <1>11, <1>12, <1>13, <1>14, <1>15
       DEF Inv, Shape, Account

\* What a client may send from the call-back.
LEMMA MoreWritten ==
    ASSUME NEW more \in NextChunk
    PROVE  /\ more \in Seq(Messages) /\ Len(more) \in 0..1 /\ Bytes(more) \in 0..MaxSize
           /\ Count(more, "CREATE") = 0 /\ Count(more, "TRANSFER") = Len(more)
           /\ more = <<>> => Len(more) = 0 /\ Bytes(more) = 0
           /\ more # <<>> => Len(more) = 1
  <1>1. CASE more = <<>>
    BY <1>1, NothingWritten, BoundsAssumption
  <1>2. CASE more # <<>>
    <2>1. PICK n \in 0..MaxSize : more = <<Transfer(n)>>
      BY <1>2 DEF NextChunk
    <2> QED
      BY <1>2, <2>1, TransferWritten
  <1> QED
    BY <1>1, <1>2

LEMMA MoreAndDestroy ==
    ASSUME NEW more \in NextChunk, NEW ch
    PROVE  /\ more \o Destroying(ch) \in Seq(Messages)
           /\ Bytes(more \o Destroying(ch)) = Bytes(more)
           /\ Count(more \o Destroying(ch), "CREATE") = 0
           /\ Count(more \o Destroying(ch), "TRANSFER") = Len(more)
  <1>1. PICK d : d = Destroying(ch)
    OBVIOUS
  <1>2. /\ d \in Seq(Messages) /\ Bytes(d) = 0
        /\ Count(d, "CREATE") = 0 /\ Count(d, "TRANSFER") = 0
    BY <1>1, DestroyWritten
  <1>3. /\ more \in Seq(Messages) /\ Len(more) \in 0..1 /\ Bytes(more) \in 0..MaxSize
        /\ Count(more, "CREATE") = 0 /\ Count(more, "TRANSFER") = Len(more)
    BY MoreWritten
  <1>4. /\ more \o d \in Seq(Messages)
        /\ Bytes(more \o d) = Bytes(more) + Bytes(d)
        /\ Count(more \o d, "CREATE") = Count(more, "CREATE") + Count(d, "CREATE")
        /\ Count(more \o d, "TRANSFER") = Count(more, "TRANSFER") + Count(d, "TRANSFER")
    BY <1>2, <1>3, HeadStays, BytesConcat, CountConcat
  <1> QED
    BY <1>1, <1>2, <1>3, <1>4, BoundsAssumption

\* A chunk is acknowledged and, at the same time, l more with k bytes are sent.
LEMMA Weighed ==
    ASSUME Typed, Balance, NEW r \in Nat, NEW l \in Nat, NEW k \in Nat, NEW q \in Nat,
           Replies = r + 1, remaining["snd"] = q + k
    PROVE  /\ acked + 1 + r + owed + (Pieces + l) <= chunks + l
           /\ received + (InFlight + k) + q <= size
           /\ acked + 1 + r + owed + (Pieces + l) = chunks + l =>
                 received + (InFlight + k) + q = size
           /\ l > 0 \/ k = 0 =>
                 /\ acked + 1 + r + owed + Pieces <= chunks + l
                 /\ received + InFlight + q <= size
                 /\ acked + 1 + r + owed + Pieces = chunks + l => received + InFlight + q = size
  <1>1. /\ size \in Nat /\ received \in Nat /\ chunks \in Nat /\ acked \in Nat /\ owed \in Nat
        /\ Replies \in Nat /\ Pieces \in Nat /\ InFlight \in Nat
    BY Counted
  <1>2. /\ acked + (r + 1) + owed + Pieces <= chunks
        /\ received + InFlight + (q + k) <= size
        /\ acked + (r + 1) + owed + Pieces = chunks => received + InFlight + (q + k) = size
    BY DEF Balance
  <1>3. /\ acked + 1 + r + owed + (Pieces + l) <= chunks + l
        /\ received + (InFlight + k) + q <= size
    BY <1>1, <1>2
  <1>4. acked + 1 + r + owed + (Pieces + l) = chunks + l =>
           received + (InFlight + k) + q = size
    BY <1>1, <1>2
  <1>5. l > 0 \/ k = 0 =>
           /\ acked + 1 + r + owed + Pieces <= chunks + l
           /\ received + InFlight + q <= size
    BY <1>1, <1>2
  <1>6. l > 0 \/ k = 0 =>
          (acked + 1 + r + owed + Pieces = chunks + l => received + InFlight + q = size)
    BY <1>1, <1>2
  <1> QED
    BY <1>3, <1>4, <1>5, <1>6

\* A chunk of n bytes arrives.
LEMMA Arrived ==
    ASSUME Typed, Balance, NEW p \in Nat, NEW b \in Nat, NEW n \in Nat,
           Pieces = p + 1, InFlight = b + n
    PROVE  /\ acked + Replies + (owed + 1) + p <= chunks
           /\ (received + n) + b + remaining["snd"] <= size
           /\ acked + Replies + (owed + 1) + p = chunks => (received + n) + b + remaining["snd"] = size
  <1>1. /\ size \in Nat /\ received \in Nat /\ chunks \in Nat /\ acked \in Nat /\ owed \in Nat
        /\ Replies \in Nat /\ remaining["snd"] \in Nat
    BY Counted
  <1>2. /\ acked + Replies + owed + (p + 1) <= chunks
        /\ received + (b + n) + remaining["snd"] <= size
        /\ acked + Replies + owed + (p + 1) = chunks => received + (b + n) + remaining["snd"] = size
    BY DEF Balance
  <1> QED
    BY <1>1, <1>2

\* An acknowledgement came in, so the chunk a waiting client sent last has
\* arrived, and with it all that it sent before.
LEMMA LastAck ==
    ASSUME Typed, Balance, client = "waiting", NEW r \in Nat, Replies = r + 1, remaining["snd"] = 0
    PROVE  acked + 1 = chunks /\ received = size
  <1>1. /\ size \in Nat /\ received \in Nat /\ chunks \in Nat /\ acked \in Nat /\ owed \in Nat
        /\ Replies \in Nat /\ Pieces \in Nat /\ InFlight \in Nat
    BY Counted
  <1>2. acked + 1 = chunks /\ Pieces = 0 /\ acked + Replies + owed + Pieces = chunks
    BY <1>1 DEF Balance
  <1>3. InFlight = 0
    BY <1>2, RcvReads, NoChunks DEF Pieces, InFlight
  <1> QED
    BY <1>1, <1>2, <1>3 DEF Balance

\* After the last acknowledgement there is nothing on its way.
LEMMA NothingLeft ==
    ASSUME Typed, Balance, acked = chunks
    PROVE  Replies = 0 /\ Pieces = 0
  <1>1. /\ chunks \in Nat /\ acked \in Nat /\ owed \in Nat /\ Replies \in Nat /\ Pieces \in Nat
    BY Counted
  <1> QED
    BY <1>1 DEF Balance

\* An acknowledgement arrives, and the sender goes on.
LEMMA AckedKeeps ==
    ASSUME Inv, Receives("snd", "RECEIVED"), chan["snd"] # "none", NEW more \in NextChunk,
           more = <<>> \/ (/\ remaining["snd"] # 0 /\ state["snd"] = "OPEN"
                           /\ remaining["snd"] - Bytes(more) >= 0 /\ client = "chained"),
           acked' = acked + 1,
           chunks + Len(more) <= MaxChunks, chunks' = chunks + Len(more),
           remaining' = [remaining EXCEPT !["snd"] = remaining["snd"] - Bytes(more)],
           remaining["snd"] - Bytes(more) # 0,
           Sends("snd", Rest("snd"), more),
           UNCHANGED <<state, chan, closed, finished, setting, received, owed>>
    PROVE  Inv'
  <1>1. /\ Typed /\ Flags /\ Life("snd") /\ Life("rcv") /\ Early
        /\ Balance /\ Receiver /\ Even /\ Success
    BY DEF Inv, Shape, Account
  <1>2. /\ Len(more) \in Nat /\ Bytes(more) \in Nat /\ remaining["snd"] \in Nat
        /\ more = <<>> => Len(more) = 0 /\ Bytes(more) = 0
        /\ Len(more) > 0 \/ Bytes(more) = 0
        /\ Bytes(more) <= remaining["snd"]
        /\ client = "waiting" => more = <<>>
        /\ remaining["snd"] = 0 => more = <<>>
    <2>1. /\ Len(more) \in 0..1 /\ Bytes(more) \in 0..MaxSize
          /\ more = <<>> => Len(more) = 0 /\ Bytes(more) = 0
          /\ more # <<>> => Len(more) = 1
      BY MoreWritten
    <2>2. remaining["snd"] \in Nat
      BY <1>1, Counted
    <2> QED
      BY <2>1, <2>2, BoundsAssumption
  <1>3. /\ net' \in [Ends -> Seq(Messages)]
        /\ Accepts' = Accepts /\ Replies = Replies' + 1 /\ Offers' = Offers
        /\ Both => Pieces' = Pieces + Len(more) /\ InFlight' = InFlight + Bytes(more)
        /\ ~Both => Pieces' = Pieces /\ InFlight' = InFlight
        /\ net["rcv"] # <<>> => net'["rcv"] # <<>> /\ Head(net'["rcv"]) = Head(net["rcv"])
    <2>1. PICK r : r = Tail(net["snd"])
      OBVIOUS
    <2>2. PICK m : m = more
      OBVIOUS
    <2>3. Sends("snd", r, m)
      BY <2>1, <2>2 DEF Rest
    <2>4. net["snd"] # <<>> /\ Head(net["snd"]).type = "RECEIVED"
      BY DEF Receives
    <2>5. r \in Seq(Messages)
      BY <1>1, <2>1, <2>4, SndReads
    <2>6. /\ m \in Seq(Messages) /\ Bytes(m) = Bytes(more)
          /\ Count(m, "CREATE") = 0 /\ Count(m, "TRANSFER") = Len(more)
      BY <2>2, MoreWritten
    <2>7. /\ net' \in [Ends -> Seq(Messages)] /\ net'["snd"] = r
          /\ net["rcv"] # <<>> => net'["rcv"] # <<>> /\ Head(net'["rcv"]) = Head(net["rcv"])
          /\ Both => /\ Offers' = Offers + 0
                     /\ Pieces' = Pieces + Len(more)
                     /\ InFlight' = InFlight + Bytes(more)
          /\ ~Both => Offers' = Offers /\ Pieces' = Pieces /\ InFlight' = InFlight
      BY <1>1, <2>3, <2>5, <2>6, SndWrites
    <2>8. Offers \in Nat
      BY <1>1, CountTypes
    <2>9. Offers' = Offers
      BY <2>7, <2>8
    <2>10. Replies = Replies' + 1 /\ Accepts' = Accepts
      BY <1>1, <2>1, <2>4, <2>7, SndReads
    <2> QED
      BY <2>7, <2>9, <2>10
  <1>4. /\ remaining'["snd"] = remaining["snd"] - Bytes(more) /\ remaining'["rcv"] = remaining["rcv"]
        /\ remaining["snd"] - Bytes(more) \in 0..MaxSize
        /\ Bytes(more) <= remaining["snd"] /\ Bytes(more) \in Nat /\ Len(more) \in Nat
        /\ Len(more) > 0 \/ Bytes(more) = 0
        /\ state["snd"] # "OPEN" => Len(more) = 0 /\ Bytes(more) = 0
        /\ client = "waiting" => Len(more) = 0 /\ Bytes(more) = 0
        /\ chunks' = chunks + Len(more) /\ chunks' \in 0..MaxChunks /\ acked' = acked + 1 /\ acked' \in Nat
        /\ client' = client /\ size' = size /\ state' = state /\ chan' = chan /\ closed' = closed
        /\ received' = received /\ owed' = owed
    <2>1. /\ remaining \in [Ends -> 0..MaxSize] /\ chunks \in 0..MaxChunks /\ acked \in Nat
      BY <1>1 DEF Typed
    <2>2. /\ remaining'["snd"] = remaining["snd"] - Bytes(more) /\ remaining'["rcv"] = remaining["rcv"]
          /\ remaining["snd"] \in 0..MaxSize
      BY <2>1 DEF Ends
    <2>3. remaining["snd"] - Bytes(more) \in 0..MaxSize
      BY <1>2, <2>2, BoundsAssumption
    <2>4. chunks' \in 0..MaxChunks /\ acked' \in Nat
      BY <1>2, <2>1, BoundsAssumption
    <2> QED
      BY <1>2, <2>2, <2>3, <2>4 DEF setting
  <1>5. up' = up /\ finished' = finished /\ (Both' <=> Both)
    BY DEF setting, Both
  <1>6. Typed'
    BY <1>1, <1>3, <1>4 DEF Typed, Ends, FTState
  <1>7. Flags'
    BY <1>1, <1>5, Zenon DEF Flags
  <1>8. PICK a, r, o, p, b \in Nat :
          Accepts' = a /\ Replies' = r /\ Offers' = o /\ Pieces' = p /\ InFlight' = b
    BY <1>6, CountedNext
  <1>9. /\ size \in Nat /\ remaining["snd"] \in Nat /\ remaining["rcv"] \in Nat
        /\ received \in Nat /\ chunks \in Nat /\ acked \in Nat /\ owed \in Nat
        /\ closed["snd"] \in 0..1 /\ closed["rcv"] \in 0..1
        /\ Accepts \in Nat /\ Replies \in Nat /\ Offers \in Nat
        /\ Pieces \in Nat /\ InFlight \in Nat
    BY <1>1, Counted
  <1>10. Life("snd")'
    BY <1>1, <1>4, <1>8, <1>9 DEF Life, Typed
  <1>11. Life("rcv")'
    BY <1>1, <1>4, <1>8, <1>9 DEF Life, Typed
  <1>12. Early'
    <2>1. Create(size)' = Create(size)
      BY <1>4 DEF Create
    <2>2. state["snd"] \notin {"none", "NEW"}
      BY <1>1 DEF Life
    <2> QED
      BY <1>1, <1>3, <1>4, <1>9, <2>1, <2>2 DEF Early
  <1>13. Balance'
    <2>1. PICK l \in Nat, k \in Nat : l = Len(more) /\ k = Bytes(more)
      BY <1>4
    <2>2. PICK q \in Nat : remaining'["snd"] = q /\ remaining["snd"] = q + k
      BY <1>4, <1>9, <2>1
    <2>3. Replies = r + 1
      BY <1>3, <1>8
    <2>4. /\ acked + 1 + r + owed + (Pieces + l) <= chunks + l
          /\ received + (InFlight + k) + q <= size
          /\ acked + 1 + r + owed + (Pieces + l) = chunks + l =>
                received + (InFlight + k) + q = size
          /\ l > 0 \/ k = 0 =>
                /\ acked + 1 + r + owed + Pieces <= chunks + l
                /\ received + InFlight + q <= size
                /\ acked + 1 + r + owed + Pieces = chunks + l => received + InFlight + q = size
      BY <1>1, <2>2, <2>3, Weighed
    <2>5. client = "waiting" => chunks + l <= acked + 1 + 1
      BY <1>1, <1>4, <1>9, <2>1 DEF Balance
    <2>6. acked' = acked + 1 /\ chunks' = chunks + l /\ (l > 0 \/ k = 0)
      BY <1>4, <2>1
    <2>7. CASE Both
      <3>1. Pieces' = Pieces + l /\ InFlight' = InFlight + k /\ Replies' = r
        BY <1>3, <1>8, <2>1, <2>7
      <3> QED
        BY <1>4, <2>2, <2>4, <2>5, <2>6, <3>1 DEF Balance
    <2>8. CASE ~Both
      <3>1. Pieces' = Pieces /\ InFlight' = InFlight /\ Replies' = r
        BY <1>3, <1>8, <2>8
      <3> QED
        BY <1>4, <2>2, <2>4, <2>5, <2>6, <3>1 DEF Balance
    <2> QED
      BY <2>7, <2>8
  <1>14. Receiver'
    BY <1>1, <1>3, <1>4, <1>8, <1>9 DEF Receiver, Life
  <1>15. Even'
    <2>1. SUFFICES ASSUME chan["rcv"] = "OPEN", Both
                 PROVE  remaining["rcv"] = (remaining["snd"] - Bytes(more)) + InFlight'
      BY <1>4, <1>5 DEF Even
    <2>2. remaining["rcv"] = remaining["snd"] + InFlight
      BY <1>1, <2>1 DEF Even
    <2>3. InFlight' = InFlight + Bytes(more)
      BY <1>3, <2>1
    <2> QED
      BY <1>4, <1>9, <2>2, <2>3
  <1>16. Success'
    <2>1. ASSUME client = "waiting", state["snd"] = "DONE" \/ finished
          PROVE  FALSE
      <3>1. Replies = 0
        BY <1>1, <2>1, NothingLeft DEF Success, WaitingSuccess
      <3> QED
        BY <1>3, <1>8, <3>1
    <2> QED
      BY <1>1, <1>4, <1>5, <2>1 DEF Success, WaitingSuccess
  <1> QED
    BY <1>6, <1>7, <1>10, <1>11, <1>12, <1>13, <1>14, <1>15, <1>16
       DEF Inv, Shape, Account

\* An acknowledgement arrives with nothing left to send: the sender closes.
LEMMA FinishedKeeps ==
    ASSUME Inv, Receives("snd", "RECEIVED"), chan["snd"] # "none", NEW more \in NextChunk,
           more = <<>> \/ (/\ remaining["snd"] # 0 /\ state["snd"] = "OPEN"
                           /\ remaining["snd"] - Bytes(more) >= 0 /\ client = "chained"),
           acked' = acked + 1,
           chunks + Len(more) <= MaxChunks, chunks' = chunks + Len(more),
           remaining' = [remaining EXCEPT !["snd"] = remaining["snd"] - Bytes(more)],
           remaining["snd"] - Bytes(more) = 0, NEW s \in {"PENDING", "CANCEL_LOCAL", "DONE"},
           s = "PENDING" => state["snd"] = "PENDING", s = "DONE" => remaining["snd"] = 0 \/ state["snd"] = "DONE",
           state' = [state EXCEPT !["snd"] = s],
           Sends("snd", Rest("snd"), more \o Destroying(chan["snd"])),
           chan' = [chan EXCEPT !["snd"] = "none"],
           closed' = [closed EXCEPT !["snd"] = 1],
           finished' = TRUE,
           UNCHANGED <<setting, received, owed>>
    PROVE  Inv'
  <1>1. /\ Typed /\ Flags /\ Life("snd") /\ Life("rcv") /\ Early
        /\ Balance /\ Receiver /\ Even /\ Success
    BY DEF Inv, Shape, Account
  <1>2. /\ Len(more) \in Nat /\ Bytes(more) \in Nat /\ remaining["snd"] \in Nat
        /\ more = <<>> => Len(more) = 0 /\ Bytes(more) = 0
        /\ Len(more) > 0 \/ Bytes(more) = 0
        /\ Bytes(more) <= remaining["snd"]
        /\ client = "waiting" => more = <<>>
        /\ remaining["snd"] = 0 => more = <<>>
    <2>1. /\ Len(more) \in 0..1 /\ Bytes(more) \in 0..MaxSize
          /\ more = <<>> => Len(more) = 0 /\ Bytes(more) = 0
          /\ more # <<>> => Len(more) = 1
      BY MoreWritten
    <2>2. remaining["snd"] \in Nat
      BY <1>1, Counted
    <2> QED
      BY <2>1, <2>2, BoundsAssumption
  <1>3. /\ net' \in [Ends -> Seq(Messages)]
        /\ Accepts' = Accepts /\ Replies = Replies' + 1 /\ Offers' = Offers
        /\ Both => Pieces' = Pieces + Len(more) /\ InFlight' = InFlight + Bytes(more)
        /\ ~Both => Pieces' = Pieces /\ InFlight' = InFlight
        /\ net["rcv"] # <<>> => net'["rcv"] # <<>> /\ Head(net'["rcv"]) = Head(net["rcv"])
    <2>1. PICK r : r = Tail(net["snd"])
      OBVIOUS
    <2>2. PICK m : m = more \o Destroying(chan["snd"])
      OBVIOUS
    <2>3. Sends("snd", r, m)
      BY <2>1, <2>2 DEF Rest
    <2>4. net["snd"] # <<>> /\ Head(net["snd"]).type = "RECEIVED"
      BY DEF Receives
    <2>5. r \in Seq(Messages)
      BY <1>1, <2>1, <2>4, SndReads
    <2>6. /\ m \in Seq(Messages) /\ Bytes(m) = Bytes(more)
          /\ Count(m, "CREATE") = 0 /\ Count(m, "TRANSFER") = Len(more)
      BY <2>2, MoreAndDestroy
    <2>7. /\ net' \in [Ends -> Seq(Messages)] /\ net'["snd"] = r
          /\ net["rcv"] # <<>> => net'["rcv"] # <<>> /\ Head(net'["rcv"]) = Head(net["rcv"])
          /\ Both => /\ Offers' = Offers + 0
                     /\ Pieces' = Pieces + Len(more)
                     /\ InFlight' = InFlight + Bytes(more)
          /\ ~Both => Offers' = Offers /\ Pieces' = Pieces /\ InFlight' = InFlight
      BY <1>1, <2>3, <2>5, <2>6, SndWrites
    <2>8. Offers \in Nat
      BY <1>1, CountTypes
    <2>9. Offers' = Offers
      BY <2>7, <2>8
    <2>10. Replies = Replies' + 1 /\ Accepts' = Accepts
      BY <1>1, <2>1, <2>4, <2>7, SndReads
    <2> QED
      BY <2>7, <2>9, <2>10
  <1>4. /\ remaining'["snd"] = remaining["snd"] - Bytes(more) /\ remaining'["rcv"] = remaining["rcv"]
        /\ remaining["snd"] - Bytes(more) = 0
        /\ Bytes(more) <= remaining["snd"] /\ Bytes(more) \in Nat /\ Len(more) \in Nat
        /\ Len(more) > 0 \/ Bytes(more) = 0
        /\ state["snd"] # "OPEN" => Len(more) = 0 /\ Bytes(more) = 0
        /\ client = "waiting" => Len(more) = 0 /\ Bytes(more) = 0
        /\ chunks' = chunks + Len(more) /\ chunks' \in 0..MaxChunks /\ acked' = acked + 1 /\ acked' \in Nat
        /\ state'["snd"] = s /\ state'["rcv"] = state["rcv"]
        /\ chan'["snd"] = "none" /\ chan'["rcv"] = chan["rcv"]
        /\ closed'["snd"] = 1 /\ closed'["rcv"] = closed["rcv"]
        /\ client' = client /\ size' = size
        /\ received' = received /\ owed' = owed
    <2>1. /\ remaining \in [Ends -> 0..MaxSize] /\ chunks \in 0..MaxChunks /\ acked \in Nat
          /\ state \in [Ends -> FTState] /\ closed \in [Ends -> 0..1]
          /\ chan \in [Ends -> {"none", "WAIT", "OPEN"}]
      BY <1>1 DEF Typed
    <2>2. /\ remaining'["snd"] = remaining["snd"] - Bytes(more) /\ remaining'["rcv"] = remaining["rcv"]
          /\ remaining["snd"] \in 0..MaxSize
      BY <2>1 DEF Ends
    <2>3. /\ state'["snd"] = s /\ state'["rcv"] = state["rcv"]
          /\ chan'["snd"] = "none" /\ chan'["rcv"] = chan["rcv"]
          /\ closed'["snd"] = 1 /\ closed'["rcv"] = closed["rcv"]
      BY <2>1 DEF Ends
    <2>4. chunks' \in 0..MaxChunks /\ acked' \in Nat
      BY <1>2, <2>1, BoundsAssumption
    <2> QED
      BY <1>2, <2>2, <2>3, <2>4 DEF setting
  <1>5. up' = up /\ finished' = TRUE /\ (Both' <=> Both)
    BY DEF setting, Both
  <1>6. Typed'
    BY <1>1, <1>3, <1>4, BoundsAssumption DEF Typed, Ends, FTState
  <1>7. Flags'
    BY <1>1, <1>5, Zenon DEF Flags
  <1>8. PICK a, r, o, p, b \in Nat :
          Accepts' = a /\ Replies' = r /\ Offers' = o /\ Pieces' = p /\ InFlight' = b
    BY <1>6, CountedNext
  <1>9. /\ size \in Nat /\ remaining["snd"] \in Nat /\ remaining["rcv"] \in Nat
        /\ received \in Nat /\ chunks \in Nat /\ acked \in Nat /\ owed \in Nat
        /\ closed["snd"] \in 0..1 /\ closed["rcv"] \in 0..1
        /\ Accepts \in Nat /\ Replies \in Nat /\ Offers \in Nat
        /\ Pieces \in Nat /\ InFlight \in Nat
    BY <1>1, Counted
  <1>10. Life("snd")'
    BY <1>1, <1>4, <1>8, <1>9 DEF Life, Typed
  <1>11. Life("rcv")'
    BY <1>1, <1>4, <1>8, <1>9 DEF Life, Typed
  <1>12. Early'
    <2>1. Create(size)' = Create(size)
      BY <1>4 DEF Create
    <2>2. state["snd"] \notin {"none", "NEW"}
      BY <1>1 DEF Life
    <2>3. s = "PENDING" => chunks' = 0 /\ remaining'["snd"] = size
      BY <1>1, <1>4, <1>9 DEF Early
    <2> QED
      BY <1>1, <1>3, <1>4, <1>9, <2>1, <2>2, <2>3 DEF Early
  <1>13. Balance'
    <2>1. PICK l \in Nat, k \in Nat : l = Len(more) /\ k = Bytes(more)
      BY <1>4
    <2>2. PICK q \in Nat : remaining'["snd"] = q /\ remaining["snd"] = q + k
      BY <1>4, <1>9, <2>1
    <2>3. Replies = r + 1
      BY <1>3, <1>8
    <2>4. /\ acked + 1 + r + owed + (Pieces + l) <= chunks + l
          /\ received + (InFlight + k) + q <= size
          /\ acked + 1 + r + owed + (Pieces + l) = chunks + l =>
                received + (InFlight + k) + q = size
          /\ l > 0 \/ k = 0 =>
                /\ acked + 1 + r + owed + Pieces <= chunks + l
                /\ received + InFlight + q <= size
                /\ acked + 1 + r + owed + Pieces = chunks + l => received + InFlight + q = size
      BY <1>1, <2>2, <2>3, Weighed
    <2>5. client = "waiting" => chunks + l <= acked + 1 + 1
      BY <1>1, <1>4, <1>9, <2>1 DEF Balance
    <2>6. acked' = acked + 1 /\ chunks' = chunks + l /\ (l > 0 \/ k = 0)
      BY <1>4, <2>1
    <2>7. CASE Both
      <3>1. Pieces' = Pieces + l /\ InFlight' = InFlight + k /\ Replies' = r
        BY <1>3, <1>8, <2>1, <2>7
      <3> QED
        BY <1>4, <2>2, <2>4, <2>5, <2>6, <3>1 DEF Balance
    <2>8. CASE ~Both
      <3>1. Pieces' = Pieces /\ InFlight' = InFlight /\ Replies' = r
        BY <1>3, <1>8, <2>8
      <3> QED
        BY <1>4, <2>2, <2>4, <2>5, <2>6, <3>1 DEF Balance
    <2> QED
      BY <2>7, <2>8
  <1>14. Receiver'
    BY <1>1, <1>3, <1>4, <1>8, <1>9 DEF Receiver, Life
  <1>15. Even'
    BY <1>4 DEF Even
  <1>16. Success'
    <2>1. ASSUME client = "waiting"
          PROVE  acked + 1 = chunks /\ received = size
      <3>1. remaining["snd"] = 0
        BY <1>4, <1>9, <2>1
      <3>2. Replies = r + 1
        BY <1>3, <1>8
      <3> QED
        BY <1>1, <1>8, <2>1, <3>1, <3>2, LastAck
    <2>2. client = "waiting" => chunks' = chunks
      BY <1>4, <1>9
    <2> QED
      BY <1>4, <2>1, <2>2 DEF Success, WaitingSuccess
  <1> QED
    BY <1>6, <1>7, <1>10, <1>11, <1>12, <1>13, <1>14, <1>15, <1>16
       DEF Inv, Shape, Account

\* An acknowledgement arrives when the channel is gone.
LEMMA LateAckKeeps ==
    ASSUME Inv, Receives("snd", "RECEIVED"), acked' = acked + 1,
           Sends("snd", Rest("snd"), <<>>),
           UNCHANGED <<state, chan, closed, finished, remaining, chunks>>,
           UNCHANGED <<setting, received, owed>>
    PROVE  Inv'
  <1>1. /\ Typed /\ Flags /\ Life("snd") /\ Life("rcv") /\ Early
        /\ Balance /\ Receiver /\ Even /\ Success
    BY DEF Inv, Shape, Account
  <1>2. /\ net' \in [Ends -> Seq(Messages)] /\ net'["rcv"] = net["rcv"]
        /\ Accepts' = Accepts /\ Replies = Replies' + 1
        /\ Offers' = Offers /\ Pieces' = Pieces /\ InFlight' = InFlight
    <2>1. PICK r : r = Tail(net["snd"])
      OBVIOUS
    <2>2. Sends("snd", r, <<>>)
      BY <2>1 DEF Receives, Rest
    <2>3. r \in Seq(Messages)
      BY <1>1, <2>1, SndReads DEF Receives
    <2>4. /\ net' \in [Ends -> Seq(Messages)] /\ net'["snd"] = r /\ net'["rcv"] = net["rcv"]
          /\ Offers' = Offers /\ Pieces' = Pieces /\ InFlight' = InFlight
      BY <1>1, <2>2, <2>3, NothingWritten, SndAdds
    <2>5. net["snd"] # <<>> /\ Head(net["snd"]).type = "RECEIVED"
      BY DEF Receives
    <2>6. Accepts' = Accepts /\ Replies = Replies' + 1
      BY <1>1, <2>1, <2>4, <2>5, SndReads
    <2> QED
      BY <2>4, <2>6
  <1>3. /\ acked' = acked + 1 /\ acked' \in Nat
        /\ state' = state /\ chan' = chan /\ closed' = closed /\ remaining' = remaining /\ chunks' = chunks
        /\ client' = client /\ size' = size /\ received' = received /\ owed' = owed
    BY <1>1 DEF setting, Typed
  <1>4. up' = up /\ finished' = finished /\ (Both' <=> Both)
    BY DEF setting, Both
  <1>5. Typed'
    BY <1>1, <1>2, <1>3 DEF Typed, Ends, FTState
  <1>6. Flags'
    BY <1>1, <1>4, Zenon DEF Flags
  <1>7. PICK a, r, o, p, b \in Nat :
          Accepts' = a /\ Replies' = r /\ Offers' = o /\ Pieces' = p /\ InFlight' = b
    BY <1>5, CountedNext
  <1>8. /\ size \in Nat /\ remaining["snd"] \in Nat /\ remaining["rcv"] \in Nat
        /\ received \in Nat /\ chunks \in Nat /\ acked \in Nat /\ owed \in Nat
        /\ closed["snd"] \in 0..1 /\ closed["rcv"] \in 0..1
        /\ Accepts \in Nat /\ Replies \in Nat /\ Offers \in Nat
        /\ Pieces \in Nat /\ InFlight \in Nat
    BY <1>1, Counted
  <1>9. Life("snd")'
    BY <1>1, <1>3, <1>7, <1>8 DEF Life, Typed
  <1>10. Life("rcv")'
    BY <1>1, <1>3, <1>7, <1>8 DEF Life, Typed
  <1>11. Early'
    <2>1. Create(size)' = Create(size)
      BY <1>3 DEF Create
    <2> QED
      BY <1>1, <1>2, <1>3, <1>4, <1>7, <1>8, <2>1 DEF Early, Life
  <1>12. Balance'
    <2>1. Replies = r + 1 /\ p = Pieces /\ b = InFlight
      BY <1>2, <1>7
    <2>2. /\ acked + 1 + r + owed + p <= chunks
          /\ received + b + remaining["snd"] <= size
          /\ acked + 1 + r + owed + p = chunks => received + b + remaining["snd"] = size
      BY <1>1, <1>8, <2>1 DEF Balance
    <2> QED
      BY <1>1, <1>3, <1>7, <1>8, <2>2 DEF Balance
  <1>13. Receiver'
    BY <1>1, <1>2, <1>3, <1>7, <1>8 DEF Receiver, Life
  <1>14. Even'
    BY <1>1, <1>2, <1>3, <1>4 DEF Even
  <1>15. Success'
    <2>1. ASSUME client = "waiting", state["snd"] = "DONE" \/ finished
          PROVE  FALSE
      <3>1. Replies = 0
        BY <1>1, <2>1, NothingLeft DEF Success, WaitingSuccess
      <3> QED
        BY <1>2, <1>7, <3>1
    <2> QED
      BY <1>1, <1>3, <1>4, <2>1 DEF Success, WaitingSuccess
  <1> QED
    BY <1>5, <1>6, <1>9, <1>10, <1>11, <1>12, <1>13, <1>14, <1>15
       DEF Inv, Shape, Account

\* A chunk arrives that the receiver expects.
LEMMA PieceKeeps ==
    ASSUME Inv, Receives("rcv", "TRANSFER"), NEW n \in Nat, Head(net["rcv"]).n = n,
           chan["rcv"] # "none", state["rcv"] = "OPEN", remaining["rcv"] - n >= 0,
           remaining' = [remaining EXCEPT !["rcv"] = remaining["rcv"] - n],
           state' = [state EXCEPT !["rcv"] = IF remaining["rcv"] - n = 0 THEN "DONE" ELSE @],
           received' = received + n, owed' = owed + 1,
           Sends("rcv", Rest("rcv"), <<>>),
           UNCHANGED <<setting, chan, closed, chunks, acked, finished>>
    PROVE  Inv'
  <1>1. /\ Typed /\ Flags /\ Life("snd") /\ Life("rcv") /\ Early
        /\ Balance /\ Receiver /\ Even /\ Success
    BY DEF Inv, Shape, Account
  <1>2. /\ net' \in [Ends -> Seq(Messages)]
        /\ Accepts' = Accepts /\ Replies' = Replies /\ Offers' = Offers
        /\ Pieces = Pieces' + 1 /\ InFlight = InFlight' + n
        /\ n \in 0..MaxSize /\ n \in Nat
    <2>1. PICK r : r = Tail(net["rcv"])
      OBVIOUS
    <2>2. Sends("rcv", r, <<>>)
      BY <2>1 DEF Receives, Rest
    <2>3. r \in Seq(Messages)
      BY <1>1, <2>1, RcvReads DEF Receives
    <2>4. /\ net' \in [Ends -> Seq(Messages)] /\ net'["rcv"] = r
          /\ Accepts' = Accepts /\ Replies' = Replies
      BY <1>1, <2>2, <2>3, NothingWritten, RcvAdds
    <2>5. net["rcv"] # <<>> /\ Head(net["rcv"]).type = "TRANSFER"
      BY DEF Receives
    <2>6. Offers = Offers' /\ Pieces = Pieces' + 1 /\ InFlight = InFlight' + n /\ n \in 0..MaxSize
      BY <1>1, <2>1, <2>4, <2>5, RcvReads
    <2> QED
      BY <2>4, <2>6, BoundsAssumption
  <1>3. /\ remaining["rcv"] - n \in 0..MaxSize
        /\ remaining'["rcv"] = remaining["rcv"] - n /\ remaining'["snd"] = remaining["snd"]
        /\ state'["snd"] = state["snd"]
        /\ remaining["rcv"] - n = 0 => state'["rcv"] = "DONE"
        /\ remaining["rcv"] - n # 0 => state'["rcv"] = "OPEN"
        /\ received' = received + n /\ received' \in Nat /\ owed' = owed + 1 /\ owed' \in Nat
        /\ chan' = chan /\ closed' = closed /\ chunks' = chunks /\ acked' = acked
        /\ client' = client /\ size' = size
    <2>1. /\ remaining \in [Ends -> 0..MaxSize] /\ state \in [Ends -> FTState]
          /\ received \in Nat /\ owed \in Nat
      BY <1>1 DEF Typed
    <2>2. /\ remaining'["rcv"] = remaining["rcv"] - n /\ remaining'["snd"] = remaining["snd"]
          /\ state'["snd"] = state["snd"] /\ remaining["rcv"] \in 0..MaxSize
          /\ remaining["rcv"] - n = 0 => state'["rcv"] = "DONE"
          /\ remaining["rcv"] - n # 0 => state'["rcv"] = "OPEN"
      BY <2>1 DEF Ends
    <2>3. remaining["rcv"] - n \in 0..MaxSize
      BY <1>2, <2>2, BoundsAssumption
    <2>4. received + n \in Nat /\ owed + 1 \in Nat
      BY <1>2, <2>1
    <2> QED
      BY <2>2, <2>3, <2>4 DEF setting
  <1>4. up' = up /\ finished' = finished /\ (Both' <=> Both)
    BY DEF setting, Both
  <1>5. Typed'
    BY <1>1, <1>2, <1>3 DEF Typed, Ends, FTState
  <1>6. Flags'
    BY <1>1, <1>4, Zenon DEF Flags
  <1>7. PICK a, r, o, p, b \in Nat :
          Accepts' = a /\ Replies' = r /\ Offers' = o /\ Pieces' = p /\ InFlight' = b
    BY <1>5, CountedNext
  <1>8. /\ size \in Nat /\ remaining["snd"] \in Nat /\ remaining["rcv"] \in Nat
        /\ received \in Nat /\ chunks \in Nat /\ acked \in Nat /\ owed \in Nat
        /\ closed["snd"] \in 0..1 /\ closed["rcv"] \in 0..1
        /\ Accepts \in Nat /\ Replies \in Nat /\ Offers \in Nat
        /\ Pieces \in Nat /\ InFlight \in Nat
    BY <1>1, Counted
  <1>9. Life("snd")'
    BY <1>1, <1>3, <1>7, <1>8 DEF Life, Typed
  <1>10. Life("rcv")'
    BY <1>1, <1>3 DEF Life
  <1>11. Early'
    <2>1. Offers = 0 /\ state["snd"] \notin {"none", "NEW"}
      BY <1>1, <1>8 DEF Early
    <2>2. Offers' <= 1 /\ ~(Offers' > 0)
      BY <1>2, <2>1
    <2>3. state'["rcv"] \in {"OPEN", "DONE"} /\ chan["rcv"] = "OPEN"
      BY <1>1, <1>3 DEF Life
    <2> QED
      BY <1>1, <1>3, <2>1, <2>2, <2>3 DEF Early
  <1>12. Balance'
    <2>1. Replies = r /\ Pieces = p + 1 /\ InFlight = b + n
      BY <1>2, <1>7
    <2>2. /\ acked + r + (owed + 1) + p <= chunks
          /\ (received + n) + b + remaining["snd"] <= size
          /\ acked + r + (owed + 1) + p = chunks => (received + n) + b + remaining["snd"] = size
      BY <1>1, <1>2, <1>7, <2>1, Arrived
    <2> QED
      BY <1>1, <1>3, <1>7, <2>2 DEF Balance
  <1>13. Receiver'
    <2>1. PICK q \in Nat : remaining'["rcv"] = q /\ remaining["rcv"] = q + n
      <3>1. PICK q : q = remaining["rcv"] - n
        OBVIOUS
      <3>2. q \in Nat
        BY <1>3, <3>1, BoundsAssumption
      <3>3. remaining["rcv"] = q + n
        BY <1>8, <3>1
      <3> QED
        BY <1>3, <3>1, <3>2, <3>3
    <2>2. received + remaining["rcv"] = size
      BY <1>1 DEF Receiver
    <2>3. (received + n) + q = size
      BY <1>2, <1>8, <2>1, <2>2
    <2>4. /\ q = 0 => state'["rcv"] = "DONE"
          /\ q # 0 => state'["rcv"] = "OPEN"
      BY <1>3, <2>1
    <2> QED
      BY <1>3, <2>1, <2>3, <2>4 DEF Receiver
  <1>14. Even'
    <2>1. SUFFICES ASSUME chan["snd"] # "none", chan["rcv"] = "OPEN", Both
                 PROVE  remaining["rcv"] - n = remaining["snd"] + InFlight'
      BY <1>3, <1>4 DEF Even
    <2>2. remaining["rcv"] = remaining["snd"] + InFlight
      BY <1>1, <2>1 DEF Even
    <2>3. InFlight = b + n /\ InFlight' = b
      BY <1>2, <1>7
    <2>4. remaining["rcv"] - n = remaining["snd"] + b
      <3>1. remaining["rcv"] = remaining["snd"] + (b + n)
        BY <2>2, <2>3
      <3> QED
        BY <1>8, <3>1
    <2> QED
      BY <2>3, <2>4
  <1>15. Success'
    <2>1. ASSUME client = "waiting", state["snd"] = "DONE" \/ finished
          PROVE  FALSE
      <3>1. Pieces = 0
        BY <1>1, <2>1, NothingLeft DEF Success, WaitingSuccess
      <3> QED
        BY <1>2, <1>7, <3>1
    <2> QED
      BY <1>1, <1>3, <1>4, <2>1 DEF Success, WaitingSuccess
  <1> QED
    BY <1>5, <1>6, <1>9, <1>10, <1>11, <1>12, <1>13, <1>14, <1>15
       DEF Inv, Shape, Account

\* A connection breaks.
LEMMA BreakKeeps ==
    ASSUME Inv, NEW e \in Ends, LinkBreaks(e)
    PROVE  Inv'
  <1>1. /\ Typed /\ Flags /\ Life("snd") /\ Life("rcv") /\ Early
        /\ Balance /\ Receiver /\ Even /\ Success
    BY DEF Inv, Shape, Account
  <1>2. /\ net' \in [Ends -> Seq(Messages)]
        /\ Accepts' <= Accepts /\ Replies' <= Replies
        /\ Offers' <= Offers /\ Pieces' <= Pieces /\ InFlight' <= InFlight
        /\ Pieces' = Pieces => InFlight' = InFlight
        /\ Offers' > 0 => net'["rcv"] # <<>> /\ Head(net'["rcv"]) = Head(net["rcv"])
    BY <1>1, BreakLoses
  <1>3. /\ state' = state /\ chan' = chan /\ closed' = closed
        /\ client' = client /\ size' = size /\ remaining' = remaining
        /\ received' = received /\ chunks' = chunks /\ acked' = acked /\ owed' = owed
    BY DEF LinkBreaks, progress
  <1>4. /\ up' \in [Ends -> BOOLEAN] /\ finished' = finished /\ ~Both'
    <2>1. up \in [Ends -> BOOLEAN] /\ up' = [up EXCEPT ![e] = FALSE]
      BY <1>1, Zenon DEF Flags, LinkBreaks
    <2>2. up' \in [Ends -> BOOLEAN] /\ up'[e] = FALSE
      BY <2>1, Zenon
    <2>3. finished' = finished
      BY DEF LinkBreaks, progress
    <2>4. up'["snd"] = FALSE \/ up'["rcv"] = FALSE
      BY <2>2, Zenon DEF Ends
    <2> QED
      BY <2>2, <2>3, <2>4, Zenon DEF Both
  <1>5. Typed'
    BY <1>1, <1>2, <1>3 DEF Typed, Ends, FTState
  <1>6. Flags'
    BY <1>1, <1>4, Zenon DEF Flags
  <1>7. PICK a, r, o, p, b \in Nat :
          Accepts' = a /\ Replies' = r /\ Offers' = o /\ Pieces' = p /\ InFlight' = b
    BY <1>5, CountedNext
  <1>8. /\ size \in Nat /\ remaining["snd"] \in Nat /\ remaining["rcv"] \in Nat
        /\ received \in Nat /\ chunks \in Nat /\ acked \in Nat /\ owed \in Nat
        /\ closed["snd"] \in 0..1 /\ closed["rcv"] \in 0..1
        /\ Accepts \in Nat /\ Replies \in Nat /\ Offers \in Nat
        /\ Pieces \in Nat /\ InFlight \in Nat
    BY <1>1, Counted
  <1>9. Life("snd")'
    BY <1>1, <1>3, <1>7, <1>8 DEF Life, Typed
  <1>10. Life("rcv")'
    BY <1>1, <1>3, <1>7, <1>8 DEF Life, Typed
  <1>11. Early'
    <2>1. Create(size)' = Create(size)
      BY <1>3 DEF Create
    <2>2. /\ o <= Offers /\ a <= Accepts
      BY <1>2, <1>7, <1>8
    <2>3. /\ Offers' <= 1
          /\ Offers' > 0 => /\ net'["rcv"] # <<>>
                             /\ Head(net'["rcv"]) = Create(size)'
                             /\ state'["rcv"] = "none"
                             /\ state'["snd"] \notin {"none", "NEW"}
      BY <1>1, <1>2, <1>3, <1>7, <1>8, <2>1, <2>2 DEF Early
    <2>4. state'["snd"] \in {"none", "NEW"} =>
            state'["rcv"] = "none" /\ (Both' => net'["rcv"] = <<>>)
      BY <1>1, <1>3, <1>4 DEF Early
    <2>5. state'["rcv"] = "none" \/ chan'["rcv"] = "WAIT" => chan'["snd"] # "OPEN" /\ Accepts' = 0
      BY <1>1, <1>3, <1>7, <1>8, <2>2 DEF Early
    <2> QED
      BY <1>1, <1>3, <2>3, <2>4, <2>5 DEF Early
  <1>12. Balance'
    <2>1. r <= Replies /\ p <= Pieces /\ b <= InFlight /\ (p = Pieces => b = InFlight)
      BY <1>2, <1>7, <1>8
    <2>2. /\ acked + r + owed + p <= chunks
          /\ received + b + remaining["snd"] <= size
          /\ acked + r + owed + p = chunks => received + b + remaining["snd"] = size
      BY <1>1, <1>7, <2>1, Lighter
    <2> QED
      BY <1>1, <1>3, <1>7, <2>2 DEF Balance
  <1>13. Receiver'
    BY <1>1, <1>2, <1>3, <1>7, <1>8 DEF Receiver, Life
  <1>14. Even'
    BY <1>4 DEF Even
  <1>15. Success'
    BY <1>1, <1>2, <1>3, <1>4, <1>7, <1>8 DEF Success, WaitingSuccess, Balance, Life
  <1> QED
    BY <1>5, <1>6, <1>9, <1>10, <1>11, <1>12, <1>13, <1>14, <1>15
       DEF Inv, Shape, Account

\* Nothing happens.
LEMMA StutterKeeps ==
    ASSUME Inv, UNCHANGED vars
    PROVE  Inv'
  <1>1. /\ Typed /\ Flags /\ Life("snd") /\ Life("rcv") /\ Early
        /\ Balance /\ Receiver /\ Even /\ Success
    BY DEF Inv, Shape, Account
  <1>2. /\ net' = net /\ Accepts' = Accepts /\ Replies' = Replies
        /\ Offers' = Offers /\ Pieces' = Pieces /\ InFlight' = InFlight
    BY DEF vars, Accepts, Replies, Offers, Pieces, InFlight
  <1>3. /\ state' = state /\ chan' = chan /\ closed' = closed
        /\ client' = client /\ size' = size /\ remaining' = remaining
        /\ received' = received /\ chunks' = chunks /\ acked' = acked /\ owed' = owed
    BY DEF vars, setting, progress
  <1>4. up' = up /\ finished' = finished /\ (Both' <=> Both)
    BY DEF vars, setting, progress, Both
  <1>5. Typed'
    BY <1>1, <1>2, <1>3 DEF Typed
  <1>6. Flags'
    BY <1>1, <1>4, Zenon DEF Flags
  <1>7. PICK a, r, o, p, b \in Nat :
          Accepts' = a /\ Replies' = r /\ Offers' = o /\ Pieces' = p /\ InFlight' = b
    BY <1>5, CountedNext
  <1>8. /\ size \in Nat /\ remaining["snd"] \in Nat /\ remaining["rcv"] \in Nat
        /\ received \in Nat /\ chunks \in Nat /\ acked \in Nat /\ owed \in Nat
        /\ closed["snd"] \in 0..1 /\ closed["rcv"] \in 0..1
        /\ Accepts \in Nat /\ Replies \in Nat /\ Offers \in Nat
        /\ Pieces \in Nat /\ InFlight \in Nat
    BY <1>1, Counted
  <1>9. Life("snd")'
    BY <1>1, <1>3, <1>7, <1>8 DEF Life, Typed
  <1>10. Life("rcv")'
    BY <1>1, <1>3, <1>7, <1>8 DEF Life, Typed
  <1>11. Early'
    <2>1. Create(size)' = Create(size)
      BY <1>3 DEF Create
    <2> QED
      BY <1>1, <1>2, <1>3, <1>4, <1>7, <1>8, <2>1 DEF Early, Life
  <1>12. Balance'
    <2>1. r <= Replies /\ p <= Pieces /\ b <= InFlight /\ (p = Pieces => b = InFlight)
      BY <1>2, <1>7, <1>8
    <2>2. /\ acked + r + owed + p <= chunks
          /\ received + b + remaining["snd"] <= size
          /\ acked + r + owed + p = chunks => received + b + remaining["snd"] = size
      BY <1>1, <1>7, <2>1, Lighter
    <2> QED
      BY <1>1, <1>3, <1>7, <2>2 DEF Balance
  <1>13. Receiver'
    BY <1>1, <1>2, <1>3, <1>7, <1>8 DEF Receiver, Life
  <1>14. Even'
    BY <1>1, <1>2, <1>3, <1>4 DEF Even
  <1>15. Success'
    BY <1>1, <1>2, <1>3, <1>4, <1>7, <1>8 DEF Success, WaitingSuccess, Balance, Life
  <1> QED
    BY <1>5, <1>6, <1>9, <1>10, <1>11, <1>12, <1>13, <1>14, <1>15
       DEF Inv, Shape, Account

\* mwFileTransfer_close, of a transfer that the client was not told is closed.
LEMMA ClosesAs ==
    ASSUME Inv, NEW e \in Ends, NEW st, NEW ch, NEW rest, closed[e] = 0,
           Close(e, st, ch, rest, <<>>)
    PROVE  /\ Sends(e, rest, Destroying(ch))
           /\ state' = [state EXCEPT ![e] = IF st = "OPEN" THEN "CANCEL_LOCAL" ELSE st]
           /\ chan' = [chan EXCEPT ![e] = "none"]
           /\ closed' = [closed EXCEPT ![e] = 1]
  <1>1. <<>> \o Destroying(ch) = Destroying(ch)
    BY DestroyWritten, ConcatEmptySeq
  <1> QED
    BY <1>1 DEF Close

\* The parts of the invariant that say what an end may still do.
LEMMA Lives ==
    ASSUME Inv
    PROVE  /\ \A e \in Ends : /\ Life(e) /\ state[e] \in FTState /\ closed[e] \in 0..1
                              /\ chan[e] \in {"none", "WAIT", "OPEN"}
           /\ state["rcv"] # "NEW"
           /\ state \in [Ends -> FTState] /\ closed \in [Ends -> 0..1]
  <1>1. Typed /\ Life("snd") /\ Life("rcv") /\ Early
    BY DEF Inv, Shape
  <1>2. /\ state \in [Ends -> FTState] /\ closed \in [Ends -> 0..1]
        /\ chan \in [Ends -> {"none", "WAIT", "OPEN"}]
    BY <1>1 DEF Typed
  <1>3. ASSUME NEW e \in Ends
        PROVE  Life(e)
    BY <1>1 DEF Ends
  <1>4. state["rcv"] # "NEW"
    BY <1>1 DEF Early
  <1> QED
    BY <1>2, <1>3, <1>4

\* An offer finds no transfer.
LEMMA OfferFirst ==
    ASSUME Inv, Receives("rcv", "CREATE")
    PROVE  state["rcv"] = "none"
  <1>1. Typed /\ Early
    BY DEF Inv, Shape
  <1>2. net["rcv"] \in Seq(Messages) /\ net["rcv"] # <<>> /\ Head(net["rcv"]).type = "CREATE"
    BY <1>1, RcvReads DEF Receives
  <1>3. /\ Offers = Count(Tail(net["rcv"]), "CREATE") + 1
        /\ Tail(net["rcv"]) \in Seq(Messages)
    BY <1>2, Taken DEF Offers
  <1>4. Count(Tail(net["rcv"]), "CREATE") \in Nat
    BY <1>3, CountType
  <1>5. Offers > 0
    BY <1>3, <1>4
  <1> QED
    BY <1>1, <1>5 DEF Early

\* A close of the sender, of a message or not.
LEMMA SndCloses ==
    ASSUME Inv, closed["snd"] = 0, NEW st \in FTState \ {"none", "NEW"}, NEW ch, NEW rest,
           st = "DONE" => state["snd"] = "DONE", st = "PENDING" => state["snd"] = "PENDING",
           rest = net["snd"] \/ (net["snd"] # <<>> /\ rest = Tail(net["snd"])),
           Close("snd", st, ch, rest, <<>>), UNCHANGED <<setting, remaining, progress>>
    PROVE  Inv'
  <1>1. PICK s \in FTState \ {"none", "NEW", "OPEN"} :
          /\ s = IF st = "OPEN" THEN "CANCEL_LOCAL" ELSE st
          /\ s = "DONE" => state["snd"] = "DONE"
          /\ s = "PENDING" => state["snd"] = "PENDING"
    BY DEF FTState
  <1>2. /\ Sends("snd", rest, Destroying(ch))
        /\ state' = [state EXCEPT !["snd"] = s]
        /\ chan' = [chan EXCEPT !["snd"] = "none"]
        /\ closed' = [closed EXCEPT !["snd"] = 1]
    BY <1>1, ClosesAs DEF Ends
  <1>3. 1 \in 0..1 /\ 1 >= closed["snd"]
    OBVIOUS
  <1> QED
    BY <1>1, <1>2, <1>3, SndEnds

\* A close of the receiver.
LEMMA RcvCloses ==
    ASSUME Inv, closed["rcv"] = 0, NEW st \in FTState \ {"none", "NEW"}, NEW ch, NEW rest,
           state["rcv"] # "none", st = "DONE" => state["rcv"] = "DONE",
           st \notin {"DONE", "freed"} => state["rcv"] \notin {"DONE", "freed"},
           rest = net["rcv"] \/ (net["rcv"] # <<>> /\ rest = Tail(net["rcv"])),
           Close("rcv", st, ch, rest, <<>>), UNCHANGED <<setting, remaining, progress>>
    PROVE  Inv'
  <1>1. PICK s \in FTState \ {"none", "NEW", "OPEN"} :
          /\ s = IF st = "OPEN" THEN "CANCEL_LOCAL" ELSE st
          /\ s = "DONE" => state["rcv"] = "DONE"
          /\ s \notin {"DONE", "freed"} => state["rcv"] \notin {"DONE", "freed"}
    BY DEF FTState
  <1>2. /\ Sends("rcv", rest, Destroying(ch))
        /\ state' = [state EXCEPT !["rcv"] = s]
        /\ chan' = [chan EXCEPT !["rcv"] = "none"]
        /\ closed' = [closed EXCEPT !["rcv"] = 1]
    BY <1>1, ClosesAs DEF Ends
  <1>3. 1 \in 0..1 /\ 1 >= closed["rcv"]
    OBVIOUS
  <1> QED
    BY <1>1, <1>2, <1>3, RcvEnds

LEMMA FreeKeeps ==
    ASSUME Inv, NEW e \in Ends, mwFileTransfer_free(e)
    PROVE  Inv'
  <1>1. /\ closed \in [Ends -> 0..1] /\ closed[e] \in 0..1
    BY Lives
  <1>2. PICK c, ch, rest : c \in 0..1 /\ c = closed[e] /\ ch = chan[e] /\ rest = net[e]
    BY <1>1
  <1>3. /\ Sends(e, rest, Destroying(ch))
        /\ state' = [state EXCEPT ![e] = "freed"]
        /\ chan' = [chan EXCEPT ![e] = "none"]
        /\ state[e] # "none"
        /\ closed' = closed
        /\ UNCHANGED <<setting, remaining, progress>>
    BY <1>2 DEF mwFileTransfer_free
  <1>4. closed' = [closed EXCEPT ![e] = c]
    BY <1>1, <1>2, <1>3
  <1>5. "freed" \in FTState \ {"none", "NEW", "OPEN"} /\ c >= closed[e]
    BY <1>1, <1>2 DEF FTState
  <1>6. CASE e = "snd"
    BY <1>2, <1>3, <1>4, <1>5, <1>6, SndEnds
  <1>7. CASE e = "rcv"
    BY <1>2, <1>3, <1>4, <1>5, <1>7, RcvEnds
  <1> QED
    BY <1>6, <1>7 DEF Ends

LEMMA CloseKeeps ==
    ASSUME Inv, NEW e \in Ends, mwFileTransfer_close(e)
    PROVE  Inv'
  <1>1. state[e] \in FTState
    BY Lives
  <1>2. /\ closed[e] = 0 /\ state[e] \notin {"none", "NEW", "freed"}
        /\ Close(e, state[e], chan[e], net[e], <<>>)
        /\ UNCHANGED <<setting, remaining, progress>>
    BY DEF mwFileTransfer_close
  <1>3. PICK st, ch, rest : st = state[e] /\ ch = chan[e] /\ rest = net[e]
    OBVIOUS
  <1>4. CASE e = "snd"
    BY <1>1, <1>2, <1>3, <1>4, SndCloses
  <1>5. CASE e = "rcv"
    BY <1>1, <1>2, <1>3, <1>5, RcvCloses
  <1> QED
    BY <1>4, <1>5 DEF Ends

LEMMA DestroyKeeps ==
    ASSUME Inv, NEW e \in Ends, recv_channelDestroy(e)
    PROVE  Inv'
  <1>1. net[e] # <<>> /\ Head(net[e]).type = "DESTROY"
    BY DEF recv_channelDestroy, Receives
  <1>2. CASE chan[e] = "none" /\ Dropped(e)
    <2>1. CASE e = "snd"
      BY <1>1, <1>2, <2>1, SndDrops
    <2>2. CASE e = "rcv"
      BY <1>1, <1>2, <2>2, RcvDrops
    <2> QED
      BY <2>1, <2>2 DEF Ends
  <1>3. CASE /\ chan[e] # "none"
             /\ Close(e, IF state[e] = "DONE" THEN "DONE" ELSE "CANCEL_REMOTE", "none", Rest(e), <<>>)
             /\ UNCHANGED <<setting, remaining, progress>>
    <2>1. PICK st, rest : /\ st = IF state[e] = "DONE" THEN "DONE" ELSE "CANCEL_REMOTE"
                          /\ rest = Tail(net[e])
      OBVIOUS
    <2>2. Close(e, st, "none", rest, <<>>)
      BY <1>3, <2>1 DEF Rest
    <2>3. closed[e] = 0 /\ state[e] \notin {"none", "freed"}
      BY <1>3, Lives DEF Life
    <2>4. st \in FTState \ {"none", "NEW"} /\ st # "PENDING" /\ (st = "DONE" => state[e] = "DONE")
          /\ (st # "DONE" => state[e] # "DONE")
      BY <2>1 DEF FTState
    <2>5. CASE e = "snd"
      BY <1>1, <1>3, <2>1, <2>2, <2>3, <2>4, <2>5, SndCloses
    <2>6. CASE e = "rcv"
      BY <1>1, <1>3, <2>1, <2>2, <2>3, <2>4, <2>6, RcvCloses
    <2> QED
      BY <2>5, <2>6 DEF Ends
  <1> QED
    BY <1>2, <1>3 DEF recv_channelDestroy

LEMMA RECEIVED_Keeps ==
    ASSUME Inv, NEW more \in NextChunk, recv_RECEIVED(more)
    PROVE  Inv'
  <1> DEFINE left == remaining["snd"] - Bytes(more)
             st == IF remaining["snd"] = 0 THEN "DONE" ELSE state["snd"]
  <1>1. /\ Receives("snd", "RECEIVED") /\ acked' = acked + 1 /\ UNCHANGED <<setting, received, owed>>
    BY DEF recv_RECEIVED
  <1>2. CASE /\ chan["snd"] = "none" /\ more = <<>>
             /\ Sends("snd", Rest("snd"), <<>>)
             /\ UNCHANGED <<state, chan, closed, finished, remaining, chunks>>
    BY <1>1, <1>2, LateAckKeeps
  <1>3. CASE /\ chan["snd"] # "none"
             /\ more = <<>> \/ (st = "OPEN" /\ up["snd"] /\ left >= 0 /\ client = "chained")
             /\ chunks + Len(more) <= MaxChunks
             /\ chunks' = chunks + Len(more)
             /\ remaining' = [remaining EXCEPT !["snd"] = left]
             /\ IF left = 0
                   THEN /\ Close("snd", st, chan["snd"], Rest("snd"), more)
                        /\ finished' = TRUE
                   ELSE /\ state' = [state EXCEPT !["snd"] = st]
                        /\ Sends("snd", Rest("snd"), more)
                        /\ UNCHANGED <<chan, closed, finished>>
    <2>1. /\ state \in [Ends -> FTState] /\ closed["snd"] = 0
          /\ chan["snd"] = "WAIT" => state["snd"] = "PENDING"
          /\ chan["snd"] = "OPEN" => state["snd"] \in {"OPEN", "DONE"}
          /\ chan["snd"] \in {"WAIT", "OPEN"}
      BY <1>3, Lives DEF Life, Ends
    <2>2. more = <<>> \/ (/\ remaining["snd"] # 0 /\ state["snd"] = "OPEN"
                          /\ remaining["snd"] - Bytes(more) >= 0 /\ client = "chained")
      BY <1>3
    <2>3. /\ chunks + Len(more) <= MaxChunks /\ chunks' = chunks + Len(more)
          /\ remaining' = [remaining EXCEPT !["snd"] = remaining["snd"] - Bytes(more)]
      BY <1>3
    <2>4. CASE left = 0
      <3>1. PICK s \in {"PENDING", "CANCEL_LOCAL", "DONE"} :
              /\ s = IF st = "OPEN" THEN "CANCEL_LOCAL" ELSE st
              /\ s = "PENDING" => state["snd"] = "PENDING"
              /\ s = "DONE" => remaining["snd"] = 0 \/ state["snd"] = "DONE"
        BY <2>1
      <3>2. /\ state' = [state EXCEPT !["snd"] = s]
            /\ Sends("snd", Rest("snd"), more \o Destroying(chan["snd"]))
            /\ chan' = [chan EXCEPT !["snd"] = "none"]
            /\ closed' = [closed EXCEPT !["snd"] = 1]
            /\ finished' = TRUE
        BY <1>3, <2>1, <2>4, <3>1 DEF Close
      <3>3. remaining["snd"] - Bytes(more) = 0
        BY <2>4
      <3> QED
        BY <1>1, <1>3, <2>2, <2>3, <3>1, <3>2, <3>3, FinishedKeeps
    <2>5. CASE left # 0
      <3>1. state' = [state EXCEPT !["snd"] = st] /\ Sends("snd", Rest("snd"), more)
            /\ UNCHANGED <<chan, closed, finished>>
        BY <1>3, <2>5
      <3>2. remaining["snd"] \in Nat
        BY Counted DEF Inv, Shape
      <3>3. remaining["snd"] # 0
        BY <2>2, <2>5, <3>2, MoreWritten
      <3>4. state' = state
        BY <2>1, <3>1, <3>3
      <3>5. remaining["snd"] - Bytes(more) # 0
        BY <2>5
      <3>6. UNCHANGED <<state, chan, closed, finished, setting, received, owed>>
        BY <1>1, <3>1, <3>4
      <3> QED
        BY <1>1, <1>3, <2>2, <2>3, <3>1, <3>5, <3>6, AckedKeeps
    <2> QED
      BY <2>4, <2>5
  <1> QED
    BY <1>2, <1>3 DEF recv_RECEIVED

LEMMA TRANSFER_Keeps ==
    ASSUME Inv, recv_TRANSFER
    PROVE  Inv'
  <1>1. Receives("rcv", "TRANSFER") /\ net["rcv"] # <<>> /\ Head(net["rcv"]).type = "TRANSFER"
    BY DEF recv_TRANSFER, Receives
  <1>2. Typed
    BY DEF Inv, Shape
  <1>3. Head(net["rcv"]).n \in Nat
    BY <1>1, <1>2, RcvReads, BoundsAssumption
  <1>4. PICK n \in Nat : Head(net["rcv"]).n = n
    BY <1>3
  <1>5. CASE /\ chan["rcv"] # "none"
             /\ state["rcv"] = "OPEN"
             /\ remaining["rcv"] - n >= 0
             /\ remaining' = [remaining EXCEPT !["rcv"] = remaining["rcv"] - n]
             /\ state' = [state EXCEPT !["rcv"] = IF remaining["rcv"] - n = 0 THEN "DONE" ELSE @]
             /\ received' = received + n
             /\ owed' = owed + 1
             /\ Sends("rcv", Rest("rcv"), <<>>)
             /\ UNCHANGED <<setting, chan, closed, chunks, acked, finished>>
    BY <1>1, <1>4, <1>5, PieceKeeps
  <1>6. CASE /\ chan["rcv"] = "none" \/ state["rcv"] # "OPEN" \/ remaining["rcv"] - n < 0
             /\ Dropped("rcv")
    <2>1. remaining["rcv"] \in Nat
      BY <1>2, Counted
    <2>2. chan["rcv"] = "none" \/ state["rcv"] # "OPEN" \/ remaining["rcv"] < Head(net["rcv"]).n
      BY <1>4, <1>6, <2>1
    <2> QED
      BY <1>1, <1>6, <2>2, RcvDrops
  <1> QED
    BY <1>4, <1>5, <1>6 DEF recv_TRANSFER

LEMMA OfferStepKeeps ==
    ASSUME Inv, mwFileTransfer_offer
    PROVE  Inv'
  <1>1. CASE up["snd"]
    BY <1>1, OfferKeeps
  <1>2. CASE ~up["snd"]
    <2>1. /\ state["snd"] = "NEW"
          /\ Close("snd", "ERROR", "none", net["snd"], <<>>)
          /\ UNCHANGED <<setting, remaining, progress>>
      BY <1>2 DEF mwFileTransfer_offer
    <2>2. closed["snd"] = 0
      BY <2>1, Lives DEF Life, Ends
    <2>3. "ERROR" \in FTState \ {"none", "NEW"}
      BY DEF FTState
    <2>4. PICK rest : rest = net["snd"]
      OBVIOUS
    <2> QED
      BY <2>1, <2>2, <2>3, <2>4, SndCloses
  <1> QED
    BY <1>1, <1>2

LEMMA AcceptStepKeeps ==
    ASSUME Inv, mwFileTransfer_accept
    PROVE  Inv'
  <1>1. CASE up["rcv"]
    BY <1>1, AcceptKeeps
  <1>2. CASE ~up["rcv"]
    <2>1. /\ state["rcv"] = "PENDING" /\ chan["rcv"] = "WAIT"
          /\ Close("rcv", "PENDING", "WAIT", net["rcv"], <<>>)
          /\ UNCHANGED <<setting, remaining, progress>>
      BY <1>2 DEF mwFileTransfer_accept
    <2>2. closed["rcv"] = 0
      BY <2>1, Lives DEF Life, Ends
    <2>3. "PENDING" \in FTState \ {"none", "NEW"}
      BY DEF FTState
    <2>4. PICK rest : rest = net["rcv"]
      OBVIOUS
    <2> QED
      BY <2>1, <2>2, <2>3, <2>4, RcvCloses
  <1> QED
    BY <1>1, <1>2

LEMMA HandleKeeps ==
    ASSUME Inv, NEW e \in Ends, Handle(e)
    PROVE  Inv'
  <1>1. CASE recv_channelCreate
    <2>1. Receives("rcv", "CREATE") /\ net["rcv"] # <<>> /\ UNCHANGED <<setting, closed, progress>>
      BY <1>1 DEF recv_channelCreate, Receives
    <2>2. CASE /\ state' = [state EXCEPT !["rcv"] = "PENDING"]
               /\ chan' = [chan EXCEPT !["rcv"] = "WAIT"]
               /\ remaining' = [remaining EXCEPT !["rcv"] = Head(net["rcv"]).n]
               /\ Sends("rcv", Rest("rcv"), <<>>)
      BY <2>1, <2>2, CreateKeeps
    <2>3. CASE /\ Sends("rcv", Rest("rcv"), <<Plain("DESTROY")>>)
               /\ UNCHANGED <<state, chan, remaining>>
      BY <2>1, <2>3, BadOfferKeeps
    <2> QED
      BY <1>1, <2>2, <2>3 DEF recv_channelCreate
  <1>2. CASE recv_channelAccept
    <2>1. Receives("snd", "ACCEPT") /\ net["snd"] # <<>>
      BY <1>2 DEF recv_channelAccept, Receives
    <2>2. CASE /\ chan["snd"] = "WAIT"
               /\ state' = [state EXCEPT !["snd"] = "OPEN"]
               /\ chan' = [chan EXCEPT !["snd"] = "OPEN"]
               /\ Sends("snd", Rest("snd"), <<>>)
               /\ UNCHANGED <<setting, remaining, closed, progress>>
      BY <2>1, <2>2, AcceptedKeeps
    <2>3. CASE chan["snd"] = "none" /\ Dropped("snd")
      BY <2>1, <2>3, SndDrops
    <2> QED
      BY <1>2, <2>2, <2>3 DEF recv_channelAccept
  <1>3. CASE recv_TRANSFER
    BY <1>3, TRANSFER_Keeps
  <1>4. CASE \E more \in NextChunk : recv_RECEIVED(more)
    BY <1>4, RECEIVED_Keeps
  <1>5. CASE recv_channelDestroy(e)
    BY <1>5, DestroyKeeps
  <1> QED
    BY <1>1, <1>2, <1>3, <1>4, <1>5 DEF Handle

LEMMA NextKeeps ==
    ASSUME Inv, [Next]_vars
    PROVE  Inv'
  <1>1. CASE UNCHANGED vars
    BY <1>1, StutterKeeps
  <1>2. ASSUME NEW n \in 0..MaxSize, mwFileTransfer_new(n)
        PROVE  Inv'
    BY <1>2, NewKeeps
  <1>3. CASE mwFileTransfer_offer
    BY <1>3, OfferStepKeeps
  <1>4. CASE mwFileTransfer_accept
    BY <1>4, AcceptStepKeeps
  <1>5. ASSUME NEW n \in 0..MaxSize, mwFileTransfer_send(n)
        PROVE  Inv'
    BY <1>5, SendKeeps
  <1>6. CASE mwFileTransfer_ack
    BY <1>6, AckKeeps
  <1>7. ASSUME NEW e \in Ends, mwFileTransfer_close(e)
        PROVE  Inv'
    BY <1>7, CloseKeeps
  <1>8. ASSUME NEW e \in Ends, mwFileTransfer_free(e)
        PROVE  Inv'
    BY <1>8, FreeKeeps
  <1>9. ASSUME NEW e \in Ends, Handle(e)
        PROVE  Inv'
    BY <1>9, HandleKeeps
  <1>10. ASSUME NEW e \in Ends, LinkBreaks(e)
         PROVE  Inv'
    BY <1>10, BreakKeeps
  <1>11. ASSUME NEW e \in Ends, ServiceStops(e)
         PROVE  Inv'
    BY <1>11, FreeKeeps DEF ServiceStops
  <1> QED
    BY <1>1, <1>2, <1>3, <1>4, <1>5, <1>6, <1>7, <1>8, <1>9, <1>10, <1>11 DEF Next

LEMMA InitEstablishes == Init => Inv
  <1> SUFFICES ASSUME Init PROVE Inv
    OBVIOUS
  <1>1. Typed
    <2>1. [e \in Ends |-> <<>>] \in [Ends -> Seq(Messages)]
      BY NothingWritten
    <2> QED
      BY <2>1, BoundsAssumption DEF Init, Typed, FTState
  <1>2. Flags
    <2>1. up = [e \in Ends |-> TRUE] /\ finished = FALSE
      BY DEF Init
    <2> QED
      BY <2>1, Zenon DEF Flags
  <1>3. /\ state["snd"] = "none" /\ state["rcv"] = "none" /\ chan["snd"] = "none" /\ chan["rcv"] = "none"
        /\ closed["snd"] = 0 /\ closed["rcv"] = 0 /\ remaining["snd"] = 0 /\ remaining["rcv"] = 0
        /\ net["snd"] = <<>> /\ net["rcv"] = <<>>
        /\ size = 0 /\ received = 0 /\ chunks = 0 /\ acked = 0 /\ owed = 0
    BY DEF Init, Ends
  <1>4. Accepts = 0 /\ Replies = 0 /\ Offers = 0 /\ Pieces = 0 /\ InFlight = 0
    BY <1>3, CountEmpty, BytesEmpty DEF Accepts, Replies, Offers, Pieces, InFlight
  <1>5. Life("snd") /\ Life("rcv")
    BY <1>3 DEF Life
  <1>6. Early
    BY <1>3, <1>4 DEF Early
  <1>7. Balance /\ Receiver /\ Even
    BY <1>3, <1>4 DEF Balance, Receiver, Even
  <1>8. Success
    <2>1. ~finished
      BY DEF Init
    <2> QED
      BY <1>3, <2>1 DEF Success, WaitingSuccess
  <1> QED
    BY <1>1, <1>2, <1>5, <1>6, <1>7, <1>8 DEF Inv, Shape, Account

LEMMA Invariant == Spec => []Inv
  <1>1. Init => Inv
    BY InitEstablishes
  <1>2. Inv /\ [Next]_vars => Inv'
    BY NextKeeps
  <1> QED
    BY <1>1, <1>2, PTL DEF Spec

-----------------------------------------------------------------------------
(* The theorems.                                                           *)

LEMMA InvImpliesConsistent == Inv => TransferConsistent
  <1> SUFFICES ASSUME Inv PROVE TransferConsistent
    OBVIOUS
  <1>1. Typed /\ Flags /\ Life("rcv") /\ Balance /\ Receiver /\ Success
    BY DEF Inv, Shape, Account
  <1>2. /\ size \in Nat /\ remaining["snd"] \in Nat /\ remaining["rcv"] \in Nat
        /\ received \in Nat /\ chunks \in Nat /\ acked \in Nat /\ owed \in Nat
        /\ closed["rcv"] \in 0..1
        /\ Replies \in Nat /\ Pieces \in Nat /\ InFlight \in Nat
    BY <1>1, Counted
  <1>3. received <= size /\ acked <= chunks /\ owed <= chunks
    BY <1>1, <1>2 DEF Balance
  <1>4. size \in 0..MaxSize /\ chunks \in 0..MaxChunks
    BY <1>1 DEF Typed
  <1>5. received \in 0..MaxSize /\ acked \in 0..MaxChunks /\ owed \in 0..MaxChunks
    BY <1>2, <1>3, <1>4, BoundsAssumption
  <1>6. up \in [Ends -> BOOLEAN] /\ finished \in BOOLEAN
    BY <1>1, Zenon DEF Flags
  <1>7. /\ client \in Clients /\ size \in 0..MaxSize /\ state \in [Ends -> FTState]
        /\ chan \in [Ends -> {"none", "WAIT", "OPEN"}] /\ remaining \in [Ends -> 0..MaxSize]
        /\ net \in [Ends -> Seq(Messages)] /\ closed \in [Ends -> 0..1] /\ chunks \in 0..MaxChunks
    BY <1>1 DEF Typed
  <1>8. TypeOK
    BY <1>5, <1>6, <1>7, Zenon DEF TypeOK
  <1>9. WaitingSuccess
    BY <1>1 DEF Success
  <1>10. DoneIsComplete
    <2>1. state["rcv"] = "DONE" => received = size
      BY <1>1, <1>2 DEF Receiver
    <2>2. ASSUME closed["rcv"] > 0, size > 0, received = size
          PROVE  state["rcv"] \in {"DONE", "freed"}
      BY <1>1, <1>2, <2>2 DEF Receiver, Life
    <2> QED
      BY <2>1, <2>2 DEF DoneIsComplete
  <1> QED
    BY <1>8, <1>9, <1>10 DEF TransferConsistent

\* For every size of the file and however many chunks it is sent in: the types;
\* a waiting client is told of a success only after every chunk was
\* acknowledged and the whole file handed over (recv_RECEIVED); the receiving
\* end says DONE exactly if its client got the whole file (recv_TRANSFER,
\* recv_channelDestroy).
THEOREM TransferCorrect == Spec => []TransferConsistent
  <1>1. Inv => TransferConsistent
    BY InvImpliesConsistent
  <1> QED
    BY <1>1, Invariant, PTL

\* While both ends are open and connected, what remains at the receiver is what
\* remains at the sender and what is on its way (mwFileTransfer_send,
\* recv_TRANSFER): no byte is lost and none counted twice.
THEOREM NoByteLostCorrect == Spec => []NoByteLost
  <1>1. Inv => NoByteLost
    <2>1. SUFFICES ASSUME Inv, chan["snd"] # "none", chan["rcv"] = "OPEN", up["snd"] /\ up["rcv"]
                   PROVE  /\ received + remaining["rcv"] = size
                          /\ remaining["rcv"] = remaining["snd"] + Bytes(net["rcv"])
      BY DEF NoByteLost
    <2>2. Life("rcv") /\ Receiver /\ Even
      BY <2>1 DEF Inv, Shape, Account
    <2>3. state["rcv"] # "none"
      BY <2>1, <2>2 DEF Life
    <2> QED
      BY <2>1, <2>2, <2>3 DEF Receiver, Even, Both, InFlight
  <1> QED
    BY <1>1, Invariant, PTL

LEMMA StepIsFinal ==
    ASSUME Inv, Next, NEW e \in Ends, closed[e] > 0
    PROVE  /\ closed'[e] = closed[e]
           /\ state'[e] \in {state[e], "freed"}
           /\ e = "rcv" => received' = received
  <1>1. /\ state \in [Ends -> FTState] /\ closed \in [Ends -> 0..1]
        /\ chan[e] = "none" /\ state[e] \notin {"none", "NEW", "OPEN"} /\ closed[e] # 0
    BY Lives DEF Life
  <1>2. ASSUME NEW d \in Ends, mwFileTransfer_close(d) \/ mwFileTransfer_free(d)
        PROVE  /\ closed'[e] = closed[e]
               /\ state'[e] \in {state[e], "freed"}
               /\ received' = received
    <2>1. CASE mwFileTransfer_close(d)
      <3>1. d # e
        BY <1>1, <2>1 DEF mwFileTransfer_close
      <3> QED
        BY <1>1, <2>1, <3>1 DEF mwFileTransfer_close, Close, progress
    <2>2. CASE mwFileTransfer_free(d)
      BY <1>1, <2>2 DEF mwFileTransfer_free, progress
    <2> QED
      BY <1>2, <2>1, <2>2
  <1>3. ASSUME NEW n, mwFileTransfer_new(n) \/ mwFileTransfer_send(n)
        PROVE  closed' = closed /\ state'[e] = state[e] /\ received' = received
    BY <1>1, <1>3 DEF mwFileTransfer_new, mwFileTransfer_send, progress
  <1>4. CASE mwFileTransfer_offer
    <2>1. e # "snd"
      BY <1>1, <1>4 DEF mwFileTransfer_offer
    <2> QED
      BY <1>1, <1>4, <2>1 DEF mwFileTransfer_offer, Close, progress
  <1>5. CASE mwFileTransfer_accept
    <2>1. e # "rcv"
      BY <1>1, <1>5 DEF mwFileTransfer_accept
    <2> QED
      BY <1>1, <1>5, <2>1 DEF mwFileTransfer_accept, Close, progress
  <1>6. CASE mwFileTransfer_ack
    BY <1>6 DEF mwFileTransfer_ack
  <1>7. ASSUME NEW d \in Ends, LinkBreaks(d)
        PROVE  closed' = closed /\ state' = state /\ received' = received
    BY <1>7 DEF LinkBreaks, progress
  <1>8. ASSUME NEW d \in Ends, recv_channelDestroy(d)
        PROVE  closed'[e] = closed[e] /\ state'[e] = state[e] /\ received' = received
    <2>1. CASE chan[d] # "none"
      <3>1. d # e
        BY <1>1, <2>1
      <3> QED
        BY <1>1, <1>8, <2>1, <3>1 DEF recv_channelDestroy, Close, progress
    <2>2. CASE chan[d] = "none"
      BY <1>8, <2>2 DEF recv_channelDestroy, Dropped, progress
    <2> QED
      BY <2>1, <2>2
  <1>9. CASE recv_channelCreate
    <2>1. e # "rcv"
      BY <1>1, <1>9, OfferFirst DEF recv_channelCreate
    <2> QED
      BY <1>1, <1>9, <2>1 DEF recv_channelCreate, progress
  <1>10. CASE recv_channelAccept
    <2>1. CASE chan["snd"] = "WAIT"
      <3>1. e # "snd"
        BY <1>1, <2>1
      <3> QED
        BY <1>1, <1>10, <2>1, <3>1 DEF recv_channelAccept, Dropped, progress
    <2>2. CASE chan["snd"] # "WAIT"
      BY <1>10, <2>2 DEF recv_channelAccept, Dropped, progress
    <2> QED
      BY <2>1, <2>2
  <1>11. CASE recv_TRANSFER
    <2>1. CASE e = "rcv"
      BY <1>1, <1>11, <2>1 DEF recv_TRANSFER, Dropped, progress
    <2>2. CASE e # "rcv"
      BY <1>1, <1>11, <2>2 DEF recv_TRANSFER, Dropped, progress
    <2> QED
      BY <2>1, <2>2
  <1>12. ASSUME NEW more \in NextChunk, recv_RECEIVED(more)
         PROVE  closed'[e] = closed[e] /\ state'[e] = state[e] /\ received' = received
    <2>1. CASE e = "snd"
      BY <1>1, <1>12, <2>1 DEF recv_RECEIVED
    <2>2. CASE e # "snd"
      BY <1>1, <1>12, <2>2 DEF recv_RECEIVED, Close
    <2> QED
      BY <2>1, <2>2
  <1>13. ASSUME NEW d \in Ends, Handle(d)
         PROVE  /\ closed'[e] = closed[e]
                /\ state'[e] \in {state[e], "freed"}
                /\ e = "rcv" => received' = received
    BY <1>8, <1>9, <1>10, <1>11, <1>12, <1>13 DEF Handle
  <1>14. ASSUME NEW d \in Ends, ServiceStops(d)
         PROVE  /\ closed'[e] = closed[e]
                /\ state'[e] \in {state[e], "freed"}
                /\ received' = received
    BY <1>2, <1>14 DEF ServiceStops
  <1> QED
    BY <1>2, <1>3, <1>4, <1>5, <1>6, <1>7, <1>13, <1>14 DEF Next

\* ft_closed is the last a client hears of a transfer, whatever the other end,
\* the channel or the session does after it (mwFileTransfer_close,
\* recv_channelDestroy, recv_RECEIVED).
THEOREM ClosedIsFinalCorrect == Spec => ClosedIsFinal
  <1>1. Inv /\ [Next]_vars =>
          [\A e \in Ends : closed[e] > 0 =>
             /\ closed'[e] = closed[e]
             /\ state'[e] \in {state[e], "freed"}
             /\ e = "rcv" => received' = received]_vars
    BY StepIsFinal
  <1> QED
    BY <1>1, Invariant, PTL DEF Spec, ClosedIsFinal

=============================================================================
