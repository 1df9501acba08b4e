-------------------------------- MODULE Mpi --------------------------------
(***************************************************************************)
(* The multi-precision integers of mpi/mpi.c, as far as the key exchange   *)
(* of cipher.c reaches them.  A magnitude is the sequence of its digits,   *)
(* the least significant first; an mw_mp_int adds a sign.  A digit holds   *)
(* DIGIT_BIT bits, an mw_mp_word two digits, a byte CHAR_BIT bits: 16, 32  *)
(* and 8 in the code.  Growing the digit array cannot fail here.           *)
(*                                                                         *)
(* MpiNext tries two operands, the second also as an exponent, and a       *)
(* modulus; MpiArithmetic and MpiPower compare what the digit loops        *)
(* compute with the arithmetic of the integers.                            *)
(***************************************************************************)
EXTENDS Integers, Sequences, FiniteSets, SequencesExt

CONSTANTS
    DIGIT_BIT,  \* bits of an mw_mp_digit
    CHAR_BIT,   \* bits of a byte
    LongBytes,  \* sizeof(long)
    Operands    \* bound: the triples << a, b, m >> that are tried

ASSUME BitsAssumption ==
    /\ DIGIT_BIT \in Nat \ {0}
    /\ CHAR_BIT \in 1..DIGIT_BIT
    /\ DIGIT_BIT % CHAR_BIT = 0
ASSUME OperandsAssumption ==
    /\ LongBytes \in Nat \ {0}
    /\ \A t \in Operands : t[1] \in Int /\ t[2] \in Int /\ t[3] \in Nat \ {0, 1}

VARIABLES
    operands,   \* << a, b, m >>: two operands and a modulus
    tried       \* the operations were tried on them

mpiVars == << operands, tried >>

RADIX == 2 ^ DIGIT_BIT
WORD == RADIX * RADIX
DigitBytes == DIGIT_BIT \div CHAR_BIT       \* sizeof(mw_mp_digit)
ACCUM(w) == w % RADIX
CARRYOUT(w) == w \div RADIX
ByteOf(v, n) == (v \div 2 ^ (n * CHAR_BIT)) % 2 ^ CHAR_BIT

MP_ZPOS(d) == [neg |-> FALSE, d |-> d]
MP_NEG(d) == [neg |-> TRUE, d |-> d]
MpZero == << 0 >>

\* The digit of d at i, zero above its precision; s_mw_mp_pad.
DigitAt(d, i) == IF i \in DOMAIN d THEN d[i] ELSE 0
Top(d) == d[Len(d)]
Longer(a, b) == IF Len(a) >= Len(b) THEN Len(a) ELSE Len(b)

-----------------------------------------------------------------------------
(* Shifts and comparisons of magnitudes                                    *)

s_mw_mp_clamp(d) ==
    LET used == {i \in DOMAIN d : d[i] # 0}
    IN  IF used = {} THEN MpZero
        ELSE SubSeq(d, 1, CHOOSE i \in used : \A j \in used : j <= i)

s_mw_mp_cmp(a, b) ==
    LET differ == {i \in DOMAIN a : a[i] # b[i]}
        top == CHOOSE i \in differ : \A j \in differ : j <= i
    IN  IF Len(a) # Len(b) THEN (IF Len(a) > Len(b) THEN 1 ELSE -1)
        ELSE IF differ = {} THEN 0
        ELSE IF a[top] > b[top] THEN 1 ELSE -1

s_mw_mp_cmp_d(a, d) ==
    IF Len(a) > 1 \/ a[1] > d THEN 1 ELSE IF a[1] < d THEN -1 ELSE 0

s_mw_mp_lshd(d, p) == [i \in 1..p |-> 0] \o d

s_mw_mp_rshd(d, p) ==
    IF p = 0 THEN d
    ELSE IF p >= Len(d) THEN MpZero
    ELSE s_mw_mp_clamp(SubSeq(d, p + 1, Len(d)))

s_mw_mp_mod_2d(mp, d) ==
    LET ndig == d \div DIGIT_BIT
        nbit == d % DIGIT_BIT
    IN  IF ndig >= Len(mp) THEN mp
        ELSE s_mw_mp_clamp(Append(SubSeq(mp, 1, ndig), mp[ndig + 1] % 2 ^ nbit))

\* next: the bits of digit i - 1 that move into digit i
s_mw_mp_mul_2d(mp, d) ==
    LET dp == s_mw_mp_lshd(mp, d \div DIGIT_BIT)
        bits == d % DIGIT_BIT
        next(i) == DigitAt(dp, i - 1) \div 2 ^ (DIGIT_BIT - bits)
    IN  s_mw_mp_clamp([i \in 1 .. Len(dp) + 1 |->
                         ACCUM(DigitAt(dp, i) * 2 ^ bits) + next(i)])

s_mw_mp_div_2d(mp, d) ==
    LET dp == s_mw_mp_rshd(mp, d \div DIGIT_BIT)
        bits == d % DIGIT_BIT
    IN  s_mw_mp_clamp([i \in DOMAIN dp |->
                         (dp[i] \div 2 ^ bits)
                           + (DigitAt(dp, i + 1) % 2 ^ bits) * 2 ^ (DIGIT_BIT - bits)])

\* How far the divisor b is shifted to fill its leading digit.
s_mw_mp_norm(b) ==
    CHOOSE d \in 0 .. DIGIT_BIT - 1 :
      /\ Top(b) * 2 ^ d >= RADIX \div 2
      /\ Top(b) * 2 ^ d < RADIX

\* -1, or the power of two that v is.
s_mw_mp_ispow2(v) ==
    LET powers == {k \in 0 .. DIGIT_BIT - 1 : Top(v) = 2 ^ k}
    IN  IF powers # {} /\ \A i \in 1 .. Len(v) - 1 : v[i] = 0
        THEN (Len(v) - 1) * DIGIT_BIT + CHOOSE k \in powers : TRUE
        ELSE -1

-----------------------------------------------------------------------------
(* Arithmetic of magnitudes                                                *)

\* k[i]: the carry out of digit i
s_mw_mp_add_d(a, d) ==
    LET k[i \in 0 .. Len(a)] ==
            IF i = 0 THEN d ELSE CARRYOUT(a[i] + k[i - 1])
        sum == [i \in DOMAIN a |-> ACCUM(a[i] + k[i - 1])]
    IN  IF k[Len(a)] = 0 THEN sum ELSE Append(sum, k[Len(a)])

s_mw_mp_sub_d(a, d) ==
    LET b[i \in 0 .. Len(a)] ==
            IF i = 0 THEN d
            ELSE IF CARRYOUT(RADIX + a[i] - b[i - 1]) # 0 THEN 0 ELSE 1
    IN  s_mw_mp_clamp([i \in DOMAIN a |-> ACCUM(RADIX + a[i] - b[i - 1])])

s_mw_mp_mul_d(a, d) ==
    LET k[i \in 0 .. Len(a)] ==
            IF i = 0 THEN 0 ELSE CARRYOUT((a[i] * d + k[i - 1]) % WORD)
    IN  s_mw_mp_clamp(Append([i \in DOMAIN a |-> ACCUM(a[i] * d + k[i - 1])],
                             k[Len(a)]))

s_mw_mp_add(a, b) ==
    LET n == Longer(a, b)
        w[i \in 0..n] ==
            IF i = 0 THEN 0 ELSE CARRYOUT(w[i - 1] + DigitAt(a, i) + DigitAt(b, i))
        sum == [i \in 1..n |-> ACCUM(w[i - 1] + DigitAt(a, i) + DigitAt(b, i))]
    IN  IF w[n] = 0 THEN sum ELSE Append(sum, w[n])

\* w[i]: the borrow digit i takes from the next; a >= b
s_mw_mp_sub(a, b) ==
    LET w[i \in 0 .. Len(a)] ==
            IF i = 0 THEN 0
            ELSE IF CARRYOUT(RADIX + a[i] - w[i - 1] - DigitAt(b, i)) # 0
                 THEN 0 ELSE 1
    IN  s_mw_mp_clamp([i \in DOMAIN a |->
                         ACCUM(RADIX + a[i] - w[i - 1] - DigitAt(b, i))])

\* The inner loop of s_mw_mp_mul: t plus a times the digit of b at index i.
MulRow(t, a, digit, i) ==
    LET k[j \in 0 .. Len(a)] ==
            IF j = 0 THEN 0
            ELSE CARRYOUT((digit * a[j] + k[j - 1] + t[i + j - 1]) % WORD)
    IN  IF digit = 0 THEN t
        ELSE [p \in DOMAIN t |->
                LET j == p - i + 1
                IN  IF j \in DOMAIN a THEN ACCUM(digit * a[j] + k[j - 1] + t[p])
                    ELSE IF j = Len(a) + 1 THEN k[Len(a)]
                    ELSE t[p]]

s_mw_mp_mul(a, b) ==
    LET t[i \in 0 .. Len(b)] ==
            IF i = 0 THEN [p \in 1 .. Len(a) + Len(b) |-> 0]
            ELSE LET u == t[i - 1] IN MulRow(u, a, b[i], i)
    IN  s_mw_mp_clamp(t[Len(b)])

\* t with one added at p, and at the digits above it while they overflow.
Cascade(t, p) ==
    LET stop == CHOOSE q \in p .. Len(t) :
                  /\ t[q] # RADIX - 1
                  /\ \A r \in p .. q - 1 : t[r] = RADIX - 1
    IN  [q \in DOMAIN t |-> IF q \in p .. stop - 1 THEN 0
                            ELSE IF q = stop THEN t[q] + 1 ELSE t[q]]

\* One step of the inner product of s_mw_mp_sqr: twice the product of two
\* digits and what is there already overflow a word, which u remembers.
SqrStep(product, v) ==
    LET doubled == (2 * product) % WORD
        u == product >= WORD \div 2 \/ (WORD - 1) - v < doubled
        w == (doubled + v) % WORD
    IN  [digit |-> ACCUM(w),
         carry |-> CARRYOUT(w) + (IF u THEN RADIX ELSE 0)]

\* The body of the outer loop of s_mw_mp_sqr for the digit at i.
SqrRow(t, a, i) ==
    LET n == Len(a)
        square == (t[2 * i - 1] + a[i] * a[i]) % WORD
        k[j \in i .. n] ==
            IF j = i THEN CARRYOUT(square)
            ELSE SqrStep(a[i] * a[j], t[i + j - 1] + k[j - 1]).carry
        last == t[i + n] + k[n]
        row == [p \in DOMAIN t |->
                  CASE p = 2 * i - 1 -> ACCUM(square)
                    [] p \in 2 * i .. i + n - 1 ->
                         SqrStep(a[i] * a[p - i + 1], t[p] + k[p - i]).digit
                    [] p = i + n -> ACCUM(last)
                    [] OTHER -> t[p]]
    IN  IF a[i] = 0 THEN t
        ELSE IF CARRYOUT(last) = 0 THEN row ELSE Cascade(row, i + n + 1)

s_mw_mp_sqr(a) ==
    LET t[i \in 0 .. Len(a)] ==
            IF i = 0 THEN [p \in 1 .. 2 * Len(a) |-> 0]
            ELSE LET u == t[i - 1] IN SqrRow(u, a, i)
    IN  s_mw_mp_clamp(t[Len(a)])

-----------------------------------------------------------------------------
(* Division of magnitudes                                                  *)

\* The guess for the next digit of the quotient.
Guess(rem, b) ==
    LET q == Top(rem)
        two == q * RADIX + rem[Len(rem) - 1]
        guess == (IF q <= Top(b) /\ Len(rem) > 1 THEN two ELSE q) \div Top(b)
    IN  IF guess >= RADIX THEN RADIX - 1 ELSE guess

\* The digit is backed off until it times b, t, is no longer above rem.
RECURSIVE BackOff(_, _, _, _)
BackOff(q, t, rem, b) ==
    IF s_mw_mp_cmp(t, rem) > 0 THEN BackOff(q - 1, s_mw_mp_sub(t, b), rem, b)
    ELSE [q |-> q, t |-> t]

\* The loops of s_mw_mp_div: n digits of a are still to be brought down.
RECURSIVE DivLoop(_, _, _, _, _)
DivLoop(a, b, n, quot, rem) ==
    IF s_mw_mp_cmp(rem, b) < 0
    THEN IF n = 0 THEN [q |-> quot, r |-> rem]
         ELSE DivLoop(a, b, n - 1, s_mw_mp_lshd(quot, 1),
                      s_mw_mp_clamp(<< a[n] >> \o rem))
    ELSE LET guess == Guess(rem, b)
             digit == BackOff(guess, s_mw_mp_mul_d(b, guess), rem, b)
             next == s_mw_mp_sub(rem, digit.t)
             all == [quot EXCEPT ![1] = digit.q]
         IN  IF n = 0 THEN [q |-> all, r |-> next]
             ELSE DivLoop(a, b, n, all, next)

\* a and b are shifted; the remainder is shifted back afterwards.
Divided(a, b) == DivLoop(a, b, Len(a), MpZero, MpZero)
Denormalized(qr, d) ==
    [q |-> s_mw_mp_clamp(qr.q), r |-> s_mw_mp_div_2d(qr.r, d)]

\* b # 0
s_mw_mp_div(a, b) ==
    LET pow == s_mw_mp_ispow2(b)
        d == s_mw_mp_norm(b)
    IN  IF pow >= 0
        THEN [q |-> s_mw_mp_div_2d(a, pow), r |-> s_mw_mp_mod_2d(a, pow)]
        ELSE Denormalized(Divided(s_mw_mp_mul_2d(a, d), s_mw_mp_mul_2d(b, d)), d)

-----------------------------------------------------------------------------
(* Signed arithmetic.  The results may take the place of an operand: the    *)
(* code copies where that would disturb it.                                 *)

\* Zero is never negative.
Signed(neg, d) == [neg |-> neg /\ d # MpZero, d |-> d]

mw_mp_cmp_z(a) == IF a.neg THEN -1 ELSE IF a.d = MpZero THEN 0 ELSE 1

mw_mp_cmp(a, b) ==
    IF a.neg = b.neg
    THEN (IF a.neg THEN -1 ELSE 1) * s_mw_mp_cmp(a.d, b.d)
    ELSE IF a.neg THEN -1 ELSE 1

mw_mp_add(a, b) ==
    LET cmp == s_mw_mp_cmp(a.d, b.d)
    IN  CASE a.neg = b.neg -> Signed(a.neg, s_mw_mp_add(a.d, b.d))
          [] a.neg # b.neg /\ cmp > 0 -> Signed(a.neg, s_mw_mp_sub(a.d, b.d))
          [] a.neg # b.neg /\ cmp = 0 -> MP_ZPOS(MpZero)
          [] a.neg # b.neg /\ cmp < 0 -> Signed(b.neg, s_mw_mp_sub(b.d, a.d))

mw_mp_sub(a, b) ==
    LET cmp == s_mw_mp_cmp(a.d, b.d)
    IN  CASE a.neg # b.neg -> Signed(a.neg, s_mw_mp_add(a.d, b.d))
          [] a.neg = b.neg /\ cmp > 0 -> Signed(a.neg, s_mw_mp_sub(a.d, b.d))
          [] a.neg = b.neg /\ cmp = 0 -> MP_ZPOS(MpZero)
          [] a.neg = b.neg /\ cmp < 0 -> Signed(~b.neg, s_mw_mp_sub(b.d, a.d))

mw_mp_mul(a, b) == Signed(a.neg # b.neg, s_mw_mp_mul(a.d, b.d))

mw_mp_sqr(a) == MP_ZPOS(s_mw_mp_sqr(a.d))

\* The remainder takes the sign of a.
WithSigns(a, b, qr) ==
    [q |-> Signed(a.neg # b.neg, qr.q), r |-> Signed(a.neg, qr.r)]

\* b # 0
mw_mp_div(a, b) ==
    LET cmp == s_mw_mp_cmp(a.d, b.d)
    IN  CASE cmp < 0 -> [q |-> MP_ZPOS(MpZero), r |-> a]
          [] cmp = 0 -> [q |-> Signed(a.neg # b.neg, << 1 >>),
                         r |-> MP_ZPOS(MpZero)]
          [] cmp > 0 -> WithSigns(a, b, s_mw_mp_div(a.d, b.d))

\* A negative difference is brought above zero by adding m once.
NotNegative(c, m) == IF c.neg THEN mw_mp_add(c, m) ELSE c

\* m > 0
mw_mp_mod(a, m) ==
    LET mag == s_mw_mp_cmp(a.d, m.d)
    IN  IF mag = 0 THEN MP_ZPOS(MpZero)
        ELSE NotNegative(IF mag > 0 THEN mw_mp_div(a, m).r ELSE a, m)

mw_mp_add_d(a, d) ==
    CASE ~a.neg -> MP_ZPOS(s_mw_mp_add_d(a.d, d))
      [] a.neg /\ s_mw_mp_cmp_d(a.d, d) >= 0 ->
           Signed(TRUE, s_mw_mp_sub_d(a.d, d))
      [] a.neg /\ s_mw_mp_cmp_d(a.d, d) < 0 -> MP_ZPOS(<< d - a.d[1] >>)

-----------------------------------------------------------------------------
(* The power                                                               *)

RECURSIVE Reduced(_, _)
Reduced(x, m) ==
    IF mw_mp_cmp(x, m) >= 0
    THEN Reduced([x EXCEPT !.d = s_mw_mp_sub(x.d, m.d)], m)
    ELSE x

\* mutant: a negative difference stays negative
ReduceBelowZero(x, m, mu) ==
    LET um == Len(m)
        q == s_mw_mp_rshd(s_mw_mp_mul(s_mw_mp_rshd(x, um - 1), mu), um + 1)
        low(d) == s_mw_mp_mod_2d(d, DIGIT_BIT * (um + 1))
    IN  Reduced(mw_mp_sub(MP_ZPOS(low(x)), MP_ZPOS(low(s_mw_mp_mul(q, m)))),
                MP_ZPOS(m)).d

\* Barrett's reduction of x modulo m, mu = RADIX^(2 * Len(m)) / m.
s_mw_mp_reduce(x, m, mu) ==
    LET um == Len(m)
        q == s_mw_mp_rshd(s_mw_mp_mul(s_mw_mp_rshd(x, um - 1), mu), um + 1)
        low(d) == s_mw_mp_mod_2d(d, DIGIT_BIT * (um + 1))
        diff == mw_mp_sub(MP_ZPOS(low(x)), MP_ZPOS(low(s_mw_mp_mul(q, m))))
    IN  Reduced(NotNegative(diff, MP_ZPOS(s_mw_mp_lshd(<< 1 >>, um + 1))),
                MP_ZPOS(m)).d

\* One bit of the exponent: the power takes the factor x if it is set.
PowerStep(sx, bit, m, mu) ==
    [s |-> IF bit = 0 THEN sx.s
           ELSE s_mw_mp_reduce(s_mw_mp_mul(sx.s, sx.x), m, mu),
     x |-> s_mw_mp_reduce(s_mw_mp_sqr(sx.x), m, mu)]

\* b >= 0 and m > 0.  The bits of b are taken from the lowest on: every bit
\* of a lower digit, and of the last one those up to its highest one.
mw_mp_exptmod(a, b, m) ==
    LET mu == mw_mp_div(MP_ZPOS(s_mw_mp_lshd(<< 1 >>, 2 * Len(m.d))), m).q.d
        bit(i) == (b.d[(i \div DIGIT_BIT) + 1] \div 2 ^ (i % DIGIT_BIT)) % 2
        bits == {i \in 0 .. Len(b.d) * DIGIT_BIT - 1 :
                   \/ i < (Len(b.d) - 1) * DIGIT_BIT
                   \/ Top(b.d) >= 2 ^ (i % DIGIT_BIT)}
        sx[n \in 0 .. Cardinality(bits)] ==
            IF n = 0 THEN [s |-> << 1 >>, x |-> mw_mp_mod(a, m).d]
            ELSE PowerStep(sx[n - 1], bit(n - 1), m.d, mu)
    IN  MP_ZPOS(sx[Cardinality(bits)].s)

-----------------------------------------------------------------------------
(* Conversions                                                             *)

\* Bytes, the most significant first, are shifted in one by one.
ReadBytes(bytes) ==
    LET d[n \in 0 .. Len(bytes)] ==
            IF n = 0 THEN MP_ZPOS(MpZero)
            ELSE LET was == d[n - 1]
                 IN  mw_mp_add_d([was EXCEPT !.d = s_mw_mp_mul_2d(@, CHAR_BIT)],
                                 bytes[n])
    IN  d[Len(bytes)]

mw_mp_read_unsigned_bin(bytes) == ReadBytes(bytes)

mw_mp_set_int(z) ==
    LET v == IF z < 0 THEN -z ELSE z
        bytes == [n \in 1..LongBytes |->
                    ByteOf(v, LongBytes - n)]
    IN  IF z = 0 THEN MP_ZPOS(MpZero) ELSE [ReadBytes(bytes) EXCEPT !.neg = z < 0]

\* How many bytes of digit d hold its bits.
BytesUsed(d) ==
    CHOOSE n \in 0..DigitBytes :
      /\ d < 2 ^ (n * CHAR_BIT)
      /\ n = 0 \/ d >= 2 ^ ((n - 1) * CHAR_BIT)

mw_mp_unsigned_bin_size(a) ==
    IF a.d = MpZero THEN 1 ELSE (Len(a.d) - 1) * DigitBytes + BytesUsed(Top(a.d))

\* The bytes of the digits from the lowest on, then reversed.
mw_mp_to_unsigned_bin(a) ==
    LET size == IF a.d = MpZero THEN 1
                ELSE (Len(a.d) - 1) * DigitBytes + BytesUsed(Top(a.d))
    IN  Reverse([n \in 1..size |->
                   ByteOf(a.d[((n - 1) \div DigitBytes) + 1],
                        (n - 1) % DigitBytes)])

-----------------------------------------------------------------------------
(* The integers the digits stand for, and the checks                       *)

ValueOf(a) ==
    LET v[i \in 0 .. Len(a.d)] ==
            IF i = 0 THEN 0 ELSE v[i - 1] + a.d[i] * RADIX ^ (i - 1)
    IN  IF a.neg THEN -v[Len(a.d)] ELSE v[Len(a.d)]

\* No leading zero, no digit above the radix, no negative zero.
Canonical(a) ==
    /\ a.d \in Seq(0 .. RADIX - 1)
    /\ a.d # << >>
    /\ Top(a.d) = 0 => a.d = MpZero /\ ~a.neg

Is(a, z) == Canonical(a) /\ ValueOf(a) = z

Abs(z) == IF z < 0 THEN -z ELSE z

MpiInit ==
    /\ operands \in Operands
    /\ tried = FALSE

MpiNext == ~tried /\ tried' = TRUE /\ UNCHANGED operands

\* Whatever the signs and lengths of the operands, the digit loops compute the
\* sum, the difference, the product, the square (whose inner product overflows
\* a word), the quotient rounded towards zero with the remainder that belongs
\* to it, the residue from 0 on, and bytes that read back as the number; and
\* the result has no leading zero and no negative zero (mpi.c).
MpiArithmetic ==
    tried =>
      LET x == operands[1]
          y == operands[2]
          a == mw_mp_set_int(x)
          b == mw_mp_set_int(y)
          qr == mw_mp_div(a, b)
          bytes == mw_mp_to_unsigned_bin(a)
      IN  /\ Is(a, x) /\ Is(b, y)
          /\ Is(mw_mp_add(a, b), x + y)
          /\ Is(mw_mp_sub(a, b), x - y)
          /\ Is(mw_mp_mul(a, b), x * y)
          /\ Is(mw_mp_sqr(a), x * x)
          /\ y # 0 =>
               /\ Canonical(qr.q) /\ Canonical(qr.r)
               /\ ValueOf(qr.q) * y + ValueOf(qr.r) = x
               /\ Abs(ValueOf(qr.r)) < Abs(y)
               /\ ValueOf(qr.r) = 0 \/ (ValueOf(qr.r) < 0 <=> x < 0)
          /\ y > 0 => Is(mw_mp_mod(a, b), x % y)
          /\ Len(bytes) = mw_mp_unsigned_bin_size(a)
          /\ Is(mw_mp_read_unsigned_bin(bytes), Abs(x))

\* The power modulo m by squaring, with a Barrett reduction instead of a
\* division after every product, is the power (mw_mp_exptmod).
MpiPower ==
    tried =>
      LET x == operands[1]
          y == operands[2]
          m == operands[3]
          power[n \in 0 .. Abs(y)] ==
              IF n = 0 THEN 1 % m
              ELSE LET half == power[n \div 2]
                   IN  (((half * half) % m) * (IF n % 2 = 1 THEN x % m ELSE 1)) % m
      IN  y >= 0 => Is(mw_mp_exptmod(mw_mp_set_int(x), mw_mp_set_int(y),
                                     mw_mp_set_int(m)), power[y])

\* What cipher.c computes with mpi.c is what it means to compute.
MpiCorrect == MpiArithmetic /\ MpiPower
=============================================================================
