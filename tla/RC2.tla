-------------------------------- MODULE RC2 --------------------------------
(***************************************************************************)
(* The block cipher of cipher.c: expansion of a key, a block of 8 bytes,   *)
(* and messages in cipher block chaining with their padding.  A block is   *)
(* worked on as four words of 16 bits, << d, c, b, a >>; the code keeps    *)
(* them in ints whose higher bits it never looks at.                       *)
(***************************************************************************)
EXTENDS Integers, Sequences, Bitwise

PT == <<
    217, 120, 249, 196,  25, 221, 181, 237,  40, 233, 253, 121,  74, 160, 216, 157,
    198, 126,  55, 131,  43, 118,  83, 142,  98,  76, 100, 136,  68, 139, 251, 162,
     23, 154,  89, 245, 135, 179,  79,  19,  97,  69, 109, 141,   9, 129, 125,  50,
    189, 143,  64, 235, 134, 183, 123,  11, 240, 149,  33,  34,  92, 107,  78, 130,
     84, 214, 101, 147, 206,  96, 178,  28, 115,  86, 192,  20, 167, 140, 241, 220,
     18, 117, 202,  31,  59, 190, 228, 209,  66,  61, 212,  48, 163,  60, 182,  38,
    111, 191,  14, 218,  70, 105,   7,  87,  39, 242,  29, 155, 188, 148,  67,   3,
    248,  17, 199, 246, 144, 239,  62, 231,   6, 195, 213,  47, 200, 102,  30, 215,
      8, 232, 234, 222, 128,  82, 238, 247, 132, 170, 114, 172,  53,  77, 106,  42,
    150,  26, 210, 113,  90,  21,  73, 116,  75, 159, 208,  94,   4,  24, 164, 236,
    194, 224,  65, 110,  15,  81, 203, 204,  36, 145, 175,  80, 161, 244, 112,  57,
    153, 124,  58, 133,  35, 184, 180, 122, 252,   2,  54,  91,  37,  85, 151,  49,
     45,  93, 250, 152, 227, 138, 146, 174,   5, 223,  41,  16, 103, 108, 186, 201,
    211,   0, 230, 207, 225, 158, 168,  44,  99,  22,   1,  63,  88, 226, 137, 169,
     13,  56,  52,  27, 171,  51, 255, 176, 187,  72,  12,  95, 185, 177, 205,  46,
    197, 243, 219,  71, 229, 165, 156, 119,  10, 166,  32, 104, 254, 127, 193, 173 >>

Word16 == 65536

mwIV_init == << 1, 35, 69, 103, 137, 171, 205, 239 >>

\* tmp[n]: the first n bytes of the expanded key; its 64 words
mwKeyExpand(key) ==
    LET keylen == IF Len(key) > 128 THEN 128 ELSE Len(key)
        tmp[n \in keylen..128] ==
            IF n = keylen THEN SubSeq(key, 1, keylen)
            ELSE LET was == tmp[n - 1]
                 IN  Append(was, PT[((was[n - 1] + was[n - keylen]) % 256) + 1])
        bytes == [tmp[128] EXCEPT ![1] = PT[@ + 1]]
    IN  << >> \o [i \in 1..64 |-> bytes[2 * i - 1] + 256 * bytes[2 * i]]

\* The word k places before word i, and how far word i is rotated.
Before(r, i, k) == r[((i + 3 - k) % 4) + 1]
Turn(i) == << 1, 2, 3, 5 >>[i]

Rotated(x, n) == ((x * 2 ^ n) % Word16) + (x \div 2 ^ (16 - n))

\* What word i is mixed with: every bit of the word before it chooses between
\* a bit of the two words before that.
Mixture(r, i) ==
    LET prev == Before(r, i, 1)
    IN  (Before(r, i, 3) & (65535 - prev)) + (Before(r, i, 2) & prev)

MixWord(ekey, r, i, round) ==
    [r EXCEPT ![i] =
       Rotated((@ + Mixture(r, i) + ekey[4 * round + i]) % Word16, Turn(i))]

UnmixWord(ekey, r, i, round) ==
    [r EXCEPT ![i] =
       (Rotated(@, 16 - Turn(i)) - Mixture(r, i) - ekey[4 * round + i]) % Word16]

MashWord(ekey, r, i) ==
    [r EXCEPT ![i] = (@ + ekey[(Before(r, i, 1) % 64) + 1]) % Word16]

UnmashWord(ekey, r, i) ==
    [r EXCEPT ![i] = (@ - ekey[(Before(r, i, 1) % 64) + 1]) % Word16]

EncryptRound(ekey, r, round) ==
    LET mixed[i \in 0..4] ==
            IF i = 0 THEN r ELSE MixWord(ekey, mixed[i - 1], i, round)
        mashed[i \in 0..4] ==
            IF i = 0 THEN mixed[4] ELSE MashWord(ekey, mashed[i - 1], i)
    IN  IF round \in {4, 10} THEN mashed[4] ELSE mixed[4]

DecryptRound(ekey, r, round) ==
    LET unmixed[i \in 1..5] ==
            IF i = 5 THEN r ELSE UnmixWord(ekey, unmixed[i + 1], i, round)
        unmashed[i \in 1..5] ==
            IF i = 5 THEN unmixed[1] ELSE UnmashWord(ekey, unmashed[i + 1], i)
    IN  IF round \in {5, 11} THEN unmashed[1] ELSE unmixed[1]

WordsOf(block) == << >> \o [i \in 1..4 |-> block[2 * i - 1] + 256 * block[2 * i]]
BytesOf(r) ==
    << >> \o [i \in 1..8 |-> IF i % 2 = 1 THEN r[(i + 1) \div 2] % 256
                                          ELSE r[i \div 2] \div 256]

mwEncryptBlock(ekey, block) ==
    LET r[n \in 0..16] == IF n = 0 THEN WordsOf(block)
                          ELSE EncryptRound(ekey, r[n - 1], n - 1)
    IN  BytesOf(r[16])

mwDecryptBlock(ekey, block) ==
    LET r[n \in 0..16] == IF n = 16 THEN WordsOf(block)
                          ELSE DecryptRound(ekey, r[n + 1], n)
    IN  BytesOf(r[0])

XorBytes(x, y) == << >> \o [i \in 1..8 |-> x[i] ^^ y[i]]
BlockOf(bytes, k) == SubSeq(bytes, 8 * k - 7, 8 * k)

\* [iv, data]: the vector is left at the last block for the next message.
mwEncryptExpanded(ekey, iv, in) ==
    LET pad == 8 - (Len(in) % 8)
        padded == in \o [x \in 1..pad |-> pad]
        out[k \in 0 .. Len(padded) \div 8] ==
            IF k = 0 THEN [iv |-> iv, data |-> << >>]
            ELSE LET was == out[k - 1]
                     block == mwEncryptBlock(ekey,
                                             XorBytes(BlockOf(padded, k), was.iv))
                 IN  [iv |-> block, data |-> was.data \o block]
    IN  out[Len(padded) \div 8]

\* What is handed on when memory beyond the message is read: no bytes.
Overrun == << 256 >>

\* The last byte says how much of the end is padding, and a length below it
\* goes round.  The sizes mwEncryptExpanded never gives are not refused: of an
\* empty message the byte before it is taken for the padding, and a last block
\* that is not whole is decrypted with what lies behind it.
mwDecryptExpanded(ekey, iv, in) ==
    LET out[k \in 0 .. Len(in) \div 8] ==
            IF k = 0 THEN << >>
            ELSE out[k - 1] \o
                   XorBytes(mwDecryptBlock(ekey, BlockOf(in, k)),
                            IF k = 1 THEN iv ELSE BlockOf(in, k - 1))
        all == out[Len(in) \div 8]
        filler == all[Len(all)]
    IN  IF in = << >> THEN [iv |-> iv, data |-> Overrun]
        ELSE IF Len(in) % 8 # 0 THEN [iv |-> Overrun, data |-> Overrun]
        ELSE [iv |-> BlockOf(in, Len(in) \div 8),
              data |-> IF filler > Len(all) THEN Overrun
                       ELSE SubSeq(all, 1, Len(all) - filler)]
=============================================================================
