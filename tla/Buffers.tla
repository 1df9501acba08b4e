------------------------------ MODULE Buffers ------------------------------
(***************************************************************************)
(* The put and get buffers of common.c and the five kinds of value that    *)
(* every message is made of: 16 and 32 bit numbers (big endian), booleans, *)
(* strings and opaques.  A put buffer is what has been written (data) and  *)
(* the bytes allocated for it (len).  A get buffer is its bytes (buf), how *)
(* many of them are read (ptr) and the error flag, which once set makes    *)
(* every get a no-op that leaves the caller's value as it was.             *)
(*                                                                         *)
(* gboolean is 0 or 1.  A NULL pointer and an empty string or opaque are   *)
(* all <<>>: they are written alike, and read as NULL.                     *)
(***************************************************************************)
EXTENDS Integers, Sequences

Byte == 0 .. 255

MW16_PUT(val) == << (val \div 256) % 256, val % 256 >>
MW16_GET(s) == 256 * s[1] + s[2]
MW32_PUT(val) == MW16_PUT(val \div 65536) \o MW16_PUT(val)
MW32_GET(s) == 65536 * MW16_GET(s) + MW16_GET(SubSeq(s, 3, 4))

-----------------------------------------------------------------------------
(* Put buffers. *)

mwPutBuffer_new == [data |-> << >>, len |-> 0]

\* How often a buffer may double: 2^22 times 1024 bytes is all that is left
\* of the 32 bits.
Doublings == 0 .. 20

\* One byte short: the buffer is doubled as if one byte less were needed.
ensure_less(b, needed) ==
    LET use == Len(b.data)
        len == IF b.len = 0 THEN 1024 ELSE b.len
        times == CHOOSE k \in Doublings :
                    /\ 2^k * len - use >= needed - 1
                    /\ \A j \in 0 .. k - 1 : 2^j * len - use < needed - 1
    IN  IF b.len - use >= needed - 1 THEN b ELSE [b EXCEPT !.len = 2^times * len]

\* Doubles the allocation, which starts with 1024 bytes, until needed more
\* bytes fit.
ensure_buffer(b, needed) ==
    LET use == Len(b.data)
        len == IF b.len = 0 THEN 1024 ELSE b.len
        times == CHOOSE k \in Doublings :
                    /\ 2^k * len - use >= needed
                    /\ \A j \in 0 .. k - 1 : 2^j * len - use < needed
    IN  IF b.len - use >= needed THEN b ELSE [b EXCEPT !.len = 2^times * len]

mwPutBuffer_write(b, bytes) ==
    IF bytes = << >> THEN b
    ELSE [ensure_buffer(b, Len(bytes)) EXCEPT !.data = @ \o bytes]

guint16_put(b, val) == mwPutBuffer_write(b, MW16_PUT(val))

guint32_put(b, val) == mwPutBuffer_write(b, MW32_PUT(val))

gboolean_put(b, val) == mwPutBuffer_write(b, << IF val = 0 THEN 0 ELSE 1 >>)

\* The length is cut to 16 bits, the string is not.
mwString_put(b, val) == mwPutBuffer_write(guint16_put(b, Len(val) % 65536), val)

mwOpaque_put(b, o) == mwPutBuffer_write(guint32_put(b, Len(o)), o)

-----------------------------------------------------------------------------
(* Get buffers.  A get returns the buffer behind the value and the value;  *)
(* old is what the caller's variable holds before.                         *)

mwGetBuffer_wrap(bytes) == [buf |-> bytes, ptr |-> 0, error |-> FALSE]

mwGetBuffer_remaining(b) == Len(b.buf) - b.ptr

\* The next n bytes.  Those past the end of the buffer, which only a check
\* that was left out would read, are zero.
Ahead(b, n) ==
    [i \in 1 .. n |-> IF b.ptr + i <= Len(b.buf) THEN b.buf[b.ptr + i] ELSE 0]

\* A get moves on by what it has read, whether or not that much was there.
Moved(b, n) == [b EXCEPT !.ptr = @ + n]

\* One byte less than is read is enough.
check_short(b, needed) ==
    [b EXCEPT !.error = @ \/ mwGetBuffer_remaining(b) < needed - 1]

\* The check does not keep an error that is already there.
check_again(b, needed) == [b EXCEPT !.error = mwGetBuffer_remaining(b) < needed]

check_buffer(b, needed) ==
    [b EXCEPT !.error = @ \/ mwGetBuffer_remaining(b) < needed]

\* Fewer bytes than asked for are no error here.
mwGetBuffer_advance(b, len) ==
    LET rem == mwGetBuffer_remaining(b)
    IN  IF b.error THEN b
        ELSE [b EXCEPT !.ptr = @ + (IF rem < len THEN rem ELSE len)]

guint16_get(b, old) ==
    LET c == check_buffer(b, 2)
    IN  IF c.error THEN [b |-> c, val |-> old]
        ELSE [b |-> Moved(c, 2), val |-> MW16_GET(Ahead(c, 2))]

guint32_get(b, old) ==
    LET c == check_buffer(b, 4)
    IN  IF c.error THEN [b |-> c, val |-> old]
        ELSE [b |-> Moved(c, 4), val |-> MW32_GET(Ahead(c, 4))]

gboolean_get(b, old) ==
    LET c == check_buffer(b, 1)
    IN  IF c.error THEN [b |-> c, val |-> old]
        ELSE [b |-> Moved(c, 1),
              val |-> IF Ahead(c, 1) = << 0 >> THEN 0 ELSE 1]

mwString_get(b) ==
    LET n == guint16_get(b, 0)
        c == check_buffer(n.b, n.val)
    IN  IF c.error THEN [b |-> c, val |-> << >>]
        ELSE [b |-> Moved(c, n.val), val |-> Ahead(c, n.val)]

mwOpaque_get(b) ==
    LET n == guint32_get(b, 0)
        c == check_buffer(n.b, n.val)
    IN  IF c.error THEN [b |-> c, val |-> << >>]
        ELSE [b |-> Moved(c, n.val), val |-> Ahead(c, n.val)]
=============================================================================
