------------------------------ MODULE Codecs ------------------------------
(***************************************************************************)
(* The block buffer of crypto/sha256.c and crypto/md5.c, which are the     *)
(* same up to the order of the length bytes, and crypto/base64.c.          *)
(*                                                                         *)
(* The mixing of a block (sha256_consume(), md5_consume()) is not          *)
(* modelled: blocks is the sequence of blocks that it gets.  A byte of the *)
(* message is 256 + its place, so that it differs from the padding.        *)
(***************************************************************************)
EXTENDS Integers, Sequences

CONSTANTS
  MaxMessage,  \* bytes of a message
  MaxSegment   \* bytes of one call

ASSUME CodecsConstants == {MaxMessage, MaxSegment} \subseteq Nat

BLOCK  == 64
LENPOS == 56

VARIABLES
  hash,     \* Sha256State or Md5State: [buf, buflen, totallen, blocks]
  order,    \* of the length bytes: "big" for sha256, "little" for md5
  fed,      \* bytes of the message so far
  left,     \* bytes of the current call that are not copied yet
  hashed    \* has sha256_done() or md5_done() returned?

hashVars == <<hash, order, fed, left, hashed>>

Empty == [buf |-> [k \in 0 .. BLOCK - 1 |-> 0], buflen |-> 0, totallen |-> 0, blocks |-> << >>]

MIN(a, b) == IF a < b THEN a ELSE b

Consume(h) == [h EXCEPT !.blocks = Append(@, [k \in 1 .. BLOCK |-> h.buf[k - 1]])]

\* os_memcpy() and os_bzero() on buf.
Fill(buf, from, bytes) ==
  [k \in DOMAIN buf |-> IF k - from \in DOMAIN bytes THEN bytes[k - from] ELSE buf[k]]

Zeros(n) == [k \in 0 .. n - 1 |-> 0]

\* The bytes of the length, which is counted in 32 bits.
LenByte(ord, total, k) ==
  LET p == IF ord = "big" THEN 7 - k ELSE k
  IN  IF p > 3 THEN 0 ELSE (total \div 256 ^ p) % 256

\* Mutant: a block with no room for the length is not finished.
Padded_OffByOne(h) ==
  LET g == [h EXCEPT !.buf = Fill(@, h.buflen, [k \in {0} |-> 128]), !.totallen = @ + h.buflen]
  IN  IF h.buflen <= LENPOS
      THEN [g EXCEPT !.buf = Fill(@, h.buflen + 1, Zeros(LENPOS - h.buflen - 1))]
      ELSE [Consume([g EXCEPT !.buf = Fill(@, h.buflen + 1, Zeros(BLOCK - h.buflen - 1))])
              EXCEPT !.buf = Fill(@, 0, Zeros(LENPOS))]

\* The mark behind the message, and zeros up to the place of the length.
Padded(h) ==
  LET g == [h EXCEPT !.buf = Fill(@, h.buflen, [k \in {0} |-> 128]), !.totallen = @ + h.buflen]
  IN  IF h.buflen < LENPOS
      THEN [g EXCEPT !.buf = Fill(@, h.buflen + 1, Zeros(LENPOS - h.buflen - 1))]
      ELSE [Consume([g EXCEPT !.buf = Fill(@, h.buflen + 1, Zeros(BLOCK - h.buflen - 1))])
              EXCEPT !.buf = Fill(@, 0, Zeros(LENPOS))]

Done(h, ord) ==
  LET g == Padded(h)
  IN  Consume([g EXCEPT !.buf = Fill(@, LENPOS, [k \in 0 .. 7 |-> LenByte(ord, 8 * g.totallen, k)])])

HashInit == hash = Empty /\ order \in {"big", "little"} /\ fed = 0 /\ left = 0 /\ hashed = FALSE

\* sha256_proc() and md5_proc() are called with n bytes.
hash_proc(n) ==
  /\ ~hashed /\ left = 0 /\ fed + n <= MaxMessage /\ left' = n
  /\ UNCHANGED <<hash, order, fed, hashed>>

\* One turn of their loop: the block is filled, and consumed when it is full.
hash_turn ==
  /\ left > 0
  /\ LET n == MIN(BLOCK - hash.buflen, left)
         g == [hash EXCEPT !.buf = Fill(@, hash.buflen, [k \in 0 .. n - 1 |-> 256 + fed + k]), !.buflen = @ + n]
     IN  /\ hash' = IF g.buflen < BLOCK THEN g
                    ELSE [Consume(g) EXCEPT !.buflen = 0, !.totallen = @ + BLOCK]
         /\ fed' = fed + n /\ left' = left - n
  /\ UNCHANGED <<order, hashed>>

hash_done ==
  /\ ~hashed /\ left = 0 /\ hash' = Done(hash, order) /\ hashed' = TRUE
  /\ UNCHANGED <<order, fed, left>>

hash_init ==
  /\ hashed /\ hash' = Empty /\ fed' = 0 /\ hashed' = FALSE
  /\ order' \in {"big", "little"} /\ UNCHANGED left

HashNext == (\E n \in 0 .. MaxSegment : hash_proc(n)) \/ hash_turn \/ hash_done \/ hash_init

HashSpec == HashInit /\ [][HashNext]_hashVars

-----------------------------------------------------------------------------
(* base64.  A result is [rv, bytes].                                       *)

Pad == 61

encmap(b) ==
  IF b <= 25 THEN 65 + b ELSE IF b <= 51 THEN 97 + b - 26
  ELSE IF b <= 61 THEN 48 + b - 52 ELSE IF b = 62 THEN 43 ELSE 47

decmap(c) ==
  IF c \in 65 .. 90 THEN c - 65 ELSE IF c \in 97 .. 122 THEN c - 97 + 26
  ELSE IF c \in 48 .. 57 THEN c - 48 + 52 ELSE IF c = 43 THEN 62 ELSE IF c = 47 THEN 63 ELSE 0

Byte(s, i) == IF i \in DOMAIN s THEN s[i] ELSE 0

\* Four characters for three bytes, the last ones padded.
b64_encode(dec, elen) ==
  LET groups == (Len(dec) + 2) \div 3
      v(g)   == 65536 * Byte(dec, 3 * g + 1) + 256 * Byte(dec, 3 * g + 2) + Byte(dec, 3 * g + 3)
      char(g, k) == IF 3 * g + k > Len(dec) THEN Pad ELSE encmap((v(g) \div 64 ^ (3 - k)) % 64)
  IN  IF elen < 4 * groups THEN [rv |-> -1, bytes |-> << >>]
      ELSE [rv |-> 4 * groups,
            bytes |-> [j \in 1 .. 4 * groups |-> char((j - 1) \div 4, (j - 1) % 4)]]

Alphabet == (65 .. 90) \cup (97 .. 122) \cup (48 .. 57) \cup {43, 47, Pad}

\* Bytes that the last group stands for.
LastGroup(enc) ==
  LET n == Len(enc)
  IN  IF enc[n - 1] = Pad /\ enc[n] = Pad THEN 1 ELSE IF enc[n] = Pad THEN 2 ELSE 3

b64_decode(enc, dlen) ==
  LET n      == Len(enc)
      len    == IF n = 0 THEN 0 ELSE 3 * (n \div 4) - 3 + LastGroup(enc)
      v(g)   == 262144 * decmap(enc[4 * g + 1]) + 4096 * decmap(enc[4 * g + 2])
                + 64 * decmap(enc[4 * g + 3]) + decmap(enc[4 * g + 4])
  IN  IF n % 4 # 0 \/ \E i \in DOMAIN enc : enc[i] \notin Alphabet
      THEN [rv |-> -2, bytes |-> << >>]
      ELSE IF 3 * (n \div 4) > dlen THEN [rv |-> -1, bytes |-> << >>]
      ELSE [rv |-> len,
            bytes |-> [j \in 1 .. len |-> (v((j - 1) \div 3) \div 256 ^ (2 - ((j - 1) % 3))) % 256]]

-----------------------------------------------------------------------------

\* The padded message, as the standards define it.
Message(n, ord) ==
  LET zeros == CHOOSE z \in 0 .. BLOCK - 1 : (n + 1 + z) % BLOCK = LENPOS
  IN  [k \in 1 .. n + 1 + zeros + 8 |->
         IF k <= n THEN 255 + k ELSE IF k = n + 1 THEN 128 ELSE IF k <= n + 1 + zeros THEN 0
         ELSE LenByte(ord, 8 * n, k - n - zeros - 2)]

\* However a message is cut into calls of sha256_proc() or md5_proc(), the blocks that are
\* mixed are those of the padded message, each once and in order, for every length around the
\* end of a block and around the place of the length.
HashBlocks ==
  hashed =>
    /\ Len(hash.blocks) * BLOCK = Len(Message(fed, order))
    /\ \A i \in DOMAIN hash.blocks : \A k \in 1 .. BLOCK :
         hash.blocks[i][k] = Message(fed, order)[BLOCK * (i - 1) + k]

\* b64_encode() needs exactly the room of its result, and b64_decode() gives back what was
\* encoded, but wants room for the padding too.
RoundTrip(dec, room) ==
  LET e == b64_encode(dec, room)
      d == b64_decode(e.bytes, room)
  IN  /\ e.rv >= 0 <=> room >= 4 * ((Len(dec) + 2) \div 3)
      /\ e.rv >= 0 => d = [rv |-> Len(dec), bytes |-> dec]
=============================================================================
