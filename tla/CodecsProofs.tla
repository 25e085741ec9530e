---------------------------- MODULE CodecsProofs ----------------------------
(***************************************************************************)
(* The block buffer of the hashes, for messages of every length and calls  *)
(* of every size: what is mixed is the padded message.  And base64: texts  *)
(* of every length come back from their encoding.                          *)
(***************************************************************************)
EXTENDS Codecs, TLAPS

Bytes == [0 .. 63 -> Nat]

Block == [1 .. 64 -> Nat]

State(buf, r, t, bl) == [buf |-> buf, buflen |-> r, totallen |-> t, blocks |-> bl]

\* The consumed blocks are the first bytes of the message.
Consumed(bl) == \A i \in 1 .. Len(bl) : \A k \in 1 .. 64 : bl[i][k] = 255 + 64 * (i - 1) + k

\* The buffer goes on where the blocks end, with r bytes.
Buffered(buf, r, t) == \A k \in 0 .. 63 : k < r => buf[k] = 256 + t + k

\* Before sha256_done() the blocks and the buffer together are the n bytes so far.
Prefix(h, n) ==
  \E buf \in Bytes, r \in 0 .. 63, t \in Nat, bl \in Seq(Block) :
    /\ h = State(buf, r, t, bl) /\ t = 64 * Len(bl) /\ n = t + r
    /\ Consumed(bl) /\ Buffered(buf, r, t)

IInv ==
  /\ left \in Nat /\ hashed \in BOOLEAN
  /\ hashed = FALSE => Prefix(hash, fed)
  /\ hashed = TRUE => left = 0 /\ HashBlocks

-----------------------------------------------------------------------------
(* The buffer and the sequence of blocks.                                  *)

\* A block is added behind the others, which stay.
LEMMA AppendAny ==
  ASSUME NEW S, NEW s \in Seq(S), NEW e
  PROVE  /\ Append(s, e) \in Seq(S \cup {e}) /\ Len(Append(s, e)) = Len(s) + 1
         /\ \A i \in 1 .. Len(s) : Append(s, e)[i] = s[i]
         /\ Append(s, e)[Len(s) + 1] = e
<1>1. s \in Seq(S \cup {e})
  OBVIOUS
<1> QED BY <1>1

\* Fields of a state.
LEMMA Fields ==
  ASSUME NEW buf, NEW r, NEW t, NEW bl
  PROVE  /\ State(buf, r, t, bl).buf = buf /\ State(buf, r, t, bl).buflen = r
         /\ State(buf, r, t, bl).totallen = t /\ State(buf, r, t, bl).blocks = bl
BY DEF State

\* What assignments to them leave.
LEMMA SetBuf ==
  ASSUME NEW buf, NEW r, NEW t, NEW bl, NEW x
  PROVE  [State(buf, r, t, bl) EXCEPT !.buf = x] = State(x, r, t, bl)
BY DEF State

\* Of the blocks,
LEMMA SetBlocks ==
  ASSUME NEW buf, NEW r, NEW t, NEW bl, NEW x
  PROVE  [State(buf, r, t, bl) EXCEPT !.blocks = x] = State(buf, r, t, x)
BY DEF State

\* of the length,
LEMMA SetLen ==
  ASSUME NEW buf, NEW r, NEW t, NEW bl, NEW x
  PROVE  [State(buf, r, t, bl) EXCEPT !.buflen = x] = State(buf, x, t, bl)
BY DEF State

\* and of the bytes that are consumed.
LEMMA SetTotal ==
  ASSUME NEW buf, NEW r, NEW t, NEW bl, NEW x
  PROVE  [State(buf, r, t, bl) EXCEPT !.totallen = x] = State(buf, r, x, bl)
BY DEF State

\* The buffer becomes a block.
LEMMA ConsumeIs ==
  ASSUME NEW buf, NEW r, NEW t, NEW bl
  PROVE  Consume(State(buf, r, t, bl)) = State(buf, r, t, Append(bl, [k \in 1 .. 64 |-> buf[k - 1]]))
<1>1. PICK c : c = [k \in 1 .. 64 |-> buf[k - 1]]
  OBVIOUS
<1>2. PICK s : s = State(buf, r, t, bl)
  OBVIOUS
<1>3. s.buf = buf /\ s.blocks = bl
  BY <1>2, Fields
<1>4. [k \in 1 .. 64 |-> s.buf[k - 1]] = c
  BY <1>1, <1>3
<1>5. PICK new : new = Append(bl, c)
  OBVIOUS
<1>6. Consume(s) = [s EXCEPT !.blocks = new]
  BY <1>3, <1>4, <1>5 DEF Consume, BLOCK
<1>7. [State(buf, r, t, bl) EXCEPT !.blocks = new] = State(buf, r, t, new)
  BY SetBlocks
<1> QED BY <1>1, <1>2, <1>5, <1>6, <1>7

-----------------------------------------------------------------------------
(* The calls before sha256_done().                                         *)

\* A state that holds a prefix of the message.
LEMMA IsPrefix ==
  ASSUME NEW buf \in Bytes, NEW r \in 0 .. 63, NEW bl \in Seq(Block), NEW t \in Nat, NEW h, NEW n,
         h = State(buf, r, t, bl), t = 64 * Len(bl), n = t + r, Consumed(bl), Buffered(buf, r, t)
  PROVE  Prefix(h, n)
BY Zenon DEF Prefix

\* sha256_init() and the start of the program: an empty buffer begins every message.
LEMMA EmptyPrefix == Prefix(Empty, 0)
<1> DEFINE z == [k \in 0 .. 63 |-> 0]
<1>1. z \in Bytes
  BY DEF Bytes
<1>2. << >> \in Seq(Block) /\ Len(<< >>) = 0
  OBVIOUS
<1>3. Empty = State(z, 0, 0, << >>)
  BY DEF Empty, BLOCK, State
<1>4. Consumed(<< >>) /\ Buffered(z, 0, 0)
  BY DEF Consumed, Buffered
<1> HIDE DEF z
<1>5. 0 \in 0 .. 63 /\ 0 \in Nat /\ 0 = 64 * Len(<< >>) /\ 0 = 0 + 0
  BY <1>2
<1> QED BY <1>1, <1>2, <1>3, <1>4, <1>5, IsPrefix, Zenon

\* The hash starts within the invariant.
LEMMA InitIInv == HashInit => IInv
<1> SUFFICES ASSUME HashInit PROVE IInv
  OBVIOUS
<1>1. Prefix(hash, fed)
  BY EmptyPrefix DEF HashInit
<1>2. left = 0 /\ hashed = FALSE
  BY DEF HashInit
<1> QED BY <1>1, <1>2 DEF IInv

\* Bytes of the message behind those that the buffer has.
LEMMA Copied ==
  ASSUME NEW buf \in Bytes, NEW r \in 0 .. 63, NEW t \in Nat, NEW n \in Nat, r + n <= 64,
         Buffered(buf, r, t), NEW b, DOMAIN b = 0 .. n - 1,
         \A k \in 0 .. n - 1 : b[k] = 256 + (t + r) + k
  PROVE  Fill(buf, r, b) \in Bytes /\ Buffered(Fill(buf, r, b), r + n, t)
<1> DEFINE f == Fill(buf, r, b)
<1>1. DOMAIN buf = 0 .. 63 /\ DOMAIN b = 0 .. n - 1 /\ r \in Nat
  BY DEF Bytes
<1>2. /\ f = [k \in 0 .. 63 |-> f[k]]
      /\ \A k \in 0 .. 63 : k - r \in DOMAIN b => f[k] = b[k - r]
      /\ \A k \in 0 .. 63 : k - r \notin DOMAIN b => f[k] = buf[k]
  BY <1>1 DEF Fill
<1> HIDE DEF f
<1>3. \A k \in 0 .. 63 : buf[k] \in Nat
  BY DEF Bytes
<1>4. \A k \in 0 .. 63 : k < r + n => f[k] = 256 + t + k
  <2> SUFFICES ASSUME NEW k \in 0 .. 63, k < r + n PROVE f[k] = 256 + t + k
    OBVIOUS
  <2>1. CASE k < r
    <3>1. k - r \notin 0 .. n - 1
      BY <2>1
    <3>2. f[k] = buf[k]
      BY <1>1, <1>2, <3>1
    <3>3. buf[k] = 256 + t + k
      BY <2>1 DEF Buffered
    <3> QED BY <3>2, <3>3
  <2>2. CASE ~(k < r)
    <3>1. k - r \in 0 .. n - 1
      BY <2>2
    <3>2. f[k] = b[k - r]
      BY <1>1, <1>2, <3>1
    <3>3. b[k - r] = 256 + (t + r) + (k - r)
      BY <3>1
    <3> QED BY <3>2, <3>3
  <2> QED BY <2>1, <2>2
<1>5. \A k \in 0 .. 63 : ~(k < r + n) => f[k] = buf[k]
  <2> SUFFICES ASSUME NEW k \in 0 .. 63, ~(k < r + n) PROVE f[k] = buf[k]
    OBVIOUS
  <2>1. k - r \notin 0 .. n - 1
    OBVIOUS
  <2> QED BY <1>1, <1>2, <2>1
<1>6. \A k \in 0 .. 63 : f[k] \in Nat
  <2> SUFFICES ASSUME NEW k \in 0 .. 63 PROVE f[k] \in Nat
    OBVIOUS
  <2>1. CASE k < r + n
    <3>1. f[k] = 256 + t + k
      BY <1>4, <2>1
    <3> QED BY <3>1
  <2>2. CASE ~(k < r + n)
    BY <1>3, <1>5, <2>2
  <2> QED BY <2>1, <2>2
<1>7. f \in Bytes
  BY <1>2, <1>6 DEF Bytes
<1>8. Buffered(f, r + n, t)
  BY <1>4 DEF Buffered
<1> QED BY <1>7, <1>8 DEF f

\* A full buffer is the next block.
LEMMA BlockAdded ==
  ASSUME NEW bl \in Seq(Block), Consumed(bl), NEW buf \in Bytes, Buffered(buf, 64, 64 * Len(bl))
  PROVE  LET new == Append(bl, [k \in 1 .. 64 |-> buf[k - 1]])
         IN  new \in Seq(Block) /\ Len(new) = Len(bl) + 1 /\ Consumed(new)
<1> DEFINE c == [k \in 1 .. 64 |-> buf[k - 1]]
<1>1. PICK m \in Nat : m = Len(bl)
  OBVIOUS
<1>2. c \in Block
  BY DEF Block, Bytes
<1>3. \A k \in 1 .. 64 : c[k] = 255 + 64 * m + k
  <2> SUFFICES ASSUME NEW k \in 1 .. 64 PROVE c[k] = 255 + 64 * m + k
    OBVIOUS
  <2>1. k - 1 \in 0 .. 63 /\ k - 1 < 64
    OBVIOUS
  <2>2. buf[k - 1] = 256 + 64 * m + (k - 1)
    BY <1>1, <2>1 DEF Buffered
  <2> QED BY <2>2
<1> HIDE DEF c
<1>4. Append(bl, c) \in Seq(Block)
  BY <1>2
<1>5. /\ Len(Append(bl, c)) = m + 1 /\ Append(bl, c)[m + 1] = c
      /\ \A i \in 1 .. m : Append(bl, c)[i] = bl[i]
  BY <1>1, AppendAny
<1>6. ASSUME NEW i \in 1 .. m + 1, NEW k \in 1 .. 64
      PROVE  Append(bl, c)[i][k] = 255 + 64 * (i - 1) + k
  <2>1. CASE i = m + 1
    <3>1. Append(bl, c)[i] = c
      BY <1>5, <2>1
    <3>2. c[k] = 255 + 64 * m + k
      BY <1>3
    <3> QED BY <3>1, <3>2, <2>1
  <2>2. CASE i # m + 1
    <3>1. i \in 1 .. m
      BY <2>2
    <3>2. Append(bl, c)[i] = bl[i]
      BY <1>5, <3>1
    <3> QED BY <1>1, <3>1, <3>2 DEF Consumed
  <2> QED BY <2>1, <2>2
<1>7. Consumed(Append(bl, c))
  BY <1>5, <1>6 DEF Consumed
<1> QED BY <1>1, <1>4, <1>5, <1>7 DEF c

\* One turn of the loop of sha256_proc() copies as much as fits, and a full block is consumed.
LEMMA TurnPrefix ==
  ASSUME Prefix(hash, fed), left \in Nat, hash_turn PROVE Prefix(hash, fed)' /\ left' \in Nat
<1>1. PICK buf \in Bytes, r \in 0 .. 63, t \in Nat, bl \in Seq(Block) :
        /\ hash = State(buf, r, t, bl) /\ t = 64 * Len(bl) /\ fed = t + r
        /\ Consumed(bl) /\ Buffered(buf, r, t)
  BY DEF Prefix
<1>2. PICK l \in Nat : l = left /\ l > 0
  BY DEF hash_turn
<1>3. PICK n \in Nat : n = MIN(64 - r, l) /\ n > 0 /\ r + n <= 64 /\ n <= l
  BY <1>2 DEF MIN
<1>4. n \in Nat /\ r + n <= 64
  BY <1>3
<1>5. PICK b : b = [k \in 0 .. n - 1 |-> 256 + (t + r) + k]
  OBVIOUS
<1>6. PICK f : f = Fill(buf, r, b)
  OBVIOUS
<1>7. f \in Bytes /\ Buffered(f, r + n, t)
  BY Copied, <1>1, <1>3, <1>5, <1>6
<1>8. hash.buf = buf /\ hash.buflen = r /\ hash.totallen = t /\ hash.blocks = bl
  BY <1>1 DEF State
<1>9. PICK q \in 0 .. 64 : q = r + n
  <2>1. r + n \in 0 .. 64
    BY <1>4
  <2> QED BY <2>1
<1>10. PICK g : g = State(f, q, t, bl)
  OBVIOUS
<1>11. /\ fed' = t + q /\ left' = l - n
      /\ hash' = IF q < 64 THEN g ELSE [Consume(g) EXCEPT !.buflen = 0, !.totallen = @ + 64]
  <2>1. g.buflen = q
    BY <1>10, Fields
  <2>2. MIN(BLOCK - hash.buflen, left) = n
    BY <1>2, <1>3, <1>8 DEF BLOCK
  <2>3. [k \in 0 .. n - 1 |-> 256 + fed + k] = b
    BY <1>1, <1>5
  <2>4. [hash EXCEPT !.buf = Fill(@, hash.buflen, b), !.buflen = @ + n] = g
    <3>1. [hash EXCEPT !.buf = Fill(@, hash.buflen, b), !.buflen = @ + n]
            = [hash EXCEPT !.buf = f, !.buflen = q]
      BY <1>6, <1>8, <1>9
    <3>2. [hash EXCEPT !.buf = f, !.buflen = q] = [[hash EXCEPT !.buf = f] EXCEPT !.buflen = q]
      OBVIOUS
    <3>3. [hash EXCEPT !.buf = f] = State(f, r, t, bl)
      BY <1>1, SetBuf
    <3>4. [State(f, r, t, bl) EXCEPT !.buflen = q] = State(f, q, t, bl)
      BY SetLen
    <3> QED BY <3>1, <3>2, <3>3, <3>4, <1>10
  <2>5. fed' = fed + n /\ left' = left - n
    BY <2>2 DEF hash_turn
  <2>6. hash' = IF g.buflen < BLOCK THEN g ELSE [Consume(g) EXCEPT !.buflen = 0, !.totallen = @ + BLOCK]
    BY <2>2, <2>3, <2>4 DEF hash_turn
  <2>7. fed' = t + q /\ left' = l - n
    BY <1>1, <1>2, <1>9, <2>5
  <2> QED BY <2>1, <2>6, <2>7 DEF BLOCK
<1>12. left' \in Nat
  BY <1>3, <1>11
<1>13. CASE q < 64
  <2>1. q \in 0 .. 63
    BY <1>13
  <2>2. hash' = State(f, q, t, bl) /\ fed' = t + q
    BY <1>11, <1>13, <1>10
  <2>3. Buffered(f, q, t)
    BY <1>7, <1>9
  <2>4. Prefix(hash', fed')
    BY <1>1, <1>7, <2>1, <2>2, <2>3, IsPrefix, Zenon
  <2> QED BY <1>12, <2>4
<1>14. CASE ~(q < 64)
  <2>1. q = 64
    BY <1>14
  <2>2. PICK c : c = [k \in 1 .. 64 |-> f[k - 1]]
    OBVIOUS
  <2>3. PICK new : new = Append(bl, c)
    OBVIOUS
  <2>4. Buffered(f, 64, 64 * Len(bl))
    BY <1>1, <1>7, <1>9, <2>1
  <2>5. new \in Seq(Block) /\ Len(new) = Len(bl) + 1 /\ Consumed(new)
    BY <1>1, <1>7, <2>2, <2>3, <2>4, BlockAdded, Zenon
  <2>6. Consume(g) = State(f, q, t, new)
    BY <1>10, <2>2, <2>3, ConsumeIs, Zenon
  <2>7. State(f, q, t, new).totallen = t
    BY Fields
  <2>8. PICK t2 \in Nat : t2 = t + 64
    OBVIOUS
  <2>9. [Consume(g) EXCEPT !.buflen = 0, !.totallen = t2] = State(f, 0, t2, new)
    <3>1. [Consume(g) EXCEPT !.buflen = 0, !.totallen = t2] = [[Consume(g) EXCEPT !.buflen = 0] EXCEPT !.totallen = t2]
      OBVIOUS
    <3>2. [Consume(g) EXCEPT !.buflen = 0] = State(f, 0, t, new)
      BY <2>6, SetLen
    <3>3. [State(f, 0, t, new) EXCEPT !.totallen = t2] = State(f, 0, t2, new)
      BY SetTotal
    <3> QED BY <3>1, <3>2, <3>3
  <2>10. hash' = [Consume(g) EXCEPT !.buflen = 0, !.totallen = Consume(g).totallen + 64]
    BY <1>11, <1>14
  <2>11. hash' = State(f, 0, t2, new)
    BY <2>6, <2>7, <2>8, <2>9, <2>10
  <2>12. Buffered(f, 0, t2)
    BY DEF Buffered
  <2>13. t2 = 64 * Len(new) /\ fed' = t2 + 0 /\ 0 \in 0 .. 63
    <3>1. PICK m \in Nat : m = Len(bl)
      OBVIOUS
    <3>2. Len(new) = m + 1 /\ t = 64 * m
      BY <1>1, <2>5, <3>1
    <3>3. fed' = t + 64
      BY <1>11, <2>1
    <3> QED BY <2>8, <3>2, <3>3
  <2>14. Prefix(hash', fed')
    BY <1>7, <2>5, <2>8, <2>11, <2>12, <2>13, IsPrefix, Zenon
  <2> QED BY <1>12, <2>14
<1> QED BY <1>13, <1>14

-----------------------------------------------------------------------------
(* The padded message.                                                     *)

\* The zeros that the standards ask for, in this block or up to the end of the next.
LEMMA ZerosAre ==
  ASSUME NEW m \in Nat, NEW r \in 0 .. 63, NEW z \in 0 .. 63,
         \/ r < 56 /\ z = 55 - r
         \/ 56 <= r /\ z = 119 - r
  PROVE  z = CHOOSE x \in 0 .. BLOCK - 1 : (64 * m + r + 1 + x) % BLOCK = LENPOS
<1>1. (64 * m + r + 1 + z) % 64 = 56
  <2>1. CASE r < 56 /\ z = 55 - r
    <3>1. 64 * m + r + 1 + z = 64 * m + 56
      BY <2>1
    <3> QED BY <3>1
  <2>2. CASE 56 <= r /\ z = 119 - r
    <3>1. 64 * m + r + 1 + z = 64 * (m + 1) + 56
      BY <2>2
    <3> QED BY <3>1
  <2> QED BY <2>1, <2>2
<1>2. \A x \in 0 .. 63 : (64 * m + r + 1 + x) % 64 = 56 => x = z
  OBVIOUS
<1> QED BY <1>1, <1>2 DEF BLOCK, LENPOS

\* M is the message of n bytes with z zeros, byte by byte.
Laid(M, n, z, ord) ==
  /\ Len(M) = n + z + 9
  /\ \A j \in 1 .. n : M[j] = 255 + j
  /\ M[n + 1] = 128
  /\ \A j \in n + 2 .. n + 1 + z : M[j] = 0
  /\ \A j \in n + z + 2 .. n + z + 9 : M[j] = LenByte(ord, 8 * n, j - n - z - 2)

\* The padded message has the zeros of ZerosAre.
LEMMA MessageIs ==
  ASSUME NEW m \in Nat, NEW r \in 0 .. 63, NEW z \in 0 .. 63, NEW ord, NEW n \in Nat, n = 64 * m + r,
         \/ r < 56 /\ z = 55 - r
         \/ 56 <= r /\ z = 119 - r
  PROVE  Laid(Message(n, ord), n, z, ord)
<1>1. z = CHOOSE x \in 0 .. BLOCK - 1 : (n + 1 + x) % BLOCK = LENPOS
  BY ZerosAre
<1>2. PICK N \in Nat : N = n + 1 + z + 8
  OBVIOUS
<1>3. Message(n, ord) = [k \in 1 .. n + 1 + z + 8 |->
         IF k <= n THEN 255 + k ELSE IF k = n + 1 THEN 128 ELSE IF k <= n + 1 + z THEN 0
         ELSE LenByte(ord, 8 * n, k - n - z - 2)]
  BY <1>1 DEF Message
<1>4. Message(n, ord) = [k \in 1 .. N |->
         IF k <= n THEN 255 + k ELSE IF k = n + 1 THEN 128 ELSE IF k <= n + 1 + z THEN 0
         ELSE LenByte(ord, 8 * n, k - n - z - 2)]
  BY <1>2, <1>3
<1>5. PICK M : M = Message(n, ord)
  OBVIOUS
<1>6. Len(M) = N
  BY <1>4, <1>5
<1>7. \A j \in 1 .. N : M[j] =
         IF j <= n THEN 255 + j ELSE IF j = n + 1 THEN 128 ELSE IF j <= n + 1 + z THEN 0
         ELSE LenByte(ord, 8 * n, j - n - z - 2)
  BY <1>4, <1>5
<1>8. \A j \in 1 .. n : M[j] = 255 + j
  BY <1>2, <1>7
<1>9. M[n + 1] = 128
  BY <1>2, <1>7
<1>10. \A j \in n + 2 .. n + 1 + z : M[j] = 0
  BY <1>2, <1>7
<1>11. \A j \in n + z + 2 .. n + z + 9 : M[j] = LenByte(ord, 8 * n, j - n - z - 2)
  BY <1>2, <1>7
<1>12. Len(M) = n + z + 9
  BY <1>2, <1>6
<1> QED BY <1>5, <1>8, <1>9, <1>10, <1>11, <1>12 DEF Laid

-----------------------------------------------------------------------------
(* sha256_done().                                                          *)

\* The buffer as a block, and the bytes of the length.
BlockOf(f) == [k \in 1 .. 64 |-> f[k - 1]]

LengthBytes(ord, n) == [k \in 0 .. 7 |-> LenByte(ord, 8 * n, k)]

\* The buffers agree below r, there are zeros from a to below b, and the length is at its place.
Same(f, g, r) == \A k \in 0 .. 63 : k < r => f[k] = g[k]

Zeroed(f, a, b) == \A k \in 0 .. 63 : a <= k /\ k < b => f[k] = 0

HasLength(f, ord, n) == \A k \in 56 .. 63 : f[k] = LenByte(ord, 8 * n, k - 56)

\* The mark behind the message.
Mark(buf, r) == Fill(buf, r, [k \in {0} |-> 128])

Marking(h) ==
  [h EXCEPT !.buf = Fill(@, h.buflen, [k \in {0} |-> 128]), !.totallen = @ + h.buflen]

\* The state behind the mark.
LEMMA Marked ==
  ASSUME NEW buf, NEW r \in Nat, NEW t \in Nat, NEW bl, NEW h, h = State(buf, r, t, bl)
  PROVE  Marking(h) = State(Mark(buf, r), r, t + r, bl)
<1>1. h.buf = buf /\ h.buflen = r /\ h.totallen = t
  BY Fields
<1>2. PICK f, n : f = Mark(buf, r) /\ n = t + r
  OBVIOUS
<1>3. Marking(h) = [h EXCEPT !.buf = f, !.totallen = n]
  BY <1>1, <1>2 DEF Mark, Marking
<1>4. [h EXCEPT !.buf = f, !.totallen = n] = [[h EXCEPT !.buf = f] EXCEPT !.totallen = n]
  OBVIOUS
<1>5. [h EXCEPT !.buf = f] = State(f, r, t, bl)
  BY SetBuf
<1>6. [State(f, r, t, bl) EXCEPT !.totallen = n] = State(f, r, n, bl)
  BY SetTotal
<1> QED BY <1>2, <1>3, <1>4, <1>5, <1>6

\* The length fits into this block.
LEMMA PaddedShort ==
  ASSUME NEW buf, NEW r \in Nat, NEW t \in Nat, NEW bl, r < 56
  PROVE  Padded(State(buf, r, t, bl)) = State(Fill(Mark(buf, r), r + 1, Zeros(55 - r)), r, t + r, bl)
<1>1. PICK h : h = State(buf, r, t, bl)
  OBVIOUS
<1>2. PICK g : g = Marking(h)
  OBVIOUS
<1>3. PICK f, n : f = Mark(buf, r) /\ n = t + r
  OBVIOUS
<1>4. g = State(f, r, n, bl)
  BY <1>1, <1>2, <1>3, Marked
<1>5. h.buflen = r /\ g.buf = f
  BY <1>1, <1>4, Fields
<1>6. LENPOS - r - 1 = 55 - r /\ r < LENPOS
  BY DEF LENPOS
<1>7. PICK e : e = Fill(f, r + 1, Zeros(55 - r))
  OBVIOUS
<1>8. Padded(h) = [g EXCEPT !.buf = Fill(g.buf, h.buflen + 1, Zeros(LENPOS - h.buflen - 1))]
  BY <1>2, <1>5, <1>6 DEF Padded, Marking
<1>9. Padded(h) = [g EXCEPT !.buf = e]
  BY <1>5, <1>6, <1>7, <1>8
<1>10. [State(f, r, n, bl) EXCEPT !.buf = e] = State(e, r, n, bl)
  BY SetBuf
<1> QED BY <1>1, <1>3, <1>4, <1>7, <1>9, <1>10

\* It does not, and this block is finished with zeros.
LEMMA PaddedLong ==
  ASSUME NEW buf, NEW r \in Nat, NEW t \in Nat, NEW bl, 56 <= r, NEW f, NEW c,
         f = Fill(Mark(buf, r), r + 1, Zeros(63 - r)), c = BlockOf(f)
  PROVE  Padded(State(buf, r, t, bl)) = State(Fill(f, 0, Zeros(56)), r, t + r, Append(bl, c))
<1>1. PICK h : h = State(buf, r, t, bl)
  OBVIOUS
<1>2. PICK g : g = Marking(h)
  OBVIOUS
<1>3. PICK e, n, new : e = Mark(buf, r) /\ n = t + r /\ new = Append(bl, c)
  OBVIOUS
<1>4. g = State(e, r, n, bl)
  BY <1>1, <1>2, <1>3, Marked
<1>5. h.buflen = r /\ g.buf = e
  BY <1>1, <1>4, Fields
<1>6. BLOCK - r - 1 = 63 - r /\ ~(r < LENPOS)
  BY DEF LENPOS, BLOCK
<1>7. Fill(g.buf, h.buflen + 1, Zeros(BLOCK - h.buflen - 1)) = f
  BY <1>3, <1>5, <1>6
<1>8. PICK i : i = [g EXCEPT !.buf = Fill(g.buf, h.buflen + 1, Zeros(BLOCK - h.buflen - 1))]
  OBVIOUS
<1>9. Padded(h) = [Consume(i) EXCEPT !.buf = Fill(Consume(i).buf, 0, Zeros(LENPOS))]
  BY <1>2, <1>5, <1>6, <1>8 DEF Padded, Marking
<1>10. i = State(f, r, n, bl)
  <2>1. i = [g EXCEPT !.buf = f]
    BY <1>7, <1>8
  <2>2. [State(e, r, n, bl) EXCEPT !.buf = f] = State(f, r, n, bl)
    BY SetBuf
  <2> QED BY <1>4, <2>1, <2>2
<1>11. Consume(i) = State(f, r, n, new)
  BY <1>3, <1>10, ConsumeIs, Zenon DEF BlockOf
<1>12. Consume(i).buf = f
  BY <1>11, Fields
<1>13. PICK q : q = Fill(f, 0, Zeros(56))
  OBVIOUS
<1>14. Padded(h) = [Consume(i) EXCEPT !.buf = q]
  BY <1>9, <1>12, <1>13 DEF LENPOS
<1>15. [State(f, r, n, new) EXCEPT !.buf = q] = State(q, r, n, new)
  BY SetBuf
<1> QED BY <1>1, <1>3, <1>11, <1>13, <1>14, <1>15

\* The length is put at its place, and the last block is consumed.
LEMMA DoneIs ==
  ASSUME NEW h, NEW ord, NEW p, NEW r, NEW n, NEW bl, Padded(h) = State(p, r, n, bl), NEW f, NEW c,
         f = Fill(p, 56, LengthBytes(ord, n)), c = BlockOf(f)
  PROVE  Done(h, ord).blocks = Append(bl, c)
<1>1. PICK g : g = Padded(h)
  OBVIOUS
<1>2. g.buf = p /\ g.totallen = n
  BY <1>1, Fields
<1>3. Fill(g.buf, LENPOS, [k \in 0 .. 7 |-> LenByte(ord, 8 * g.totallen, k)]) = f
  BY <1>2 DEF LENPOS, LengthBytes
<1>4. Done(h, ord)
        = Consume([g EXCEPT !.buf = Fill(g.buf, LENPOS, [k \in 0 .. 7 |-> LenByte(ord, 8 * g.totallen, k)])])
  BY <1>1, Zenon DEF Done
<1>5. Done(h, ord) = Consume([g EXCEPT !.buf = f])
  BY <1>3, <1>4
<1>6. [State(p, r, n, bl) EXCEPT !.buf = f] = State(f, r, n, bl)
  BY SetBuf
<1>7. Done(h, ord) = Consume(State(f, r, n, bl))
  BY <1>1, <1>5, <1>6
<1>8. PICK new : new = Append(bl, c)
  OBVIOUS
<1>9. Consume(State(f, r, n, bl)) = State(f, r, n, new)
  BY <1>8, ConsumeIs, Zenon DEF BlockOf
<1>10. State(f, r, n, new).blocks = new
  BY Fields
<1> QED BY <1>7, <1>8, <1>9, <1>10

\* The buffer with the mark, and with n zeros behind it.
Marks(f, buf, r, b) == DOMAIN f = 0 .. 63 /\ f[r] = 128 /\ Same(f, buf, r) /\ Zeroed(f, r + 1, b)

\* What Fill makes is such a buffer.
LEMMA ZerosAt ==
  ASSUME NEW buf, NEW r \in 0 .. 63, NEW n \in Nat, DOMAIN buf = 0 .. 63, NEW f,
         f = Fill(Mark(buf, r), r + 1, Zeros(n))
  PROVE  Marks(f, buf, r, r + 1 + n)
<1>1. PICK b : b = [k \in {0} |-> 128]
  OBVIOUS
<1>2. PICK e : e = Mark(buf, r)
  OBVIOUS
<1>3. e = Fill(buf, r, b) /\ DOMAIN b = {0} /\ b[0] = 128
  BY <1>1, <1>2 DEF Mark
<1>4. /\ DOMAIN e = 0 .. 63
      /\ \A k \in 0 .. 63 : k - r \in {0} => e[k] = b[k - r]
      /\ \A k \in 0 .. 63 : k - r \notin {0} => e[k] = buf[k]
  BY <1>3 DEF Fill
<1>5. e[r] = 128
  <2>1. r - r = 0
    OBVIOUS
  <2> QED BY <1>3, <1>4, <2>1
<1>6. \A k \in 0 .. 63 : k < r => e[k] = buf[k]
  BY <1>4
<1>7. PICK z : z = Zeros(n)
  OBVIOUS
<1>8. DOMAIN z = 0 .. n - 1 /\ \A k \in 0 .. n - 1 : z[k] = 0
  BY <1>7 DEF Zeros
<1>9. f = Fill(e, r + 1, z)
  BY <1>2, <1>7
<1>10. /\ DOMAIN f = 0 .. 63
       /\ \A k \in 0 .. 63 : k - (r + 1) \in DOMAIN z => f[k] = z[k - (r + 1)]
       /\ \A k \in 0 .. 63 : k - (r + 1) \notin DOMAIN z => f[k] = e[k]
  BY <1>4, <1>9 DEF Fill
<1>11. \A k \in 0 .. 63 : k <= r => f[k] = e[k]
  <2> SUFFICES ASSUME NEW k \in 0 .. 63, k <= r PROVE f[k] = e[k]
    OBVIOUS
  <2>1. k - (r + 1) \notin 0 .. n - 1
    OBVIOUS
  <2> QED BY <1>8, <1>10, <2>1
<1>12. Zeroed(f, r + 1, r + 1 + n)
  <2> SUFFICES ASSUME NEW k \in 0 .. 63, r + 1 <= k, k < r + 1 + n PROVE f[k] = 0
    BY DEF Zeroed
  <2>1. k - (r + 1) \in 0 .. n - 1
    OBVIOUS
  <2> QED BY <1>8, <1>10, <2>1
<1>13. f[r] = 128
  BY <1>5, <1>11
<1>14. Same(f, buf, r)
  BY <1>6, <1>11 DEF Same
<1> QED BY <1>10, <1>12, <1>13, <1>14 DEF Marks

\* The length behind what the last block has.
LEMMA LengthAt ==
  ASSUME NEW p, NEW n, NEW ord, DOMAIN p = 0 .. 63, NEW f,
         f = Fill(p, 56, LengthBytes(ord, n))
  PROVE  Same(f, p, 56) /\ HasLength(f, ord, n)
<1>1. PICK b : b = LengthBytes(ord, n)
  OBVIOUS
<1>2. DOMAIN b = 0 .. 7 /\ \A k \in 0 .. 7 : b[k] = LenByte(ord, 8 * n, k)
  BY <1>1 DEF LengthBytes
<1>3. f = Fill(p, 56, b)
  BY <1>1
<1>4. /\ DOMAIN f = 0 .. 63
      /\ \A k \in 0 .. 63 : k - 56 \in DOMAIN b => f[k] = b[k - 56]
      /\ \A k \in 0 .. 63 : k - 56 \notin DOMAIN b => f[k] = p[k]
  BY <1>3 DEF Fill
<1>5. \A k \in 0 .. 63 : k < 56 => f[k] = p[k]
  <2> SUFFICES ASSUME NEW k \in 0 .. 63, k < 56 PROVE f[k] = p[k]
    OBVIOUS
  <2>1. k - 56 \notin 0 .. 7
    OBVIOUS
  <2> QED BY <1>2, <1>4, <2>1
<1>6. \A k \in 56 .. 63 : f[k] = LenByte(ord, 8 * n, k - 56)
  <2> SUFFICES ASSUME NEW k \in 56 .. 63 PROVE f[k] = LenByte(ord, 8 * n, k - 56)
    OBVIOUS
  <2>1. k - 56 \in 0 .. 7 /\ k \in 0 .. 63
    OBVIOUS
  <2>2. f[k] = b[k - 56]
    BY <1>2, <1>4, <2>1
  <2>3. b[k - 56] = LenByte(ord, 8 * n, k - 56)
    BY <1>2, <2>1
  <2> QED BY <2>2, <2>3
<1> QED BY <1>5, <1>6 DEF Same, HasLength

-----------------------------------------------------------------------------
(* All blocks together.                                                    *)

\* Block i of the padded message of n bytes.
IsBlock(b, i, n, ord) == \A k \in 1 .. 64 : b[k] = Message(n, ord)[64 * (i - 1) + k]

\* The consumed blocks are blocks of every longer message.
LEMMA FirstBlocks ==
  ASSUME NEW bl \in Seq(Block), Consumed(bl), NEW m \in Nat, m = Len(bl), NEW r \in 0 .. 63,
         NEW n \in Nat, n = 64 * m + r, NEW ord, \A j \in 1 .. n : Message(n, ord)[j] = 255 + j
  PROVE  \A i \in 1 .. m : IsBlock(bl[i], i, n, ord)
<1> SUFFICES ASSUME NEW i \in 1 .. m, NEW k \in 1 .. 64
             PROVE  bl[i][k] = Message(n, ord)[64 * (i - 1) + k]
  BY DEF IsBlock
<1>1. bl[i][k] = 255 + 64 * (i - 1) + k
  BY DEF Consumed
<1>2. PICK j \in Nat : j = 64 * (i - 1) + k
  OBVIOUS
<1>3. j \in 1 .. n
  <2>1. 64 * (i - 1) + 64 <= 64 * m
    OBVIOUS
  <2> QED BY <1>2, <2>1
<1>4. Message(n, ord)[j] = 255 + j
  BY <1>3
<1> QED BY <1>1, <1>2, <1>4

\* The block that has the end of the message, the mark and the length.
Ends(f, m, n, ord) == IsBlock(BlockOf(f), m, n, ord) /\ Len(Message(n, ord)) = 64 * m

\* One block is enough while the length fits.
LEMMA ShortBlock ==
  ASSUME NEW m \in Nat, NEW r \in 0 .. 63, r < 56, NEW n \in Nat, n = 64 * m + r, NEW ord,
         NEW buf, Buffered(buf, r, 64 * m), NEW f, Marks(f, buf, r, 56), HasLength(f, ord, n)
  PROVE  Ends(f, m + 1, n, ord)
<1>1. PICK c : c = BlockOf(f)
  OBVIOUS
<1>2. f[r] = 128 /\ Same(f, buf, r) /\ Zeroed(f, r + 1, 56)
  BY DEF Marks
<1>3. PICK z \in 0 .. 63 : z = 55 - r
  OBVIOUS
<1>4. PICK M : M = Message(n, ord)
  OBVIOUS
<1>5. /\ Len(M) = n + z + 9
      /\ \A j \in 1 .. n : M[j] = 255 + j
      /\ M[n + 1] = 128
      /\ \A j \in n + 2 .. n + 1 + z : M[j] = 0
      /\ \A j \in n + z + 2 .. n + z + 9 : M[j] = LenByte(ord, 8 * n, j - n - z - 2)
  <2>1. Laid(M, n, z, ord)
    BY <1>3, <1>4, MessageIs
  <2> QED BY <2>1 DEF Laid
<1>6. \A k \in 1 .. 64 : c[k] = M[64 * m + k]
  <2> SUFFICES ASSUME NEW k \in 1 .. 64 PROVE c[k] = M[64 * m + k]
    OBVIOUS
  <2>1. PICK j \in Nat : j = 64 * m + k
    OBVIOUS
  <2>2. PICK i \in 0 .. 63 : i = k - 1
    OBVIOUS
  <2>3. c[k] = f[i]
    BY <1>1, <2>2 DEF BlockOf
  <2>4. CASE i < r
    <3>1. f[i] = 256 + 64 * m + i
      BY <1>2, <2>4 DEF Buffered, Same
    <3>2. j \in 1 .. n
      BY <2>1, <2>2, <2>4
    <3>3. M[j] = 255 + j
      BY <1>5, <3>2
    <3> QED BY <2>1, <2>2, <2>3, <3>1, <3>3
  <2>5. CASE i = r
    <3>1. j = n + 1
      BY <2>1, <2>2, <2>5
    <3> QED BY <1>5, <1>2, <2>1, <2>3, <2>5, <3>1
  <2>6. CASE r < i /\ i < 56
    <3>1. j \in n + 2 .. n + 1 + z
      BY <1>3, <2>1, <2>2, <2>6
    <3>2. M[j] = 0
      BY <1>5, <3>1
    <3>3. f[i] = 0
      BY <1>2, <2>6 DEF Zeroed
    <3> QED BY <2>1, <2>3, <3>2, <3>3
  <2>7. CASE 56 <= i
    <3>1. j \in n + z + 2 .. n + z + 9 /\ j - n - z - 2 = i - 56 /\ i \in 56 .. 63
      BY <1>3, <2>1, <2>2, <2>7
    <3>2. M[j] = LenByte(ord, 8 * n, j - n - z - 2)
      BY <1>5, <3>1
    <3>3. f[i] = LenByte(ord, 8 * n, i - 56)
      BY <3>1 DEF HasLength
    <3> QED BY <2>1, <2>3, <3>1, <3>2, <3>3
  <2> QED BY <2>4, <2>5, <2>6, <2>7
<1>7. 64 * ((m + 1) - 1) = 64 * m
  OBVIOUS
<1>8. IsBlock(c, m + 1, n, ord)
  BY <1>4, <1>6, <1>7 DEF IsBlock
<1>9. Len(M) = 64 * (m + 1)
  BY <1>3, <1>5
<1> QED BY <1>1, <1>4, <1>8, <1>9 DEF Ends

\* The two blocks when the length has no room in the first.
LEMMA LongBlocks ==
  ASSUME NEW m \in Nat, NEW r \in 0 .. 63, 56 <= r, NEW n \in Nat, n = 64 * m + r, NEW ord,
         NEW buf, Buffered(buf, r, 64 * m), NEW f, Marks(f, buf, r, 64),
         NEW g, Zeroed(g, 0, 56), HasLength(g, ord, n)
  PROVE  IsBlock(BlockOf(f), m + 1, n, ord) /\ Ends(g, m + 2, n, ord)
<1>1. PICK c, d : c = BlockOf(f) /\ d = BlockOf(g)
  OBVIOUS
<1>2. f[r] = 128 /\ Same(f, buf, r) /\ Zeroed(f, r + 1, 64)
  BY DEF Marks
<1>3. PICK z \in 0 .. 63 : z = 119 - r
  OBVIOUS
<1>4. PICK M : M = Message(n, ord)
  OBVIOUS
<1>5. /\ Len(M) = n + z + 9
      /\ \A j \in 1 .. n : M[j] = 255 + j
      /\ M[n + 1] = 128
      /\ \A j \in n + 2 .. n + 1 + z : M[j] = 0
      /\ \A j \in n + z + 2 .. n + z + 9 : M[j] = LenByte(ord, 8 * n, j - n - z - 2)
  <2>1. Laid(M, n, z, ord)
    BY <1>3, <1>4, MessageIs
  <2> QED BY <2>1 DEF Laid
<1>6. \A k \in 1 .. 64 : c[k] = M[64 * m + k]
  <2> SUFFICES ASSUME NEW k \in 1 .. 64 PROVE c[k] = M[64 * m + k]
    OBVIOUS
  <2>1. PICK j \in Nat : j = 64 * m + k
    OBVIOUS
  <2>2. PICK i \in 0 .. 63 : i = k - 1
    OBVIOUS
  <2>3. c[k] = f[i]
    BY <1>1, <2>2 DEF BlockOf
  <2>4. CASE i < r
    <3>1. f[i] = 256 + 64 * m + i
      BY <1>2, <2>4 DEF Buffered, Same
    <3>2. j \in 1 .. n
      BY <2>1, <2>2, <2>4
    <3>3. M[j] = 255 + j
      BY <1>5, <3>2
    <3> QED BY <2>1, <2>2, <2>3, <3>1, <3>3
  <2>5. CASE i = r
    <3>1. j = n + 1
      BY <2>1, <2>2, <2>5
    <3> QED BY <1>5, <1>2, <2>1, <2>3, <2>5, <3>1
  <2>6. CASE r < i
    <3>1. j \in n + 2 .. n + 1 + z
      BY <1>3, <2>1, <2>2, <2>6
    <3>2. M[j] = 0
      BY <1>5, <3>1
    <3>3. f[i] = 0
      BY <1>2, <2>6 DEF Zeroed
    <3> QED BY <2>1, <2>3, <3>2, <3>3
  <2> QED BY <2>4, <2>5, <2>6
<1>7. \A k \in 1 .. 64 : d[k] = M[64 * m + 64 + k]
  <2> SUFFICES ASSUME NEW k \in 1 .. 64 PROVE d[k] = M[64 * m + 64 + k]
    OBVIOUS
  <2>1. PICK j \in Nat : j = 64 * m + 64 + k
    OBVIOUS
  <2>2. PICK i \in 0 .. 63 : i = k - 1
    OBVIOUS
  <2>3. d[k] = g[i]
    BY <1>1, <2>2 DEF BlockOf
  <2>4. CASE i < 56
    <3>1. j \in n + 2 .. n + 1 + z
      BY <1>3, <2>1, <2>2, <2>4
    <3>2. M[j] = 0
      BY <1>5, <3>1
    <3>3. g[i] = 0
      BY <2>4 DEF Zeroed
    <3> QED BY <2>1, <2>3, <3>2, <3>3
  <2>5. CASE 56 <= i
    <3>1. j \in n + z + 2 .. n + z + 9 /\ j - n - z - 2 = i - 56 /\ i \in 56 .. 63
      BY <1>3, <2>1, <2>2, <2>5
    <3>2. M[j] = LenByte(ord, 8 * n, j - n - z - 2)
      BY <1>5, <3>1
    <3>3. g[i] = LenByte(ord, 8 * n, i - 56)
      BY <3>1 DEF HasLength
    <3> QED BY <2>1, <2>3, <3>1, <3>2, <3>3
  <2> QED BY <2>4, <2>5
<1>8. 64 * ((m + 1) - 1) = 64 * m /\ 64 * ((m + 2) - 1) = 64 * m + 64
  OBVIOUS
<1>9. IsBlock(c, m + 1, n, ord)
  BY <1>4, <1>6, <1>8 DEF IsBlock
<1>10. IsBlock(d, m + 2, n, ord)
  BY <1>4, <1>7, <1>8 DEF IsBlock
<1>11. Len(M) = 64 * (m + 2)
  BY <1>3, <1>5
<1> QED BY <1>1, <1>4, <1>9, <1>10, <1>11 DEF Ends

\* What the blocks must be once the message is hashed.
AllBlocks(bl, n, ord) ==
  /\ Len(bl) * 64 = Len(Message(n, ord))
  /\ \A i \in 1 .. Len(bl) : IsBlock(bl[i], i, n, ord)

\* From every prefix sha256_done() makes the blocks of the padded message.
LEMMA DoneBlocks ==
  ASSUME NEW h, NEW n \in Nat, Prefix(h, n), NEW ord
  PROVE  AllBlocks(Done(h, ord).blocks, n, ord) /\ DOMAIN Done(h, ord).blocks = 1 .. Len(Done(h, ord).blocks)
<1>1. PICK buf \in Bytes, r \in 0 .. 63, t \in Nat, bl \in Seq(Block) :
        /\ h = State(buf, r, t, bl) /\ t = 64 * Len(bl) /\ n = t + r
        /\ Consumed(bl) /\ Buffered(buf, r, t)
  BY DEF Prefix
<1>2. PICK m \in Nat : m = Len(bl)
  OBVIOUS
<1>3. n = 64 * m + r /\ Buffered(buf, r, 64 * m) /\ DOMAIN buf = 0 .. 63 /\ r \in Nat
  BY <1>1, <1>2 DEF Bytes
<1>4. \A i \in 1 .. m : IsBlock(bl[i], i, n, ord)
  <2>1. \A j \in 1 .. n : Message(n, ord)[j] = 255 + j
    <3>1. PICK z \in 0 .. 63 : (r < 56 /\ z = 55 - r) \/ (56 <= r /\ z = 119 - r)
      <4>1. CASE r < 56
        <5>1. 55 - r \in 0 .. 63
          BY <4>1
        <5> QED BY <4>1, <5>1
      <4>2. CASE ~(r < 56)
        <5>1. 119 - r \in 0 .. 63 /\ 56 <= r
          BY <4>2
        <5> QED BY <5>1
      <4> QED BY <4>1, <4>2
    <3>2. Laid(Message(n, ord), n, z, ord)
      BY <1>3, <3>1, MessageIs
    <3> QED BY <3>2 DEF Laid
  <2> QED BY <1>1, <1>2, <1>3, <2>1, FirstBlocks
<1>5. CASE r < 56
  <2>1. PICK p : p = Fill(Mark(buf, r), r + 1, Zeros(55 - r))
    OBVIOUS
  <2>2. PICK f : f = Fill(p, 56, LengthBytes(ord, n))
    OBVIOUS
  <2>3. PICK c : c = BlockOf(f)
    OBVIOUS
  <2>4. Padded(h) = State(p, r, n, bl)
    BY <1>1, <1>3, <1>5, <2>1, PaddedShort
  <2>5. Done(h, ord).blocks = Append(bl, c)
    BY <2>2, <2>3, <2>4, DoneIs
  <2>6. Marks(p, buf, r, 56)
    <3>1. PICK q \in Nat : q = 55 - r
      BY <1>5
    <3>2. p = Fill(Mark(buf, r), r + 1, Zeros(q))
      BY <2>1, <3>1
    <3>3. Marks(p, buf, r, r + 1 + q)
      BY <1>3, <3>2, ZerosAt
    <3>4. r + 1 + q = 56
      BY <3>1
    <3> QED BY <3>3, <3>4
  <2>7. Same(f, p, 56) /\ HasLength(f, ord, n) /\ DOMAIN f = 0 .. 63
    <3>1. DOMAIN p = 0 .. 63
      BY <2>6 DEF Marks
    <3>2. DOMAIN f = 0 .. 63
      BY <2>2, <3>1 DEF Fill
    <3> QED BY <2>2, <3>1, <3>2, LengthAt
  <2>8. p[r] = 128 /\ Same(p, buf, r) /\ Zeroed(p, r + 1, 56)
    BY <2>6 DEF Marks
  <2>9. Marks(f, buf, r, 56)
    <3>1. f[r] = 128
      BY <1>5, <2>7, <2>8 DEF Same
    <3>2. Same(f, buf, r)
      <4> SUFFICES ASSUME NEW k \in 0 .. 63, k < r PROVE f[k] = buf[k]
        BY DEF Same
      <4>1. k < 56
        BY <1>5
      <4> QED BY <2>7, <2>8, <4>1 DEF Same
    <3>3. Zeroed(f, r + 1, 56)
      BY <2>7, <2>8 DEF Same, Zeroed
    <3> QED BY <2>7, <3>1, <3>2, <3>3 DEF Marks
  <2>10. Ends(f, m + 1, n, ord)
    BY <1>3, <1>5, <2>7, <2>9, ShortBlock
  <2>11. IsBlock(c, m + 1, n, ord) /\ Len(Message(n, ord)) = 64 * (m + 1)
    BY <2>3, <2>10 DEF Ends
  <2>12. PICK new : new = Append(bl, c)
    OBVIOUS
  <2>13. /\ Len(new) = m + 1 /\ new[m + 1] = c
         /\ \A i \in 1 .. m : new[i] = bl[i]
         /\ DOMAIN new = 1 .. Len(new)
    BY <1>2, <2>12, AppendAny
  <2>14. \A i \in 1 .. m + 1 : IsBlock(new[i], i, n, ord)
    <3> SUFFICES ASSUME NEW i \in 1 .. m + 1 PROVE IsBlock(new[i], i, n, ord)
      OBVIOUS
    <3>1. CASE i = m + 1
      BY <2>11, <2>13, <3>1
    <3>2. CASE i # m + 1
      <4>1. i \in 1 .. m
        BY <3>2
      <4> QED BY <1>4, <2>13, <4>1
    <3> QED BY <3>1, <3>2
  <2>15. AllBlocks(new, n, ord)
    BY <2>11, <2>13, <2>14 DEF AllBlocks
  <2> QED BY <2>5, <2>12, <2>13, <2>15
<1>6. CASE ~(r < 56)
  <2>1. PICK f : f = Fill(Mark(buf, r), r + 1, Zeros(63 - r))
    OBVIOUS
  <2>2. PICK c : c = BlockOf(f)
    OBVIOUS
  <2>3. PICK p : p = Fill(f, 0, Zeros(56))
    OBVIOUS
  <2>4. PICK g : g = Fill(p, 56, LengthBytes(ord, n))
    OBVIOUS
  <2>5. PICK d : d = BlockOf(g)
    OBVIOUS
  <2>6. 56 <= r
    BY <1>6
  <2>7. PICK mid : mid = Append(bl, c)
    OBVIOUS
  <2>8. Padded(h) = State(p, r, n, mid)
    BY <1>1, <1>3, <2>1, <2>2, <2>3, <2>6, <2>7, PaddedLong
  <2>9. Done(h, ord).blocks = Append(mid, d)
    BY <2>4, <2>5, <2>8, DoneIs
  <2>10. Marks(f, buf, r, 64)
    <3>1. PICK q \in Nat : q = 63 - r
      OBVIOUS
    <3>2. f = Fill(Mark(buf, r), r + 1, Zeros(q))
      BY <2>1, <3>1
    <3>3. Marks(f, buf, r, r + 1 + q)
      BY <1>3, <3>2, ZerosAt
    <3>4. r + 1 + q = 64
      BY <3>1
    <3> QED BY <3>3, <3>4
  <2>11. DOMAIN p = 0 .. 63 /\ \A k \in 0 .. 63 : k < 56 => p[k] = 0
    <3>1. PICK z : z = Zeros(56)
      OBVIOUS
    <3>2. DOMAIN z = 0 .. 55 /\ \A k \in 0 .. 55 : z[k] = 0
      BY <3>1 DEF Zeros
    <3>3. DOMAIN p = 0 .. 63 /\ \A k \in 0 .. 63 : k - 0 \in DOMAIN z => p[k] = z[k - 0]
      BY <2>3, <2>10, <3>1 DEF Fill, Marks
    <3>4. ASSUME NEW k \in 0 .. 63, k < 56 PROVE p[k] = 0
      <4>1. k - 0 = k /\ k \in 0 .. 55
        BY <3>4
      <4> QED BY <3>2, <3>3, <4>1
    <3> QED BY <3>3, <3>4
  <2>12. Same(g, p, 56) /\ HasLength(g, ord, n)
    BY <2>4, <2>11, LengthAt
  <2>13. Zeroed(g, 0, 56)
    BY <2>11, <2>12 DEF Same, Zeroed
  <2>14. /\ IsBlock(c, m + 1, n, ord) /\ IsBlock(d, m + 2, n, ord)
         /\ Len(Message(n, ord)) = 64 * (m + 2)
    <3>1. IsBlock(BlockOf(f), m + 1, n, ord) /\ Ends(g, m + 2, n, ord)
      BY <1>3, <2>6, <2>10, <2>12, <2>13, LongBlocks
    <3> QED BY <2>2, <2>5, <3>1 DEF Ends
  <2>15. /\ mid \in Seq(Block \cup {c}) /\ Len(mid) = m + 1 /\ mid[m + 1] = c
         /\ \A i \in 1 .. m : mid[i] = bl[i]
    BY <1>2, <2>7, AppendAny
  <2>16. PICK new : new = Append(mid, d)
    OBVIOUS
  <2>17. /\ Len(new) = m + 2 /\ new[m + 2] = d /\ new[m + 1] = c
         /\ \A i \in 1 .. m : new[i] = bl[i]
         /\ DOMAIN new = 1 .. Len(new)
    <3>1. PICK q \in Nat : q = Len(mid) /\ q = m + 1
      BY <2>15
    <3>2. /\ Len(new) = q + 1 /\ new[q + 1] = d
          /\ \A i \in 1 .. q : new[i] = mid[i]
          /\ DOMAIN new = 1 .. Len(new)
      BY <2>15, <2>16, <3>1, AppendAny
    <3>3. q + 1 = m + 2 /\ q \in 1 .. q /\ \A i \in 1 .. m : i \in 1 .. q
      BY <3>1
    <3>4. new[q] = mid[q]
      BY <3>2, <3>3
    <3> QED BY <2>15, <3>1, <3>2, <3>3, <3>4
  <2>18. \A i \in 1 .. m + 2 : IsBlock(new[i], i, n, ord)
    <3> SUFFICES ASSUME NEW i \in 1 .. m + 2 PROVE IsBlock(new[i], i, n, ord)
      OBVIOUS
    <3>1. CASE i = m + 1
      BY <2>14, <2>17, <3>1
    <3>2. CASE i = m + 2
      BY <2>14, <2>17, <3>2
    <3>3. CASE i # m + 1 /\ i # m + 2
      <4>1. i \in 1 .. m
        BY <3>3
      <4> QED BY <1>4, <2>17, <4>1
    <3> QED BY <3>1, <3>2, <3>3
  <2>19. AllBlocks(new, n, ord)
    BY <2>14, <2>17, <2>18 DEF AllBlocks
  <2> QED BY <2>9, <2>16, <2>17, <2>19
<1> QED BY <1>5, <1>6

-----------------------------------------------------------------------------

\* A prefix has a length.
LEMMA PrefixLength == ASSUME NEW h, NEW n, Prefix(h, n) PROVE n \in Nat
<1>1. PICK buf \in Bytes, r \in 0 .. 63, t \in Nat, bl \in Seq(Block) : n = t + r
  BY DEF Prefix
<1> QED BY <1>1

\* Every step keeps the invariant.
LEMMA NextIInv == IInv /\ [HashNext]_hashVars => IInv'
<1> SUFFICES ASSUME IInv, [HashNext]_hashVars PROVE IInv'
  OBVIOUS
<1>1. left \in Nat /\ hashed \in BOOLEAN
  BY DEF IInv
<1>2. CASE UNCHANGED hashVars
  <2>1. left' = left /\ hashed' = hashed /\ hash' = hash /\ fed' = fed /\ order' = order
    BY <1>2 DEF hashVars
  <2> QED BY <2>1 DEF IInv, HashBlocks
<1>3. ASSUME NEW n \in 0 .. MaxSegment, hash_proc(n) PROVE IInv'
  <2>1. hashed = FALSE /\ hashed' = FALSE /\ hash' = hash /\ fed' = fed /\ left' = n
    BY <1>1, <1>3 DEF hash_proc
  <2>2. Prefix(hash', fed') /\ left' \in Nat
    BY <2>1, CodecsConstants DEF IInv
  <2> QED BY <2>1, <2>2 DEF IInv
<1>4. CASE hash_turn
  <2>1. hashed = FALSE /\ hashed' = FALSE
    BY <1>1, <1>4 DEF IInv, hash_turn
  <2>2. Prefix(hash, fed)
    BY <2>1 DEF IInv
  <2>3. Prefix(hash, fed)' /\ left' \in Nat
    BY <1>1, <1>4, <2>2, TurnPrefix
  <2> QED BY <2>1, <2>3 DEF IInv
<1>5. CASE hash_done
  <2>1. /\ hashed = FALSE /\ hashed' = TRUE /\ left' = 0 /\ fed' = fed /\ order' = order
        /\ hash' = Done(hash, order)
    BY <1>1, <1>5 DEF hash_done
  <2>2. Prefix(hash, fed)
    BY <2>1 DEF IInv
  <2>3. fed \in Nat
    BY <2>2, PrefixLength
  <2>4. PICK bl : bl = Done(hash, order).blocks
    OBVIOUS
  <2>5. AllBlocks(bl, fed, order) /\ DOMAIN bl = 1 .. Len(bl)
    BY <2>2, <2>3, <2>4, DoneBlocks
  <2>6. hash'.blocks = bl
    BY <2>1, <2>4
  <2>7. HashBlocks'
    BY <2>1, <2>5, <2>6 DEF HashBlocks, AllBlocks, IsBlock, BLOCK
  <2> QED BY <2>1, <2>7 DEF IInv
<1>6. CASE hash_init
  <2>1. hashed = TRUE /\ hashed' = FALSE /\ hash' = Empty /\ fed' = 0 /\ left' = left
    BY <1>1, <1>6 DEF hash_init
  <2>2. Prefix(hash', fed')
    BY <2>1, EmptyPrefix
  <2> QED BY <1>1, <2>1, <2>2 DEF IInv
<1> QED BY <1>2, <1>3, <1>4, <1>5, <1>6 DEF HashNext

\* However a message is cut into calls of sha256_proc() and md5_proc(), and however long it is,
\* the blocks that are mixed are those of the padded message, each once and in order.
THEOREM BlocksOfMessage == HashSpec => []HashBlocks
<1>1. IInv => HashBlocks
  BY DEF IInv, HashBlocks
<1> QED BY InitIInv, NextIInv, <1>1, PTL DEF HashSpec

-----------------------------------------------------------------------------
(* base64.                                                                 *)

Octet == 0 .. 255

\* Bytes are below 256.
LEMMA OctetIs == ASSUME NEW x \in Octet PROVE x \in Nat /\ x < 256
BY DEF Octet

\* The three bytes of group g, and character k of the four that stand for it.
Group(dec, g) == 65536 * Byte(dec, 3 * g + 1) + 256 * Byte(dec, 3 * g + 2) + Byte(dec, 3 * g + 3)

Char(dec, g, k) == IF 3 * g + k > Len(dec) THEN Pad ELSE encmap((Group(dec, g) \div 64 ^ (3 - k)) % 64)

\* The two tables of the code undo each other, and no character of the first is the padding.
LEMMA MapsInverse ==
  ASSUME NEW x \in Nat, x < 64
  PROVE  decmap(encmap(x)) = x /\ encmap(x) # Pad /\ encmap(x) \in Alphabet
<1>1. decmap(encmap(x)) = x /\ encmap(x) # 61
  BY SMT DEF encmap, decmap
<1>2. encmap(x) \in Alphabet
  BY SMT DEF encmap, Alphabet, Pad
<1> QED BY <1>1, <1>2, SMT DEF Pad

\* The padding is a character without bits.
LEMMA PadIs == decmap(Pad) = 0 /\ Pad \in Alphabet
BY SMT DEF Pad, decmap, Alphabet

\* 24 bits are four times six.
Six(v, k) == (v \div 64 ^ (3 - k)) % 64

Joined(w, x, y, z) == 262144 * w + 4096 * x + 64 * y + z

\* Put together they are the bits again.
LEMMA SixBits ==
  ASSUME NEW v \in Nat, v < 16777216
  PROVE  Joined(Six(v, 0), Six(v, 1), Six(v, 2), Six(v, 3)) = v
<1>1. v = 262144 * ((v \div 262144) % 64) + 4096 * ((v \div 4096) % 64) + 64 * ((v \div 64) % 64) + (v % 64)
  BY SMT
<1>2. v \div 1 = v
  BY SMT
<1>3. 64 ^ (3 - 0) = 262144 /\ 64 ^ (3 - 1) = 4096 /\ 64 ^ (3 - 2) = 64 /\ 64 ^ (3 - 3) = 1
  BY SMT
<1> QED BY <1>1, <1>2, <1>3, SMT DEF Six, Joined

\* And three times eight.
LEMMA EightBits ==
  ASSUME NEW x \in Nat, NEW y \in Nat, NEW z \in Nat, x < 256, y < 256, z < 256,
         NEW v, v = 65536 * x + 256 * y + z
  PROVE  /\ v \in Nat /\ v < 16777216
         /\ (v \div 256 ^ 2) % 256 = x /\ (v \div 256 ^ 1) % 256 = y /\ (v \div 256 ^ 0) % 256 = z
<1>1. v \in Nat /\ v < 16777216
  BY SMT
<1>2. (v \div 65536) % 256 = x /\ (v \div 256) % 256 = y /\ v % 256 = z
  BY SMT
<1>3. 256 ^ 2 = 65536 /\ 256 ^ 1 = 256 /\ 256 ^ 0 = 1
  BY SMT
<1>4. v \div 1 = v
  BY <1>1, SMT
<1> QED BY <1>1, <1>2, <1>3, <1>4, SMT

\* A byte of the text, zero behind its end.
LEMMA ByteIs ==
  ASSUME NEW dec \in Seq(Octet), NEW i \in Nat
  PROVE  /\ Byte(dec, i) \in Nat /\ Byte(dec, i) < 256
         /\ i > Len(dec) => Byte(dec, i) = 0
         /\ i > 0 /\ i <= Len(dec) => Byte(dec, i) = dec[i]
<1>1. CASE i \in 1 .. Len(dec)
  <2>1. i \in DOMAIN dec
    BY <1>1
  <2>2. Byte(dec, i) = dec[i]
    BY <2>1 DEF Byte
  <2>3. dec[i] \in Octet
    BY <1>1
  <2>4. i > 0 /\ i <= Len(dec)
    BY <1>1
  <2>5. dec[i] \in Nat /\ dec[i] < 256
    BY <2>3, OctetIs
  <2> QED BY <2>2, <2>4, <2>5
<1>2. CASE i \notin 1 .. Len(dec)
  <2>1. Byte(dec, i) = 0
    BY <1>2, SMT DEF Byte
  <2> QED BY <1>2, <2>1, SMT
<1> QED BY <1>1, <1>2, SMT

\* The bytes of a group are in its 24 bits.
LEMMA GroupRange ==
  ASSUME NEW dec \in Seq(Octet), NEW g \in Nat
  PROVE  Group(dec, g) \in Nat /\ Group(dec, g) < 16777216
<1>1. PICK x \in Nat : x = Byte(dec, 3 * g + 1) /\ x < 256
  BY ByteIs, SMT
<1>2. PICK y \in Nat : y = Byte(dec, 3 * g + 2) /\ y < 256
  BY ByteIs, SMT
<1>3. PICK z \in Nat : z = Byte(dec, 3 * g + 3) /\ z < 256
  BY ByteIs, SMT
<1> QED BY <1>1, <1>2, <1>3, SMT DEF Group

\* And they can be taken out again.
LEMMA GroupIs ==
  ASSUME NEW dec \in Seq(Octet), NEW g \in Nat
  PROVE  /\ (Group(dec, g) \div 256 ^ 2) % 256 = Byte(dec, 3 * g + 1)
         /\ (Group(dec, g) \div 256 ^ 1) % 256 = Byte(dec, 3 * g + 2)
         /\ (Group(dec, g) \div 256 ^ 0) % 256 = Byte(dec, 3 * g + 3)
<1>1. PICK x \in Nat : x = Byte(dec, 3 * g + 1) /\ x < 256
  BY ByteIs, SMT
<1>2. PICK y \in Nat : y = Byte(dec, 3 * g + 2) /\ y < 256
  BY ByteIs, SMT
<1>3. PICK z \in Nat : z = Byte(dec, 3 * g + 3) /\ z < 256
  BY ByteIs, SMT
<1>4. PICK v : v = Group(dec, g)
  BY SMT
<1>5. v = 65536 * x + 256 * y + z
  BY <1>1, <1>2, <1>3, <1>4, SMT DEF Group
<1> QED BY <1>1, <1>2, <1>3, <1>4, <1>5, EightBits, SMT

\* Every character is decoded to its six bits, the padding too: they are zero.
LEMMA CharIs ==
  ASSUME NEW dec \in Seq(Octet), NEW g \in Nat, NEW k \in 0 .. 3, 3 * g < Len(dec)
  PROVE  /\ Char(dec, g, k) \in Alphabet
         /\ decmap(Char(dec, g, k)) = Six(Group(dec, g), k)
         /\ Char(dec, g, k) = Pad <=> 3 * g + k > Len(dec)
<1>1. Group(dec, g) \in Nat /\ Group(dec, g) < 16777216
  BY GroupRange, SMT
<1>2. PICK v \in Nat : v = Group(dec, g) /\ v < 16777216
  BY <1>1, SMT
<1>3. PICK L \in Nat : L = Len(dec)
  BY SMT
<1>4. 64 ^ 3 = 262144 /\ 64 ^ 2 = 4096 /\ 64 ^ 1 = 64 /\ 64 ^ 0 = 1
  BY SMT
<1>5. PICK x : x = (v \div 64 ^ (3 - k)) % 64
  BY SMT
<1>6. x \in Nat /\ x < 64
  <2>1. CASE k = 0
    <3>1. x = (v \div 262144) % 64
      BY <1>4, <1>5, <2>1, SMT
    <3> QED BY <3>1, SMT
  <2>2. CASE k = 1
    <3>1. x = (v \div 4096) % 64
      BY <1>4, <1>5, <2>2, SMT
    <3> QED BY <3>1, SMT
  <2>3. CASE k = 2
    <3>1. x = (v \div 64) % 64
      BY <1>4, <1>5, <2>3, SMT
    <3> QED BY <3>1, SMT
  <2>4. CASE k = 3
    <3>1. x = (v \div 1) % 64
      BY <1>4, <1>5, <2>4, SMT
    <3> QED BY <3>1, SMT
  <2> QED BY <2>1, <2>2, <2>3, <2>4, SMT
<1>7. CASE 3 * g + k > L
  <2>1. Char(dec, g, k) = Pad
    BY <1>3, <1>7, SMT DEF Char
  <2>2. PICK a \in Nat : a = Byte(dec, 3 * g + 1)
    BY ByteIs, SMT
  <2>3. PICK b \in Nat : b = Byte(dec, 3 * g + 2)
    BY ByteIs, SMT
  <2>4. Byte(dec, 3 * g + 3) = 0
    <3>1. PICK j \in Nat : j = 3 * g + 3
      BY SMT
    <3>2. j > Len(dec)
      BY <1>3, <1>7, <3>1, SMT
    <3> QED BY <3>1, <3>2, ByteIs, SMT
  <2>5. v = 65536 * a + 256 * b + 0
    BY <1>2, <2>2, <2>3, <2>4, SMT DEF Group
  <2>6. x = 0
    <3>1. CASE k = 2
      <4>1. b = 0
        <5>1. 3 * g + 2 > Len(dec)
          BY <1>3, <1>7, <3>1, SMT
        <5> QED BY <2>3, <5>1, ByteIs, SMT
      <4>2. x = (v \div 64) % 64
        BY <1>4, <1>5, <3>1, SMT
      <4>3. v = 64 * (1024 * a)
        BY <2>5, <4>1, SMT
      <4>4. v \div 64 = 64 * (16 * a)
        BY <4>3, SMT
      <4> QED BY <4>2, <4>4, SMT
    <3>2. CASE k = 3
      <4>1. x = v % 64
        <5>1. x = (v \div 1) % 64
          BY <1>4, <1>5, <3>2, SMT
        <5> QED BY <5>1, SMT
      <4>2. v = 64 * (1024 * a + 4 * b)
        BY <2>5, SMT
      <4> QED BY <4>1, <4>2, SMT
    <3>3. k \in {2, 3}
      BY <1>3, <1>7, SMT
    <3> QED BY <3>1, <3>2, <3>3, SMT
  <2> QED BY <1>2, <1>3, <1>5, <1>7, <2>1, <2>6, PadIs, SMT DEF Six
<1>8. CASE ~(3 * g + k > L)
  <2>1. Char(dec, g, k) = encmap(x)
    BY <1>2, <1>3, <1>5, <1>8, SMT DEF Char
  <2> QED BY <1>2, <1>3, <1>5, <1>6, <1>8, <2>1, MapsInverse, SMT DEF Six
<1> QED BY <1>7, <1>8, SMT

\* The characters of dec.
Encoding(dec, n) == [j \in 1 .. 4 * n |-> Char(dec, (j - 1) \div 4, (j - 1) % 4)]

\* b64_encode() makes this encoding if there is room for it.
LEMMA EncodeIs ==
  ASSUME NEW dec \in Seq(Octet), NEW room \in Nat, NEW n \in Nat, n = (Len(dec) + 2) \div 3
  PROVE  b64_encode(dec, room)
           = IF room < 4 * n THEN [rv |-> -1, bytes |-> << >>] ELSE [rv |-> 4 * n, bytes |-> Encoding(dec, n)]
BY DEF b64_encode, Encoding, Char, Group

\* Groups and bytes: n groups for L bytes.
LEMMA GroupCount ==
  ASSUME NEW L \in Nat, NEW n \in Nat, n = (L + 2) \div 3
  PROVE  /\ 3 * n <= L + 2 /\ L <= 3 * n /\ (L = 0 <=> n = 0)
         /\ \A g \in Nat : g < n => 3 * g < L
OBVIOUS

\* A character of a group, by its place.
LEMMA CharAt ==
  ASSUME NEW dec, NEW n \in Nat, NEW enc, enc = Encoding(dec, n), NEW g \in Nat, g < n
  PROVE  /\ enc[4 * g + 1] = Char(dec, g, 0) /\ enc[4 * g + 2] = Char(dec, g, 1)
         /\ enc[4 * g + 3] = Char(dec, g, 2) /\ enc[4 * g + 4] = Char(dec, g, 3)
<1>1. ASSUME NEW k \in 0 .. 3, NEW j \in Nat, j = 4 * g + (k + 1) PROVE enc[j] = Char(dec, g, k)
  <2>1. j \in 1 .. 4 * n
    BY <1>1
  <2>2. (j - 1) \div 4 = g /\ (j - 1) % 4 = k
    BY <1>1
  <2>3. enc[j] = Char(dec, (j - 1) \div 4, (j - 1) % 4)
    BY <2>1 DEF Encoding
  <2> QED BY <2>2, <2>3
<1>2. enc[4 * g + 1] = Char(dec, g, 0)
  <2>1. PICK j \in Nat : j = 4 * g + 1 /\ j = 4 * g + (0 + 1)
    OBVIOUS
  <2> QED BY <1>1, <2>1
<1>3. enc[4 * g + 2] = Char(dec, g, 1)
  <2>1. PICK j \in Nat : j = 4 * g + 2 /\ j = 4 * g + (1 + 1)
    OBVIOUS
  <2> QED BY <1>1, <2>1
<1>4. enc[4 * g + 3] = Char(dec, g, 2)
  <2>1. PICK j \in Nat : j = 4 * g + 3 /\ j = 4 * g + (2 + 1)
    OBVIOUS
  <2> QED BY <1>1, <2>1
<1>5. enc[4 * g + 4] = Char(dec, g, 3)
  <2>1. PICK j \in Nat : j = 4 * g + 4 /\ j = 4 * g + (3 + 1)
    OBVIOUS
  <2> QED BY <1>1, <2>1
<1> QED BY <1>2, <1>3, <1>4, <1>5

\* The encoding has four characters for each group, all of the alphabet.
LEMMA EncodingIs ==
  ASSUME NEW dec \in Seq(Octet), NEW n \in Nat, n = (Len(dec) + 2) \div 3, NEW enc, enc = Encoding(dec, n)
  PROVE  Len(enc) = 4 * n /\ DOMAIN enc = 1 .. 4 * n /\ \A j \in DOMAIN enc : enc[j] \in Alphabet
<1>1. PICK m \in Nat : m = 4 * n
  OBVIOUS
<1>2. enc = [j \in 1 .. m |-> Char(dec, (j - 1) \div 4, (j - 1) % 4)]
  BY <1>1 DEF Encoding
<1>3. Len(enc) = m /\ DOMAIN enc = 1 .. m
  BY <1>2
<1>4. ASSUME NEW j \in 1 .. m PROVE enc[j] \in Alphabet
  <2>1. PICK g \in Nat : g = (j - 1) \div 4 /\ g < n
    BY <1>1
  <2>2. PICK k \in 0 .. 3 : k = (j - 1) % 4
    OBVIOUS
  <2>3. enc[j] = Char(dec, g, k)
    BY <1>2, <2>1, <2>2
  <2>4. PICK L \in Nat : L = Len(dec)
    OBVIOUS
  <2>5. 3 * g < Len(dec)
    BY <2>1, <2>4, GroupCount
  <2> QED BY <2>3, <2>5, CharIs
<1> QED BY <1>1, <1>3, <1>4

\* The last group tells how many bytes it stands for.
LEMMA LastIs ==
  ASSUME NEW dec \in Seq(Octet), NEW n \in Nat, n = (Len(dec) + 2) \div 3, n > 0, NEW enc, enc = Encoding(dec, n)
  PROVE  3 * n - 3 + LastGroup(enc) = Len(dec)
<1>1. PICK L \in Nat : L = Len(dec)
  OBVIOUS
<1>2. PICK g \in Nat : g = n - 1
  OBVIOUS
<1>3. 3 * g < L /\ L <= 3 * g + 3 /\ g < n
  BY <1>1, <1>2
<1>4. enc[4 * g + 3] = Char(dec, g, 2) /\ enc[4 * g + 4] = Char(dec, g, 3)
  BY <1>3, CharAt
<1>5. Char(dec, g, 2) = Pad <=> 3 * g + 2 > L
  BY <1>1, <1>3, CharIs
<1>6. Char(dec, g, 3) = Pad <=> 3 * g + 3 > L
  BY <1>1, <1>3, CharIs
<1>7. Len(enc) = 4 * n
  BY EncodingIs
<1>8. PICK a, b : a = enc[4 * g + 3] /\ b = enc[4 * g + 4]
  OBVIOUS
<1>9. (a = Pad <=> 3 * g + 2 > L) /\ (b = Pad <=> 3 * g + 3 > L)
  BY <1>4, <1>5, <1>6, <1>8
<1>10. Len(enc) - 1 = 4 * g + 3 /\ Len(enc) = 4 * g + 4
  BY <1>2, <1>7
<1>11. LastGroup(enc) = IF a = Pad /\ b = Pad THEN 1 ELSE IF b = Pad THEN 2 ELSE 3
  BY <1>8, <1>10 DEF LastGroup
<1>12. 3 * n - 3 = 3 * g
  BY <1>2
<1> QED BY <1>1, <1>3, <1>9, <1>11, <1>12

\* The six bits of the characters are the bits of the bytes.
Decoded(enc, g) ==
  Joined(decmap(enc[4 * g + 1]), decmap(enc[4 * g + 2]), decmap(enc[4 * g + 3]), decmap(enc[4 * g + 4]))

\* A group is decoded to the bits that were encoded.
LEMMA DecodedIs ==
  ASSUME NEW dec \in Seq(Octet), NEW n \in Nat, n = (Len(dec) + 2) \div 3, NEW enc, enc = Encoding(dec, n),
         NEW g \in Nat, g < n
  PROVE  Decoded(enc, g) = Group(dec, g)
<1>1. 3 * g < Len(dec)
  <2>1. PICK L \in Nat : L = Len(dec)
    BY SMT
  <2> QED BY <2>1, GroupCount, SMT
<1>2. Group(dec, g) \in Nat /\ Group(dec, g) < 16777216
  BY GroupRange, SMT
<1>3. PICK v \in Nat : v = Group(dec, g) /\ v < 16777216
  BY <1>2, SMT
<1>4. \A k \in 0 .. 3 : decmap(Char(dec, g, k)) = Six(v, k)
  BY <1>1, <1>3, CharIs, SMT
<1>5. /\ enc[4 * g + 1] = Char(dec, g, 0) /\ enc[4 * g + 2] = Char(dec, g, 1)
      /\ enc[4 * g + 3] = Char(dec, g, 2) /\ enc[4 * g + 4] = Char(dec, g, 3)
  BY CharAt, SMT
<1>6. Decoded(enc, g) = Joined(Six(v, 0), Six(v, 1), Six(v, 2), Six(v, 3))
  BY <1>4, <1>5, SMT DEF Decoded
<1>7. v < 16777216
  BY <1>3, SMT
<1>8. Joined(Six(v, 0), Six(v, 1), Six(v, 2), Six(v, 3)) = v
  BY <1>7, SixBits, SMT
<1> QED BY <1>3, <1>6, <1>8, SMT

\* Byte j of what is decoded.
LEMMA ByteBack ==
  ASSUME NEW dec \in Seq(Octet), NEW n \in Nat, n = (Len(dec) + 2) \div 3, NEW enc, enc = Encoding(dec, n),
         NEW j \in 1 .. Len(dec)
  PROVE  (Decoded(enc, (j - 1) \div 3) \div 256 ^ (2 - ((j - 1) % 3))) % 256 = dec[j]
<1>1. PICK L \in Nat : L = Len(dec)
  BY SMT
<1>2. PICK g \in Nat : g = (j - 1) \div 3 /\ g < n
  BY <1>1, SMT
<1>3. PICK q \in 0 .. 2 : q = (j - 1) % 3
  BY SMT
<1>4. j = 3 * g + q + 1
  BY <1>2, <1>3, SMT
<1>5. Decoded(enc, g) = Group(dec, g)
  BY <1>2, DecodedIs, SMT
<1>6. Byte(dec, j) = dec[j]
  BY ByteIs, SMT
<1>7. /\ (Group(dec, g) \div 256 ^ 2) % 256 = Byte(dec, 3 * g + 1)
      /\ (Group(dec, g) \div 256 ^ 1) % 256 = Byte(dec, 3 * g + 2)
      /\ (Group(dec, g) \div 256 ^ 0) % 256 = Byte(dec, 3 * g + 3)
  BY GroupIs, Zenon
<1>8. (Group(dec, g) \div 256 ^ (2 - q)) % 256 = Byte(dec, j)
  <2>1. CASE q = 0
    <3>1. j = 3 * g + 1 /\ 2 - q = 2
      BY <1>4, <2>1, SMT
    <3> QED BY <1>7, <3>1, Zenon
  <2>2. CASE q = 1
    <3>1. j = 3 * g + 2 /\ 2 - q = 1
      BY <1>4, <2>2, SMT
    <3> QED BY <1>7, <3>1, Zenon
  <2>3. CASE q = 2
    <3>1. j = 3 * g + 3 /\ 2 - q = 0
      BY <1>4, <2>3, SMT
    <3> QED BY <1>7, <3>1, Zenon
  <2> QED BY <2>1, <2>2, <2>3, SMT
<1> QED BY <1>2, <1>3, <1>5, <1>6, <1>8, Zenon

\* What the code decodes an encoding to.
LEMMA DecodeIs ==
  ASSUME NEW dec \in Seq(Octet), NEW n \in Nat, n = (Len(dec) + 2) \div 3, NEW enc, enc = Encoding(dec, n),
         NEW room \in Nat, room >= 4 * n
  PROVE  b64_decode(enc, room) = [rv |-> Len(dec), bytes |-> dec]
<1>1. PICK L \in Nat : L = Len(dec)
  BY SMT
<1>2. Len(enc) = 4 * n /\ \A i \in DOMAIN enc : enc[i] \in Alphabet
  BY EncodingIs, SMT
<1>3. Len(enc) % 4 = 0 /\ Len(enc) \div 4 = n /\ ~(3 * (Len(enc) \div 4) > room)
  BY <1>2, SMT
<1>4. (IF Len(enc) = 0 THEN 0 ELSE 3 * (Len(enc) \div 4) - 3 + LastGroup(enc)) = L
  <2>1. CASE n = 0
    BY <1>1, <1>2, <2>1, SMT
  <2>2. CASE n # 0
    <3>1. 3 * n - 3 + LastGroup(enc) = L
      BY <1>1, <2>2, LastIs, SMT
    <3>2. Len(enc) # 0
      BY <1>2, <2>2, SMT
    <3> QED BY <1>3, <3>1, <3>2, SMT
  <2> QED BY <2>1, <2>2
<1>5. dec = [j \in 1 .. L |-> dec[j]]
  BY <1>1, SMT
<1>6. [j \in 1 .. L |-> (Decoded(enc, (j - 1) \div 3) \div 256 ^ (2 - ((j - 1) % 3))) % 256] = dec
  <2>1. \A j \in 1 .. L : (Decoded(enc, (j - 1) \div 3) \div 256 ^ (2 - ((j - 1) % 3))) % 256 = dec[j]
    BY <1>1, ByteBack
  <2> QED BY <1>5, <2>1
<1>7. b64_decode(enc, room)
        = [rv |-> L, bytes |-> [j \in 1 .. L |->
             (Decoded(enc, (j - 1) \div 3) \div 256 ^ (2 - ((j - 1) % 3))) % 256]]
  <2>1. PICK len : len = IF Len(enc) = 0 THEN 0 ELSE 3 * (Len(enc) \div 4) - 3 + LastGroup(enc)
    BY SMT
  <2>2. b64_decode(enc, room) =
          IF Len(enc) % 4 # 0 \/ \E i \in DOMAIN enc : enc[i] \notin Alphabet
          THEN [rv |-> -2, bytes |-> << >>]
          ELSE IF 3 * (Len(enc) \div 4) > room THEN [rv |-> -1, bytes |-> << >>]
          ELSE [rv |-> len, bytes |-> [j \in 1 .. len |->
                  (Decoded(enc, (j - 1) \div 3) \div 256 ^ (2 - ((j - 1) % 3))) % 256]]
    BY <2>1, SMT DEF b64_decode, Decoded, Joined
  <2>3. ~(Len(enc) % 4 # 0 \/ \E i \in DOMAIN enc : enc[i] \notin Alphabet)
    BY <1>2, <1>3
  <2>4. len = L
    BY <1>4, <2>1
  <2> QED BY <1>3, <2>2, <2>3, <2>4, Zenon
<1> QED BY <1>1, <1>6, <1>7

\* b64_decode() gives back what b64_encode() has encoded, for texts of every length and bytes of
\* every value, and the encoder needs exactly the room of its result.
THEOREM Base64Exact == \A dec \in Seq(Octet), room \in Nat : RoundTrip(dec, room)
<1> SUFFICES ASSUME NEW dec \in Seq(Octet), NEW room \in Nat PROVE RoundTrip(dec, room)
  OBVIOUS
<1>1. PICK n \in Nat : n = (Len(dec) + 2) \div 3
  <2>1. PICK L \in Nat : L = Len(dec)
    OBVIOUS
  <2>2. (L + 2) \div 3 \in Nat
    OBVIOUS
  <2> QED BY <2>1, <2>2
<1>2. PICK e : e = b64_encode(dec, room)
  OBVIOUS
<1>3. e = IF room < 4 * n THEN [rv |-> -1, bytes |-> << >>] ELSE [rv |-> 4 * n, bytes |-> Encoding(dec, n)]
  BY <1>1, <1>2, EncodeIs
<1>4. e.rv >= 0 <=> room >= 4 * n
  BY <1>3
<1>5. ASSUME e.rv >= 0 PROVE b64_decode(e.bytes, room) = [rv |-> Len(dec), bytes |-> dec]
  <2>1. room >= 4 * n /\ ~(room < 4 * n)
    BY <1>4, <1>5
  <2>2. e.bytes = Encoding(dec, n)
    BY <1>3, <2>1
  <2> QED BY <1>1, <2>1, <2>2, DecodeIs
<1> QED BY <1>1, <1>2, <1>4, <1>5 DEF RoundTrip

=============================================================================
