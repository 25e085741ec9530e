------------------------------ MODULE Bigint ------------------------------
(***************************************************************************)
(* The unsigned numbers of crypto/bigint.c and the decryption of           *)
(* crypto/rsa.c.                                                           *)
(*                                                                         *)
(* A Bigint is [n, data]: n is BITS(), 8 * bytes + bits, and data is the   *)
(* whole array as one number, so also what lies above the n bits.  A       *)
(* result is [rv, i], rv the return value and i the number.  The array is  *)
(* large where a check of its size matters and data a sum where the loops  *)
(* add bit by bit.                                                         *)
(***************************************************************************)
EXTENDS Integers, Sequences

CONSTANT DATA_MAXLEN

ASSUME BigintConstants == DATA_MAXLEN \in Nat \ {0, 1}

Ok(i)     == [rv |-> 0, i |-> i]
Error(rv) == [rv |-> rv, i |-> [n |-> 0, data |-> 0]]

Full(n) == n \div 8 >= DATA_MAXLEN - 1

Low(d, n)  == d % 2 ^ n
BitOf(i, k) == IF k < i.n THEN (i.data \div 2 ^ k) % 2 ELSE 0

\* The number that a Bigint stands for.
Val(i) == Low(i.data, i.n)

bigint_zero == [n |-> 1, data |-> 0]

\* A sequence of digits, the highest first; -1 is a character that is none.
RECURSIVE Digits(_)

Digits(s) == IF s = << >> THEN 0 ELSE 16 * Digits(SubSeq(s, 1, Len(s) - 1)) + s[Len(s)]

bigint_fromhex(s) ==
  IF -1 \in {s[k] : k \in DOMAIN s} THEN Error(2)
  ELSE IF Full(8 * (Len(s) \div 2)) THEN Error(1)
  ELSE Ok([n |-> 4 * Len(s), data |-> Digits(s)])

bigint_iszero(i) == Val(i) = 0

\* The bytes that are not zero.
RECURSIVE NonZero(_)

NonZero(d) == IF d = 0 THEN 0 ELSE 1 + NonZero(d \div 256)

normalize(i) ==
  LET whole == 8 * (i.n \div 8)
      d     == Val(i)
  IN  IF d >= 2 ^ whole THEN [n |-> i.n, data |-> d]
      ELSE [n |-> IF d = 0 THEN 1 ELSE 8 * NonZero(d), data |-> d]

Sign(a, b) == IF a > b THEN 1 ELSE IF a < b THEN -1 ELSE 0

\* First the bits that only one has, then bit by bit down to the end of a byte, then the
\* bytes, the topmost with all of its bits.
bigint_cmp(i, j) ==
  LET k    == (IF i.n < j.n THEN i.n ELSE j.n) - 1
      byte == IF k < 0 THEN 0 ELSE 8 * (k \div 8)
      lead(x) == IF k < 0 THEN 0 ELSE Low(x.data, k + 1) \div 2 ^ (byte + 1)
      top  == Sign(Val(i) \div 2 ^ (k + 1), Val(j) \div 2 ^ (k + 1))
      bits == Sign(lead(i), lead(j))
  IN  IF top # 0 THEN top ELSE IF bits # 0 THEN bits
      ELSE Sign(Low(i.data, byte + 8), Low(j.data, byte + 8))

\* Mutant: the carry out of the last bit is lost.
bigint_add_NoCarry(a, b) ==
  LET m == IF a.n > b.n THEN a.n ELSE b.n
  IN  Ok([n |-> m, data |-> (Low(a.data, m) + Val(b)) % 2 ^ m])

\* a := a + b: the firmware only adds into one of the operands, which grows bit by bit and
\* shows what its array holds there.
bigint_add(a, b) ==
  LET m   == IF a.n > b.n THEN a.n ELSE b.n
      sum == Low(a.data, m) + Val(b)
      c   == sum \div 2 ^ m
      old == (a.data \div 2 ^ (m + c)) * 2 ^ (m + c)
  IN  IF (m > a.n /\ Full(m)) \/ (c = 1 /\ Full(m + 1)) THEN Error(1)
      ELSE Ok([n |-> m + c, data |-> old + sum])

\* The byte of the topmost bit is shifted whole, the bytes above it are left alone.
LEFT_SHIFT(i) ==
  LET w == 8 * (i.n \div 8 + 1)
      s == [n |-> i.n + 1, data |-> (i.data \div 2 ^ w) * 2 ^ w + Low(2 * Low(i.data, w), w)]
  IN  IF s.n % 8 = 0 /\ Full(s.n) THEN Error(1) ELSE Ok(s)

\* Called for divisors that are not zero.
TWOS_COMP(i) == [n |-> i.n, data |-> 2 ^ i.n - Val(i)]

bigint_copy(s) == [n |-> s.n, data |-> Val(s)]

-----------------------------------------------------------------------------
(* The loops.                                                              *)

RECURSIVE MulFrom(_, _, _, _)

MulFrom(pt, at, b, k) ==
  IF k >= b.n THEN Ok(bigint_copy(pt))
  ELSE LET sum == IF BitOf(b, k) = 1 THEN bigint_add(pt, at) ELSE Ok(pt)
           shl == LEFT_SHIFT(at)
       IN  IF sum.rv > 0 THEN sum ELSE IF shl.rv > 0 THEN shl
           ELSE MulFrom(sum.i, shl.i, b, k + 1)

bigint_mul(a, b) == MulFrom(bigint_zero, bigint_copy(a), b, 0)

\* rt with the divisor subtracted.
Reduce(rt, b) ==
  LET sum == bigint_add(rt, TWOS_COMP(b))
      cut == IF sum.i.n > b.n THEN normalize([sum.i EXCEPT !.n = b.n]) ELSE sum.i
  IN  IF sum.rv > 0 THEN sum ELSE IF bigint_cmp(cut, b) >= 0 THEN Error(3) ELSE Ok(cut)

\* The remainder.  The code also builds the quotient, whose length grows by one in each round
\* and can overflow like that of rt; its value is not modelled.
RECURSIVE DivFrom(_, _, _, _, _)

DivFrom(rt, qn, a, b, k) ==
  IF k < 0 THEN Ok(bigint_copy(normalize(rt)))
  ELSE LET shl == LEFT_SHIFT(rt)
           in  == [shl.i EXCEPT !.data = @ + BitOf(a, k)]
           red == IF bigint_cmp(in, b) >= 0 THEN Reduce(in, b) ELSE Ok(in)
       IN  IF shl.rv > 0 THEN shl
           ELSE IF (qn + 1) % 8 = 0 /\ Full(qn + 1) THEN Error(1)
           ELSE IF red.rv > 0 THEN red
           ELSE DivFrom(red.i, qn + 1, a, b, k - 1)

bigint_div(a, b) ==
  IF bigint_iszero(b) THEN Error(2) ELSE DivFrom(bigint_zero, 1, a, b, a.n - 1)

\* x := (x * y) % c
MulMod(x, y, c) ==
  LET p == bigint_mul(x, y) IN IF p.rv > 0 THEN p ELSE bigint_div(p.i, c)

RECURSIVE ExpFrom(_, _, _, _, _)

ExpFrom(x, r, b, c, k) ==
  IF k < 0 THEN Ok(bigint_copy(x))
  ELSE LET sq == MulMod(x, x, c)
           mu == IF sq.rv = 0 /\ BitOf(b, k) = 1 THEN MulMod(sq.i, r, c) ELSE sq
       IN  IF mu.rv > 0 THEN mu ELSE ExpFrom(mu.i, r, b, c, k - 1)

bigint_expmod(a, b, c) ==
  LET r == bigint_div(a, c)
  IN  IF r.rv > 0 THEN r ELSE ExpFrom([n |-> 1, data |-> 1], r.i, b, c, b.n - 1)

rsa_pubkey_decrypt(cipher, exp, mod) ==
  IF cipher.n > mod.n THEN Error(1) ELSE bigint_expmod(cipher, exp, mod)

-----------------------------------------------------------------------------

\* a ^ b % c by the definition.
RECURSIVE Power(_, _, _)

Power(a, b, c) == IF b = 0 THEN 1 % c ELSE (a * Power(a, b - 1, c)) % c

\* What the decryption of a signature comes to: the power of the cipher, for every cipher,
\* exponent and modulus, zeros in front included, as long as two numbers of the length of the
\* modulus have room in one array.  Where they have not, there is an error and no wrong number.
Decrypts(s, e, t) ==
  LET a == bigint_fromhex(s).i
      b == bigint_fromhex(e).i
      c == bigint_fromhex(t).i
      x == rsa_pubkey_decrypt(a, b, c)
  IN  /\ x.rv = 0 => a.n <= c.n /\ Val(c) # 0 /\ Val(x.i) = Power(Val(a), Val(b), Val(c))
      /\ ~Full(2 * c.n + 1) /\ a.n <= c.n /\ Val(c) # 0 => x.rv = 0
=============================================================================
