--------------------------- MODULE LoggingProofs ---------------------------
(***************************************************************************)
(* Proofs about Logging, for all messages, log levels and requests.        *)
(***************************************************************************)
EXTENDS Logging, WellFoundedInduction, TLAPS

\* The smallest of a set of numbers.
LEMMA Least ==
  ASSUME NEW T \in SUBSET Nat, T # {}
  PROVE  \E x \in T : \A y \in T : x <= y
<1>1. PICK x \in T : \A y \in T : ~(<<y, x>> \in OpToRel(<, Nat))
  BY NatLessThanWellFounded, WFMin
<1>2. \A y \in T : ~(y < x)
  BY <1>1 DEF OpToRel
<1> QED BY <1>2

-----------------------------------------------------------------------------
(* The text of the log.                                                    *)

\* What falls off is the end of the log.
LEMMA WholeIs ==
  ASSUME NEW ls \in Seq(Nat), NEW n \in Nat
  PROVE  Whole(ls, n) \in 0 .. Len(ls) /\ \A i \in 1 .. Whole(ls, n) : ls[i] + n <= MAIN
<1> DEFINE P(k) == /\ k < Len(ls) => ls[k + 1] + n > MAIN
                   /\ \A i \in 1 .. k : ls[i] + n <= MAIN
           T == {i \in 1 .. Len(ls) : ls[i] + n > MAIN}
<1>1. \E k \in 0 .. Len(ls) : P(k)
  <2>0. MAIN \in Nat /\ \A i \in 1 .. Len(ls) : ls[i] \in Nat
    BY DEF MAIN, OUTBUF
  <2>1. CASE T = {}
    <3>1. P(Len(ls))
      BY <2>0, <2>1
    <3> QED BY <3>1
  <2>2. CASE T # {}
    <3>1. PICK m \in T : \A y \in T : m <= y
      <4>1. T \in SUBSET Nat
        OBVIOUS
      <4> HIDE DEF T
      <4> QED BY <2>2, <4>1, Least
    <3>2. m - 1 \in 0 .. Len(ls) /\ P(m - 1)
      BY <2>0, <3>1
    <3> QED BY <3>2
  <2> QED BY <2>1, <2>2
<1>2. Whole(ls, n) = CHOOSE k \in 0 .. Len(ls) : P(k)
  BY DEF Whole
<1>3. Whole(ls, n) \in 0 .. Len(ls) /\ P(Whole(ls, n))
  BY <1>1, <1>2
<1> QED BY <1>3

\* The lines that stay.
LEMMA MovedIs ==
  ASSUME NEW ls \in Seq(Nat), NEW n \in Nat
  PROVE  /\ Moved(ls, n) \in Seq(Nat) /\ Len(Moved(ls, n)) <= Len(ls)
         /\ \A i \in 1 .. Len(Moved(ls, n)) : Moved(ls, n)[i] = ls[i] + n /\ ls[i] + n <= MAIN
<1>1. PICK k \in 0 .. Len(ls) : k = Whole(ls, n)
  BY WholeIs
<1>2. \A i \in 1 .. k : ls[i] + n \in Nat /\ ls[i] + n <= MAIN
  <2>1. \A i \in 1 .. k : ls[i] \in Nat
    OBVIOUS
  <2>2. \A i \in 1 .. k : ls[i] + n <= MAIN
    BY <1>1, WholeIs
  <2> QED BY <2>1, <2>2
<1>3. Moved(ls, n) = [i \in 1 .. k |-> ls[i] + n]
  BY <1>1 DEF Moved
<1>4. Moved(ls, n) \in Seq(Nat) /\ Len(Moved(ls, n)) = k
  BY <1>2, <1>3
<1> QED BY <1>2, <1>3, <1>4

\* The lines of an entry are as long as time, level, place and message make them.
Wordy(m) == m.prefix \in Nat /\ m.msg \in Nat /\ m.prefix + m.msg >= 36

MINLINE == 36

\* Line j ends where j lines of the shortest length end, or behind: unless there is an
\* empty line up to it.
Thick(ls) ==
  \A j \in 1 .. Len(ls) : (\A i \in 1 .. j : Size(ls, i) # 1) => ls[j] >= MINLINE * j

Text(ls) == ls \in Seq(Nat) /\ (\A i \in 1 .. Len(ls) : ls[i] <= MAIN) /\ Thick(ls)

\* An entry is one line, or a line and an empty one.
LEMMA EntryIs ==
  ASSUME NEW m, Wordy(m)
  PROVE  \E len \in Nat :
           /\ MINLINE <= len /\ len < ENTRY
           /\ Entry(m) = <<len>> \/ Entry(m) = <<len, len + 1>>
<1>1. PICK p, q \in Nat : p = m.prefix /\ q = m.msg /\ p + q >= 36
  BY DEF Wordy
<1>2. PICK len \in Nat : len = p + MIN(q, LINE - 1) + 1 /\ len >= 37
  <2>1. MIN(q, LINE - 1) \in Nat /\ p + MIN(q, LINE - 1) + 1 >= 37
    BY <1>1 DEF MIN, LINE
  <2> QED BY <2>1
<1>3. Entry(m) = IF m.nl /\ len < ENTRY THEN <<len - 1, len>> ELSE <<MIN(len, ENTRY - 1)>>
  BY <1>1, <1>2 DEF Entry
<1>4. CASE m.nl /\ len < ENTRY
  <2>1. len - 1 \in Nat /\ len = (len - 1) + 1 /\ MINLINE <= len - 1 /\ len - 1 < ENTRY
    BY <1>2, <1>4 DEF MINLINE, ENTRY
  <2>2. Entry(m) = <<len - 1, (len - 1) + 1>>
    BY <1>3, <1>4, <2>1
  <2> QED BY <2>1, <2>2
<1>5. CASE ~(m.nl /\ len < ENTRY)
  <2>1. MIN(len, ENTRY - 1) \in Nat /\ MINLINE <= MIN(len, ENTRY - 1) /\ MIN(len, ENTRY - 1) < ENTRY
    BY <1>2 DEF MIN, MINLINE, ENTRY
  <2> QED BY <1>3, <1>5, <2>1
<1> QED BY <1>4, <1>5

\* A log that loses its end.
LEMMA TextCut ==
  ASSUME NEW ls, Text(ls), NEW k \in 0 .. Len(ls)
  PROVE  Text(SubSeq(ls, 1, k))
<1> DEFINE t == SubSeq(ls, 1, k)
<1>1. t \in Seq(Nat) /\ Len(t) = k /\ \A i \in 1 .. k : t[i] = ls[i]
  BY DEF Text
<1>2. \A i \in 1 .. k : Size(t, i) = Size(ls, i)
  BY <1>1 DEF Size, UpTo
<1>3. Thick(t)
  BY <1>1, <1>2 DEF Thick, Text
<1> QED BY <1>1, <1>3 DEF Text

\* A line in front of the log moves the others and changes the length of none.
LEMMA OneMore ==
  ASSUME NEW ls \in Seq(Nat), NEW len \in Nat
  PROVE  \E t \in Seq(Nat), n \in Nat :
           /\ t = <<len>> \o Moved(ls, len) /\ Len(t) = n + 1 /\ n <= Len(ls) /\ t[1] = len
           /\ \A j \in 1 .. n : t[j + 1] = ls[j] + len /\ t[j + 1] <= MAIN /\ ls[j] \in Nat
           /\ \A j \in 1 .. n : Size(t, j + 1) = Size(ls, j)
<1>1. PICK mv \in Seq(Nat) :
        /\ mv = Moved(ls, len) /\ Len(mv) <= Len(ls)
        /\ \A i \in 1 .. Len(mv) : mv[i] = ls[i] + len /\ ls[i] + len <= MAIN
  BY MovedIs
<1>2. \A i \in 1 .. Len(mv) : ls[i] \in Nat
  <2>1. Len(mv) \in Nat /\ Len(ls) \in Nat /\ Len(mv) <= Len(ls)
    BY <1>1
  <2>2. \A i \in 1 .. Len(mv) : i \in 1 .. Len(ls)
    BY <2>1
  <2> QED BY <2>2
<1> DEFINE t == <<len>> \o mv
<1>3. /\ t \in Seq(Nat) /\ Len(t) = Len(mv) + 1 /\ t[1] = len
      /\ \A j \in 1 .. Len(mv) : t[j + 1] = ls[j] + len /\ t[j + 1] <= MAIN
  BY <1>1
<1> HIDE DEF t
<1>4. \A j \in 1 .. Len(mv) : Size(t, j + 1) = Size(ls, j)
  <2> TAKE j \in 1 .. Len(mv)
  <2>1. j \in Nat /\ ls[j] \in Nat /\ t[j + 1] = ls[j] + len
    BY <1>2, <1>3
  <2>2. CASE j = 1
    <3>1. Size(t, j + 1) = t[2] - t[1] /\ Size(ls, j) = ls[1] - 0
      BY <2>2 DEF Size, UpTo
    <3> QED BY <1>3, <2>1, <2>2, <3>1
  <2>3. CASE j > 1
    <3>1. PICK i \in 1 .. Len(mv) : j = i + 1
      BY <1>1, <2>3
    <3>2. t[j] = ls[i] + len /\ ls[i] \in Nat
      BY <1>2, <1>3, <3>1
    <3>3. Size(t, j + 1) = t[j + 1] - t[j] /\ Size(ls, j) = ls[j] - ls[i]
      BY <2>1, <2>3, <3>1 DEF Size, UpTo
    <3> QED BY <2>1, <3>2, <3>3
  <2> QED BY <2>1, <2>2, <2>3
<1>5. t = <<len>> \o Moved(ls, len) /\ Len(mv) \in Nat
  BY <1>1 DEF t
<1> QED BY <1>1, <1>2, <1>3, <1>4, <1>5

\* log_entry(): an entry in front, the end falls off.
LEMMA TextGrows ==
  ASSUME NEW ls, Text(ls), NEW m, Wordy(m)
  PROVE  Text(Entry(m) \o Moved(ls, Bytes(Entry(m))))
<1>1. PICK len \in Nat : /\ MINLINE <= len /\ len < ENTRY
                         /\ Entry(m) = <<len>> \/ Entry(m) = <<len, len + 1>>
  BY EntryIs
<1>2. ls \in Seq(Nat)
  BY DEF Text
<1>3. CASE Entry(m) = <<len>>
  <2>1. Bytes(Entry(m)) = len
    BY <1>3 DEF Bytes, UpTo
  <2>2. PICK t \in Seq(Nat), n \in Nat :
          /\ t = <<len>> \o Moved(ls, len) /\ Len(t) = n + 1 /\ n <= Len(ls) /\ t[1] = len
          /\ \A j \in 1 .. n : t[j + 1] = ls[j] + len /\ t[j + 1] <= MAIN /\ ls[j] \in Nat
          /\ \A j \in 1 .. n : Size(t, j + 1) = Size(ls, j)
    BY <1>2, OneMore
  <2>5. Thick(t)
    <3> SUFFICES ASSUME NEW j \in 1 .. Len(t), \A i \in 1 .. j : Size(t, i) # 1
                 PROVE  t[j] >= MINLINE * j
      BY DEF Thick
    <3>1. CASE j = 1
      BY <1>1, <2>2, <3>1 DEF MINLINE
    <3>2. CASE j > 1
      <4>1. PICK i \in 1 .. n : j = i + 1
        BY <2>2, <3>2
      <4>2. \A h \in 1 .. i : Size(ls, h) # 1
        <5> TAKE h \in 1 .. i
        <5>1. h \in 1 .. n /\ h + 1 \in 1 .. j
          BY <4>1
        <5> QED BY <2>2, <5>1
      <4>a. i \in 1 .. Len(ls) /\ ls[i] \in Nat
        BY <1>2, <2>2
      <4>3. ls[i] >= MINLINE * i /\ ls[i] \in Nat
        BY <4>a, <4>2 DEF Text, Thick
      <4> QED BY <1>1, <2>2, <4>1, <4>3 DEF MINLINE
    <3> QED BY <2>2, <3>1, <3>2
  <2>6. \A j \in 1 .. Len(t) : t[j] <= MAIN
    <3> TAKE j \in 1 .. Len(t)
    <3>1. j = 1 \/ \E i \in 1 .. n : j = i + 1
      BY <2>2
    <3> QED BY <1>1, <2>2, <3>1 DEF MAIN, OUTBUF, ENTRY
  <2>7. Text(t)
    BY <2>2, <2>5, <2>6 DEF Text
  <2> QED BY <1>3, <2>1, <2>2, <2>7
<1>4. CASE Entry(m) = <<len, len + 1>>
  <2>1. Bytes(Entry(m)) = len + 1
    BY <1>4 DEF Bytes, UpTo
  <2>2. PICK mv \in Seq(Nat) : /\ mv = Moved(ls, len + 1) /\ Len(mv) <= Len(ls)
                               /\ \A i \in 1 .. Len(mv) : mv[i] = ls[i] + (len + 1) /\ ls[i] + (len + 1) <= MAIN
    BY <1>2, MovedIs
  <2> DEFINE t == <<len, len + 1>> \o mv
  <2>3. /\ t \in Seq(Nat) /\ Len(t) = Len(mv) + 2 /\ t[1] = len /\ t[2] = len + 1
        /\ \A j \in 1 .. Len(mv) : t[j + 2] = ls[j] + (len + 1)
    BY <2>2
  <2> HIDE DEF t
  <2>4. Size(t, 2) = 1
    BY <2>3 DEF Size, UpTo
  <2>5. Thick(t)
    <3> SUFFICES ASSUME NEW j \in 1 .. Len(t), \A i \in 1 .. j : Size(t, i) # 1
                 PROVE  t[j] >= MINLINE * j
      BY DEF Thick
    <3>1. j = 1
      BY <2>3, <2>4
    <3> QED BY <1>1, <2>3, <3>1 DEF MINLINE
  <2>6. \A j \in 1 .. Len(t) : t[j] <= MAIN
    <3> TAKE j \in 1 .. Len(t)
    <3>1. j = 1 \/ j = 2 \/ \E i \in 1 .. Len(mv) : j = i + 2
      BY <2>2, <2>3
    <3> QED BY <1>1, <2>2, <2>3, <3>1 DEF MAIN, OUTBUF, ENTRY
  <2>7. Text(t)
    BY <2>3, <2>5, <2>6 DEF Text
  <2> QED BY <1>4, <2>1, <2>2, <2>7 DEF t
<1> QED BY <1>1, <1>3, <1>4

-----------------------------------------------------------------------------
(* The messages.                                                           *)

\* All messages that the program logs.
All == Messages \cup {sc.msg : sc \in Scenes} \cup {REQ}

Sized(m) == m.prefix \in Nat /\ m.msg \in Nat

\* Every line takes 37 bytes at least.  The shortest one of the program, an empty reply in
\* "00:00:00.000: debug: smtp/smtp.c:324: << ", takes more than 40.
Talkative == \A m \in All : Wordy(m)

\* The sizes of all messages, those of the page included.
LEMMA AllSized ==
  /\ \A m \in All \cup {Request, Avoided, Overflow} : Sized(m)
  /\ Wordy(Avoided) /\ Wordy(Overflow)
  /\ Wordy(REQ) => Wordy(Request)
  /\ \A s \in Systems : Sized(Tune(s)) /\ (Wordy(REQ) => Wordy(Tune(s)))
<1>1. \A m \in All : Sized(m)
  BY LoggingConstants DEF All, Sized
<1>2. REQ \in [sys : Systems, level : LevelSet, prefix : Nat, msg : Nat, nl : BOOLEAN]
  BY LoggingConstants
<1>3. PICK n \in Nat : n = IF refresh THEN 8 ELSE 0
  OBVIOUS
<1>4. Request.prefix = REQ.prefix /\ Request.msg = REQ.msg + n
  BY <1>2, <1>3 DEF Request
<1>5. REQ.prefix \in Nat /\ REQ.msg \in Nat
  BY <1>2
<1>6. Sized(Request) /\ (Wordy(REQ) => Wordy(Request))
  BY <1>4, <1>5 DEF Sized, Wordy
<1>7. Sized(Avoided) /\ Sized(Overflow) /\ Wordy(Avoided) /\ Wordy(Overflow)
  BY DEF Avoided, Overflow, Sized, Wordy
<1>8. ASSUME NEW s \in Systems PROVE Sized(Tune(s)) /\ (Wordy(REQ) => Wordy(Tune(s)))
  <2>1. NameLen[s] \in Nat
    BY DEF NameLen, Systems
  <2>2. PICK k \in Nat : k = 7 + NameLen[s]
    BY <2>1
  <2>3. Tune(s).prefix = REQ.prefix /\ Tune(s).msg = REQ.msg + k
    BY <1>2, <1>5, <2>1, <2>2 DEF Tune
  <2> QED BY <1>5, <2>3 DEF Sized, Wordy
<1> QED BY <1>1, <1>6, <1>7, <1>8

\* The lines of an entry end at places in memory.
LEMMA EntryShape ==
  ASSUME NEW m, Sized(m)
  PROVE  \E a, b \in Nat : Entry(m) = <<a, b>> \/ Entry(m) = <<b>>
<1>1. PICK p, q \in Nat : p = m.prefix /\ q = m.msg
  BY DEF Sized
<1>2. PICK len \in Nat : len = p + MIN(q, LINE - 1) + 1 /\ len >= 1
  <2>1. MIN(q, LINE - 1) \in Nat
    BY DEF MIN, LINE
  <2> QED BY <1>1, <2>1
<1>3. Entry(m) = IF m.nl /\ len < ENTRY THEN <<len - 1, len>> ELSE <<MIN(len, ENTRY - 1)>>
  BY <1>1, <1>2 DEF Entry
<1>4. len - 1 \in Nat /\ MIN(len, ENTRY - 1) \in Nat
  BY <1>2 DEF MIN, ENTRY
<1> QED BY <1>3, <1>4

\* One or two numbers as a sequence.
LEMMA Short ==
  ASSUME NEW a \in Nat, NEW b \in Nat
  PROVE  /\ <<a, b>> \in Seq(Nat) /\ Len(<<a, b>>) = 2 /\ <<a, b>>[1] = a /\ <<a, b>>[2] = b
         /\ <<b>> \in Seq(Nat) /\ Len(<<b>>) = 1 /\ <<b>>[1] = b
         /\ Bytes(<<a, b>>) = b /\ Bytes(<<b>>) = b
<1>1. /\ <<a, b>> \in Seq(Nat) /\ Len(<<a, b>>) = 2 /\ <<a, b>>[1] = a /\ <<a, b>>[2] = b
      /\ <<b>> \in Seq(Nat) /\ Len(<<b>>) = 1 /\ <<b>>[1] = b
  OBVIOUS
<1>2. Bytes(<<a, b>>) = b /\ Bytes(<<b>>) = b
  BY <1>1 DEF Bytes, UpTo
<1> QED BY <1>1, <1>2

\* So an entry is a sequence of them.
LEMMA EntrySeq ==
  ASSUME NEW m, Sized(m)
  PROVE  Entry(m) \in Seq(Nat) /\ Bytes(Entry(m)) \in Nat
<1>1. PICK a, b \in Nat : Entry(m) = <<a, b>> \/ Entry(m) = <<b>>
  BY EntryShape
<1>2. <<a, b>> \in Seq(Nat) /\ <<b>> \in Seq(Nat) /\ Bytes(<<a, b>>) = b /\ Bytes(<<b>>) = b
  BY Short
<1> QED BY <1>1, <1>2

\* What a message makes of the log.
LEMMA LogsSeq ==
  ASSUME NEW log, log.lines \in Seq(Nat), NEW m, Sized(m)
  PROVE  Logs(log, m).lines \in Seq(Nat)
<1>1. CASE Logged(m)
  <2>1. Logs(log, m).lines = Entry(m) \o Moved(log.lines, Bytes(Entry(m)))
    BY <1>1 DEF Logs, log_entry
  <2>2. Moved(log.lines, Bytes(Entry(m))) \in Seq(Nat) /\ Entry(m) \in Seq(Nat)
    BY EntrySeq, MovedIs
  <2> QED BY <2>1, <2>2
<1> QED BY <1>1 DEF Logs

\* The same with the lengths of the lines.
LEMMA LogsText ==
  ASSUME NEW log, Text(log.lines), NEW m, Wordy(m)
  PROVE  Text(Logs(log, m).lines)
<1>1. CASE Logged(m)
  <2>1. Logs(log, m).lines = Entry(m) \o Moved(log.lines, Bytes(Entry(m)))
    BY <1>1 DEF Logs, log_entry
  <2> QED BY <2>1, TextGrows
<1> QED BY <1>1 DEF Logs

-----------------------------------------------------------------------------
(* The page.                                                               *)

\* The loop over the rows ends with the first row that ends it.
LEMMA LastRowIs ==
  ASSUME NEW log, NEW num \in Nat, num >= 1
  PROVE  /\ LastRow(log, num) \in 1 .. num
         /\ \A j \in 1 .. LastRow(log, num) - 1 : ~Ends(log, j)
<1> DEFINE P(i) == (i = num \/ Ends(log, i)) /\ (\A j \in 1 .. i - 1 : ~Ends(log, j))
           T == {i \in 1 .. num : i = num \/ Ends(log, i)}
<1>1. \E i \in 1 .. num : P(i)
  <2>1. T \in SUBSET Nat /\ num \in T
    OBVIOUS
  <2>2. PICK i \in T : \A y \in T : i <= y
    <3> HIDE DEF T
    <3> QED BY <2>1, Least
  <2>3. \A j \in 1 .. i - 1 : j \in 1 .. num /\ ~(i <= j)
    BY <2>2
  <2>4. P(i)
    BY <2>2, <2>3
  <2> QED BY <2>2, <2>4
<1>2. LastRow(log, num) = CHOOSE i \in 1 .. num : P(i)
  BY DEF LastRow
<1>3. LastRow(log, num) \in 1 .. num /\ P(LastRow(log, num))
  BY <1>1, <1>2
<1> QED BY <1>3

\* The rows in front of the last one are in http_outbuf, with room for a NUL.
LEMMA RowsFit ==
  ASSUME NEW log, log.lines \in Seq(Nat), NEW i \in 1 .. Len(log.lines) + 1,
         \A j \in 1 .. i - 1 : ~Ends(log, j)
  PROVE  Before(log, i) \in Nat /\ Before(log, i) < OUTBUF
<1>1. Top \in Nat /\ Top <= 408
  BY DEF Top
<1>2. CASE i = 1
  BY <1>1, <1>2 DEF Before, UpTo, OUTBUF
<1>3. CASE i > 1
  <2>1. PICK j \in 1 .. Len(log.lines) : i = j + 1
    BY <1>3
  <2>2. PICK a, b \in Nat : a = log.lines[j] /\ b = UpTo(log.lines, j - 1)
    <3>1. PICK ls \in Seq(Nat) : ls = log.lines
      OBVIOUS
    <3>2. j - 1 = 0 \/ j - 1 \in 1 .. Len(ls)
      BY <2>1, <3>1
    <3>3. ls[j] \in Nat /\ (j - 1 # 0 => ls[j - 1] \in Nat)
      BY <2>1, <3>1, <3>2
    <3>4. UpTo(ls, j - 1) \in Nat
      BY <3>3 DEF UpTo
    <3> QED BY <3>1, <3>3, <3>4
  <2>3. Before(log, j) = Top + 45 * (j - 1) + b /\ Size(log.lines, j) = a - b
    BY <2>2 DEF Before, Size
  <2>4. Before(log, i) = Top + 45 * j + a
    BY <2>1, <2>2 DEF Before, UpTo
  <2>5. ~HTTP_OUTBUF_APPEND(Before(log, j) + 28 + Size(log.lines, j), 17)
    BY <2>1 DEF Ends, RowFails
  <2>6. Before(log, i) = Before(log, j) + 28 + Size(log.lines, j) + 17
    <3>1. PICK t, k \in Nat : t = Top /\ k = j
      BY <1>1
    <3>2. t + 45 * k + a = (t + 45 * (k - 1) + b) + 28 + (a - b) + 17
      OBVIOUS
    <3> QED BY <2>3, <2>4, <3>1, <3>2
  <2>7. Before(log, i) \in Nat
    BY <1>1, <2>2, <2>4
  <2>8. Before(log, j) + 28 + Size(log.lines, j) \in Int
    <3>1. Top + 45 * (j - 1) + b \in Int /\ a - b \in Int
      BY <1>1, <2>1, <2>2
    <3> QED BY <2>3, <3>1
  <2> QED BY <2>5, <2>6, <2>7, <2>8 DEF HTTP_OUTBUF_APPEND, OUTBUF
<1> QED BY <1>2, <1>3

\* What a request of the page leaves behind, by the two ways it ends.
LEMMA PageIs ==
  ASSUME lines \in Seq(Nat), http_url_logs
  PROVE  \E log, m : \E i \in Nat :
           /\ log = Logs(Log, Request) /\ log.lines \in Seq(Nat)
           /\ run' = run /\ outbuflen' < OUTBUF
           /\ \/ m \in {Avoided, Overflow} /\ i \in 0 .. Len(log.lines)
                 /\ lines' = Logs(Torn(log, i), m).lines
              \/ lines' = log.lines
              \/ m \in {Avoided, Overflow} /\ lines' = Logs(log, m).lines
              \/ lines' = Logs(Logs(log, Avoided), Overflow).lines
<1>1. PICK log : log = Logs(Log, Request)
  OBVIOUS
<1>2. log.lines \in Seq(Nat)
  BY <1>1, LogsSeq, AllSized DEF Log
<1>3. PICK num : num = MAX(1, Count(log, Behind))
  OBVIOUS
<1>4. num \in Nat /\ num >= 1 /\ num <= Len(log.lines) + 1
  <2>1. Count(log, Behind) \in Nat /\ Count(log, Behind) <= Len(log.lines) + 1
    <3>1. Count(log, Behind) = Len(log.lines) + 1 \/ Count(log, Behind) = Len(log.lines) + 0
      BY Zenon DEF Count
    <3> QED BY <1>2, <3>1
  <2> QED BY <1>2, <1>3, <2>1 DEF MAX
<1>5. PICK i \in 1 .. num : i = LastRow(log, num) /\ \A j \in 1 .. i - 1 : ~Ends(log, j)
  BY <1>4, LastRowIs
<1>6. PICK used \in Nat : used = Before(log, i) /\ used < OUTBUF
  BY <1>2, <1>4, <1>5, RowsFit
<1>7. /\ run' = run
      /\ IF i < num /\ ~Guard(used, Size(log.lines, i))
         THEN Failed(Torn(log, i), used + 28 + Size(log.lines, i))
         ELSE LET after == Restored(log, i - 1)
                  shown == IF i < num THEN Logs(after, Avoided) ELSE after
              IN  IF HTTP_OUTBUF_APPEND(used, 23) THEN Failed(shown, used) ELSE Sent(shown, used)
  BY <1>1, <1>3, <1>5, <1>6 DEF http_url_logs
<1>8. CASE i < num /\ ~Guard(used, Size(log.lines, i))
  <2>1. outbuflen' = used + 28 + Size(log.lines, i) /\ lines' = Logs(Torn(log, i), Overflow).lines
    BY <1>7, <1>8 DEF Failed, Becomes
  <2>2. i \in 1 .. Len(log.lines) /\ Size(log.lines, i) \in Int
    <3>1. PICK ls \in Seq(Nat) : ls = log.lines
      BY <1>2
    <3>2. i \in 1 .. Len(ls) /\ (i - 1 = 0 \/ i - 1 \in 1 .. Len(ls))
      BY <1>4, <1>5, <1>8, <3>1
    <3>3. ls[i] \in Nat /\ (i - 1 # 0 => ls[i - 1] \in Nat)
      BY <3>1, <3>2
    <3> QED BY <3>1, <3>2, <3>3 DEF Size, UpTo
  <2>3. outbuflen' < OUTBUF
    <3>1. PICK n \in Int : n = Size(log.lines, i)
      BY <2>2
    <3>2. used + 28 + n < OUTBUF
      BY <1>8, <3>1 DEF Guard, OUTBUF
    <3> QED BY <2>1, <3>1, <3>2
  <2> QED BY <1>1, <1>2, <1>7, <2>1, <2>2, <2>3
<1>9. CASE ~(i < num /\ ~Guard(used, Size(log.lines, i)))
  <2>1. PICK shown : /\ shown = log \/ shown = Logs(log, Avoided)
                     /\ IF HTTP_OUTBUF_APPEND(used, 23) THEN Failed(shown, used) ELSE Sent(shown, used)
    BY <1>7, <1>9 DEF Restored
  <2>2. CASE HTTP_OUTBUF_APPEND(used, 23)
    <3>1. outbuflen' = used /\ lines' = Logs(shown, Overflow).lines
      BY <2>1, <2>2 DEF Failed, Becomes
    <3> QED BY <1>1, <1>2, <1>6, <1>7, <2>1, <3>1
  <2>3. CASE ~HTTP_OUTBUF_APPEND(used, 23)
    <3>1. outbuflen' = used + 23 /\ lines' = shown.lines
      BY <2>1, <2>3 DEF Sent, Becomes
    <3>2. used + 23 < OUTBUF
      BY <2>3 DEF HTTP_OUTBUF_APPEND, OUTBUF
    <3> QED BY <1>1, <1>2, <1>7, <2>1, <3>1, <3>2
  <2> QED BY <2>2, <2>3
<1> QED BY <1>8, <1>9

-----------------------------------------------------------------------------
(* The log at the start.                                                   *)

\* A log that is cut at the end of main.
LEMMA TextStart ==
  ASSUME NEW ls \in Seq(Nat), Thick(ls)
  PROVE  Text(Moved(ls, 0))
<1>1. PICK t \in Seq(Nat) :
        /\ t = Moved(ls, 0) /\ Len(t) <= Len(ls)
        /\ \A i \in 1 .. Len(t) : t[i] = ls[i] + 0 /\ ls[i] + 0 <= MAIN
  BY MovedIs
<1>2. \A i \in 1 .. Len(t) : i \in 1 .. Len(ls) /\ t[i] = ls[i] /\ t[i] <= MAIN
  BY <1>1
<1>3. \A i \in 1 .. Len(t) : Size(t, i) = Size(ls, i)
  <2> TAKE i \in 1 .. Len(t)
  <2>1. i - 1 = 0 \/ i - 1 \in 1 .. Len(t)
    BY <1>1
  <2>2. UpTo(t, i - 1) = UpTo(ls, i - 1)
    BY <1>2, <2>1 DEF UpTo
  <2> QED BY <1>2, <2>2 DEF Size
<1>4. Thick(t)
  BY <1>2, <1>3 DEF Thick
<1> QED BY <1>1, <1>2, <1>4 DEF Text

\* Products of numbers.
LEMMA Times ==
  /\ \A a, b \in Nat : a * b \in Nat
  /\ \A a, b \in Nat : b >= MINLINE => a * b >= MINLINE * a
BY DEF MINLINE

\* A log of one message, over and over.
LEMMA PastText ==
  ASSUME NEW sc \in Scenes
  PROVE  Past(sc).lines \in Seq(Nat) /\ (Wordy(sc.msg) => Text(Past(sc).lines))
<1>1. sc.times \in Nat /\ Sized(sc.msg)
  BY AllSized, LoggingConstants DEF All
<1>2. PICK times \in Nat : times = sc.times
  BY <1>1
<1>3. PICK a, b \in Nat : Entry(sc.msg) = <<a, b>> \/ Entry(sc.msg) = <<b>>
  BY <1>1, EntryShape
<1>4. \A x \in Nat : x \div 1 = x /\ x % 1 = 0 /\ x \div 2 \in Nat /\ x % 2 \in {0, 1}
  OBVIOUS
<1>5. CASE Entry(sc.msg) = <<b>>
  <2> DEFINE all == [i \in 1 .. times |-> (i - 1) * b + b]
  <2>1. all \in Seq(Nat) /\ Len(all) = times /\ \A i \in 1 .. times : all[i] = (i - 1) * b + b
    <3>1. \A i \in 1 .. times : (i - 1) * b + b \in Nat
      BY Times
    <3> QED BY <3>1
  <2>2. Past(sc).lines = Moved(all, 0)
    <3>1. \A i \in 1 .. times : ((i - 1) \div 1) * b + <<b>>[1 + ((i - 1) % 1)] = (i - 1) * b + b
      <4> TAKE i \in 1 .. times
      <4>1. (i - 1) \div 1 = i - 1 /\ 1 + ((i - 1) % 1) = 1 /\ <<b>>[1] = b
        BY <1>4, Short
      <4> QED BY <4>1
    <3>2. [i \in 1 .. times |-> ((i - 1) \div 1) * b + <<b>>[1 + ((i - 1) % 1)]] = all
      BY <3>1
    <3>3. Len(<<b>>) = 1 /\ Bytes(<<b>>) = b
      BY Short
    <3>4. times * 1 = times
      OBVIOUS
    <3> QED BY <1>2, <1>5, <3>2, <3>3, <3>4 DEF Past
  <2>3. Past(sc).lines \in Seq(Nat)
    BY <2>1, <2>2, MovedIs
  <2>4. ASSUME Wordy(sc.msg) PROVE Text(Past(sc).lines)
    <3>1. b >= MINLINE
      BY <1>5, <2>4, EntryIs, Short
    <3>2. Thick(all)
      <4> SUFFICES ASSUME NEW j \in 1 .. times PROVE all[j] >= MINLINE * j
        BY <2>1 DEF Thick
      <4>1. (j - 1) * b >= MINLINE * (j - 1) /\ (j - 1) * b \in Nat
        BY <3>1, Times
      <4> QED BY <2>1, <3>1, <4>1 DEF MINLINE
    <3> QED BY <2>1, <2>2, <3>2, TextStart
  <2> QED BY <2>3, <2>4
<1>6. CASE Entry(sc.msg) = <<a, b>>
  <2> DEFINE all == [i \in 1 .. times * 2 |-> ((i - 1) \div 2) * b + <<a, b>>[1 + ((i - 1) % 2)]]
  <2>1. all \in Seq(Nat) /\ Len(all) = times * 2
    <3>1. ASSUME NEW i \in 1 .. times * 2
          PROVE  ((i - 1) \div 2) * b + <<a, b>>[1 + ((i - 1) % 2)] \in Nat
      <4>1. PICK x \in Nat : x = (i - 1) \div 2
        BY <1>4
      <4>2. 1 + ((i - 1) % 2) = 1 \/ 1 + ((i - 1) % 2) = 2
        BY <1>4
      <4>3. <<a, b>>[1 + ((i - 1) % 2)] \in Nat
        BY <4>2, Short
      <4> QED BY <4>1, <4>3, Times
    <3> QED BY <3>1
  <2>2. Past(sc).lines = Moved(all, 0)
    <3>1. Len(<<a, b>>) = 2 /\ Bytes(<<a, b>>) = b
      BY Short
    <3> QED BY <1>2, <1>6, <3>1 DEF Past
  <2>3. Past(sc).lines \in Seq(Nat)
    BY <2>1, <2>2, MovedIs
  <2>4. ASSUME Wordy(sc.msg) PROVE Text(Past(sc).lines)
    <3>1. a >= MINLINE /\ b = a + 1
      BY <1>6, <2>4, EntryIs, Short
    <3>2. Len(all) >= 1 => all[1] = a
      <4>1. ((1 - 1) \div 2) * b = 0 /\ 1 + ((1 - 1) % 2) = 1
        OBVIOUS
      <4> QED BY <2>1, <4>1, Short
    <3>3. Len(all) >= 2 => all[2] = b
      <4>1. ((2 - 1) \div 2) * b = 0 /\ 1 + ((2 - 1) % 2) = 2
        OBVIOUS
      <4> QED BY <2>1, <4>1, Short
    <3> HIDE DEF all
    <3>4. Len(all) >= 2 => Size(all, 2) = 1
      BY <2>1, <3>1, <3>2, <3>3 DEF Size, UpTo
    <3>5. Thick(all)
      <4> SUFFICES ASSUME NEW j \in 1 .. Len(all), \A i \in 1 .. j : Size(all, i) # 1
                   PROVE  all[j] >= MINLINE * j
        BY DEF Thick
      <4>1. j = 1
        BY <2>1, <3>4
      <4> QED BY <2>1, <3>1, <3>2, <4>1 DEF MINLINE
    <3> QED BY <2>1, <2>2, <3>5, TextStart
  <2> QED BY <2>3, <2>4
<1> QED BY <1>3, <1>5, <1>6

-----------------------------------------------------------------------------
(* The properties.                                                         *)

\* What a message leaves behind.
LEMMA MessageIs ==
  ASSUME NEW m \in Messages, Message(m)
  PROVE  /\ lines' = Logs(Log, m).lines /\ UNCHANGED outbuflen
         /\ run = "on" /\ run' # "wild"
BY DEF Message, Becomes

\* What a change of a level leaves behind.
LEMMA ChangeIs ==
  ASSUME NEW s \in Tuned, http_url_logs_raise(s) \/ http_url_logs_lower(s)
  PROVE  /\ s \in Systems /\ lines' = Logs(Log, Tune(s)).lines /\ outbuflen' = 125
         /\ run = "on" /\ run' = "on"
BY LoggingConstants DEF http_url_logs_raise, http_url_logs_lower, Changed, Becomes

\* The page never writes behind http_outbuf, whatever the log holds: for all messages,
\* also shorter and longer ones than the program has, and all levels.
THEOREM PageInBuffer == Spec => []OutbufBounded
<1> DEFINE Inv == lines \in Seq(Nat) /\ OutbufBounded
<1>1. Init => Inv
  <2> SUFFICES ASSUME Init PROVE Inv
    OBVIOUS
  <2>1. PICK sc \in Scenes : lines = Past(sc).lines
    BY DEF Init
  <2> QED BY <2>1, PastText DEF Init, OutbufBounded, OUTBUF
<1>2. Inv /\ [Next]_vars => Inv'
  <2> SUFFICES ASSUME lines \in Seq(Nat), OutbufBounded, [Next]_vars PROVE Inv'
    OBVIOUS
  <2>0. Log.lines = lines
    BY DEF Log
  <2>1. ASSUME NEW m \in Messages, Message(m) PROVE Inv'
    <3>1. Logs(Log, m).lines \in Seq(Nat)
      BY <2>0, LogsSeq, AllSized DEF All
    <3> QED BY <2>1, <3>1, MessageIs DEF OutbufBounded
  <2>2. ASSUME NEW s \in Tuned, http_url_logs_raise(s) \/ http_url_logs_lower(s) PROVE Inv'
    <3>1. s \in Systems /\ lines' = Logs(Log, Tune(s)).lines /\ outbuflen' = 125
      BY <2>2, ChangeIs
    <3>2. Logs(Log, Tune(s)).lines \in Seq(Nat)
      BY <2>0, <3>1, LogsSeq, AllSized
    <3> QED BY <3>1, <3>2 DEF OutbufBounded, OUTBUF
  <2>3. CASE http_url_logs
    <3>1. PICK log, m : \E i \in Nat :
                /\ log.lines \in Seq(Nat) /\ outbuflen' < OUTBUF
                /\ \/ m \in {Avoided, Overflow} /\ i \in 0 .. Len(log.lines)
                      /\ lines' = Logs(Torn(log, i), m).lines
                   \/ lines' = log.lines
                   \/ m \in {Avoided, Overflow} /\ lines' = Logs(log, m).lines
                   \/ lines' = Logs(Logs(log, Avoided), Overflow).lines
      BY <2>3, PageIs, Zenon
    <3>2. Sized(Avoided) /\ Sized(Overflow)
      BY AllSized
    <3>3. \A i \in 0 .. Len(log.lines) : Torn(log, i).lines \in Seq(Nat)
      BY <3>1 DEF Torn
    <3>4. /\ \A i \in 0 .. Len(log.lines) : \A x \in {Avoided, Overflow} : Logs(Torn(log, i), x).lines \in Seq(Nat)
          /\ \A x \in {Avoided, Overflow} : Logs(log, x).lines \in Seq(Nat)
      BY <3>1, <3>2, <3>3, LogsSeq
    <3>5. Logs(Logs(log, Avoided), Overflow).lines \in Seq(Nat)
      BY <3>2, <3>4, LogsSeq
    <3> QED BY <3>1, <3>4, <3>5, Zenon DEF OutbufBounded
  <2>4. CASE Overrun \/ UNCHANGED vars
    BY <2>4 DEF Overrun, vars, OutbufBounded
  <2> QED BY <2>1, <2>2, <2>3, <2>4 DEF Next
<1> QED BY <1>1, <1>2, PTL DEF Spec

\* A text has no more lines than lines[] has room for, unless there is an empty one.
LEMMA FewLines ==
  ASSUME NEW ls, Text(ls), \A i \in 1 .. Len(ls) : Size(ls, i) # 1
  PROVE  Len(ls) < MAX_LINES
<1>1. Len(ls) \in Nat
  BY DEF Text
<1>2. CASE Len(ls) = 0
  BY <1>2 DEF MAX_LINES
<1>3. CASE Len(ls) > 0
  <2>1. Len(ls) \in 1 .. Len(ls)
    BY <1>1, <1>3
  <2>2. ls[Len(ls)] >= MINLINE * Len(ls) /\ ls[Len(ls)] <= MAIN /\ ls[Len(ls)] \in Nat
    BY <2>1 DEF Text, Thick
  <2> QED BY <1>1, <2>2 DEF MINLINE, MAIN, OUTBUF, MAX_LINES
<1> QED BY <1>1, <1>2, <1>3

\* The message of a request has no newline of its own and makes no empty line.
LEMMA RequestLine ==
  ASSUME lines \in Seq(Nat), Wordy(Request), \A i \in 1 .. Len(lines) : Size(lines, i) # 1
  PROVE  \A i \in 1 .. Len(Logs(Log, Request).lines) : Size(Logs(Log, Request).lines, i) # 1
<1>0. Log.lines = lines
  BY DEF Log
<1>1. CASE ~Logged(Request)
  BY <1>0, <1>1 DEF Logs
<1>2. CASE Logged(Request)
  <2>1. PICK len \in Nat : /\ MINLINE <= len
                           /\ Entry(Request) = <<len>> \/ Entry(Request) = <<len, len + 1>>
    BY EntryIs
  <2>2. Entry(Request) = <<len>>
    <3>1. Request.nl = FALSE
      BY LoggingConstants DEF Request
    <3>2. PICK x : Entry(Request) = <<x>>
      BY <3>1, Zenon DEF Entry
    <3>3. <<x>> # <<len, len + 1>>
      OBVIOUS
    <3> QED BY <2>1, <3>2, <3>3
  <2>3. Bytes(Entry(Request)) = len
    BY <2>2 DEF Bytes, UpTo
  <2>4. PICK t \in Seq(Nat), n \in Nat :
          /\ t = <<len>> \o Moved(lines, len) /\ Len(t) = n + 1 /\ n <= Len(lines) /\ t[1] = len
          /\ \A j \in 1 .. n : Size(t, j + 1) = Size(lines, j)
    BY OneMore
  <2>5. Logs(Log, Request).lines = t
    BY <1>0, <1>2, <2>2, <2>3, <2>4 DEF Logs, log_entry
  <2>6. ASSUME NEW i \in 1 .. Len(t) PROVE Size(t, i) # 1
    <3>1. CASE i = 1
      BY <2>1, <2>4, <3>1 DEF Size, UpTo, MINLINE
    <3>2. CASE i > 1
      <4>1. PICK j \in 1 .. n : i = j + 1
        BY <2>4, <3>2
      <4>2. j \in 1 .. Len(lines)
        BY <2>4
      <4> QED BY <2>4, <4>1, <4>2
    <3> QED BY <2>4, <3>1, <3>2
  <2> QED BY <2>5, <2>6
<1> QED BY <1>1, <1>2

\* lines[] of the page, which nothing checks, is not overrun as long as the log has no
\* empty line: for all messages of at least the length that those of the program have,
\* all levels, and whatever a page that failed has cut off the log.
THEOREM LinesInBounds ==
  ASSUME Talkative
  PROVE  Spec => []LinesFit
<1> DEFINE Inv == Text(lines) /\ LinesFit
<1>0. Wordy(Request) /\ Wordy(Avoided) /\ Wordy(Overflow) /\ \A s \in Systems : Wordy(Tune(s))
  BY AllSized DEF Talkative, All
<1>1. Init => Inv
  <2> SUFFICES ASSUME Init PROVE Inv
    OBVIOUS
  <2>1. PICK sc \in Scenes : lines = Past(sc).lines
    BY DEF Init
  <2>2. Wordy(sc.msg)
    BY DEF Talkative, All
  <2> QED BY <2>1, <2>2, PastText DEF Init, LinesFit
<1>2. Inv /\ [Next]_vars => Inv'
  <2> SUFFICES ASSUME Text(lines), LinesFit, [Next]_vars PROVE Inv'
    OBVIOUS
  <2>0. Log.lines = lines
    BY DEF Log
  <2>1. ASSUME NEW m \in Messages, Message(m) PROVE Inv'
    <3>1. Text(Logs(Log, m).lines)
      BY <2>0, LogsText DEF Talkative, All
    <3> QED BY <2>1, <3>1, MessageIs DEF LinesFit
  <2>2. ASSUME NEW s \in Tuned, http_url_logs_raise(s) \/ http_url_logs_lower(s) PROVE Inv'
    <3>1. s \in Systems /\ lines' = Logs(Log, Tune(s)).lines /\ run' = "on"
      BY <2>2, ChangeIs
    <3>2. Text(Logs(Log, Tune(s)).lines)
      BY <1>0, <2>0, <3>1, LogsText
    <3> QED BY <3>1, <3>2 DEF LinesFit
  <2>3. CASE http_url_logs
    <3>1. PICK log, m : \E i \in Nat :
                /\ log = Logs(Log, Request) /\ run' = run
                /\ \/ m \in {Avoided, Overflow} /\ i \in 0 .. Len(log.lines)
                      /\ lines' = Logs(Torn(log, i), m).lines
                   \/ lines' = log.lines
                   \/ m \in {Avoided, Overflow} /\ lines' = Logs(log, m).lines
                   \/ lines' = Logs(Logs(log, Avoided), Overflow).lines
      BY <2>3, PageIs, Zenon DEF Text
    <3>2. Text(log.lines)
      BY <1>0, <2>0, <3>1, LogsText
    <3>3. \A i \in 0 .. Len(log.lines) : Text(Torn(log, i).lines)
      BY <3>2, TextCut DEF Torn
    <3>4. /\ \A i \in 0 .. Len(log.lines) : \A x \in {Avoided, Overflow} : Text(Logs(Torn(log, i), x).lines)
          /\ \A x \in {Avoided, Overflow} : Text(Logs(log, x).lines)
      BY <1>0, <3>2, <3>3, LogsText
    <3>5. Text(Logs(Logs(log, Avoided), Overflow).lines)
      BY <1>0, <3>4, LogsText
    <3>6. Text(lines')
      BY <3>1, <3>2, <3>4, <3>5, Zenon
    <3>7. run = "on" /\ run' = "on"
      BY <2>3 DEF http_url_logs
    <3> QED BY <3>6, <3>7 DEF LinesFit
  <2>4. CASE Overrun
    <3>1. UNCHANGED lines /\ Count(Logs(Log, Request), Behind) > MAX_LINES
      BY <2>4 DEF Overrun
    <3>2. ASSUME \A i \in 1 .. Len(lines) : Size(lines, i) # 1 PROVE FALSE
      <4> DEFINE ls == Logs(Log, Request).lines
      <4>1. Text(ls)
        BY <1>0, <2>0, LogsText
      <4>b. lines \in Seq(Nat)
        BY DEF Text
      <4>2. \A i \in 1 .. Len(ls) : Size(ls, i) # 1
        BY <1>0, <2>0, <3>2, <4>b, RequestLine
      <4>3. Len(ls) < MAX_LINES /\ Len(ls) \in Nat
        BY <4>1, <4>2, FewLines DEF Text
      <4>4. Count(Logs(Log, Request), Behind) = Len(ls) + 1 \/ Count(Logs(Log, Request), Behind) = Len(ls) + 0
        BY Zenon DEF Count
      <4> QED BY <3>1, <4>3, <4>4 DEF MAX_LINES
    <3> QED BY <3>1, <3>2 DEF LinesFit
  <2>5. CASE UNCHANGED vars
    BY <2>5 DEF vars, LinesFit
  <2> QED BY <2>1, <2>2, <2>3, <2>4, <2>5 DEF Next
<1> QED BY <1>1, <1>2, PTL DEF Spec
=============================================================================
