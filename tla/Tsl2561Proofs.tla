--------------------------- MODULE Tsl2561Proofs ---------------------------
(***************************************************************************)
(* Proofs about Tsl2561, for all sensors, lights, missing acknowledges and *)
(* restarts.                                                               *)
(*                                                                         *)
(* The invariant follows a transfer setting by setting: where the driver   *)
(* is, what the sensor has heard so far, and what its registers hold.      *)
(***************************************************************************)
EXTENDS Tsl2561, TLAPS

Octets == 0 .. 255

Moves == [sda : {0, 1}, scl : {0, 1}, get : BOOLEAN]

\* What is left of s behind its first k elements.
Rest(s, k) == [i \in 1 .. Len(s) - k |-> s[k + i]]

\* The functions of the master, called with the wires at a and c.
StartFrom(c)    == <<Set(1, c), Set(1, 1), Set(0, 1)>>
CheckFrom(a)    == <<Set(a, 0), Set(1, 0), Get(1, 1), Set(1, 0)>>
AckFrom(a, l)   == <<Set(a, 0), Set(l, 0), Set(l, 1), Set(l, 0), Set(1, 0)>>
ReadFrom(a)     == <<Set(a, 0)>> \o Times(8, <<Set(1, 0), Get(1, 1)>>) \o <<Set(1, 0)>>
WriteFrom(a, b) ==
  <<Set(a, 0)>> \o [n \in 1 .. 24 |-> Set(Bit(b, 7 - ((n - 1) \div 3)), IF n % 3 = 2 THEN 1 ELSE 0)]

\* The transfers of tsl2561_lux().
Readers == {"id", "data0", "data1"}
Writers == {"on", "timing", "down"}
Steps   == Readers \cup Writers

Reg(s) == IF s = "id" THEN REG_ID ELSE IF s = "data0" THEN REG_DATA0LOW
          ELSE IF s = "data1" THEN REG_DATA1LOW ELSE IF s = "timing" THEN REG_TIMING ELSE REG_CONTROL
Val(s) == IF s = "on" THEN 3 ELSE IF s = "timing" THEN 18 ELSE 0

Job(s) == IF s = "id" THEN tsl2561_readbyte(Reg(s))
          ELSE IF s \in Readers THEN tsl2561_readword(Reg(s)) ELSE tsl2561_writebyte(Reg(s), Val(s))

-----------------------------------------------------------------------------
(* The sensor's end of the bus.                                            *)

States == Receiving \cup {"idle", "wait", "send"}

\* The acknowledge is the only bit that is pulled low while a byte is received.
SlaveOK ==
  /\ slave \in [st : States, n : 0 .. 9, byte : Nat, out : {0, 1}]
  /\ slave.st \in {"idle", "wait"} => slave.out = 1
  /\ slave.st \in Receiving => slave.out = (IF slave.n = 9 THEN 0 ELSE 1) /\ (m_nLastSCL = 0 => slave.n # 8)
  /\ slave.st = "send" /\ slave.n >= 8 /\ m_nLastSCL = 0 => slave.out = 1

Typed ==
  /\ m_nLastSDA \in {0, 1} /\ m_nLastSCL \in {0, 1} /\ todo \in Seq(Moves) /\ got \in Nat
  /\ sensor \in [reg : 0 .. 15, control : 0 .. 3, timing : 0 .. 31, id : Ids, light : Light]
  /\ nacks \in Nat /\ restarts \in 0 .. MaxRestarts /\ misses \in Nat /\ failed \in BOOLEAN

Wires(a, c) == m_nLastSDA = a /\ m_nLastSCL = c

\* Ready for the first bit of a byte.
Bare(st) == [st |-> st, n |-> 0, byte |-> 0, out |-> 1]

\* The first r bits of b.
Top(b, r) == b \div <<256, 128, 64, 32, 16, 8, 4, 2, 1>>[r + 1]

\* The sensor acknowledges a byte that the driver did not mean, so it misses the start.
Stuck == slave.st = "data" /\ slave.n = 9 /\ slave.out = 0

\* A call that has begun that way: the sensor took d bytes for data.
Dirty(d) ==
  /\ restarts > 0 /\ misses = 0
  /\ MaxRestarts <= 1 => (sensor.reg + 16 - d) % 16 \in {1, 3, 4, 13, 15}

-----------------------------------------------------------------------------
(* Inside of the functions: the k-th setting is done.                      *)

Lost == slave.st = "wait" /\ slave.out = 1 /\ misses = 0

\* The byte was heard, or not.
Heard(st, b) == slave = [st |-> st, n |-> 9, byte |-> b, out |-> 0] \/ Lost

Writing(st, b, k) ==
  /\ k > 0 => m_nLastSCL = IF k % 3 = 0 THEN 1 ELSE 0
  /\ k > 1 => m_nLastSDA = Bit(b, 7 - ((k - 2) \div 3))
  /\ k = 0 => slave = Bare(st)
  /\ k \in 1 .. 24 => slave = [st |-> st, n |-> k \div 3, byte |-> Top(b, k \div 3), out |-> 1]
  /\ k = 25 => Heard(st, b)

\* Up to the edge that ends the acknowledge.
Checking(st, b, k) ==
  /\ m_nLastSCL = IF k = 3 THEN 1 ELSE 0
  /\ k >= 2 => m_nLastSDA = 1
  /\ Heard(st, b)
  /\ got = IF k = 3 /\ slave.st = "wait" THEN 1 ELSE 0

Sending(v, r, out) == slave = [st |-> "send", n |-> r, byte |-> v, out |-> out]

Reading(v, k) ==
  /\ v \in Octets /\ m_nLastSDA = 1
  /\ m_nLastSCL = IF k \in 3 .. 17 /\ k % 2 = 1 THEN 1 ELSE 0
  /\ k \in 0 .. 2 => Sending(v, 0, Bit(v, 7)) /\ got = 0
  /\ k \in 3 .. 17 => Sending(v, (k - 1) \div 2, Bit(v, 7 - ((k - 2) \div 2))) /\ got = Top(v, (k - 1) \div 2)
  /\ k = 18 => Sending(v, 8, 1) /\ got = v

\* Up to the edge that ends the acknowledge.
Acking(l, v, k) ==
  /\ m_nLastSCL = IF k = 3 THEN 1 ELSE 0
  /\ m_nLastSDA = IF k \in {2, 3} THEN l ELSE 1
  /\ k < 3 => Sending(v, 8, 1)
  /\ k = 3 => IF l = 0 THEN Sending(v, 9, 1) ELSE slave.st = "wait" /\ slave.out = 1

Stopping(k) ==
  /\ m_nLastSCL = IF k >= 2 THEN 1 ELSE 0
  /\ k >= 1 => m_nLastSDA = IF k = 3 THEN 1 ELSE 0
  /\ k < 2 => slave.out = 1 /\ (slave.st = "wait" \/ slave = Bare("data"))
  /\ k = 2 => slave.out = 1
  /\ k = 3 => slave = Idle

-----------------------------------------------------------------------------
(* A transfer: j of its functions were called, and k settings of the last  *)
(* one are done.                                                           *)

\* What the transfers before have set up, and what this one has.
Prepared ==
  /\ step \in {"timing", "data0", "data1"} => sensor.control = 3
  /\ step \in {"data0", "data1"} => sensor.timing = 18
Done ==
  /\ sensor.control = IF step = "down" THEN 0 ELSE 3
  /\ step = "timing" => sensor.timing = 18

\* The register pointer is where the command has set it.
Aimed == sensor.reg = Reg(step) \/ (step = "id" /\ Dirty(3))

\* The i-th byte that is read.
Fits(i, v) ==
  /\ step = "id" => v = sensor.id \/ (restarts > 0 /\ misses = 0 /\ (MaxRestarts <= 1 => v < 16))
  /\ step \in {"data0", "data1"} =>
       LET light == sensor.light[IF step = "data0" THEN 1 ELSE 2]
       IN  v = IF i = 1 THEN light % 256 ELSE light \div 256

Behind == step # "id" => sensor.reg = Reg(step) + 1

Common(S, j) == step \in S /\ failed = FALSE /\ script = Rest(Job(step), j)

Mute == slave.st = "wait" /\ slave.out = 1

\* The address, the command, and what is to be written.
AtStart ==
  /\ Common(Steps, 0) /\ todo = << >> /\ bytes = << >> /\ Prepared /\ Wires(1, 1)
  /\ slave = Idle \/ (step = "id" /\ Stuck /\ Dirty(0))
Starting(k) ==
  /\ Common(Steps, 1) /\ todo = Rest(StartFrom(1), k) /\ bytes = << >> /\ Prepared
  /\ Wires(IF k = 3 THEN 0 ELSE 1, 1)
  /\ slave = (IF k = 3 THEN Bare("addr") ELSE Idle) \/ (step = "id" /\ Stuck /\ Dirty(0))
Byte1(k) ==
  /\ Common(Steps, 2) /\ todo = Rest(WriteFrom(0, 114), k) /\ bytes = << >> /\ Prepared
  /\ \/ Writing("addr", 114, k)
     \/ step = "id" /\ k = 0 /\ Wires(0, 1) /\ Stuck /\ Dirty(0)
     \/ step = "id" /\ k > 0 /\ Writing("data", 114, k) /\ Dirty(1)
Check1(k) ==
  /\ Common(Steps, 3) /\ (\E a \in {0, 1} : todo = Rest(CheckFrom(a), k)) /\ bytes = << >> /\ Prepared
  /\ k < 4 => Checking("addr", 114, k) \/ (step = "id" /\ Checking("data", 114, k) /\ Dirty(1))
  /\ k = 4 => /\ Wires(1, 0)
              /\ \/ got = 1 /\ Lost
                 \/ got = 0 /\ (slave = Bare("cmd") \/ (step = "id" /\ slave = Bare("data") /\ Dirty(2)))
Told1 ==
  /\ Common(Steps, 4) /\ todo = << >> /\ bytes = << >> /\ Prepared /\ Wires(1, 0)
  /\ slave = Bare("cmd") \/ (step = "id" /\ slave = Bare("data") /\ Dirty(2))
Byte2(k) ==
  /\ Common(Steps, 5) /\ todo = Rest(WriteFrom(1, 128 + Reg(step)), k) /\ bytes = << >> /\ Prepared
  /\ \/ Writing("cmd", 128 + Reg(step), k)
     \/ step = "id" /\ Writing("data", 128 + Reg(step), k) /\ Dirty(2)
Check2(k) ==
  /\ Common(Steps, 6) /\ (\E a \in {0, 1} : todo = Rest(CheckFrom(a), k)) /\ bytes = << >> /\ Prepared
  /\ k < 4 => \/ Checking("cmd", 128 + Reg(step), k)
              \/ step = "id" /\ Checking("data", 128 + Reg(step), k) /\ Dirty(2)
  /\ k = 4 => Wires(1, 0) /\ ((got = 1 /\ Lost) \/ (got = 0 /\ slave = Bare("data") /\ Aimed))
Told2 ==
  /\ Common(Steps, 7) /\ todo = << >> /\ bytes = << >> /\ Prepared /\ Wires(1, 0)
  /\ slave = Bare("data") /\ Aimed
Byte3(k) ==
  /\ Common(Writers, 8) /\ todo = Rest(WriteFrom(1, Val(step)), k) /\ Prepared /\ Aimed
  /\ Writing("data", Val(step), k)
Check3(k) ==
  /\ Common(Writers, 9) /\ (\E a \in {0, 1} : todo = Rest(CheckFrom(a), k))
  /\ k < 4 => Prepared /\ Aimed /\ Checking("data", Val(step), k)
  /\ k = 4 => Wires(1, 0) /\ ((got = 1 /\ Lost) \/ (got = 0 /\ slave = Bare("data") /\ Done))
Told3 ==
  /\ Common(Writers, 10) /\ todo = << >> /\ Wires(1, 0) /\ slave = Bare("data") /\ Done
Stop3(k) ==
  /\ Common(Writers, 11) /\ todo = Rest(StopAfter(0), k) /\ Stopping(k) /\ Done

\* The second start, and the bytes that are read.
Again(k) ==
  /\ Common(Readers, 8) /\ todo = Rest(StartFrom(0), k) /\ bytes = << >> /\ Prepared /\ Aimed
  /\ Wires(IF k = 3 THEN 0 ELSE 1, IF k < 2 THEN 0 ELSE 1)
  /\ slave = IF k < 2 THEN Bare("data")
             ELSE IF k = 2 THEN [st |-> "data", n |-> 1, byte |-> 1, out |-> 1] ELSE Bare("addr")
Byte4(k) ==
  /\ Common(Readers, 9) /\ todo = Rest(WriteFrom(0, 115), k) /\ bytes = << >> /\ Prepared /\ Aimed
  /\ Writing("addr", 115, k)
Check4(k) ==
  /\ Common(Readers, 10) /\ (\E a \in {0, 1} : todo = Rest(CheckFrom(a), k)) /\ bytes = << >> /\ Prepared
  /\ k < 4 => Aimed /\ Checking("addr", 115, k)
  /\ k = 4 => /\ Wires(1, 0)
              /\ \/ got = 1 /\ Lost
                 \/ got = 0 /\ Behind /\ \E v \in Octets : Sending(v, 0, Bit(v, 7)) /\ Fits(1, v)
Told4 ==
  /\ Common(Readers, 11) /\ todo = << >> /\ bytes = << >> /\ Prepared /\ Wires(1, 0) /\ Behind
  /\ \E v \in Octets : Sending(v, 0, Bit(v, 7)) /\ Fits(1, v)
Read1(k) ==
  /\ Common(Readers, 12) /\ todo = Rest(ReadFrom(1), k) /\ bytes = << >> /\ Prepared /\ Behind
  /\ \E v \in Octets : Reading(v, k) /\ Fits(1, v)
Kept1 ==
  /\ Common(Readers, 13) /\ todo = << >> /\ Prepared /\ Wires(1, 0) /\ Behind
  /\ \E v \in Octets : Sending(v, 8, 1) /\ Fits(1, v) /\ bytes = <<v>>
Ack1(k) ==
  LET l == IF step = "id" THEN 1 ELSE 0
  IN  /\ Common(Readers, 14) /\ todo = Rest(AckFrom(1, l), k) /\ Prepared
      /\ \E v \in Octets : Fits(1, v) /\ bytes = <<v>> /\ (k < 4 => Acking(l, v, k) /\ Behind)
      /\ k >= 4 => /\ Wires(IF k = 4 THEN l ELSE 1, 0)
                   /\ step = "id" => Mute
                   /\ step # "id" => \E w \in Octets : Sending(w, 0, Bit(w, 7)) /\ Fits(2, w)
Read2(k) ==
  /\ Common({"data0", "data1"}, 15) /\ todo = Rest(ReadFrom(1), k) /\ Prepared
  /\ \E v \in Octets : Fits(1, v) /\ bytes = <<v>>
  /\ \E w \in Octets : Reading(w, k) /\ Fits(2, w)
Kept2 ==
  /\ Common({"data0", "data1"}, 16) /\ todo = << >> /\ Prepared /\ Wires(1, 0)
  /\ \E v, w \in Octets : Sending(w, 8, 1) /\ Fits(1, v) /\ Fits(2, w) /\ bytes = <<v, w>>
Ack2(k) ==
  /\ Common({"data0", "data1"}, 17) /\ todo = Rest(AckFrom(1, 1), k) /\ Prepared
  /\ \E v, w \in Octets : Fits(1, v) /\ Fits(2, w) /\ bytes = <<v, w>> /\ (k < 4 => Acking(1, w, k))
  /\ k >= 4 => Wires(1, 0) /\ Mute
Stop4(k) ==
  /\ Common(Readers, IF step = "id" THEN 15 ELSE 18) /\ todo = Rest(StopAfter(0), k) /\ Stopping(k) /\ Prepared
  /\ step = "id" => \E v \in Octets : Fits(1, v) /\ bytes = <<v>>
  /\ step # "id" => \E v, w \in Octets : Fits(1, v) /\ Fits(2, w) /\ bytes = <<v, w>>

\* A byte was not acknowledged.
GaveUp  == step \in Steps /\ failed = TRUE /\ script = Stop /\ todo = << >> /\ Wires(1, 0) /\ Lost
StopF(k) ==
  /\ step \in Steps /\ failed = TRUE /\ script = << >> /\ todo = Rest(StopAfter(0), k)
  /\ Stopping(k) /\ misses = 0

-----------------------------------------------------------------------------
(* i2c_master_gpio_init().                                                 *)

\* The clocks that the sensor needs at most to be done with a byte that it sends, or to
\* take what it receives for data.
Patience ==
  LET this == IF slave.n < 9 THEN 9 - slave.n ELSE 1 - m_nLastSCL
  IN  IF slave.st = "send" THEN IF slave.n < 9 THEN 9 - slave.n ELSE 9
      ELSE IF slave.st = "cmd" THEN this
      ELSE IF slave.st = "addr" THEN 9 + this ELSE 0

\* The sensor is so far that clock 28 is the one of its acknowledge; c clocks are over.
InStep(c) ==
  slave.n = IF c % 9 = m_nLastSCL THEN 9 ELSE (c + 8) % 9

\* The bytes that it has taken since, and what has become of its register pointer.
Since(c) == (c + 8 - m_nLastSCL) \div 9
Fate(c) ==
  /\ slave.st = "data" => (sensor.reg + 16 - Since(c)) % 16 \in {0, 1, 10, 12, 14}
  /\ slave.st = "cmd" => Since(c) = 0 /\ slave.byte % 16 \in {1, 11, 13, 15}
  /\ slave.st = "addr" => Since(c) = 0 /\ slave.byte % 2 = 1

Clocked(c) ==
  /\ restarts = 0 => slave = Idle
  /\ slave.st \in {"send", "cmd", "addr"} => Patience + c <= 18
  /\ c > 0 /\ m_nLastSCL = 1 /\ slave.st \in Receiving => slave.n > 0
  /\ MaxRestarts <= 1 /\ slave.st \in Receiving /\ InStep(c) => Fate(c)

InitCall ==
  /\ step = "init" /\ script = <<Op("init", 0)>> /\ todo = << >> /\ failed = FALSE
  /\ Wires(1, 1) /\ misses = 0 /\ Clocked(0)

InitAt(k) ==
  /\ step = "init" /\ script = << >> /\ todo = Rest(i2c_master_init, k) /\ failed = FALSE /\ misses = 0
  /\ k \in 0 .. 3 => Wires(IF k = 2 THEN 0 ELSE 1, IF k = 0 THEN 1 ELSE 0) /\ Clocked(0)
  /\ k \in 4 .. 59 => Wires(1, k % 2) /\ Clocked((k - 3) \div 2)
  /\ k \in 60 .. 61 => Wires(0, 1) /\ (slave = Bare("addr") \/ (Stuck /\ Dirty(0)))
  /\ k = 62 => Wires(1, 1) /\ (slave = Idle \/ (Stuck /\ Dirty(0)))

Off ==
  /\ step = "off" /\ script = << >> /\ todo = << >> /\ failed = FALSE /\ Wires(1, 1)
  /\ slave = Idle \/ (Stuck /\ Dirty(0))

Place ==
  \/ Off \/ InitCall \/ \E k \in 0 .. 62 : InitAt(k)
  \/ AtStart \/ Told1 \/ Told2 \/ Told3 \/ Told4 \/ Kept1 \/ Kept2 \/ GaveUp
  \/ \E k \in 0 .. 3 : Starting(k) \/ Again(k) \/ Stop3(k) \/ Stop4(k) \/ StopF(k)
  \/ \E k \in 0 .. 25 : Byte1(k) \/ Byte2(k) \/ Byte3(k) \/ Byte4(k)
  \/ \E k \in 0 .. 4 : Check1(k) \/ Check2(k) \/ Check3(k) \/ Check4(k)
  \/ \E k \in 0 .. 18 : Read1(k) \/ Read2(k)
  \/ \E k \in 0 .. 5 : Ack1(k) \/ Ack2(k)

\* What the call knows so far.
Locals ==
  /\ step = "init" => lux = -1
  /\ step \in Steps \ {"id"} => part \in {1, 5} /\ (MaxRestarts <= 1 => part = sensor.id \div 16)
  /\ step \in {"data1", "down"} => data0 = sensor.light[1]
  /\ step = "down" => data1 = sensor.light[2]

\* A reading is of the light that there is, whatever restarts there were.
LightGenuine ==
  step = "off" /\ lux >= 0 =>
    <<data0, data1>> = sensor.light /\ sensor.control = 0 /\ lux <= 2568

Genuine == LightGenuine /\ (MaxRestarts <= 1 => LuxGenuine)

IInv == Typed /\ SlaveOK /\ Place /\ Locals /\ Genuine /\ Recovers

-----------------------------------------------------------------------------
(* Settings and edges.                                                     *)

\* What is left behind one more element.
LEMMA RestStep ==
  ASSUME NEW S, NEW f \in Seq(S), NEW k \in 0 .. Len(f)
  PROVE  /\ Rest(f, k) # << >> => k < Len(f)
         /\ k < Len(f) => Rest(f, k) # << >> /\ Head(Rest(f, k)) = f[k + 1] /\ Tail(Rest(f, k)) = Rest(f, k + 1)
         /\ k = Len(f) => Rest(f, k) = << >>
         /\ k = 0 => Rest(f, k) = f
<1> DEFINE g == Rest(f, k)
           h == Rest(f, k + 1)
<1>a. Len(f) \in Nat /\ Len(f) - k \in Nat
  OBVIOUS
<1>0. PICK m \in Nat : m = Len(f) - k
  BY <1>a
<1>1. g = [i \in 1 .. m |-> f[k + i]]
  BY <1>0 DEF Rest
<1>2. \A i \in 1 .. m : f[k + i] \in S
  BY <1>0
<1>3. g \in Seq(S) /\ Len(g) = m /\ \A i \in 1 .. m : g[i] = f[k + i]
  BY <1>1, <1>2
<1> HIDE DEF g
<1>4. g # << >> => k < Len(f)
  BY <1>0, <1>3
<1>5. k = Len(f) => g = << >>
  BY <1>0, <1>3
<1>6. k = 0 => g = f
  BY <1>0, <1>3
<1>7. ASSUME k < Len(f) PROVE g # << >> /\ Head(g) = f[k + 1] /\ Tail(g) = h
  <2>1. g # << >> /\ m > 0
    BY <1>0, <1>3, <1>7
  <2>2. Head(g) = f[k + 1]
    BY <1>3, <2>1
  <2>3. h = [i \in 1 .. m - 1 |-> f[(k + 1) + i]]
    BY <1>0 DEF Rest
  <2>4. \A i \in 1 .. m - 1 : f[(k + 1) + i] \in S
    BY <1>0
  <2>5. h \in Seq(S) /\ Len(h) = m - 1 /\ \A i \in 1 .. m - 1 : h[i] = f[(k + 1) + i]
    <3>1. PICK n \in Nat : n = m - 1
      BY <2>1
    <3>2. h = [i \in 1 .. n |-> f[(k + 1) + i]] /\ \A i \in 1 .. n : f[(k + 1) + i] \in S
      BY <2>3, <2>4, <3>1
    <3> HIDE DEF h
    <3>3. h \in Seq(S) /\ Len(h) = n /\ \A i \in 1 .. n : h[i] = f[(k + 1) + i]
      BY <3>2
    <3> QED BY <3>1, <3>3
  <2> HIDE DEF h
  <2>6. Tail(g) \in Seq(S) /\ Len(Tail(g)) = m - 1 /\ \A i \in 1 .. m - 1 : Tail(g)[i] = g[i + 1]
    BY <1>3, <2>1
  <2>7. \A i \in 1 .. m - 1 : Tail(g)[i] = h[i]
    <3> TAKE i \in 1 .. m - 1
    <3>1. i + 1 \in 1 .. m /\ k + (i + 1) = (k + 1) + i
      BY <1>0
    <3> QED BY <1>3, <2>5, <2>6, <3>1
  <2>8. Tail(g) = h
    BY <2>5, <2>6, <2>7
  <2> QED BY <2>1, <2>2, <2>8
<1> QED BY <1>4, <1>5, <1>6, <1>7 DEF g, h

\* One setting of a function f.
LEMMA SetStep ==
  ASSUME NEW f \in Seq(Moves), NEW k \in 0 .. Len(f), todo = Rest(f, k), i2c_master_setDC
  PROVE  /\ k < Len(f) /\ todo' = Rest(f, k + 1)
         /\ m_nLastSDA' = f[k + 1].sda /\ m_nLastSCL' = f[k + 1].scl
         /\ React(f[k + 1].sda, f[k + 1].scl)
         /\ got' = IF f[k + 1].get THEN 2 * got + Wire(f[k + 1].sda, slave') ELSE got
         /\ UNCHANGED <<step, script, bytes, failed, data0, data1, part, lux, restarts>>
         /\ misses' = IF nacks' = nacks THEN misses ELSE 0
<1>1. /\ Rest(f, k) # << >> => k < Len(f)
      /\ k < Len(f) => Head(Rest(f, k)) = f[k + 1] /\ Tail(Rest(f, k)) = Rest(f, k + 1)
  BY RestStep
<1> QED BY <1>1, Zenon DEF i2c_master_setDC, driverVars

\* The wires stay, or SDA moves while SCL is low.
LEMMA ReactLow ==
  ASSUME m_nLastSCL = 0, NEW a, React(a, 0)
  PROVE  UNCHANGED <<slave, sensor, nacks>>
BY DEF React

\* SCL rises: the sensor takes a bit in.
LEMMA ReactRise ==
  ASSUME m_nLastSCL = 0, NEW a, React(a, 1)
  PROVE  slave' = Rises(slave, Wire(a, slave)) /\ UNCHANGED <<sensor, nacks>>
BY DEF React

\* SDA moves under a high SCL: a start or a stop.
LEMMA ReactHigh ==
  ASSUME m_nLastSCL = 1, NEW a, React(a, 1)
  PROVE  /\ UNCHANGED <<sensor, nacks>>
         /\ Wire(m_nLastSDA, slave) = Wire(a, slave) => slave' = slave
         /\ Wire(m_nLastSDA, slave) # Wire(a, slave) => slave' = Framed(slave, Wire(a, slave))
BY DEF React

\* SCL falls: the sensor moves on to its next bit.
LEMMA ReactFall ==
  ASSUME m_nLastSCL = 1, NEW a, React(a, 0)
  PROVE  Falls
BY DEF React

\* The registers of the sensor.
LEMMA OctetIs == \A x : x \in Octets <=> x \in Nat /\ x < 256
BY DEF Octets

\* The registers of the sensor have their widths.
LEMMA SensorTyped ==
  ASSUME Typed
  PROVE  /\ sensor.id \in Octets /\ sensor.control \in 0 .. 3 /\ sensor.timing \in 0 .. 31 /\ sensor.reg \in 0 .. 15
         /\ sensor.light \in [1 .. 2 -> Nat] /\ sensor.light[1] \in Nat /\ sensor.light[2] \in Nat
         /\ sensor.light[1] < 65536 /\ sensor.light[2] < 65536
<1>1. sensor.id \in Ids /\ sensor.light \in Light /\ sensor.control \in 0 .. 3 /\ sensor.timing \in 0 .. 31 /\ sensor.reg \in 0 .. 15
  BY DEF Typed
<1>2. sensor.id \in Octets
  <2>1. Ids \subseteq 0 .. 255
    BY Tsl2561Constants
  <2> QED BY <1>1, <2>1 DEF Octets
<1>3. /\ sensor.light \in [1 .. 2 -> Nat] /\ sensor.light[1] < 65536 /\ sensor.light[2] < 65536
  BY <1>1, Tsl2561Constants
<1> QED BY <1>1, <1>2, <1>3

\* What they hold has eight bits.
LEMMA ContentsIs ==
  ASSUME Typed, NEW r \in 0 .. 15
  PROVE  /\ Contents(r) \in Octets
         /\ r = 10 => Contents(r) = sensor.id
         /\ r = 0 => Contents(r) = sensor.control
         /\ r \in {2, 4, 6, 7} => Contents(r) = 0
         /\ sensor.control = 3 /\ sensor.timing = 18 =>
              /\ r = 12 => Contents(r) = sensor.light[1] % 256
              /\ r = 13 => Contents(r) = sensor.light[1] \div 256
              /\ r = 14 => Contents(r) = sensor.light[2] % 256
              /\ r = 15 => Contents(r) = sensor.light[2] \div 256
<1> DEFINE l(n) == IF sensor.control = 3 /\ sensor.timing = 18 THEN sensor.light[n] ELSE 0
           low(n) == l(n) % 256
           high(n) == l(n) \div 256
<1>0. /\ r = 0 => r = REG_CONTROL
      /\ r # 0 => r # REG_CONTROL
      /\ r = 1 => r = REG_TIMING
      /\ r # 1 => r # REG_TIMING
      /\ r = 10 => r = REG_ID
      /\ r # 10 => r # REG_ID
      /\ r = 12 => r = REG_DATA0LOW
      /\ r # 12 => r # REG_DATA0LOW
      /\ r = 13 => r = REG_DATA0LOW + 1
      /\ r # 13 => r # REG_DATA0LOW + 1
      /\ r = 14 => r = REG_DATA1LOW
      /\ r # 14 => r # REG_DATA1LOW
      /\ r = 15 => r = REG_DATA1LOW + 1
      /\ r # 15 => r # REG_DATA1LOW + 1
  BY DEF REG_CONTROL, REG_TIMING, REG_ID, REG_DATA0LOW, REG_DATA1LOW
<1>1. r = 0 => Contents(r) = sensor.control
  <2>1. r = 0 => r # 1 /\ r # 10 /\ r # 12 /\ r # 13 /\ r # 14 /\ r # 15
    OBVIOUS
  <2> QED BY <1>0, <2>1, Zenon DEF Contents
<1>2. r = 1 => Contents(r) = sensor.timing
  <2>1. r = 1 => r # 0 /\ r # 10 /\ r # 12 /\ r # 13 /\ r # 14 /\ r # 15
    OBVIOUS
  <2> QED BY <1>0, <2>1, Zenon DEF Contents
<1>3. r = 10 => Contents(r) = sensor.id
  <2>1. r = 10 => r # 1 /\ r # 0 /\ r # 12 /\ r # 13 /\ r # 14 /\ r # 15
    OBVIOUS
  <2> QED BY <1>0, <2>1, Zenon DEF Contents
<1>4. r = 12 => Contents(r) = low(1)
  <2>1. r = 12 => r # 1 /\ r # 10 /\ r # 0 /\ r # 13 /\ r # 14 /\ r # 15
    OBVIOUS
  <2> QED BY <1>0, <2>1, Zenon DEF Contents
<1>5. r = 13 => Contents(r) = high(1)
  <2>1. r = 13 => r # 1 /\ r # 10 /\ r # 12 /\ r # 0 /\ r # 14 /\ r # 15
    OBVIOUS
  <2> QED BY <1>0, <2>1, Zenon DEF Contents
<1>6. r = 14 => Contents(r) = low(2)
  <2>1. r = 14 => r # 1 /\ r # 10 /\ r # 12 /\ r # 13 /\ r # 0 /\ r # 15
    OBVIOUS
  <2> QED BY <1>0, <2>1, Zenon DEF Contents
<1>7. r = 15 => Contents(r) = high(2)
  <2>1. r = 15 => r # 1 /\ r # 10 /\ r # 12 /\ r # 13 /\ r # 14 /\ r # 0
    OBVIOUS
  <2> QED BY <1>0, <2>1, Zenon DEF Contents
<1>8. r \notin {0, 1, 10, 12, 13, 14, 15} => Contents(r) = 0
  <2>1. r \notin {0, 1, 10, 12, 13, 14, 15} => r # 0 /\ r # 1 /\ r # 10 /\ r # 12 /\ r # 13 /\ r # 14 /\ r # 15
    OBVIOUS
  <2> QED BY <1>0, <2>1, Zenon DEF Contents
<1>9. \A n \in {1, 2} : low(n) \in Octets /\ high(n) \in Octets
  <2> SUFFICES ASSUME NEW n \in {1, 2} PROVE low(n) \in Octets /\ high(n) \in Octets
    OBVIOUS
  <2>1. l(n) \in Nat /\ l(n) < 65536
    BY SensorTyped
  <2> HIDE DEF l
  <2> QED BY <2>1, OctetIs
<1>10. Contents(r) \in Octets
  <2>1. sensor.id \in Octets /\ sensor.control \in Octets /\ sensor.timing \in Octets /\ 0 \in Octets
    BY SensorTyped, OctetIs
  <2>2. r \in {0, 1, 10, 12, 13, 14, 15} \/ r \notin {0, 1, 10, 12, 13, 14, 15}
    OBVIOUS
  <2> HIDE DEF low, high
  <2> QED BY <1>1, <1>2, <1>3, <1>4, <1>5, <1>6, <1>7, <1>8, <1>9, <2>1, <2>2
<1> QED BY <1>1, <1>3, <1>4, <1>5, <1>6, <1>7, <1>8, <1>10

-----------------------------------------------------------------------------
(* The functions of the master, setting by setting.                        *)

\* Functions on 1 .. n are sequences of settings.
LEMMA FunSeq ==
  ASSUME NEW n \in Nat, NEW g, g \in [1 .. n -> Moves]
  PROVE  g \in Seq(Moves) /\ Len(g) = n
OBVIOUS

\* Settings behind each other keep their places.
LEMMA CatIs ==
  \A f, g \in Seq(Moves) :
     /\ f \o g \in Seq(Moves) /\ Len(f \o g) = Len(f) + Len(g)
     /\ \A i \in 1 .. Len(f) : (f \o g)[i] = f[i]
     /\ \A i \in 1 .. Len(g) : (f \o g)[Len(f) + i] = g[i]
OBVIOUS

\* A pair of settings, n times.
LEMMA TimesIs ==
  ASSUME NEW n \in Nat, NEW x \in Moves, NEW y \in Moves
  PROVE  LET g == Times(n, <<x, y>>)
         IN  g \in Seq(Moves) /\ Len(g) = 2 * n /\ \A i \in 1 .. 2 * n : g[i] = IF i % 2 = 1 THEN x ELSE y
<1> DEFINE p == <<x, y>>
           g == Times(n, p)
<1>1. Len(p) = 2 /\ p[1] = x /\ p[2] = y
  OBVIOUS
<1> HIDE DEF p
<1>2. g = [i \in 1 .. n * 2 |-> p[1 + ((i - 1) % 2)]]
  BY <1>1 DEF Times
<1>3. n * 2 = 2 * n /\ 2 * n \in Nat
  OBVIOUS
<1> HIDE DEF g
<1>4. \A i \in 1 .. 2 * n : g[i] = IF i % 2 = 1 THEN x ELSE y
  <2> TAKE i \in 1 .. 2 * n
  <2>1. 1 + ((i - 1) % 2) = IF i % 2 = 1 THEN 1 ELSE 2
    BY <1>3
  <2> QED BY <1>1, <1>2, <1>3, <2>1
<1>5. g \in [1 .. 2 * n -> Moves]
  BY <1>2, <1>3, <1>4
<1>6. g \in Seq(Moves) /\ Len(g) = 2 * n
  BY <1>3, <1>5, FunSeq, Zenon
<1> QED BY <1>4, <1>6 DEF g, p

\* The bits of a byte, first the highest.
LEMMA BitIs ==
  ASSUME NEW b \in Octets, NEW r \in 0 .. 7
  PROVE  /\ Bit(b, 7 - r) \in {0, 1}
         /\ Top(b, r + 1) = 2 * Top(b, r) + Bit(b, 7 - r)
         /\ Top(b, r) \in Nat /\ Top(b, 0) = 0 /\ Top(b, 8) = b
<1>0. b \in Nat /\ b < 256
  BY OctetIs
<1>1. r \in {0, 1, 2, 3, 4, 5, 6, 7}
  OBVIOUS
<1>2. /\ 2 ^ 0 = 1 /\ 2 ^ 1 = 2 /\ 2 ^ 2 = 4 /\ 2 ^ 3 = 8
      /\ 2 ^ 4 = 16 /\ 2 ^ 5 = 32 /\ 2 ^ 6 = 64 /\ 2 ^ 7 = 128
  OBVIOUS
<1>3. /\ Top(b, 0) = b \div 256 /\ Top(b, 1) = b \div 128 /\ Top(b, 2) = b \div 64 /\ Top(b, 3) = b \div 32
      /\ Top(b, 4) = b \div 16 /\ Top(b, 5) = b \div 8 /\ Top(b, 6) = b \div 4 /\ Top(b, 7) = b \div 2
      /\ Top(b, 8) = b \div 1
  BY <1>0 DEF Top
<1>4. /\ Bit(b, 0) = b % 2 /\ Bit(b, 1) = (b \div 2) % 2 /\ Bit(b, 2) = (b \div 4) % 2
      /\ Bit(b, 3) = (b \div 8) % 2 /\ Bit(b, 4) = (b \div 16) % 2 /\ Bit(b, 5) = (b \div 32) % 2
      /\ Bit(b, 6) = (b \div 64) % 2 /\ Bit(b, 7) = (b \div 128) % 2
  BY <1>0, <1>2 DEF Bit
<1>5. CASE r = 0
  BY <1>5, <1>0, <1>3, <1>4
<1>6. CASE r = 1
  BY <1>6, <1>0, <1>3, <1>4
<1>7. CASE r = 2
  <2>1. Bit(b, 7 - r) = (b \div 32) % 2 /\ Top(b, r + 1) = b \div 32 /\ Top(b, r) = b \div 64
    BY <1>7, <1>3, <1>4
  <2>2. b \div 32 = 2 * (b \div 64) + ((b \div 32) % 2)
    BY <1>0
  <2> QED BY <1>0, <1>3, <2>1, <2>2
<1>8. CASE r = 3
  BY <1>8, <1>0, <1>3, <1>4
<1>9. CASE r = 4
  BY <1>9, <1>0, <1>3, <1>4
<1>10. CASE r = 5
  BY <1>10, <1>0, <1>3, <1>4
<1>11. CASE r = 6
  BY <1>11, <1>0, <1>3, <1>4
<1>12. CASE r = 7
  BY <1>12, <1>0, <1>3, <1>4
<1> QED BY <1>1, <1>5, <1>6, <1>7, <1>8, <1>9, <1>10, <1>11, <1>12

\* The settings of i2c_master_start().
LEMMA StartIs ==
  ASSUME NEW c \in {0, 1}
  PROVE  LET f == StartFrom(c)
         IN  /\ f \in Seq(Moves) /\ Len(f) = 3
             /\ f[1] = Set(1, c) /\ f[2] = Set(1, 1) /\ f[3] = Set(0, 1)
BY DEF StartFrom, Moves, Set

\* The settings of i2c_master_stop().
LEMMA StopIs ==
  ASSUME NEW c \in {0, 1}
  PROVE  LET f == StopAfter(c)
         IN  /\ f \in Seq(Moves) /\ Len(f) = 3
             /\ f[1] = Set(0, c) /\ f[2] = Set(0, 1) /\ f[3] = Set(1, 1)
BY DEF StopAfter, Moves, Set

\* The settings of i2c_master_checkAck().
LEMMA CheckIs ==
  ASSUME NEW a \in {0, 1}
  PROVE  LET f == CheckFrom(a)
         IN  /\ f \in Seq(Moves) /\ Len(f) = 4
             /\ f[1] = Set(a, 0) /\ f[2] = Set(1, 0) /\ f[3] = Get(1, 1) /\ f[4] = Set(1, 0)
BY DEF CheckFrom, Moves, Set, Get

\* The settings of i2c_master_send_ack() and i2c_master_send_nack().
LEMMA AckIs ==
  ASSUME NEW a \in {0, 1}, NEW l \in {0, 1}
  PROVE  LET f == AckFrom(a, l)
         IN  /\ f \in Seq(Moves) /\ Len(f) = 5
             /\ f[1] = Set(a, 0) /\ f[2] = Set(l, 0) /\ f[3] = Set(l, 1) /\ f[4] = Set(l, 0) /\ f[5] = Set(1, 0)
BY DEF AckFrom, Moves, Set

\* A bit of a byte that is written, counted from the top.
LEMMA BitSmall ==
  ASSUME NEW b \in Nat, NEW r \in 0 .. 7
  PROVE  Bit(b, 7 - r) \in {0, 1}
<1>1. r \in {0, 1, 2, 3, 4, 5, 6, 7}
  OBVIOUS
<1>2. /\ 2 ^ 0 = 1 /\ 2 ^ 1 = 2 /\ 2 ^ 2 = 4 /\ 2 ^ 3 = 8
      /\ 2 ^ 4 = 16 /\ 2 ^ 5 = 32 /\ 2 ^ 6 = 64 /\ 2 ^ 7 = 128
  OBVIOUS
<1>3. /\ Bit(b, 0) = (b \div 1) % 2 /\ Bit(b, 1) = (b \div 2) % 2 /\ Bit(b, 2) = (b \div 4) % 2
      /\ Bit(b, 3) = (b \div 8) % 2 /\ Bit(b, 4) = (b \div 16) % 2 /\ Bit(b, 5) = (b \div 32) % 2
      /\ Bit(b, 6) = (b \div 64) % 2 /\ Bit(b, 7) = (b \div 128) % 2
  BY <1>2 DEF Bit
<1> QED BY <1>1, <1>3

\* The settings of i2c_master_writeByte(), for numbers.
LEMMA WriteNat ==
  ASSUME NEW a \in {0, 1}, NEW b \in Nat
  PROVE  LET f == WriteFrom(a, b)
         IN  /\ f \in Seq(Moves) /\ Len(f) = 25 /\ f[1] = Set(a, 0)
             /\ \A k \in 1 .. 24 : f[k + 1] = Set(Bit(b, 7 - ((k - 1) \div 3)), IF k % 3 = 2 THEN 1 ELSE 0)
<1> DEFINE g == [n \in 1 .. 24 |-> Set(Bit(b, 7 - ((n - 1) \div 3)), IF n % 3 = 2 THEN 1 ELSE 0)]
<1>1. \A n \in 1 .. 24 : Bit(b, 7 - ((n - 1) \div 3)) \in {0, 1}
  <2> TAKE n \in 1 .. 24
  <2>1. (n - 1) \div 3 \in 0 .. 7
    OBVIOUS
  <2> QED BY <2>1, BitSmall
<1>2. \A n \in 1 .. 24 : Set(Bit(b, 7 - ((n - 1) \div 3)), IF n % 3 = 2 THEN 1 ELSE 0) \in Moves
  BY <1>1 DEF Set, Moves
<1>3. g \in Seq(Moves) /\ Len(g) = 24
  <2>1. g \in [1 .. 24 -> Moves]
    BY <1>2
  <2> HIDE DEF g
  <2>2. 24 \in Nat
    OBVIOUS
  <2> QED BY <2>1, <2>2, FunSeq, Zenon
<1>4. <<Set(a, 0)>> \in Seq(Moves) /\ Len(<<Set(a, 0)>>) = 1 /\ <<Set(a, 0)>>[1] = Set(a, 0)
  BY DEF Set, Moves
<1>6. \A k \in 1 .. 24 : g[k] = Set(Bit(b, 7 - ((k - 1) \div 3)), IF k % 3 = 2 THEN 1 ELSE 0)
  OBVIOUS
<1> DEFINE h == <<Set(a, 0)>>
           f == h \o g
<1>5. WriteFrom(a, b) = f
  BY DEF WriteFrom
<1> HIDE DEF g, h, f
<1>7. f \in Seq(Moves) /\ Len(f) = 25 /\ f[1] = h[1] /\ \A k \in 1 .. 24 : f[k + 1] = g[k]
  <2>1. h \in Seq(Moves) /\ Len(h) = 1
    BY <1>4 DEF h
  <2>2. /\ f \in Seq(Moves) /\ Len(f) = Len(h) + Len(g)
        /\ \A i \in 1 .. Len(h) : f[i] = h[i]
        /\ \A i \in 1 .. Len(g) : f[Len(h) + i] = g[i]
    BY <1>3, <2>1, CatIs DEF f
  <2> QED BY <1>3, <2>1, <2>2
<1> QED BY <1>4, <1>5, <1>6, <1>7 DEF h

\* And for the bytes that the driver writes.
LEMMA WriteIs ==
  ASSUME NEW a \in {0, 1}, NEW b \in Octets
  PROVE  LET f == WriteFrom(a, b)
         IN  /\ f \in Seq(Moves) /\ Len(f) = 25 /\ f[1] = Set(a, 0)
             /\ \A k \in 1 .. 24 : f[k + 1] = Set(Bit(b, 7 - ((k - 1) \div 3)), IF k % 3 = 2 THEN 1 ELSE 0)
<1>1. b \in Nat
  BY OctetIs
<1> QED BY <1>1, WriteNat, Zenon

\* The settings of i2c_master_readByte().
LEMMA ReadIs ==
  ASSUME NEW a \in {0, 1}
  PROVE  LET f == ReadFrom(a)
         IN  /\ f \in Seq(Moves) /\ Len(f) = 18 /\ f[1] = Set(a, 0) /\ f[18] = Set(1, 0)
             /\ \A k \in 1 .. 16 : f[k + 1] = IF k % 2 = 1 THEN Set(1, 0) ELSE Get(1, 1)
<1> DEFINE g == Times(8, <<Set(1, 0), Get(1, 1)>>)
           h == <<Set(a, 0)>>
           e == <<Set(1, 0)>>
           hg == h \o g
           f == hg \o e
<1>1. Set(1, 0) \in Moves /\ Get(1, 1) \in Moves
  BY DEF Set, Get, Moves
<1>2. /\ h \in Seq(Moves) /\ Len(h) = 1 /\ h[1] = Set(a, 0)
      /\ e \in Seq(Moves) /\ Len(e) = 1 /\ e[1] = Set(1, 0)
  BY DEF Set, Moves
<1>3. ReadFrom(a) = f
  BY DEF ReadFrom
<1>4. g \in Seq(Moves) /\ Len(g) = 16 /\ \A i \in 1 .. 16 : g[i] = IF i % 2 = 1 THEN Set(1, 0) ELSE Get(1, 1)
  <2>1. g \in Seq(Moves) /\ Len(g) = 2 * 8 /\ \A i \in 1 .. 2 * 8 : g[i] = IF i % 2 = 1 THEN Set(1, 0) ELSE Get(1, 1)
    BY <1>1, TimesIs, 8 \in Nat, Zenon
  <2> HIDE DEF g
  <2> QED BY <2>1
<1> HIDE DEF g, h, e, hg, f
<1>5. /\ hg \in Seq(Moves) /\ Len(hg) = 17 /\ hg[1] = h[1]
      /\ \A k \in 1 .. 16 : hg[k + 1] = g[k]
  <2>1. /\ hg \in Seq(Moves) /\ Len(hg) = Len(h) + Len(g)
        /\ \A i \in 1 .. Len(h) : hg[i] = h[i]
        /\ \A i \in 1 .. Len(g) : hg[Len(h) + i] = g[i]
    BY <1>2, <1>4, CatIs DEF hg
  <2> QED BY <1>2, <1>4, <2>1
<1>6. /\ f \in Seq(Moves) /\ Len(f) = 18 /\ f[18] = e[1]
      /\ \A k \in 1 .. 17 : f[k] = hg[k]
  <2>0. hg \in Seq(Moves) /\ Len(hg) = 17
    BY <1>5
  <2>1. /\ f \in Seq(Moves) /\ Len(f) = Len(hg) + Len(e)
        /\ \A i \in 1 .. Len(hg) : f[i] = hg[i]
        /\ \A i \in 1 .. Len(e) : f[Len(hg) + i] = e[i]
    BY <1>2, <2>0, CatIs DEF f
  <2> QED BY <1>2, <2>0, <2>1
<1>7. \A k \in 1 .. 16 : f[k + 1] = g[k]
  BY <1>5, <1>6
<1> QED BY <1>2, <1>3, <1>4, <1>5, <1>6, <1>7

\* The settings of i2c_master_init(), 28 clocks and a stop.
LEMMA InitIs ==
  LET f == i2c_master_init
  IN  /\ f \in Seq(Moves) /\ Len(f) = 62
      /\ f[1] = Set(1, 0) /\ f[2] = Set(0, 0) /\ f[3] = Set(1, 0)
      /\ \A k \in 1 .. 56 : f[k + 3] = IF k % 2 = 1 THEN Set(1, 0) ELSE Set(1, 1)
      /\ f[60] = Set(0, 1) /\ f[61] = Set(0, 1) /\ f[62] = Set(1, 1)
<1> DEFINE g == Times(28, <<Set(1, 0), Set(1, 1)>>)
           h == <<Set(1, 0), Set(0, 0), Set(1, 0)>>
           e == StopAfter(1)
           hg == h \o g
           f == hg \o e
<1>1. Set(1, 0) \in Moves /\ Set(1, 1) \in Moves
  BY DEF Set, Moves
<1>2. h \in Seq(Moves) /\ Len(h) = 3 /\ h[1] = Set(1, 0) /\ h[2] = Set(0, 0) /\ h[3] = Set(1, 0)
  BY DEF Set, Moves
<1>2a. e \in Seq(Moves) /\ Len(e) = 3 /\ e[1] = Set(0, 1) /\ e[2] = Set(0, 1) /\ e[3] = Set(1, 1)
  BY StopIs
<1>3. i2c_master_init = f
  BY DEF i2c_master_init
<1>4. g \in Seq(Moves) /\ Len(g) = 56 /\ \A i \in 1 .. 56 : g[i] = IF i % 2 = 1 THEN Set(1, 0) ELSE Set(1, 1)
  <2>1. g \in Seq(Moves) /\ Len(g) = 2 * 28 /\ \A i \in 1 .. 2 * 28 : g[i] = IF i % 2 = 1 THEN Set(1, 0) ELSE Set(1, 1)
    BY <1>1, TimesIs, 28 \in Nat, Zenon
  <2> HIDE DEF g
  <2> QED BY <2>1
<1> HIDE DEF g, h, e, hg, f
<1>5. /\ hg \in Seq(Moves) /\ Len(hg) = 59
      /\ hg[1] = h[1] /\ hg[2] = h[2] /\ hg[3] = h[3]
      /\ \A k \in 1 .. 56 : hg[k + 3] = g[k]
  <2>1. /\ hg \in Seq(Moves) /\ Len(hg) = Len(h) + Len(g)
        /\ \A i \in 1 .. Len(h) : hg[i] = h[i]
        /\ \A i \in 1 .. Len(g) : hg[Len(h) + i] = g[i]
    BY <1>2, <1>4, CatIs DEF hg
  <2> QED BY <1>2, <1>4, <2>1
<1>6. /\ f \in Seq(Moves) /\ Len(f) = 62
      /\ f[60] = e[1] /\ f[61] = e[2] /\ f[62] = e[3]
      /\ \A k \in 1 .. 59 : f[k] = hg[k]
  <2>0. hg \in Seq(Moves) /\ Len(hg) = 59
    BY <1>5
  <2>1. /\ f \in Seq(Moves) /\ Len(f) = Len(hg) + Len(e)
        /\ \A i \in 1 .. Len(hg) : f[i] = hg[i]
        /\ \A i \in 1 .. Len(e) : f[Len(hg) + i] = e[i]
    BY <1>2a, <2>0, CatIs DEF f
  <2> QED BY <1>2a, <2>0, <2>1
<1>7. \A k \in 1 .. 56 : f[k + 3] = g[k]
  <2> TAKE k \in 1 .. 56
  <2>1. k + 3 \in 1 .. 59
    OBVIOUS
  <2>2. f[k + 3] = hg[k + 3]
    BY <1>6, <2>1
  <2> QED BY <1>5, <2>2
<1>8. f[1] = h[1] /\ f[2] = h[2] /\ f[3] = h[3]
  BY <1>5, <1>6
<1> QED BY <1>2, <1>2a, <1>3, <1>4, <1>6, <1>7, <1>8

-----------------------------------------------------------------------------
(* What the sensor makes of them.                                          *)

\* Nothing but the bus has moved; a byte that was not acknowledged forgives the misses.
Still ==
  /\ UNCHANGED <<step, script, bytes, failed, data0, data1, part, lux, restarts, sensor>>
  /\ misses' = misses \/ misses' = 0

\* A setting within a byte that is written leads to the next one.
LEMMA WritingStep ==
  ASSUME Typed, NEW a \in {0, 1}, NEW b \in Octets, NEW st \in Receiving, st = "addr" => b \in {114, 115},
         NEW k \in 0 .. 25, todo = Rest(WriteFrom(a, b), k), Writing(st, b, k), i2c_master_setDC
  PROVE  k < 25 /\ todo' = Rest(WriteFrom(a, b), k + 1) /\ Writing(st, b, k + 1)' /\ Still
<1> DEFINE f == WriteFrom(a, b)
<1>0. f \in Seq(Moves) /\ Len(f) = 25 /\ f[1] = Set(a, 0)
  BY WriteIs
<1>1. \A i \in 1 .. 24 : f[i + 1] = Set(Bit(b, 7 - ((i - 1) \div 3)), IF i % 3 = 2 THEN 1 ELSE 0)
  BY WriteIs
<1> HIDE DEF f
<1>2. /\ k < 25 /\ todo' = Rest(f, k + 1)
      /\ m_nLastSDA' = f[k + 1].sda /\ m_nLastSCL' = f[k + 1].scl
      /\ React(f[k + 1].sda, f[k + 1].scl)
      /\ UNCHANGED <<step, script, bytes, failed, data0, data1, part, lux, restarts>>
      /\ misses' = IF nacks' = nacks THEN misses ELSE 0
  <2>1. todo = Rest(f, k) /\ k \in 0 .. Len(f)
    BY <1>0 DEF f
  <2> QED BY <1>0, <2>1, SetStep, Zenon
<1>3. b \in Nat /\ b < 256 /\ Top(b, 0) = 0 /\ Top(b, 8) = b
  BY OctetIs, BitIs, 0 \in 0 .. 7
<1>4. CASE k = 0
  <2>1. m_nLastSDA' = a /\ m_nLastSCL' = 0 /\ React(a, 0)
    BY <1>0, <1>2, <1>4 DEF Set
  <2>2. slave = Bare(st)
    BY <1>4 DEF Writing
  <2>3. UNCHANGED <<slave, sensor, nacks>>
    <3>1. CASE m_nLastSCL = 0
      BY <3>1, <2>1, ReactLow
    <3>2. CASE m_nLastSCL = 1
      BY <3>2, <2>1, <2>2, ReactFall DEF Falls, Bare, Receiving
    <3> QED BY <3>1, <3>2 DEF Typed
  <2> QED BY <1>2, <1>3, <1>4, <2>1, <2>2, <2>3 DEF Writing, Still, Bare, f
<1>5. CASE k > 0
  <2> DEFINE v == Bit(b, 7 - ((k - 1) \div 3))
             r == k \div 3
  <2>0. k \in 1 .. 24 /\ r \in 0 .. 8
    BY <1>2, <1>5
  <2>1. /\ m_nLastSDA' = v /\ m_nLastSCL' = (IF k % 3 = 2 THEN 1 ELSE 0)
        /\ React(v, IF k % 3 = 2 THEN 1 ELSE 0)
    <3>1. f[k + 1] = Set(v, IF k % 3 = 2 THEN 1 ELSE 0)
      BY <1>1, <2>0
    <3> HIDE DEF v
    <3> QED BY <1>2, <3>1 DEF Set
  <2>2. slave = [st |-> st, n |-> r, byte |-> Top(b, r), out |-> 1] /\ m_nLastSCL = IF k % 3 = 0 THEN 1 ELSE 0
    BY <2>0 DEF Writing
  <2>3. v \in {0, 1} /\ 7 - (((k + 1) - 2) \div 3) = 7 - ((k - 1) \div 3)
    <3>1. (k - 1) \div 3 \in 0 .. 7
      BY <2>0
    <3> QED BY <3>1, BitIs
  <2>4. CASE k % 3 = 1
    <3>1. UNCHANGED <<slave, sensor, nacks>> /\ m_nLastSCL' = 0
      BY <2>1, <2>2, <2>4, ReactLow
    <3>2. (k + 1) \div 3 = r /\ (k + 1) % 3 # 0 /\ k + 1 \in 1 .. 24
      BY <2>0, <2>4
    <3> HIDE DEF v, r
    <3> QED BY <1>2, <2>0, <2>1, <2>2, <2>3, <3>1, <3>2 DEF Writing, Still, f, v
  <2>5. CASE k % 3 = 2
    <3>1. slave' = Rises(slave, Wire(v, slave)) /\ UNCHANGED <<sensor, nacks>> /\ m_nLastSCL' = 1
      BY <2>1, <2>2, <2>5, ReactRise
    <3>2. (k + 1) \div 3 = r + 1 /\ (k + 1) % 3 = 0 /\ k + 1 \in 1 .. 24 /\ (k - 1) \div 3 = r /\ r \in 0 .. 7
      BY <2>0, <2>5
    <3>3. Top(b, r + 1) = 2 * Top(b, r) + v /\ Top(b, r) \in Nat
      BY <3>2, BitIs
    <3> HIDE DEF v, r
    <3>4. slave' = [st |-> st, n |-> r + 1, byte |-> Top(b, r + 1), out |-> 1]
      <4>1. Wire(v, slave) = v /\ slave.st \in Receiving /\ slave.n < 8
        BY <2>2, <2>3, <3>2 DEF Wire
      <4> QED BY <2>2, <3>1, <3>2, <3>3, <4>1 DEF Rises
    <3> QED BY <1>2, <2>0, <2>1, <2>3, <3>1, <3>2, <3>4 DEF Writing, Still, f, v
  <2>6. CASE k % 3 = 0
    <3>1. Falls /\ m_nLastSCL' = 0
      BY <2>1, <2>2, <2>6, ReactFall
    <3>2. (k + 1) \div 3 = r /\ (k + 1) % 3 = 1 /\ (k = 24 <=> r = 8) /\ (k # 24 => k + 1 \in 1 .. 24)
      BY <2>0, <2>6
    <3>3. CASE k # 24
      <4>1. UNCHANGED <<slave, sensor, nacks>>
        BY <2>0, <2>2, <3>1, <3>2, <3>3 DEF Falls, Receiving
      <4> HIDE DEF v, r
      <4> QED BY <1>2, <2>0, <2>1, <2>2, <2>3, <3>1, <3>2, <3>3, <4>1 DEF Writing, Still, f, v
    <3>4. CASE k = 24
      <4>0. slave = [st |-> st, n |-> 8, byte |-> b, out |-> 1]
        BY <1>3, <2>2, <3>2, <3>4
      <4>1. Mine
        BY <4>0 DEF Mine, I2C_ADDR
      <4>2. /\ UNCHANGED sensor
            /\ \/ slave' = [slave EXCEPT !.n = 9, !.out = 0] /\ UNCHANGED nacks
               \/ nacks' = nacks + 1 /\ slave' = [slave EXCEPT !.st = "wait"]
        BY <3>1, <4>0, <4>1 DEF Falls, Receiving
      <4>3. Heard(st, b)' /\ Still
        <5>1. CASE slave' = [slave EXCEPT !.n = 9, !.out = 0] /\ UNCHANGED nacks
          BY <1>2, <4>0, <4>2, <5>1 DEF Heard, Still
        <5>2. CASE nacks' = nacks + 1 /\ slave' = [slave EXCEPT !.st = "wait"]
          <6>1. misses' = 0
            BY <1>2, <5>2 DEF Typed
          <6>2. slave'.st = "wait" /\ slave'.out = 1
            BY <4>0, <5>2
          <6> QED BY <1>2, <4>2, <6>1, <6>2 DEF Heard, Lost, Still
        <5> QED BY <4>2, <5>1, <5>2
      <4> HIDE DEF v, r
      <4> QED BY <1>2, <2>1, <2>3, <3>1, <3>2, <3>4, <4>3 DEF Writing, f, v
    <3> QED BY <3>3, <3>4
  <2> QED BY <2>0, <2>4, <2>5, <2>6
<1> QED BY <1>4, <1>5

\* So it does while the answer is fetched; the last setting shows it.
LEMMA CheckingStep ==
  ASSUME Typed, NEW a \in {0, 1}, NEW b, NEW st \in Receiving,
         NEW k \in 0 .. 3, todo = Rest(CheckFrom(a), k), Checking(st, b, k), i2c_master_setDC
  PROVE  /\ todo' = Rest(CheckFrom(a), k + 1)
         /\ k < 3 => Checking(st, b, k + 1)' /\ Still
         /\ k = 3 => /\ Wires(1, 0)' /\ UNCHANGED <<step, script, bytes, failed, data0, data1, part, lux, restarts, misses>>
                     /\ \/ got' = 1 /\ Lost' /\ UNCHANGED sensor
                        \/ got' = 0 /\ slave = [st |-> st, n |-> 9, byte |-> b, out |-> 0] /\ Taken
<1> DEFINE f == CheckFrom(a)
<1>0. /\ f \in Seq(Moves) /\ Len(f) = 4
      /\ f[1] = Set(a, 0) /\ f[2] = Set(1, 0) /\ f[3] = Get(1, 1) /\ f[4] = Set(1, 0)
  BY CheckIs
<1> HIDE DEF f
<1>2. /\ todo' = Rest(f, k + 1)
      /\ m_nLastSDA' = f[k + 1].sda /\ m_nLastSCL' = f[k + 1].scl
      /\ React(f[k + 1].sda, f[k + 1].scl)
      /\ got' = IF f[k + 1].get THEN 2 * got + Wire(f[k + 1].sda, slave') ELSE got
      /\ UNCHANGED <<step, script, bytes, failed, data0, data1, part, lux, restarts>>
      /\ misses' = IF nacks' = nacks THEN misses ELSE 0
  <2>1. todo = Rest(f, k) /\ k \in 0 .. Len(f)
    BY <1>0 DEF f
  <2> QED BY <1>0, <2>1, SetStep, Zenon
<1>3. m_nLastSCL = (IF k = 3 THEN 1 ELSE 0) /\ Heard(st, b) /\ got = IF k = 3 /\ slave.st = "wait" THEN 1 ELSE 0
  BY DEF Checking
<1>4. CASE k \in {0, 1}
  <2>1. m_nLastSDA' = (IF k = 1 THEN 1 ELSE a) /\ m_nLastSCL' = 0 /\ React(IF k = 1 THEN 1 ELSE a, 0) /\ got' = got
    BY <1>0, <1>2, <1>4 DEF Set
  <2>2. UNCHANGED <<slave, sensor, nacks>>
    BY <1>3, <1>4, <2>1, ReactLow
  <2> QED BY <1>2, <1>3, <1>4, <2>1, <2>2 DEF Checking, Heard, Lost, Still, f
<1>5. CASE k = 2
  <2>1. m_nLastSDA' = 1 /\ m_nLastSCL' = 1 /\ React(1, 1) /\ got' = 2 * got + Wire(1, slave')
    BY <1>0, <1>2, <1>5 DEF Get
  <2>2. slave' = Rises(slave, Wire(1, slave)) /\ UNCHANGED <<sensor, nacks>>
    BY <1>3, <1>5, <2>1, ReactRise
  <2>3. slave' = slave
    BY <1>3, <2>2 DEF Heard, Lost, Rises, Receiving
  <2>4. got' = IF slave'.st = "wait" THEN 1 ELSE 0
    BY <1>3, <1>5, <2>1, <2>3 DEF Heard, Lost, Wire, Receiving
  <2> QED BY <1>2, <1>3, <1>5, <2>1, <2>2, <2>3, <2>4 DEF Checking, Heard, Lost, Still, f
<1>6. CASE k = 3
  <2>1. m_nLastSDA' = 1 /\ m_nLastSCL' = 0 /\ React(1, 0) /\ got' = got
    BY <1>0, <1>2, <1>6 DEF Set
  <2>2. Falls
    BY <1>3, <1>6, <2>1, ReactFall
  <2>3. CASE Lost
    <3>1. UNCHANGED <<slave, sensor, nacks>>
      BY <2>2, <2>3 DEF Falls, Receiving, Lost
    <3> QED BY <1>2, <1>3, <1>6, <2>1, <2>3, <3>1 DEF Lost, Wires, f
  <2>4. CASE slave = [st |-> st, n |-> 9, byte |-> b, out |-> 0]
    <3>1. Taken /\ UNCHANGED nacks
      BY <2>2, <2>4 DEF Falls, Receiving
    <3>2. got' = 0
      BY <1>3, <2>1, <2>4 DEF Receiving
    <3> QED BY <1>2, <1>6, <2>1, <2>4, <3>1, <3>2 DEF Wires, f
  <2> QED BY <1>3, <2>3, <2>4 DEF Heard
<1> QED BY <1>4, <1>5, <1>6

\* So it does within a byte that is read.
LEMMA ReadingStep ==
  ASSUME Typed, NEW v \in Octets, NEW k \in 0 .. 18, todo = Rest(ReadFrom(1), k), Reading(v, k), i2c_master_setDC
  PROVE  k < 18 /\ todo' = Rest(ReadFrom(1), k + 1) /\ Reading(v, k + 1)' /\ Still
<1> DEFINE f == ReadFrom(1)
<1>0. /\ f \in Seq(Moves) /\ Len(f) = 18 /\ f[1] = Set(1, 0) /\ f[18] = Set(1, 0)
      /\ \A i \in 1 .. 16 : f[i + 1] = IF i % 2 = 1 THEN Set(1, 0) ELSE Get(1, 1)
  BY ReadIs
<1> HIDE DEF f
<1>2. /\ k < 18 /\ todo' = Rest(f, k + 1)
      /\ m_nLastSDA' = f[k + 1].sda /\ m_nLastSCL' = f[k + 1].scl
      /\ React(f[k + 1].sda, f[k + 1].scl)
      /\ got' = IF f[k + 1].get THEN 2 * got + Wire(f[k + 1].sda, slave') ELSE got
      /\ UNCHANGED <<step, script, bytes, failed, data0, data1, part, lux, restarts>>
      /\ misses' = IF nacks' = nacks THEN misses ELSE 0
  <2>1. todo = Rest(f, k) /\ k \in 0 .. Len(f)
    BY <1>0 DEF f
  <2>2. 18 = Len(f)
    BY <1>0
  <2> QED BY <1>0, <2>1, <2>2, SetStep, Zenon
<1>3. v \in Nat /\ Top(v, 0) = 0 /\ Top(v, 8) = v
  BY OctetIs, BitIs, 0 \in 0 .. 7
<1>4. CASE k \in {0, 1}
  <2>1. m_nLastSDA' = 1 /\ m_nLastSCL' = 0 /\ React(1, 0) /\ got' = got
    BY <1>0, <1>2, <1>4 DEF Set
  <2>2. UNCHANGED <<slave, sensor, nacks>>
    BY <1>4, <2>1, ReactLow DEF Reading
  <2> QED BY <1>2, <1>4, <2>1, <2>2 DEF Reading, Sending, Still, f
<1>5. CASE k \in 2 .. 16 /\ k % 2 = 0
  <2> DEFINE r == (k - 1) \div 2
             x == Bit(v, 7 - r)
  <2>0. r \in 0 .. 7 /\ (k - 2) \div 2 = r /\ ((k + 1) - 1) \div 2 = r + 1 /\ ((k + 1) - 2) \div 2 = r
        /\ k + 1 \in 3 .. 17 /\ (k + 1) % 2 = 1 /\ (k = 2 => r = 0) /\ (k # 2 => k \in 3 .. 17)
    BY <1>5
  <2>1. m_nLastSDA' = 1 /\ m_nLastSCL' = 1 /\ React(1, 1) /\ got' = 2 * got + Wire(1, slave')
    <3>1. f[k + 1] = Get(1, 1)
      BY <1>0, <1>5
    <3> QED BY <1>2, <3>1 DEF Get
  <2>2. Top(v, r + 1) = 2 * Top(v, r) + x /\ Top(v, r) \in Nat /\ x \in {0, 1}
    BY <2>0, BitIs
  <2>3. slave = [st |-> "send", n |-> r, byte |-> v, out |-> x] /\ got = Top(v, r)
    BY <1>3, <1>5, <2>0 DEF Reading, Sending
  <2>4. slave' = Rises(slave, Wire(1, slave)) /\ UNCHANGED <<sensor, nacks>>
    <3>1. m_nLastSCL = 0
      BY <1>5, <2>0 DEF Reading
    <3> QED BY <2>1, <3>1, ReactRise
  <2> HIDE DEF r, x
  <2>5. slave' = [st |-> "send", n |-> r + 1, byte |-> v, out |-> x]
    BY <2>0, <2>3, <2>4 DEF Rises, Receiving
  <2>6. got' = Top(v, r + 1)
    BY <2>1, <2>2, <2>3, <2>5 DEF Wire
  <2>7. Still
    BY <1>2, <2>4 DEF Still
  <2> QED BY <1>2, <2>0, <2>1, <2>5, <2>6, <2>7 DEF Reading, Sending, f, x
<1>6. CASE k \in 3 .. 15 /\ k % 2 = 1
  <2> DEFINE r == (k - 1) \div 2
             x == Bit(v, 7 - r)
  <2>0. r \in 0 .. 7 /\ ((k + 1) - 1) \div 2 = r /\ ((k + 1) - 2) \div 2 = r
        /\ k + 1 \in 3 .. 17 /\ (k + 1) % 2 = 0 /\ k \in 3 .. 17
    BY <1>6
  <2>1. m_nLastSDA' = 1 /\ m_nLastSCL' = 0 /\ React(1, 0) /\ got' = got
    <3>1. f[k + 1] = Set(1, 0)
      BY <1>0, <1>6
    <3> QED BY <1>2, <3>1 DEF Set
  <2>3. slave.st = "send" /\ slave.n = r /\ slave.byte = v /\ got = Top(v, r)
        /\ slave = [st |-> "send", n |-> r, byte |-> v, out |-> slave.out]
    BY <2>0 DEF Reading, Sending
  <2>4. Falls
    <3>1. m_nLastSCL = 1
      BY <1>6, <2>0 DEF Reading
    <3> QED BY <2>1, <3>1, ReactFall
  <2> HIDE DEF r
  <2>5. slave' = [st |-> "send", n |-> r, byte |-> v, out |-> x] /\ UNCHANGED <<sensor, nacks>>
    BY <2>0, <2>3, <2>4 DEF Falls, NextBit, Receiving
  <2>7. Still
    BY <1>2, <2>5 DEF Still
  <2> HIDE DEF x
  <2> QED BY <1>2, <2>0, <2>1, <2>3, <2>5, <2>7 DEF Reading, Sending, f, x
<1>7. CASE k = 17
  <2>1. m_nLastSDA' = 1 /\ m_nLastSCL' = 0 /\ React(1, 0) /\ got' = got
    BY <1>0, <1>2, <1>7 DEF Set
  <2>3. slave.st = "send" /\ slave.n = 8 /\ slave.byte = v /\ got = v
        /\ slave = [st |-> "send", n |-> 8, byte |-> v, out |-> slave.out] /\ m_nLastSCL = 1
    BY <1>3, <1>7 DEF Reading, Sending
  <2>4. Falls
    BY <2>1, <2>3, ReactFall
  <2>5. slave' = [st |-> "send", n |-> 8, byte |-> v, out |-> 1] /\ UNCHANGED <<sensor, nacks>>
    BY <2>3, <2>4 DEF Falls, NextBit, Receiving
  <2> QED BY <1>2, <1>7, <2>1, <2>3, <2>5 DEF Reading, Sending, Still, f
<1> QED BY <1>2, <1>4, <1>5, <1>6, <1>7

\* So it does while a byte is acknowledged; behind it the sensor sends on or is done.
LEMMA AckingStep ==
  ASSUME Typed, NEW v, NEW l \in {0, 1}, NEW k \in 0 .. 3, todo = Rest(AckFrom(1, l), k), Acking(l, v, k), i2c_master_setDC
  PROVE  /\ todo' = Rest(AckFrom(1, l), k + 1)
         /\ k < 3 => Acking(l, v, k + 1)' /\ Still
         /\ k = 3 => /\ Wires(l, 0)' /\ UNCHANGED <<step, script, bytes, failed, data0, data1, part, lux, restarts, misses>>
                     /\ l = 0 => SendNext
                     /\ l = 1 => Mute' /\ UNCHANGED sensor
<1> DEFINE f == AckFrom(1, l)
<1>0. /\ f \in Seq(Moves) /\ Len(f) = 5
      /\ f[1] = Set(1, 0) /\ f[2] = Set(l, 0) /\ f[3] = Set(l, 1) /\ f[4] = Set(l, 0)
  BY AckIs
<1> HIDE DEF f
<1>2. /\ todo' = Rest(f, k + 1)
      /\ m_nLastSDA' = f[k + 1].sda /\ m_nLastSCL' = f[k + 1].scl
      /\ React(f[k + 1].sda, f[k + 1].scl)
      /\ UNCHANGED <<step, script, bytes, failed, data0, data1, part, lux, restarts>>
      /\ misses' = IF nacks' = nacks THEN misses ELSE 0
  <2>1. todo = Rest(f, k) /\ k \in 0 .. Len(f)
    BY <1>0 DEF f
  <2> QED BY <1>0, <2>1, SetStep, Zenon
<1>4. CASE k \in {0, 1}
  <2>1. m_nLastSDA' = (IF k = 1 THEN l ELSE 1) /\ m_nLastSCL' = 0 /\ React(IF k = 1 THEN l ELSE 1, 0)
    BY <1>0, <1>2, <1>4 DEF Set
  <2>2. UNCHANGED <<slave, sensor, nacks>>
    BY <1>4, <2>1, ReactLow DEF Acking
  <2> QED BY <1>2, <1>4, <2>1, <2>2 DEF Acking, Sending, Still, f
<1>5. CASE k = 2
  <2>1. m_nLastSDA' = l /\ m_nLastSCL' = 1 /\ React(l, 1)
    BY <1>0, <1>2, <1>5 DEF Set
  <2>2. slave' = Rises(slave, Wire(l, slave)) /\ UNCHANGED <<sensor, nacks>>
    BY <1>5, <2>1, ReactRise DEF Acking
  <2>3. slave = [st |-> "send", n |-> 8, byte |-> v, out |-> 1]
    BY <1>5 DEF Acking, Sending
  <2>4. Wire(l, slave) = l
    BY <2>3 DEF Wire
  <2>5. IF l = 0 THEN slave' = [st |-> "send", n |-> 9, byte |-> v, out |-> 1]
        ELSE slave'.st = "wait" /\ slave'.out = 1
    BY <2>2, <2>3, <2>4 DEF Rises, Receiving
  <2> QED BY <1>2, <1>5, <2>1, <2>2, <2>5 DEF Acking, Sending, Still, f
<1>6. CASE k = 3
  <2>1. m_nLastSDA' = l /\ m_nLastSCL' = 0 /\ React(l, 0)
    BY <1>0, <1>2, <1>6 DEF Set
  <2>2. Falls
    BY <1>6, <2>1, ReactFall DEF Acking
  <2>3. l = 0 => SendNext /\ UNCHANGED nacks
    BY <1>6, <2>2 DEF Acking, Sending, Falls, Receiving
  <2>4. l = 1 => UNCHANGED <<slave, sensor, nacks>> /\ Mute
    BY <1>6, <2>2 DEF Acking, Falls, Receiving, Mute
  <2> QED BY <1>2, <1>6, <2>1, <2>3, <2>4 DEF Wires, Mute, f
<1> QED BY <1>4, <1>5, <1>6

\* So it does within a stop.
LEMMA StoppingStep ==
  ASSUME Typed, NEW k \in 0 .. 3, todo = Rest(StopAfter(0), k), Stopping(k), i2c_master_setDC
  PROVE  k < 3 /\ todo' = Rest(StopAfter(0), k + 1) /\ Stopping(k + 1)' /\ Still
<1> DEFINE f == StopAfter(0)
<1>0. /\ f \in Seq(Moves) /\ Len(f) = 3
      /\ f[1] = Set(0, 0) /\ f[2] = Set(0, 1) /\ f[3] = Set(1, 1)
  BY StopIs
<1> HIDE DEF f
<1>2. /\ k < 3 /\ todo' = Rest(f, k + 1)
      /\ m_nLastSDA' = f[k + 1].sda /\ m_nLastSCL' = f[k + 1].scl
      /\ React(f[k + 1].sda, f[k + 1].scl)
      /\ UNCHANGED <<step, script, bytes, failed, data0, data1, part, lux, restarts>>
      /\ misses' = IF nacks' = nacks THEN misses ELSE 0
  <2>1. todo = Rest(f, k) /\ k \in 0 .. Len(f)
    BY <1>0 DEF f
  <2>2. 3 = Len(f)
    BY <1>0
  <2> QED BY <1>0, <2>1, <2>2, SetStep, Zenon
<1>4. CASE k = 0
  <2>1. m_nLastSDA' = 0 /\ m_nLastSCL' = 0 /\ React(0, 0)
    BY <1>0, <1>2, <1>4 DEF Set
  <2>2. UNCHANGED <<slave, sensor, nacks>>
    BY <1>4, <2>1, ReactLow DEF Stopping
  <2> QED BY <1>2, <1>4, <2>1, <2>2 DEF Stopping, Still, f
<1>5. CASE k = 1
  <2>1. m_nLastSDA' = 0 /\ m_nLastSCL' = 1 /\ React(0, 1)
    BY <1>0, <1>2, <1>5 DEF Set
  <2>2. slave' = Rises(slave, Wire(0, slave)) /\ UNCHANGED <<sensor, nacks>>
    BY <1>5, <2>1, ReactRise DEF Stopping
  <2>3. slave'.out = 1
    BY <1>5, <2>2 DEF Stopping, Rises, Bare, Receiving
  <2> QED BY <1>2, <1>5, <2>1, <2>2, <2>3 DEF Stopping, Still, f
<1>6. CASE k = 2
  <2>1. m_nLastSDA' = 1 /\ m_nLastSCL' = 1 /\ React(1, 1)
    BY <1>0, <1>2, <1>6 DEF Set
  <2>2. Wire(m_nLastSDA, slave) = 0 /\ Wire(1, slave) = 1 /\ m_nLastSCL = 1
    BY <1>6 DEF Stopping, Wire
  <2>3. slave' = Framed(slave, 1) /\ UNCHANGED <<sensor, nacks>>
    BY <2>1, <2>2, ReactHigh
  <2> QED BY <1>2, <1>6, <2>1, <2>3 DEF Stopping, Still, Framed, f
<1> QED BY <1>2, <1>4, <1>5, <1>6

-----------------------------------------------------------------------------
(* The sensor keeps to its states, whatever the wires do.                  *)

\* Bits are 0 or 1.
LEMMA BitNat ==
  ASSUME NEW b \in Nat, NEW r \in 0 .. 7
  PROVE  Bit(b, r) \in {0, 1}
<1>1. r \in {0, 1, 2, 3, 4, 5, 6, 7}
  OBVIOUS
<1>2. /\ 2 ^ 0 = 1 /\ 2 ^ 1 = 2 /\ 2 ^ 2 = 4 /\ 2 ^ 3 = 8
      /\ 2 ^ 4 = 16 /\ 2 ^ 5 = 32 /\ 2 ^ 6 = 64 /\ 2 ^ 7 = 128
  OBVIOUS
<1>3. /\ Bit(b, 0) = (b \div 1) % 2 /\ Bit(b, 1) = (b \div 2) % 2 /\ Bit(b, 2) = (b \div 4) % 2
      /\ Bit(b, 3) = (b \div 8) % 2 /\ Bit(b, 4) = (b \div 16) % 2 /\ Bit(b, 5) = (b \div 32) % 2
      /\ Bit(b, 6) = (b \div 64) % 2 /\ Bit(b, 7) = (b \div 128) % 2
  BY <1>2 DEF Bit
<1>4. /\ b \div 1 \in Nat /\ b \div 2 \in Nat /\ b \div 4 \in Nat /\ b \div 8 \in Nat
      /\ b \div 16 \in Nat /\ b \div 32 \in Nat /\ b \div 64 \in Nat /\ b \div 128 \in Nat
  OBVIOUS
<1>5. \A x \in Nat : x % 2 \in {0, 1}
  OBVIOUS
<1> QED BY <1>1, <1>3, <1>4, <1>5

\* A byte is put on the wire.
LEMMA SendNextIs ==
  ASSUME Typed, SendNext
  PROVE  /\ Contents(sensor.reg) \in Octets
         /\ slave' = [st |-> "send", n |-> 0, byte |-> Contents(sensor.reg), out |-> Bit(Contents(sensor.reg), 7)]
         /\ slave'.st = "send" /\ slave'.n = 0 /\ slave'.byte \in Nat /\ slave'.out \in {0, 1}
         /\ slave' \in [st : States, n : 0 .. 9, byte : Nat, out : {0, 1}]
         /\ sensor' = [sensor EXCEPT !.reg = (sensor.reg + 1) % 16]
<1> DEFINE v == Contents(sensor.reg)
<1>1. v \in Octets /\ v \in Nat
  BY SensorTyped, ContentsIs, OctetIs
<1>2. Bit(v, 7) \in {0, 1}
  BY <1>1, BitNat
<1>3. slave' = [st |-> "send", n |-> 0, byte |-> v, out |-> Bit(v, 7)] /\ sensor' = [sensor EXCEPT !.reg = (sensor.reg + 1) % 16]
  BY DEF SendNext
<1> HIDE DEF v
<1> QED BY <1>1, <1>2, <1>3 DEF v, States

\* The state of the sensor behind an edge that it sees with SCL at c.
LEMMA ReactTyped ==
  ASSUME Typed, SlaveOK, NEW a \in {0, 1}, NEW c \in {0, 1}, React(a, c), m_nLastSCL' = c
  PROVE  /\ SlaveOK' /\ nacks' \in Nat
         /\ sensor' \in [reg : 0 .. 15, control : 0 .. 3, timing : 0 .. 31, id : Ids, light : Light]
         /\ sensor'.id = sensor.id /\ sensor'.light = sensor.light
<1> DEFINE Shape == [st : States, n : 0 .. 9, byte : Nat, out : {0, 1}]
           Regs == [reg : 0 .. 15, control : 0 .. 3, timing : 0 .. 31, id : Ids, light : Light]
<1>0. /\ slave \in Shape /\ sensor \in Regs /\ nacks \in Nat
      /\ slave.st \in States /\ slave.n \in 0 .. 9 /\ slave.byte \in Nat /\ slave.out \in {0, 1}
      /\ m_nLastSCL \in {0, 1} /\ m_nLastSDA \in {0, 1}
  BY DEF SlaveOK, Typed
<1>1. CASE UNCHANGED <<slave, sensor, nacks>> /\ (m_nLastSCL = 0 \/ c = 1)
  BY <1>0, <1>1 DEF SlaveOK
<1>2. ASSUME slave' = Idle \/ slave' = Bare("addr"), UNCHANGED <<sensor, nacks>>
      PROVE  SlaveOK' /\ nacks' \in Nat /\ sensor' \in Regs /\ sensor'.id = sensor.id /\ sensor'.light = sensor.light
  BY <1>0, <1>2 DEF SlaveOK, Idle, Bare, States, Receiving
<1>3. CASE m_nLastSCL = 0 /\ c = 1
  <2> DEFINE w == Wire(a, slave)
  <2>0. w \in {0, 1}
    BY DEF Wire
  <2>1. slave' = Rises(slave, w) /\ UNCHANGED <<sensor, nacks>>
    BY <1>3, ReactRise
  <2> HIDE DEF w
  <2>2. CASE slave.st \in Receiving /\ slave.n < 8
    <3>1. slave' = [slave EXCEPT !.n = slave.n + 1, !.byte = 2 * slave.byte + w]
      BY <2>1, <2>2 DEF Rises
    <3>2. slave'.st = slave.st /\ slave'.n = slave.n + 1 /\ slave'.out = 1 /\ slave' \in Shape
      <4>1. slave.out = 1
        BY <2>2 DEF SlaveOK
      <4>2. slave.n + 1 \in 0 .. 9 /\ 2 * slave.byte + w \in Nat
        BY <1>0, <2>0, <2>2
      <4> QED BY <1>0, <3>1, <4>1, <4>2
    <3> QED BY <1>0, <2>1, <2>2, <3>2, <1>3 DEF SlaveOK, Receiving
  <2>3. CASE slave.st = "send" /\ slave.n < 8
    <3>1. slave' = [slave EXCEPT !.n = slave.n + 1]
      BY <2>1, <2>3 DEF Rises, Receiving
    <3> QED BY <1>0, <1>3, <2>1, <2>3, <3>1 DEF SlaveOK, Receiving
  <2>4. CASE slave.st = "send" /\ slave.n >= 8
    <3>1. slave.out = 1
      BY <1>3, <2>4 DEF SlaveOK
    <3>2. slave' = [slave EXCEPT !.n = 9] \/ slave' = [slave EXCEPT !.st = "wait"]
      BY <1>0, <2>1, <2>4 DEF Rises, Receiving
    <3> QED BY <1>0, <1>3, <2>1, <2>4, <3>1, <3>2 DEF SlaveOK, Receiving, States
  <2>5. CASE ~(slave.st \in Receiving /\ slave.n < 8) /\ slave.st # "send"
    <3>1. slave' = slave
      BY <2>1, <2>5 DEF Rises
    <3> QED BY <1>1, <1>3, <2>1, <3>1
  <2> QED BY <1>0, <2>2, <2>3, <2>4, <2>5
<1>4. CASE m_nLastSCL = 1 /\ c = 1
  <2>1. UNCHANGED <<sensor, nacks>> /\ (slave' = slave \/ slave' = Framed(slave, Wire(a, slave)))
    BY <1>4, ReactHigh
  <2> QED BY <1>1, <1>2, <1>4, <2>1 DEF Framed, Bare
<1>5. CASE m_nLastSCL = 0 /\ c = 0
  BY <1>1, <1>5, ReactLow
<1>6. CASE m_nLastSCL = 1 /\ c = 0
  <2>0. Falls
    BY <1>6, ReactFall
  <2>1. ASSUME slave' = Bare("cmd") \/ slave' = Bare("data")
        PROVE  SlaveOK'
    BY <2>1 DEF SlaveOK, Bare, States, Receiving
  <2>2. ASSUME SendNext, nacks' = nacks
        PROVE  SlaveOK' /\ nacks' \in Nat /\ sensor' \in Regs /\ sensor'.id = sensor.id /\ sensor'.light = sensor.light
    <3>1. /\ slave'.st = "send" /\ slave'.n = 0 /\ slave' \in Shape
          /\ sensor' = [sensor EXCEPT !.reg = (sensor.reg + 1) % 16]
      BY <2>2, SendNextIs
    <3>2. SlaveOK'
      BY <3>1 DEF SlaveOK, Receiving
    <3> QED BY <1>0, <2>2, <3>1, <3>2
  <2>3. CASE /\ slave.st \in Receiving /\ slave.n = 8 /\ UNCHANGED sensor
             /\ \/ slave' = [slave EXCEPT !.n = 9, !.out = 0] /\ UNCHANGED nacks
                \/ slave' = [slave EXCEPT !.st = "wait"] /\ UNCHANGED nacks
                \/ nacks' = nacks + 1 /\ slave' = [slave EXCEPT !.st = "wait"]
    <3>1. slave.out = 1
      BY <2>3 DEF SlaveOK
    <3>2. SlaveOK'
      <4>1. CASE slave' = [slave EXCEPT !.n = 9, !.out = 0]
        <5>1. slave' \in Shape /\ slave'.st = slave.st /\ slave'.n = 9 /\ slave'.out = 0
          <6>1. slave' = [st |-> slave.st, n |-> 9, byte |-> slave.byte, out |-> 0]
            BY <1>0, <4>1
          <6> QED BY <1>0, <6>1
        <5>2. slave.st \in Receiving
          BY <2>3
        <5> QED BY <5>1, <5>2 DEF SlaveOK, Receiving
      <4>2. CASE slave' = [slave EXCEPT !.st = "wait"]
        BY <1>0, <2>3, <3>1, <4>2 DEF SlaveOK, Receiving, States
      <4> QED BY <2>3, <4>1, <4>2
    <3> QED BY <1>0, <2>3, <3>2
  <2>4. CASE Taken /\ UNCHANGED nacks
    <3>1. CASE SendNext
      BY <2>2, <2>4, <3>1
    <3>2. CASE Listen("cmd") /\ UNCHANGED sensor
      BY <1>0, <2>1, <2>4, <3>2 DEF Listen, Bare
    <3>3. CASE Listen("data") /\ sensor' = [sensor EXCEPT !.reg = slave.byte % 16]
      BY <1>0, <2>1, <2>4, <3>3 DEF Listen, Bare
    <3>4. CASE /\ Listen("data")
               /\ sensor' = [sensor EXCEPT !.control = IF sensor.reg = REG_CONTROL THEN slave.byte % 4 ELSE sensor.control,
                                           !.timing = IF sensor.reg = REG_TIMING THEN slave.byte % 32 ELSE sensor.timing,
                                           !.reg = (sensor.reg + 1) % 16]
      <4>1. /\ (IF sensor.reg = REG_CONTROL THEN slave.byte % 4 ELSE sensor.control) \in 0 .. 3
            /\ (IF sensor.reg = REG_TIMING THEN slave.byte % 32 ELSE sensor.timing) \in 0 .. 31
            /\ (sensor.reg + 1) % 16 \in 0 .. 15
        BY <1>0
      <4>2. sensor' \in Regs /\ sensor'.id = sensor.id /\ sensor'.light = sensor.light
        BY <1>0, <3>4, <4>1
      <4> QED BY <1>0, <2>1, <2>4, <3>4, <4>2 DEF Listen, Bare
    <3> QED BY <2>4, <3>1, <3>2, <3>3, <3>4 DEF Taken
  <2>5. CASE slave.st = "send" /\ slave.n = 9 /\ SendNext /\ UNCHANGED nacks
    BY <2>2, <2>5
  <2>6. CASE slave.st = "send" /\ slave.n < 9 /\ slave' = NextBit(slave) /\ UNCHANGED <<sensor, nacks>>
    <3>1. CASE slave.n < 8
      <4>1. Bit(slave.byte, 7 - slave.n) \in {0, 1}
        BY <1>0, <3>1, BitNat
      <4>2. slave' = [slave EXCEPT !.out = Bit(slave.byte, 7 - slave.n)]
        BY <2>6, <3>1 DEF NextBit
      <4> QED BY <1>0, <2>6, <3>1, <4>1, <4>2 DEF SlaveOK, Receiving
    <3>2. CASE slave.n >= 8
      <4>1. slave' = [slave EXCEPT !.out = 1]
        BY <1>0, <2>6, <3>2 DEF NextBit
      <4> QED BY <1>0, <2>6, <4>1 DEF SlaveOK, Receiving
    <3> QED BY <1>0, <3>1, <3>2
  <2>7. CASE /\ slave.st \in {"idle", "wait"} \/ (slave.st \in Receiving /\ slave.n < 8)
             /\ UNCHANGED <<slave, sensor, nacks>>
    BY <1>0, <2>7 DEF SlaveOK, Receiving
  <2> QED BY <2>0, <2>3, <2>4, <2>5, <2>6, <2>7 DEF Falls
<1> QED BY <1>0, <1>3, <1>4, <1>5, <1>6

-----------------------------------------------------------------------------
(* Settings: the driver goes on to the next one of its function.           *)

\* While the registers stay, what is known of them stays.
LEMMA StillKeeps ==
  ASSUME Still
  PROVE  /\ Prepared => Prepared'
         /\ Done => Done'
         /\ Aimed => Aimed'
         /\ Behind => Behind'
         /\ \A d \in Nat : Dirty(d) => Dirty(d)'
         /\ \A i \in {1, 2}, v \in Octets : Fits(i, v) => Fits(i, v)'
         /\ \A S, j : Common(S, j) => Common(S, j)'
<1>1. Prepared => Prepared'
  BY DEF Still, Prepared
<1>2. Done => Done'
  BY DEF Still, Done
<1>3. \A d \in Nat : Dirty(d) => Dirty(d)'
  BY DEF Still, Dirty
<1>4. Aimed => Aimed'
  BY <1>3 DEF Still, Aimed, Reg
<1>5. Behind => Behind'
  BY DEF Still, Behind, Reg
<1>6. \A i \in {1, 2}, v \in Octets : Fits(i, v) => Fits(i, v)'
  BY DEF Still, Fits
<1>7. \A S, j : Common(S, j) => Common(S, j)'
  BY DEF Still, Common
<1> QED BY <1>1, <1>2, <1>3, <1>4, <1>5, <1>6, <1>7

\* What the driver writes in each of its steps.
LEMMA StepIs ==
  ASSUME NEW s \in Steps
  PROVE  /\ Reg(s) \in {0, 1, 10, 12, 14} /\ 128 + Reg(s) \in Octets /\ (128 + Reg(s)) % 16 = Reg(s)
         /\ Val(s) \in Octets
         /\ s = "id" => Reg(s) = 10
         /\ s = "data0" => Reg(s) = 12
         /\ s = "data1" => Reg(s) = 14
         /\ s = "on" => Reg(s) = 0 /\ Val(s) = 3
         /\ s = "timing" => Reg(s) = 1 /\ Val(s) = 18
         /\ s = "down" => Reg(s) = 0 /\ Val(s) = 0
<1>1. /\ Reg(s) \in {0, 1, 10, 12, 14}
      /\ Val(s) \in {0, 3, 18}
      /\ s = "id" => Reg(s) = 10
      /\ s = "data0" => Reg(s) = 12
      /\ s = "data1" => Reg(s) = 14
      /\ s = "on" => Reg(s) = 0 /\ Val(s) = 3
      /\ s = "timing" => Reg(s) = 1 /\ Val(s) = 18
      /\ s = "down" => Reg(s) = 0 /\ Val(s) = 0
  BY DEF Reg, Val, Steps, Readers, Writers, REG_ID, REG_CONTROL, REG_TIMING, REG_DATA0LOW, REG_DATA1LOW
<1> QED BY <1>1, OctetIs

\* A setting of the start of a transfer.
LEMMA SetStarting ==
  ASSUME Typed, NEW k \in 0 .. 3, Starting(k), i2c_master_setDC
  PROVE  k < 3 /\ Starting(k + 1)'
<1> DEFINE f == StartFrom(1)
<1>0. f \in Seq(Moves) /\ Len(f) = 3 /\ f[1] = Set(1, 1) /\ f[2] = Set(1, 1) /\ f[3] = Set(0, 1)
  BY StartIs
<1>1. todo = Rest(f, k) /\ Wires(IF k = 3 THEN 0 ELSE 1, 1)
  BY DEF Starting
<1> HIDE DEF f
<1>2. /\ k < 3 /\ todo' = Rest(f, k + 1)
      /\ m_nLastSDA' = f[k + 1].sda /\ m_nLastSCL' = f[k + 1].scl
      /\ React(f[k + 1].sda, f[k + 1].scl)
      /\ UNCHANGED <<step, script, bytes, failed, data0, data1, part, lux, restarts>>
      /\ misses' = IF nacks' = nacks THEN misses ELSE 0
  <2>2. k \in 0 .. Len(f) /\ 3 = Len(f)
    BY <1>0
  <2> QED BY <1>0, <1>1, <2>2, SetStep, Zenon
<1>3. m_nLastSDA' = (IF k = 2 THEN 0 ELSE 1) /\ m_nLastSCL' = 1 /\ React(IF k = 2 THEN 0 ELSE 1, 1)
  BY <1>0, <1>2 DEF Set
<1>4. UNCHANGED <<sensor, nacks>> /\ (k # 2 => slave' = slave)
      /\ (k = 2 => IF slave.out = 0 THEN slave' = slave ELSE slave' = Framed(slave, 0))
  <2>1. m_nLastSDA = 1 /\ m_nLastSCL = 1
    BY <1>1, <1>2 DEF Wires
  <2> QED BY <1>2, <1>3, <2>1, ReactHigh DEF Wire
<1>5. Still
  BY <1>2, <1>4 DEF Still
<1>6. slave' = (IF k = 2 THEN Bare("addr") ELSE Idle) \/ (step = "id" /\ Stuck' /\ Dirty(0)')
  <2>1. CASE slave = Idle
    BY <1>4, <2>1 DEF Idle, Framed, Bare
  <2>2. CASE step = "id" /\ Stuck /\ Dirty(0)
    BY <1>4, <1>5, <2>2, StillKeeps DEF Stuck
  <2> QED BY <1>2, <2>1, <2>2 DEF Starting
<1>7. Prepared' /\ Common(Steps, 1)'
  BY <1>5, StillKeeps DEF Starting
<1> QED BY <1>2, <1>3, <1>5, <1>6, <1>7 DEF Starting, Wires, Still, f

\* A setting of the repeated start.
LEMMA SetAgain ==
  ASSUME Typed, NEW k \in 0 .. 3, Again(k), i2c_master_setDC
  PROVE  k < 3 /\ Again(k + 1)'
<1> DEFINE f == StartFrom(0)
<1>0. f \in Seq(Moves) /\ Len(f) = 3 /\ f[1] = Set(1, 0) /\ f[2] = Set(1, 1) /\ f[3] = Set(0, 1)
  BY StartIs
<1>1. todo = Rest(f, k) /\ Wires(IF k = 3 THEN 0 ELSE 1, IF k < 2 THEN 0 ELSE 1)
      /\ slave = IF k < 2 THEN Bare("data") ELSE IF k = 2 THEN [st |-> "data", n |-> 1, byte |-> 1, out |-> 1] ELSE Bare("addr")
  BY DEF Again
<1> HIDE DEF f
<1>2. /\ k < 3 /\ todo' = Rest(f, k + 1)
      /\ m_nLastSDA' = f[k + 1].sda /\ m_nLastSCL' = f[k + 1].scl
      /\ React(f[k + 1].sda, f[k + 1].scl)
      /\ UNCHANGED <<step, script, bytes, failed, data0, data1, part, lux, restarts>>
      /\ misses' = IF nacks' = nacks THEN misses ELSE 0
  <2>2. k \in 0 .. Len(f) /\ 3 = Len(f)
    BY <1>0
  <2> QED BY <1>0, <1>1, <2>2, SetStep, Zenon
<1>3. /\ m_nLastSDA' = (IF k = 2 THEN 0 ELSE 1) /\ m_nLastSCL' = (IF k = 0 THEN 0 ELSE 1)
      /\ React(IF k = 2 THEN 0 ELSE 1, IF k = 0 THEN 0 ELSE 1)
  BY <1>0, <1>2 DEF Set
<1>4. /\ UNCHANGED <<sensor, nacks>>
      /\ slave' = IF k = 0 THEN Bare("data") ELSE IF k = 1 THEN [st |-> "data", n |-> 1, byte |-> 1, out |-> 1] ELSE Bare("addr")
  <2>1. CASE k = 0
    BY <1>1, <1>3, <2>1, ReactLow DEF Wires
  <2>2. CASE k = 1
    <3>1. slave' = Rises(slave, Wire(1, slave)) /\ UNCHANGED <<sensor, nacks>>
      BY <1>1, <1>3, <2>2, ReactRise DEF Wires
    <3>2. Wire(1, slave) = 1 /\ slave = [st |-> "data", n |-> 0, byte |-> 0, out |-> 1]
      BY <1>1, <2>2 DEF Wire, Bare
    <3>3. slave' = [slave EXCEPT !.n = slave.n + 1, !.byte = 2 * slave.byte + 1]
      <4>1. slave.st \in Receiving /\ slave.n < 8
        BY <3>2 DEF Receiving
      <4> QED BY <3>1, <3>2, <4>1, Zenon DEF Rises
    <3>4. slave' = [st |-> "data", n |-> 1, byte |-> 1, out |-> 1]
      <4>1. slave.n + 1 = 1 /\ 2 * slave.byte + 1 = 1
        BY <3>2
      <4>2. slave' = [slave EXCEPT !.n = 1, !.byte = 1]
        BY <3>3, <4>1
      <4> QED BY <3>2, <4>2
    <3> QED BY <2>2, <3>1, <3>4
  <2>3. CASE k = 2
    <3>1. m_nLastSDA = 1 /\ m_nLastSCL = 1 /\ slave.out = 1
      BY <1>1, <2>3 DEF Wires
    <3>2. slave' = Framed(slave, 0) /\ UNCHANGED <<sensor, nacks>>
      BY <1>3, <2>3, <3>1, ReactHigh DEF Wire
    <3> QED BY <2>3, <3>2 DEF Framed, Bare
  <2> QED BY <1>2, <2>1, <2>2, <2>3
<1>5. Still
  BY <1>2, <1>4 DEF Still
<1>7. Prepared' /\ Common(Readers, 8)' /\ Aimed' /\ bytes' = << >>
  BY <1>2, <1>5, StillKeeps DEF Again
<1> QED BY <1>2, <1>3, <1>4, <1>7 DEF Again, Wires, f

\* A setting of one of the bytes that are written.
LEMMA SetBytes ==
  ASSUME Typed, NEW k \in 0 .. 25, Byte1(k) \/ Byte2(k) \/ Byte3(k) \/ Byte4(k), i2c_master_setDC
  PROVE  k < 25 /\ (Byte1(k + 1)' \/ Byte2(k + 1)' \/ Byte3(k + 1)' \/ Byte4(k + 1)')
<1>1. CASE Byte1(k)
  <2>0. 114 \in Octets /\ 0 \in {0, 1} /\ "addr" \in Receiving /\ "data" \in Receiving /\ 114 \in {114, 115}
    BY OctetIs DEF Receiving
  <2>1. todo = Rest(WriteFrom(0, 114), k)
    BY <1>1 DEF Byte1
  <2>2. CASE Writing("addr", 114, k)
    <3>1. k < 25 /\ todo' = Rest(WriteFrom(0, 114), k + 1) /\ Writing("addr", 114, k + 1)' /\ Still
      BY <2>0, <2>1, <2>2, WritingStep
    <3>2. Common(Steps, 2)' /\ Prepared' /\ bytes' = << >>
      BY <1>1, <3>1, StillKeeps DEF Byte1, Still
    <3> QED BY <3>1, <3>2 DEF Byte1
  <2>3. CASE step = "id" /\ k = 0 /\ Wires(0, 1) /\ Stuck /\ Dirty(0)
    <3> DEFINE f == WriteFrom(0, 114)
    <3>0. f \in Seq(Moves) /\ Len(f) = 25 /\ f[1] = Set(0, 0)
      BY <2>0, WriteIs
    <3> HIDE DEF f
    <3>1. /\ todo' = Rest(f, 0 + 1)
          /\ m_nLastSDA' = f[0 + 1].sda /\ m_nLastSCL' = f[0 + 1].scl
          /\ React(f[0 + 1].sda, f[0 + 1].scl)
          /\ UNCHANGED <<step, script, bytes, failed, data0, data1, part, lux, restarts>>
          /\ misses' = IF nacks' = nacks THEN misses ELSE 0
      <4>1. todo = Rest(f, 0) /\ 0 \in 0 .. Len(f)
        BY <2>1, <2>3, <3>0 DEF f
      <4> QED BY <3>0, <4>1, SetStep, Zenon
    <3>2. m_nLastSDA' = 0 /\ m_nLastSCL' = 0 /\ React(0, 0)
      BY <3>0, <3>1 DEF Set
    <3>3. Falls
      BY <2>3, <3>2, ReactFall DEF Wires
    <3>4. Taken /\ UNCHANGED nacks
      BY <2>3, <3>3 DEF Falls, Stuck, Receiving
    <3>5. /\ slave' = Bare("data")
          /\ sensor' = [sensor EXCEPT !.control = IF sensor.reg = REG_CONTROL THEN slave.byte % 4 ELSE sensor.control,
                                      !.timing = IF sensor.reg = REG_TIMING THEN slave.byte % 32 ELSE sensor.timing,
                                      !.reg = (sensor.reg + 1) % 16]
      BY <2>3, <3>4 DEF Taken, Stuck, Listen, Bare
    <3>6. sensor'.reg = (sensor.reg + 1) % 16 /\ sensor.reg \in 0 .. 15
      BY <3>5 DEF Typed
    <3>7. (sensor'.reg + 16 - 1) % 16 = (sensor.reg + 16 - 0) % 16
      BY <3>6
    <3>8. Dirty(1)'
      BY <2>3, <3>1, <3>4, <3>7 DEF Dirty
    <3>9. Writing("data", 114, 1)'
      BY <3>2, <3>5, OctetIs, BitIs, 0 \in 0 .. 7, 114 \in Octets DEF Writing, Bare
    <3>10. Common(Steps, 2)' /\ Prepared' /\ bytes' = << >>
      BY <1>1, <2>3, <3>1 DEF Byte1, Common, Prepared
    <3> QED BY <2>3, <3>1, <3>8, <3>9, <3>10 DEF Byte1, f
  <2>4. CASE step = "id" /\ k > 0 /\ Writing("data", 114, k) /\ Dirty(1)
    <3>1. k < 25 /\ todo' = Rest(WriteFrom(0, 114), k + 1) /\ Writing("data", 114, k + 1)' /\ Still
      BY <2>0, <2>1, <2>4, WritingStep
    <3>2. Common(Steps, 2)' /\ Prepared' /\ Dirty(1)' /\ bytes' = << >> /\ step' = step
      BY <1>1, <2>4, <3>1, StillKeeps DEF Byte1, Still
    <3> QED BY <2>4, <3>1, <3>2 DEF Byte1
  <2> QED BY <1>1, <2>2, <2>3, <2>4 DEF Byte1
<1>2. CASE Byte2(k)
  <2> DEFINE b == 128 + Reg(step)
  <2>0. step \in Steps /\ b \in Octets /\ 1 \in {0, 1} /\ "cmd" \in Receiving /\ "data" \in Receiving
    BY <1>2, StepIs DEF Byte2, Common, Receiving
  <2>1. todo = Rest(WriteFrom(1, b), k)
    BY <1>2 DEF Byte2
  <2>2. ASSUME NEW st \in {"cmd", "data"}, Writing(st, b, k)
        PROVE  /\ k < 25 /\ todo' = Rest(WriteFrom(1, b), k + 1) /\ Writing(st, b, k + 1)' /\ Still
               /\ Common(Steps, 5)' /\ Prepared' /\ bytes' = << >> /\ step' = step
    <3> PICK b0 \in Octets : b0 = b
      BY <2>0
    <3>0. st \in Receiving /\ (st = "addr" => b0 \in {114, 115})
      BY DEF Receiving
    <3>1. k < 25 /\ todo' = Rest(WriteFrom(1, b0), k + 1) /\ Writing(st, b0, k + 1)' /\ Still
      BY <2>0, <2>1, <2>2, <3>0, WritingStep
    <3>2. b0' = b0 /\ b' = b0
      BY <3>1 DEF Still
    <3> QED BY <1>2, <3>1, <3>2, StillKeeps DEF Byte2, Still
  <2>3. CASE Writing("cmd", b, k)
    BY <2>2, <2>3 DEF Byte2
  <2>4. CASE step = "id" /\ Writing("data", b, k) /\ Dirty(2)
    <3>1. Still
      BY <2>2, <2>4
    <3>2. Dirty(2)'
      BY <2>4, <3>1, StillKeeps
    <3> QED BY <2>2, <2>4, <3>2 DEF Byte2
  <2> QED BY <1>2, <2>3, <2>4 DEF Byte2
<1>3. CASE Byte3(k)
  <2>0. step \in Steps /\ Val(step) \in Octets /\ 1 \in {0, 1} /\ "data" \in Receiving
    BY <1>3, StepIs DEF Byte3, Common, Receiving, Steps
  <2> PICK b \in Octets : b = Val(step)
    BY <2>0
  <2>1. todo = Rest(WriteFrom(1, b), k) /\ Writing("data", b, k)
    BY <1>3 DEF Byte3
  <2>2. k < 25 /\ todo' = Rest(WriteFrom(1, b), k + 1) /\ Writing("data", b, k + 1)' /\ Still
    BY <2>0, <2>1, WritingStep
  <2>3. Val(step)' = b
    BY <2>2 DEF Still
  <2>4. Common(Writers, 8)' /\ Prepared' /\ Aimed'
    BY <1>3, <2>2, StillKeeps DEF Byte3
  <2> QED BY <2>2, <2>3, <2>4 DEF Byte3
<1>4. CASE Byte4(k)
  <2>0. 115 \in Octets /\ 0 \in {0, 1} /\ "addr" \in Receiving /\ 115 \in {114, 115}
    BY OctetIs DEF Receiving
  <2>1. todo = Rest(WriteFrom(0, 115), k) /\ Writing("addr", 115, k)
    BY <1>4 DEF Byte4
  <2>2. k < 25 /\ todo' = Rest(WriteFrom(0, 115), k + 1) /\ Writing("addr", 115, k + 1)' /\ Still
    BY <2>0, <2>1, WritingStep
  <2>3. Common(Readers, 9)' /\ Prepared' /\ Aimed' /\ bytes' = << >>
    BY <1>4, <2>2, StillKeeps DEF Byte4, Still
  <2> QED BY <2>2, <2>3 DEF Byte4
<1> QED BY <1>1, <1>2, <1>3, <1>4

\* The sensor sends the byte that it was asked for.
LEMMA FirstByte ==
  ASSUME Typed, step \in Readers, Aimed, Prepared, SendNext, UNCHANGED <<step, restarts, misses>>
  PROVE  Prepared' /\ Behind' /\ \E v \in Octets : Sending(v, 0, Bit(v, 7))' /\ Fits(1, v)'
<1> DEFINE r == sensor.reg
<1>0. r \in 0 .. 15 /\ step \in Steps /\ sensor.control \in 0 .. 3
  BY SensorTyped DEF Steps
<1>1. /\ slave' = [st |-> "send", n |-> 0, byte |-> Contents(r), out |-> Bit(Contents(r), 7)]
      /\ sensor' = [sensor EXCEPT !.reg = (r + 1) % 16] /\ Contents(r) \in Octets
  BY SendNextIs
<1>2. /\ sensor'.reg = (r + 1) % 16 /\ sensor'.control = sensor.control /\ sensor'.timing = sensor.timing
      /\ sensor'.id = sensor.id /\ sensor'.light = sensor.light
  BY <1>1 DEF Typed
<1> PICK v \in Octets : v = Contents(r)
  BY <1>1
<1>3. Prepared'
  BY <1>2 DEF Prepared
<1>4. Behind'
  <2>1. CASE step = "id"
    BY <2>1 DEF Behind
  <2>2. CASE step # "id"
    <3>1. r = Reg(step) /\ Reg(step) \in {12, 14}
      BY <2>2, StepIs, <1>0 DEF Aimed, Readers
    <3>2. sensor'.reg = Reg(step) + 1
      BY <1>2, <3>1
    <3>3. Reg(step)' = Reg(step)
      BY DEF Reg
    <3> QED BY <3>2, <3>3 DEF Behind
  <2> QED BY <2>1, <2>2
<1>5. Sending(v, 0, Bit(v, 7))'
  BY <1>1 DEF Sending
<1>6. Fits(1, v)'
  <2>1. CASE step = "id" /\ r = Reg(step)
    <3>1. v = sensor.id
      BY <1>0, <2>1, StepIs, ContentsIs
    <3> QED BY <1>2, <2>1, <3>1 DEF Fits
  <2>2. CASE step = "id" /\ Dirty(3)
    <3>1. MaxRestarts <= 1 => v < 16
      <4>1. SUFFICES ASSUME MaxRestarts <= 1 PROVE v < 16
        OBVIOUS
      <4>2. (r + 16 - 3) % 16 \in {1, 3, 4, 13, 15}
        BY <2>2, <4>1 DEF Dirty
      <4>3. r \in {4, 6, 7, 0, 2}
        BY <1>0, <4>2
      <4>4. v = 0 \/ v = sensor.control
        BY <1>0, <4>3, ContentsIs
      <4> QED BY <1>0, <4>4
    <3> QED BY <1>2, <2>2, <3>1 DEF Fits, Dirty
  <2>3. CASE step = "data0"
    <3>1. r = 12 /\ sensor.control = 3 /\ sensor.timing = 18
      BY <1>0, <2>3, StepIs DEF Aimed, Prepared
    <3>2. v = sensor.light[1] % 256
      BY <1>0, <3>1, ContentsIs
    <3> QED BY <1>2, <2>3, <3>2 DEF Fits
  <2>4. CASE step = "data1"
    <3>1. r = 14 /\ sensor.control = 3 /\ sensor.timing = 18
      BY <1>0, <2>4, StepIs DEF Aimed, Prepared
    <3>2. v = sensor.light[2] % 256
      BY <1>0, <3>1, ContentsIs
    <3> QED BY <1>2, <2>4, <3>2 DEF Fits
  <2> QED BY <2>1, <2>2, <2>3, <2>4 DEF Aimed, Readers
<1> QED BY <1>3, <1>4, <1>5, <1>6

\* The last setting of i2c_master_getAck(): the sensor takes the byte.
LEMMA SetChecks ==
  ASSUME Typed, NEW k \in 0 .. 4, Check1(k) \/ Check2(k) \/ Check3(k) \/ Check4(k), i2c_master_setDC
  PROVE  k < 4 /\ (Check1(k + 1)' \/ Check2(k + 1)' \/ Check3(k + 1)' \/ Check4(k + 1)')
<1>0. PICK a \in {0, 1} : todo = Rest(CheckFrom(a), k)
  BY DEF Check1, Check2, Check3, Check4
<1>1. k < 4
  <2> DEFINE f == CheckFrom(a)
  <2>1. f \in Seq(Moves) /\ Len(f) = 4
    BY CheckIs
  <2> HIDE DEF f
  <2>2. todo = Rest(f, k) /\ k \in 0 .. Len(f)
    BY <1>0, <2>1 DEF f
  <2>3. k < Len(f)
    BY <2>1, <2>2, SetStep, Zenon
  <2> QED BY <2>1, <2>3
<1>2. "addr" \in Receiving /\ "cmd" \in Receiving /\ "data" \in Receiving /\ k \in 0 .. 3
  BY <1>1 DEF Receiving
<1>3. ASSUME NEW st \in Receiving, NEW b, Checking(st, b, k)
      PROVE  /\ todo' = Rest(CheckFrom(a), k + 1)
             /\ k < 3 => Checking(st, b, k + 1)' /\ Still
             /\ k = 3 => /\ Wires(1, 0)' /\ UNCHANGED <<step, script, bytes, failed, data0, data1, part, lux, restarts, misses>>
                         /\ \/ got' = 1 /\ Lost' /\ UNCHANGED sensor
                            \/ got' = 0 /\ slave = [st |-> st, n |-> 9, byte |-> b, out |-> 0] /\ Taken
  BY <1>0, <1>2, <1>3, CheckingStep
<1>4. ASSUME NEW d \in {1, 2}, Dirty(d), slave.st = "data", Taken, UNCHANGED <<restarts, misses>>
      PROVE  slave' = Bare("data") /\ Dirty(d + 1)'
  <2>1. /\ slave' = Bare("data")
        /\ sensor' = [sensor EXCEPT !.control = IF sensor.reg = REG_CONTROL THEN slave.byte % 4 ELSE sensor.control,
                                    !.timing = IF sensor.reg = REG_TIMING THEN slave.byte % 32 ELSE sensor.timing,
                                    !.reg = (sensor.reg + 1) % 16]
    BY <1>4 DEF Taken, Listen, Bare
  <2>2. sensor'.reg = (sensor.reg + 1) % 16 /\ sensor.reg \in 0 .. 15
    BY <2>1 DEF Typed
  <2>3. (sensor'.reg + 16 - (d + 1)) % 16 = (sensor.reg + 16 - d) % 16
    BY <2>2
  <2> QED BY <1>4, <2>1, <2>3 DEF Dirty
<1>5. CASE Check1(k)
  <2>1. CASE Checking("addr", 114, k)
    <3>1. CASE k < 3
      <4>1. todo' = Rest(CheckFrom(a), k + 1) /\ Checking("addr", 114, k + 1)' /\ Still
        BY <1>2, <1>3, <2>1, <3>1
      <4> QED BY <1>5, <3>1, <4>1, StillKeeps DEF Check1, Still
    <3>2. CASE k = 3
      <4>1. /\ todo' = Rest(CheckFrom(a), 4) /\ Wires(1, 0)'
            /\ UNCHANGED <<step, script, bytes, failed, data0, data1, part, lux, restarts, misses>>
            /\ \/ got' = 1 /\ Lost' /\ UNCHANGED sensor
               \/ got' = 0 /\ slave = [st |-> "addr", n |-> 9, byte |-> 114, out |-> 0] /\ Taken
        BY <1>2, <1>3, <2>1, <3>2
      <4>2. (got' = 1 /\ Lost') \/ (got' = 0 /\ slave' = Bare("cmd"))
        BY <4>1 DEF Taken, Listen, Bare
      <4>3. UNCHANGED sensor
        BY <4>1 DEF Taken
      <4>4. Common(Steps, 3)' /\ bytes' = << >> /\ Prepared'
        BY <1>5, <4>1, <4>3 DEF Check1, Common, Prepared
      <4> QED BY <3>2, <4>1, <4>2, <4>4 DEF Check1
    <3> QED BY <1>1, <3>1, <3>2
  <2>2. CASE step = "id" /\ Checking("data", 114, k) /\ Dirty(1)
    <3>1. CASE k < 3
      <4>1. todo' = Rest(CheckFrom(a), k + 1) /\ Checking("data", 114, k + 1)' /\ Still
        BY <1>2, <1>3, <2>2, <3>1
      <4>2. Dirty(1)' /\ Common(Steps, 3)' /\ bytes' = << >> /\ Prepared' /\ step' = "id"
        BY <1>5, <2>2, <4>1, StillKeeps DEF Check1, Still
      <4> QED BY <3>1, <4>1, <4>2 DEF Check1
    <3>2. CASE k = 3
      <4>1. /\ todo' = Rest(CheckFrom(a), 4) /\ Wires(1, 0)'
            /\ UNCHANGED <<step, script, bytes, failed, data0, data1, part, lux, restarts, misses>>
            /\ \/ got' = 1 /\ Lost' /\ UNCHANGED sensor
               \/ got' = 0 /\ slave = [st |-> "data", n |-> 9, byte |-> 114, out |-> 0] /\ Taken
        BY <1>2, <1>3, <2>2, <3>2
      <4>2. (got' = 1 /\ Lost') \/ (got' = 0 /\ slave' = Bare("data") /\ Dirty(1 + 1)')
        BY <1>4, <2>2, <4>1
      <4>4. Common(Steps, 3)' /\ bytes' = << >> /\ Prepared'
        BY <1>5, <2>2, <4>1 DEF Check1, Common, Prepared
      <4> QED BY <2>2, <3>2, <4>1, <4>2, <4>4 DEF Check1
    <3> QED BY <1>1, <3>1, <3>2
  <2> QED BY <1>1, <1>5, <2>1, <2>2 DEF Check1
<1>6. CASE Check2(k)
  <2>0. step \in Steps
    BY <1>6 DEF Check2, Common
  <2>a. Reg(step) \in {0, 1, 10, 12, 14} /\ 128 + Reg(step) \in Octets /\ (128 + Reg(step)) % 16 = Reg(step)
    BY <2>0, StepIs
  <2> PICK b \in Octets : b = 128 + Reg(step)
    BY <2>a
  <2>1. CASE Checking("cmd", b, k)
    <3>1. CASE k < 3
      <4>1. todo' = Rest(CheckFrom(a), k + 1) /\ Checking("cmd", b, k + 1)' /\ Still
        BY <1>2, <1>3, <2>1, <3>1
      <4>2. Common(Steps, 6)' /\ bytes' = << >> /\ Prepared' /\ 128 + Reg(step)' = b
        BY <1>6, <4>1, StillKeeps DEF Check2, Still
      <4> QED BY <3>1, <4>1, <4>2 DEF Check2
    <3>2. CASE k = 3
      <4>1. /\ todo' = Rest(CheckFrom(a), 4) /\ Wires(1, 0)'
            /\ UNCHANGED <<step, script, bytes, failed, data0, data1, part, lux, restarts, misses>>
            /\ \/ got' = 1 /\ Lost' /\ UNCHANGED sensor
               \/ got' = 0 /\ slave = [st |-> "cmd", n |-> 9, byte |-> b, out |-> 0] /\ Taken
        BY <1>2, <1>3, <2>1, <3>2
      <4>2. CASE got' = 1 /\ Lost' /\ UNCHANGED sensor
        <5>1. Common(Steps, 6)' /\ bytes' = << >> /\ Prepared'
          BY <1>6, <4>1, <4>2 DEF Check2, Common, Prepared
        <5> QED BY <3>2, <4>1, <4>2, <5>1 DEF Check2
      <4>3. CASE got' = 0 /\ slave = [st |-> "cmd", n |-> 9, byte |-> b, out |-> 0] /\ Taken
        <5>1. slave' = Bare("data") /\ sensor' = [sensor EXCEPT !.reg = b % 16]
          BY <4>3 DEF Taken, Listen, Bare
        <5>2. sensor'.reg = Reg(step) /\ sensor'.control = sensor.control /\ sensor'.timing = sensor.timing
          BY <5>1, <2>a DEF Typed
        <5>3. Aimed' /\ Common(Steps, 6)' /\ bytes' = << >> /\ Prepared'
          BY <1>6, <4>1, <5>2 DEF Check2, Common, Prepared, Aimed, Reg
        <5> QED BY <3>2, <4>1, <4>3, <5>1, <5>3 DEF Check2
      <4> QED BY <4>1, <4>2, <4>3
    <3> QED BY <1>1, <3>1, <3>2
  <2>2. CASE step = "id" /\ Checking("data", b, k) /\ Dirty(2)
    <3>1. CASE k < 3
      <4>1. todo' = Rest(CheckFrom(a), k + 1) /\ Checking("data", b, k + 1)' /\ Still
        BY <1>2, <1>3, <2>2, <3>1
      <4>2. Dirty(2)' /\ Common(Steps, 6)' /\ bytes' = << >> /\ Prepared' /\ step' = "id" /\ 128 + Reg(step)' = b
        BY <1>6, <2>2, <4>1, StillKeeps DEF Check2, Still
      <4> QED BY <3>1, <4>1, <4>2 DEF Check2
    <3>2. CASE k = 3
      <4>1. /\ todo' = Rest(CheckFrom(a), 4) /\ Wires(1, 0)'
            /\ UNCHANGED <<step, script, bytes, failed, data0, data1, part, lux, restarts, misses>>
            /\ \/ got' = 1 /\ Lost' /\ UNCHANGED sensor
               \/ got' = 0 /\ slave = [st |-> "data", n |-> 9, byte |-> b, out |-> 0] /\ Taken
        BY <1>2, <1>3, <2>2, <3>2
      <4>2. (got' = 1 /\ Lost') \/ (got' = 0 /\ slave' = Bare("data") /\ Dirty(2 + 1)')
        BY <1>4, <2>2, <4>1
      <4>3. Dirty(2 + 1)' => Aimed'
        BY <2>2, <4>1 DEF Aimed
      <4>4. Common(Steps, 6)' /\ bytes' = << >> /\ Prepared'
        BY <1>6, <2>2, <4>1 DEF Check2, Common, Prepared
      <4> QED BY <3>2, <4>1, <4>2, <4>3, <4>4 DEF Check2
    <3> QED BY <1>1, <3>1, <3>2
  <2> QED BY <1>1, <1>6, <2>1, <2>2 DEF Check2
<1>7. CASE Check3(k)
  <2>0. step \in Writers /\ step \in Steps /\ Aimed /\ Prepared /\ Checking("data", Val(step), k)
    BY <1>1, <1>7 DEF Check3, Common, Steps
  <2> PICK b : b = Val(step)
    OBVIOUS
  <2>1. CASE k < 3
    <3>1. todo' = Rest(CheckFrom(a), k + 1) /\ Checking("data", b, k + 1)' /\ Still
      BY <1>2, <1>3, <2>0, <2>1
    <3>2. Common(Writers, 9)' /\ Prepared' /\ Aimed' /\ Val(step)' = b
      BY <1>7, <2>0, <3>1, StillKeeps DEF Check3, Still
    <3> QED BY <2>1, <3>1, <3>2 DEF Check3
  <2>2. CASE k = 3
    <3>1. /\ todo' = Rest(CheckFrom(a), 4) /\ Wires(1, 0)'
          /\ UNCHANGED <<step, script, bytes, failed, data0, data1, part, lux, restarts, misses>>
          /\ \/ got' = 1 /\ Lost' /\ UNCHANGED sensor
             \/ got' = 0 /\ slave = [st |-> "data", n |-> 9, byte |-> b, out |-> 0] /\ Taken
      BY <1>2, <1>3, <2>0, <2>2
    <3>2. Common(Writers, 9)'
      BY <1>7, <3>1 DEF Check3, Common
    <3>3. CASE got' = 1 /\ Lost' /\ UNCHANGED sensor
      BY <2>2, <3>1, <3>2, <3>3 DEF Check3
    <3>4. CASE got' = 0 /\ slave = [st |-> "data", n |-> 9, byte |-> b, out |-> 0] /\ Taken
      <4>1. /\ slave' = Bare("data")
            /\ sensor' = [sensor EXCEPT !.control = IF sensor.reg = REG_CONTROL THEN b % 4 ELSE sensor.control,
                                        !.timing = IF sensor.reg = REG_TIMING THEN b % 32 ELSE sensor.timing,
                                        !.reg = (sensor.reg + 1) % 16]
        BY <3>4 DEF Taken, Listen, Bare
      <4>2. /\ sensor'.control = IF sensor.reg = 0 THEN b % 4 ELSE sensor.control
            /\ sensor'.timing = IF sensor.reg = 1 THEN b % 32 ELSE sensor.timing
        BY <4>1 DEF Typed, REG_CONTROL, REG_TIMING
      <4>3. sensor.reg = Reg(step)
        BY <2>0 DEF Aimed, Writers
      <4>4. Done'
        <5>1. CASE step = "on"
          BY <2>0, <3>1, <4>2, <4>3, <5>1, StepIs DEF Done
        <5>2. CASE step = "timing"
          BY <2>0, <3>1, <4>2, <4>3, <5>2, StepIs DEF Done, Prepared
        <5>3. CASE step = "down"
          BY <2>0, <3>1, <4>2, <4>3, <5>3, StepIs DEF Done
        <5> QED BY <2>0, <5>1, <5>2, <5>3 DEF Writers
      <4> QED BY <2>2, <3>1, <3>2, <3>4, <4>1, <4>4 DEF Check3
    <3> QED BY <3>1, <3>3, <3>4
  <2> QED BY <1>1, <2>1, <2>2
<1>8. CASE Check4(k)
  <2>0. step \in Readers /\ step \in Steps /\ Aimed /\ Prepared /\ Checking("addr", 115, k)
    BY <1>1, <1>8 DEF Check4, Common, Steps
  <2>1. CASE k < 3
    <3>1. todo' = Rest(CheckFrom(a), k + 1) /\ Checking("addr", 115, k + 1)' /\ Still
      BY <1>2, <1>3, <2>0, <2>1
    <3>2. Common(Readers, 10)' /\ Prepared' /\ Aimed' /\ bytes' = << >>
      BY <1>8, <2>0, <3>1, StillKeeps DEF Check4, Still
    <3> QED BY <2>1, <3>1, <3>2 DEF Check4
  <2>2. CASE k = 3
    <3>1. /\ todo' = Rest(CheckFrom(a), 4) /\ Wires(1, 0)'
          /\ UNCHANGED <<step, script, bytes, failed, data0, data1, part, lux, restarts, misses>>
          /\ \/ got' = 1 /\ Lost' /\ UNCHANGED sensor
             \/ got' = 0 /\ slave = [st |-> "addr", n |-> 9, byte |-> 115, out |-> 0] /\ Taken
      BY <1>2, <1>3, <2>0, <2>2
    <3>2. Common(Readers, 10)' /\ bytes' = << >>
      BY <1>8, <3>1 DEF Check4, Common
    <3>3. CASE got' = 1 /\ Lost' /\ UNCHANGED sensor
      <4>1. Prepared'
        BY <2>0, <3>1, <3>3 DEF Prepared
      <4> QED BY <2>2, <3>1, <3>2, <3>3, <4>1 DEF Check4
    <3>4. CASE got' = 0 /\ slave = [st |-> "addr", n |-> 9, byte |-> 115, out |-> 0] /\ Taken
      <4>1. SendNext
        BY <3>4 DEF Taken
      <4>2. Prepared' /\ Behind' /\ \E v \in Octets : Sending(v, 0, Bit(v, 7))' /\ Fits(1, v)'
        BY <2>0, <3>1, <4>1, FirstByte
      <4> QED BY <2>2, <3>1, <3>2, <3>4, <4>2 DEF Check4
    <3> QED BY <3>1, <3>3, <3>4
  <2> QED BY <1>1, <2>1, <2>2
<1> QED BY <1>1, <1>5, <1>6, <1>7, <1>8

\* A setting of one of the bytes that are read.
LEMMA SetReads ==
  ASSUME Typed, NEW k \in 0 .. 18, Read1(k) \/ Read2(k), i2c_master_setDC
  PROVE  k < 18 /\ (Read1(k + 1)' \/ Read2(k + 1)')
<1>1. CASE Read1(k)
  <2>1. PICK v \in Octets : Reading(v, k) /\ Fits(1, v)
    BY <1>1 DEF Read1
  <2>2. k < 18 /\ todo' = Rest(ReadFrom(1), k + 1) /\ Reading(v, k + 1)' /\ Still
    BY <1>1, <2>1, ReadingStep DEF Read1
  <2>3. Common(Readers, 12)' /\ Prepared' /\ Behind' /\ Fits(1, v)' /\ bytes' = << >>
    BY <1>1, <2>1, <2>2, StillKeeps DEF Read1, Still
  <2> QED BY <2>2, <2>3 DEF Read1
<1>2. CASE Read2(k)
  <2>1. PICK w \in Octets : Reading(w, k) /\ Fits(2, w)
    BY <1>2 DEF Read2
  <2>a. PICK v \in Octets : Fits(1, v) /\ bytes = <<v>>
    BY <1>2 DEF Read2
  <2>2. k < 18 /\ todo' = Rest(ReadFrom(1), k + 1) /\ Reading(w, k + 1)' /\ Still
    BY <1>2, <2>1, ReadingStep DEF Read2
  <2>3. Common({"data0", "data1"}, 15)' /\ Prepared' /\ Fits(1, v)' /\ Fits(2, w)' /\ bytes' = <<v>>
    BY <1>2, <2>1, <2>a, <2>2, StillKeeps DEF Read2, Still
  <2> QED BY <2>2, <2>3 DEF Read2
<1> QED BY <1>1, <1>2

\* The sensor sends the second byte of a word.
LEMMA SecondByte ==
  ASSUME Typed, step \in {"data0", "data1"}, Behind, Prepared, SendNext, UNCHANGED step
  PROVE  /\ Prepared' /\ \E w \in Octets : Sending(w, 0, Bit(w, 7))' /\ Fits(2, w)'
         /\ sensor'.id = sensor.id /\ sensor'.light = sensor.light
<1> DEFINE r == sensor.reg
<1>0. r \in 0 .. 15 /\ step \in Steps
  BY SensorTyped DEF Steps, Readers
<1>1. /\ slave' = [st |-> "send", n |-> 0, byte |-> Contents(r), out |-> Bit(Contents(r), 7)]
      /\ sensor' = [sensor EXCEPT !.reg = (r + 1) % 16] /\ Contents(r) \in Octets
  BY SendNextIs
<1>2. /\ sensor'.control = sensor.control /\ sensor'.timing = sensor.timing
      /\ sensor'.id = sensor.id /\ sensor'.light = sensor.light
  BY <1>1 DEF Typed
<1> PICK v \in Octets : v = Contents(r)
  BY <1>1
<1>3. Prepared'
  BY <1>2 DEF Prepared
<1>5. Sending(v, 0, Bit(v, 7))'
  BY <1>1 DEF Sending
<1>6. Fits(2, v)'
  <2>3. CASE step = "data0"
    <3>1. r = 13 /\ sensor.control = 3 /\ sensor.timing = 18
      BY <1>0, <2>3, StepIs DEF Behind, Prepared
    <3>2. v = sensor.light[1] \div 256
      BY <1>0, <3>1, ContentsIs
    <3> QED BY <1>2, <2>3, <3>2 DEF Fits
  <2>4. CASE step = "data1"
    <3>1. r = 15 /\ sensor.control = 3 /\ sensor.timing = 18
      BY <1>0, <2>4, StepIs DEF Behind, Prepared
    <3>2. v = sensor.light[2] \div 256
      BY <1>0, <3>1, ContentsIs
    <3> QED BY <1>2, <2>4, <3>2 DEF Fits
  <2> QED BY <2>3, <2>4
<1> QED BY <1>2, <1>3, <1>5, <1>6

\* The last setting of i2c_master_setAck().
LEMMA AckEnd ==
  ASSUME NEW l \in {0, 1}, todo = Rest(AckFrom(1, l), 4), m_nLastSCL = 0, i2c_master_setDC
  PROVE  todo' = Rest(AckFrom(1, l), 5) /\ Wires(1, 0)' /\ UNCHANGED slave /\ Still
<1> DEFINE f == AckFrom(1, l)
<1>0. f \in Seq(Moves) /\ Len(f) = 5 /\ f[5] = Set(1, 0)
  BY AckIs
<1> HIDE DEF f
<1>2. /\ todo' = Rest(f, 4 + 1)
      /\ m_nLastSDA' = f[4 + 1].sda /\ m_nLastSCL' = f[4 + 1].scl
      /\ React(f[4 + 1].sda, f[4 + 1].scl)
      /\ UNCHANGED <<step, script, bytes, failed, data0, data1, part, lux, restarts>>
      /\ misses' = IF nacks' = nacks THEN misses ELSE 0
  <2>1. todo = Rest(f, 4) /\ 4 \in 0 .. Len(f)
    BY <1>0 DEF f
  <2> QED BY <1>0, <2>1, SetStep, Zenon
<1>3. m_nLastSDA' = 1 /\ m_nLastSCL' = 0 /\ React(1, 0)
  BY <1>0, <1>2 DEF Set
<1>4. UNCHANGED <<slave, sensor, nacks>>
  BY <1>3, ReactLow
<1> QED BY <1>2, <1>3, <1>4 DEF Wires, Still, f

\* An acknowledgement has five settings.
LEMMA AckMore ==
  ASSUME NEW k \in 0 .. 5, NEW l \in {0, 1}, todo = Rest(AckFrom(1, l), k), i2c_master_setDC
  PROVE  k < 5
<1> DEFINE f == AckFrom(1, l)
<1>0. f \in Seq(Moves) /\ Len(f) = 5
  BY AckIs
<1> HIDE DEF f
<1>1. todo = Rest(f, k) /\ k \in 0 .. Len(f)
  BY <1>0 DEF f
<1>2. k < Len(f)
  BY <1>0, <1>1, SetStep, Zenon
<1> QED BY <1>0, <1>2

\* A setting of the first acknowledgement of the driver.
LEMMA SetAck1 ==
  ASSUME Typed, NEW k \in 0 .. 5, Ack1(k), i2c_master_setDC
  PROVE  k < 5 /\ Ack1(k + 1)'
<1> PICK l \in {0, 1} : l = IF step = "id" THEN 1 ELSE 0
  OBVIOUS
<1>1. /\ step \in Readers /\ Common(Readers, 14) /\ todo = Rest(AckFrom(1, l), k) /\ Prepared
      /\ k >= 4 => /\ Wires(IF k = 4 THEN l ELSE 1, 0)
                   /\ step = "id" => Mute
                   /\ step # "id" => \E w \in Octets : Sending(w, 0, Bit(w, 7)) /\ Fits(2, w)
  BY DEF Ack1, Common
<1>2. PICK v \in Octets : Fits(1, v) /\ bytes = <<v>> /\ (k < 4 => Acking(l, v, k) /\ Behind)
  BY DEF Ack1
<1>3. k < 5
  BY <1>1, AckMore
<1>4. CASE k < 3
  <2>1. todo' = Rest(AckFrom(1, l), k + 1) /\ Acking(l, v, k + 1)' /\ Still
    BY <1>1, <1>2, <1>4, AckingStep
  <2>2. Common(Readers, 14)' /\ Prepared' /\ Behind' /\ Fits(1, v)' /\ bytes' = <<v>> /\ step' = step
    BY <1>1, <1>2, <1>4, <2>1, StillKeeps DEF Still
  <2> QED BY <1>4, <2>1, <2>2 DEF Ack1
<1>5. CASE k = 3
  <2>1. /\ todo' = Rest(AckFrom(1, l), 4)
        /\ Wires(l, 0)' /\ UNCHANGED <<step, script, bytes, failed, data0, data1, part, lux, restarts, misses>>
        /\ l = 0 => SendNext
        /\ l = 1 => Mute' /\ UNCHANGED sensor
    BY <1>1, <1>2, <1>5, AckingStep
  <2>2. Common(Readers, 14)' /\ bytes' = <<v>>
    BY <1>1, <1>2, <2>1 DEF Common
  <2>3. CASE step = "id"
    <3>1. Mute' /\ UNCHANGED sensor
      BY <2>1, <2>3
    <3>2. Prepared' /\ Fits(1, v)'
      BY <1>1, <1>2, <2>1, <2>3, <3>1 DEF Prepared, Fits
    <3> QED BY <1>5, <2>1, <2>2, <2>3, <3>1, <3>2 DEF Ack1
  <2>4. CASE step # "id"
    <3>1. SendNext /\ step \in {"data0", "data1"} /\ Behind
      BY <1>1, <1>2, <1>5, <2>1, <2>4 DEF Readers
    <3>2. /\ Prepared' /\ \E w \in Octets : Sending(w, 0, Bit(w, 7))' /\ Fits(2, w)'
          /\ sensor'.id = sensor.id /\ sensor'.light = sensor.light
      BY <1>1, <2>1, <3>1, SecondByte
    <3>3. Fits(1, v)'
      BY <1>2, <2>1, <3>2 DEF Fits
    <3> QED BY <1>5, <2>1, <2>2, <2>4, <3>2, <3>3 DEF Ack1
  <2> QED BY <2>3, <2>4
<1>6. CASE k = 4
  <2>1. todo' = Rest(AckFrom(1, l), 5) /\ Wires(1, 0)' /\ UNCHANGED slave /\ Still
    BY <1>1, <1>6, AckEnd DEF Wires
  <2>2. Common(Readers, 14)' /\ Prepared' /\ Fits(1, v)' /\ bytes' = <<v>> /\ step' = step
    BY <1>1, <1>2, <2>1, StillKeeps DEF Still
  <2>3. (step = "id" => Mute') /\ (step # "id" => \E w \in Octets : Sending(w, 0, Bit(w, 7))' /\ Fits(2, w)')
    <3>1. CASE step = "id"
      BY <1>1, <1>6, <2>1, <3>1 DEF Mute
    <3>2. CASE step # "id"
      <4>1. PICK w \in Octets : Sending(w, 0, Bit(w, 7)) /\ Fits(2, w)
        BY <1>1, <1>6, <3>2
      <4>2. Sending(w, 0, Bit(w, 7))' /\ Fits(2, w)'
        BY <2>1, <4>1, StillKeeps DEF Sending
      <4> QED BY <3>2, <4>2
    <3> QED BY <3>1, <3>2
  <2> QED BY <1>6, <2>1, <2>2, <2>3 DEF Ack1
<1> QED BY <1>3, <1>4, <1>5, <1>6

\* A setting of the second one.
LEMMA SetAck2 ==
  ASSUME Typed, NEW k \in 0 .. 5, Ack2(k), i2c_master_setDC
  PROVE  k < 5 /\ Ack2(k + 1)'
<1>1. /\ step \in {"data0", "data1"} /\ Common({"data0", "data1"}, 17) /\ todo = Rest(AckFrom(1, 1), k) /\ Prepared
      /\ k >= 4 => Wires(1, 0) /\ Mute
  BY DEF Ack2, Common
<1>2. PICK v \in Octets, w \in Octets : Fits(1, v) /\ Fits(2, w) /\ bytes = <<v, w>> /\ (k < 4 => Acking(1, w, k))
  BY DEF Ack2
<1>3. k < 5
  BY <1>1, AckMore
<1>4. CASE k < 3
  <2>1. todo' = Rest(AckFrom(1, 1), k + 1) /\ Acking(1, w, k + 1)' /\ Still
    BY <1>1, <1>2, <1>4, AckingStep
  <2>2. Common({"data0", "data1"}, 17)' /\ Prepared' /\ Fits(1, v)' /\ Fits(2, w)' /\ bytes' = <<v, w>>
    BY <1>1, <1>2, <1>4, <2>1, StillKeeps DEF Still
  <2> QED BY <1>4, <2>1, <2>2 DEF Ack2
<1>5. CASE k = 3
  <2>1. /\ todo' = Rest(AckFrom(1, 1), 4)
        /\ Wires(1, 0)' /\ UNCHANGED <<step, script, bytes, failed, data0, data1, part, lux, restarts, misses>>
        /\ Mute' /\ UNCHANGED sensor
    BY <1>1, <1>2, <1>5, AckingStep
  <2>2. Still
    BY <2>1 DEF Still
  <2>3. Common({"data0", "data1"}, 17)' /\ Prepared' /\ Fits(1, v)' /\ Fits(2, w)' /\ bytes' = <<v, w>>
    BY <1>1, <1>2, <2>1, <2>2, StillKeeps
  <2> QED BY <1>5, <2>1, <2>3 DEF Ack2
<1>6. CASE k = 4
  <2>1. todo' = Rest(AckFrom(1, 1), 5) /\ Wires(1, 0)' /\ UNCHANGED slave /\ Still
    BY <1>1, <1>6, AckEnd DEF Wires
  <2>2. Common({"data0", "data1"}, 17)' /\ Prepared' /\ Fits(1, v)' /\ Fits(2, w)' /\ bytes' = <<v, w>> /\ Mute'
    BY <1>1, <1>2, <1>6, <2>1, StillKeeps DEF Still, Mute
  <2> QED BY <1>6, <2>1, <2>2 DEF Ack2
<1> QED BY <1>3, <1>4, <1>5, <1>6

\* A setting of one of the stops.
LEMMA SetStops ==
  ASSUME Typed, NEW k \in 0 .. 3, Stop3(k) \/ Stop4(k) \/ StopF(k), i2c_master_setDC
  PROVE  k < 3 /\ (Stop3(k + 1)' \/ Stop4(k + 1)' \/ StopF(k + 1)')
<1>1. k < 3 /\ todo' = Rest(StopAfter(0), k + 1) /\ Stopping(k + 1)' /\ Still
  BY StoppingStep DEF Stop3, Stop4, StopF
<1>2. CASE Stop3(k)
  <2>1. Common(Writers, 11)' /\ Done'
    BY <1>1, <1>2, StillKeeps DEF Stop3
  <2> QED BY <1>1, <2>1 DEF Stop3
<1>3. CASE Stop4(k)
  <2>1. Prepared' /\ step' = step /\ bytes' = bytes
    BY <1>1, <1>3, StillKeeps DEF Stop4, Still
  <2>2. Common(Readers, IF step = "id" THEN 15 ELSE 18)'
    BY <1>1, <1>3 DEF Stop4, Still, Common
  <2>3. CASE step = "id"
    <3>1. PICK v \in Octets : Fits(1, v) /\ bytes = <<v>>
      BY <1>3, <2>3 DEF Stop4
    <3>2. Fits(1, v)'
      BY <1>1, <3>1, StillKeeps
    <3> QED BY <1>1, <2>1, <2>2, <2>3, <3>1, <3>2 DEF Stop4
  <2>4. CASE step # "id"
    <3>1. PICK v \in Octets, w \in Octets : Fits(1, v) /\ Fits(2, w) /\ bytes = <<v, w>>
      BY <1>3, <2>4 DEF Stop4
    <3>2. Fits(1, v)' /\ Fits(2, w)'
      BY <1>1, <3>1, StillKeeps
    <3> QED BY <1>1, <2>1, <2>2, <2>4, <3>1, <3>2 DEF Stop4
  <2> QED BY <2>3, <2>4
<1>4. CASE StopF(k)
  BY <1>1, <1>4 DEF StopF, Still
<1> QED BY <1>1, <1>2, <1>3, <1>4

-----------------------------------------------------------------------------
(* The clocks of i2c_master_init().                                        *)

\* A falling edge of i2c_master_init() brings the sensor no further from the end of its byte.
LEMMA ClockFall ==
  ASSUME Typed, SlaveOK, NEW c \in 0 .. 28, m_nLastSCL = 1, m_nLastSCL' = 0, Falls, Clocked(c), restarts' = restarts
  PROVE  Clocked(c)'
<1>0. /\ slave.st \in States /\ slave.n \in 0 .. 9 /\ slave.byte \in Nat /\ sensor.reg \in 0 .. 15
      /\ slave \in [st : States, n : 0 .. 9, byte : Nat, out : {0, 1}]
  BY SensorTyped DEF SlaveOK
<1>1. CASE slave.st \in {"idle", "wait"} \/ (slave.st \in Receiving /\ slave.n < 8)
  <2>1. UNCHANGED <<slave, sensor, nacks>>
    BY <1>0, <1>1 DEF Falls, Receiving
  <2>2. slave.st \in {"send", "cmd", "addr"} => Patience' = Patience
    BY <1>0, <1>1, <2>1 DEF Patience, Receiving
  <2>3. ASSUME MaxRestarts <= 1, slave.st \in Receiving, InStep(c)'
        PROVE  Fate(c)'
    <3>1. slave.n = (c + 8) % 9 /\ c % 9 # 0 /\ slave.n < 8
      BY <1>0, <1>1, <2>1, <2>3 DEF InStep, Receiving
    <3>2. c % 9 # 1
      BY <1>0, <2>3, <3>1 DEF Clocked
    <3>3. InStep(c)
      BY <3>1, <3>2 DEF InStep
    <3>4. Fate(c)
      BY <2>3, <3>3 DEF Clocked
    <3>5. (c + 8 - 1) \div 9 = (c + 8 - 0) \div 9
      BY <3>1, <3>2
    <3>6. Since(c)' = Since(c)
      BY <3>5 DEF Since
    <3> QED BY <2>1, <3>4, <3>6 DEF Fate
  <2> QED BY <2>1, <2>2, <2>3 DEF Clocked
<1>2. CASE slave.st = "send"
  <2>1. CASE slave.n = 9
    <3>1. SendNext
      BY <1>2, <2>1 DEF Falls, Receiving
    <3>2. slave'.st = "send" /\ slave'.n = 0
      BY <3>1, SendNextIs
    <3>3. Patience = 9 /\ Patience' = 9
      BY <1>2, <2>1, <3>2 DEF Patience
    <3> QED BY <1>2, <3>2, <3>3 DEF Clocked, Receiving, Idle
  <2>2. CASE slave.n < 9
    <3>1. slave' = NextBit(slave)
      BY <1>2, <2>2 DEF Falls, Receiving
    <3>2. slave'.st = "send" /\ slave'.n = slave.n
      BY <1>0, <1>2, <3>1 DEF NextBit
    <3>3. Patience' = Patience
      BY <1>2, <2>2, <3>2 DEF Patience
    <3> QED BY <1>2, <3>2, <3>3 DEF Clocked, Receiving, Idle
  <2> QED BY <1>0, <2>1, <2>2
<1>3. CASE slave.st \in Receiving /\ slave.n = 8
  <2>1. UNCHANGED sensor
    BY <1>3 DEF Falls, Receiving
  <2>2. slave' = [slave EXCEPT !.n = 9, !.out = 0] \/ slave' = [slave EXCEPT !.st = "wait"]
    BY <1>3 DEF Falls, Receiving
  <2>3. slave # Idle
    BY <1>3 DEF Idle
  <2>4. CASE slave' = [slave EXCEPT !.st = "wait"]
    <3>1. slave'.st = "wait"
      BY <1>0, <2>4
    <3> QED BY <2>3, <3>1 DEF Clocked, Receiving
  <2>5. CASE slave' = [slave EXCEPT !.n = 9, !.out = 0]
    <3>1. slave'.st = slave.st /\ slave'.n = 9 /\ slave'.byte = slave.byte
      BY <1>0, <2>5
    <3>2. slave.st \in {"send", "cmd", "addr"} => Patience' = Patience
      BY <1>3, <3>1 DEF Patience, Receiving
    <3>3. ASSUME MaxRestarts <= 1, InStep(c)'
          PROVE  Fate(c)'
      <4>1. c % 9 = 0
        BY <3>1, <3>3 DEF InStep
      <4>2. InStep(c)
        BY <1>3, <4>1 DEF InStep
      <4>3. Fate(c)
        BY <1>3, <3>3, <4>2 DEF Clocked
      <4>4. (c + 8 - 1) \div 9 = (c + 8 - 0) \div 9
        BY <4>1
      <4>5. Since(c)' = Since(c)
        BY <4>4 DEF Since
      <4> QED BY <2>1, <3>1, <4>3, <4>5 DEF Fate
    <3> QED BY <2>3, <3>1, <3>2, <3>3 DEF Clocked
  <2> QED BY <2>2, <2>4, <2>5
<1>4. CASE slave.st \in Receiving /\ slave.n = 9
  <2>1. Taken
    BY <1>4 DEF Falls, Receiving
  <2>2. slave # Idle
    BY <1>4 DEF Idle
  <2>3. CASE slave.st = "addr"
    <3>1. (slave'.st = "send" /\ slave'.n = 0) \/ (slave' = Bare("cmd") /\ slave.byte % 2 = 0)
      BY <2>1, <2>3, SendNextIs DEF Taken, Listen, Bare
    <3>2. Patience = 9
      BY <1>4, <2>3 DEF Patience
    <3>3. CASE slave'.st = "send" /\ slave'.n = 0
      BY <2>2, <2>3, <3>2, <3>3 DEF Clocked, Patience, Receiving
    <3>4. CASE slave' = Bare("cmd") /\ slave.byte % 2 = 0
      <4>1. Patience' = 9
        BY <3>4 DEF Patience, Bare
      <4>2. ASSUME MaxRestarts <= 1, InStep(c)' PROVE FALSE
        <5>1. c % 9 = 1
          BY <3>4, <4>2 DEF InStep, Bare
        <5>2. InStep(c)
          BY <1>4, <5>1 DEF InStep
        <5>3. Fate(c)
          BY <1>4, <4>2, <5>2 DEF Clocked
        <5> QED BY <2>3, <3>4, <5>3 DEF Fate
      <4> QED BY <2>2, <2>3, <3>2, <3>4, <4>1, <4>2 DEF Clocked, Bare
    <3> QED BY <3>1, <3>3, <3>4
  <2>4. CASE slave.st = "cmd"
    <3>1. slave' = Bare("data") /\ sensor' = [sensor EXCEPT !.reg = slave.byte % 16]
      BY <2>1, <2>4 DEF Taken, Listen, Bare
    <3>2. slave'.st = "data" /\ slave'.n = 0 /\ sensor'.reg = slave.byte % 16
      BY <3>1 DEF Bare, Typed
    <3>3. ASSUME MaxRestarts <= 1, InStep(c)' PROVE Fate(c)'
      <4>1. c % 9 = 1
        BY <3>2, <3>3 DEF InStep
      <4>2. InStep(c)
        BY <1>4, <4>1 DEF InStep
      <4>3. Fate(c)
        BY <1>4, <3>3, <4>2 DEF Clocked
      <4>4. (c + 8 - 1) \div 9 = 0 /\ slave.byte % 16 \in {1, 11, 13, 15}
        BY <2>4, <4>3 DEF Fate, Since
      <4>5. (c + 8 - 0) \div 9 = 1
        BY <4>1, <4>4
      <4>6. Since(c)' = 1
        BY <4>5 DEF Since
      <4>7. (sensor'.reg + 16 - 1) % 16 \in {0, 1, 10, 12, 14}
        BY <3>2, <4>4
      <4> QED BY <3>2, <4>6, <4>7 DEF Fate
    <3> QED BY <2>2, <3>2, <3>3 DEF Clocked
  <2>5. CASE slave.st = "data"
    <3>1. /\ slave' = Bare("data")
          /\ sensor' = [sensor EXCEPT !.control = IF sensor.reg = REG_CONTROL THEN slave.byte % 4 ELSE sensor.control,
                                      !.timing = IF sensor.reg = REG_TIMING THEN slave.byte % 32 ELSE sensor.timing,
                                      !.reg = (sensor.reg + 1) % 16]
      BY <2>1, <2>5 DEF Taken, Listen, Bare
    <3>2. slave'.st = "data" /\ slave'.n = 0 /\ sensor'.reg = (sensor.reg + 1) % 16
      BY <3>1 DEF Bare, Typed
    <3>3. ASSUME MaxRestarts <= 1, InStep(c)' PROVE Fate(c)'
      <4>1. c % 9 = 1
        BY <3>2, <3>3 DEF InStep
      <4>2. InStep(c)
        BY <1>4, <4>1 DEF InStep
      <4>3. Fate(c)
        BY <1>4, <3>3, <4>2 DEF Clocked
      <4> PICK q \in 0 .. 4 : q = (c + 8 - 1) \div 9
        OBVIOUS
      <4>4. (sensor.reg + 16 - q) % 16 \in {0, 1, 10, 12, 14}
        BY <2>5, <4>3 DEF Fate, Since
      <4>5. (c + 8 - 0) \div 9 = q + 1
        BY <4>1
      <4>6. Since(c)' = q + 1
        BY <4>5 DEF Since
      <4>7. (sensor'.reg + 16 - (q + 1)) % 16 = (sensor.reg + 16 - q) % 16
        BY <1>0, <3>2
      <4> QED BY <3>2, <4>4, <4>6, <4>7 DEF Fate
    <3> QED BY <2>2, <3>2, <3>3 DEF Clocked
  <2> QED BY <1>4, <2>3, <2>4, <2>5 DEF Receiving
<1> QED BY <1>0, <1>1, <1>2, <1>3, <1>4 DEF States

\* A rising edge brings it nearer.
LEMMA ClockRise ==
  ASSUME Typed, SlaveOK, NEW c \in 0 .. 27, m_nLastSCL = 0, m_nLastSCL' = 1, Clocked(c),
         slave' = Rises(slave, Wire(1, slave)), UNCHANGED <<sensor, restarts>>
  PROVE  Clocked(c + 1)'
<1>0. /\ slave.st \in States /\ slave.n \in 0 .. 9 /\ slave.byte \in Nat /\ sensor.reg \in 0 .. 15
      /\ slave \in [st : States, n : 0 .. 9, byte : Nat, out : {0, 1}]
  BY SensorTyped DEF SlaveOK
<1>1. CASE slave.st \in {"idle", "wait"}
  <2>1. slave' = slave
    BY <1>1 DEF Rises, Receiving
  <2> QED BY <1>1, <2>1 DEF Clocked, Receiving
<1>2. CASE slave.st = "send" /\ slave.n < 8
  <2>1. slave' = [slave EXCEPT !.n = slave.n + 1]
    BY <1>2 DEF Rises, Receiving
  <2>2. slave'.st = "send" /\ slave'.n = slave.n + 1
    BY <1>0, <1>2, <2>1
  <2>3. Patience' = Patience - 1 /\ Patience \in Nat
    BY <1>0, <1>2, <2>2 DEF Patience
  <2> QED BY <1>2, <2>2, <2>3 DEF Clocked, Receiving, Idle
<1>3. CASE slave.st = "send" /\ slave.n >= 8
  <2>1. slave.out = 1
    BY <1>3 DEF SlaveOK
  <2>2. slave' = [slave EXCEPT !.st = "wait"]
    BY <1>0, <1>3, <2>1 DEF Rises, Receiving, Wire
  <2>3. slave'.st = "wait"
    BY <1>0, <2>2
  <2> QED BY <1>3, <2>3 DEF Clocked, Receiving, Idle
<1>4. CASE slave.st \in Receiving
  <2>0. slave.n # 8 /\ slave # Idle
    BY <1>4 DEF SlaveOK, Receiving, Idle
  <2>1. CASE slave.n < 8
    <3>1. slave' = [slave EXCEPT !.n = slave.n + 1, !.byte = 2 * slave.byte + Wire(1, slave)]
      BY <1>4, <2>1 DEF Rises
    <3>2. slave'.st = slave.st /\ slave'.n = slave.n + 1
      BY <1>0, <3>1
    <3>3. slave.st \in {"cmd", "addr"} => Patience' = Patience - 1 /\ Patience \in Nat
      BY <1>0, <2>1, <3>2 DEF Patience
    <3>4. ASSUME MaxRestarts <= 1, InStep(c + 1)' PROVE Fate(c + 1)'
      <4>1. (c + 1) % 9 # 1 /\ slave.n + 1 = (c + 1 + 8) % 9
        BY <1>0, <2>1, <3>2, <3>4 DEF InStep
      <4>2. c % 9 # 0 /\ slave.n = (c + 8) % 9
        BY <1>0, <2>1, <4>1
      <4>3. InStep(c)
        BY <4>2 DEF InStep
      <4>4. Fate(c)
        BY <1>4, <3>4, <4>3 DEF Clocked
      <4>5. (c + 8 - 0) \div 9 # 0 /\ (c + 1 + 8 - 1) \div 9 = (c + 8 - 0) \div 9
        BY <4>2
      <4>6. Since(c) # 0 /\ Since(c + 1)' = Since(c)
        BY <4>5 DEF Since
      <4> QED BY <1>4, <3>2, <4>4, <4>6 DEF Fate, Receiving
    <3> QED BY <1>0, <1>4, <2>0, <3>2, <3>3, <3>4 DEF Clocked, Receiving
  <2>2. CASE slave.n = 9
    <3>1. slave' = slave
      BY <1>4, <2>2 DEF Rises, Receiving
    <3>3. slave.st \in {"cmd", "addr"} => Patience' = Patience - 1 /\ Patience \in Nat
      BY <1>0, <2>2, <3>1 DEF Patience
    <3>4. ASSUME MaxRestarts <= 1, InStep(c + 1)' PROVE Fate(c + 1)'
      <4>1. (c + 1) % 9 = 1
        BY <2>2, <3>1, <3>4 DEF InStep
      <4>2. c % 9 = 0
        BY <4>1
      <4>3. InStep(c)
        BY <2>2, <4>2 DEF InStep
      <4>4. Fate(c)
        BY <1>4, <3>4, <4>3 DEF Clocked
      <4>5. (c + 1 + 8 - 1) \div 9 = (c + 8 - 0) \div 9
        OBVIOUS
      <4>6. Since(c + 1)' = Since(c)
        BY <4>5 DEF Since
      <4> QED BY <3>1, <4>4, <4>6 DEF Fate
    <3> QED BY <1>4, <2>0, <2>2, <3>1, <3>3, <3>4 DEF Clocked, Receiving
  <2> QED BY <1>0, <2>0, <2>1, <2>2
<1> QED BY <1>0, <1>1, <1>2, <1>3, <1>4 DEF States

\* A setting of i2c_master_init().
LEMMA SetInit ==
  ASSUME Typed, SlaveOK, NEW k \in 0 .. 62, InitAt(k), i2c_master_setDC
  PROVE  k < 62 /\ InitAt(k + 1)'
<1> DEFINE f == i2c_master_init
<1>0. /\ f \in Seq(Moves) /\ Len(f) = 62
      /\ f[1] = Set(1, 0) /\ f[2] = Set(0, 0) /\ f[3] = Set(1, 0)
      /\ f[60] = Set(0, 1) /\ f[61] = Set(0, 1) /\ f[62] = Set(1, 1)
  BY InitIs
<1>a. \A i \in 1 .. 56 : f[i + 3] = IF i % 2 = 1 THEN Set(1, 0) ELSE Set(1, 1)
  BY InitIs
<1> HIDE DEF f
<1>1. /\ step = "init" /\ script = << >> /\ todo = Rest(f, k) /\ failed = FALSE /\ misses = 0
      /\ k \in 0 .. 3 => Wires(IF k = 2 THEN 0 ELSE 1, IF k = 0 THEN 1 ELSE 0) /\ Clocked(0)
      /\ k \in 4 .. 59 => Wires(1, k % 2) /\ Clocked((k - 3) \div 2)
      /\ k \in 60 .. 61 => Wires(0, 1) /\ (slave = Bare("addr") \/ (Stuck /\ Dirty(0)))
      /\ k = 62 => Wires(1, 1) /\ (slave = Idle \/ (Stuck /\ Dirty(0)))
  BY DEF InitAt, f
<1>2. /\ k < 62 /\ todo' = Rest(f, k + 1)
      /\ m_nLastSDA' = f[k + 1].sda /\ m_nLastSCL' = f[k + 1].scl
      /\ React(f[k + 1].sda, f[k + 1].scl)
      /\ UNCHANGED <<step, script, bytes, failed, data0, data1, part, lux, restarts>>
      /\ misses' = IF nacks' = nacks THEN misses ELSE 0
  <2>2. k \in 0 .. Len(f) /\ 62 = Len(f)
    BY <1>0
  <2> QED BY <1>0, <1>1, <2>2, SetStep, Zenon
<1>3. /\ step' = "init" /\ script' = << >> /\ failed' = FALSE /\ misses' = 0
  BY <1>1, <1>2
<1>b. ASSUME k + 1 \in 4 .. 59, Wires(1, (k + 1) % 2)', Clocked(((k + 1) - 3) \div 2)'
      PROVE  InitAt(k + 1)'
  <2>1. PICK j : j = k + 1
    OBVIOUS
  <2>2. j \in 4 .. 59 /\ j \notin 0 .. 3 /\ j \notin 60 .. 61 /\ j # 62
    BY <1>b, <2>1
  <2>3. Wires(1, j % 2)' /\ Clocked((j - 3) \div 2)' /\ todo' = Rest(f, j)
    BY <1>2, <1>b, <2>1
  <2>4. InitAt(j)'
    BY <1>3, <2>2, <2>3, Zenon DEF InitAt, f
  <2> QED BY <2>1, <2>4
<1>4. CASE k = 0
  <2>1. m_nLastSDA' = 1 /\ m_nLastSCL' = 0 /\ React(1, 0) /\ m_nLastSCL = 1 /\ Clocked(0)
    BY <1>0, <1>1, <1>2, <1>4 DEF Set, Wires
  <2>2. Clocked(0)'
    BY <1>2, <2>1, ReactFall, ClockFall
  <2> QED BY <1>2, <1>3, <1>4, <2>1, <2>2 DEF InitAt, Wires, f
<1>5. CASE k \in 1 .. 3
  <2>1. m_nLastSDA' = (IF k = 1 THEN 0 ELSE 1) /\ m_nLastSCL' = 0 /\ React(IF k = 1 THEN 0 ELSE 1, 0)
    <3>1. f[4] = Set(1, 0)
      BY <1>a, 1 \in 1 .. 56, 1 + 3 = 4, 1 % 2 = 1
    <3> QED BY <1>0, <1>2, <1>5, <3>1 DEF Set
  <2>2. m_nLastSCL = 0 /\ Clocked(0)
    BY <1>1, <1>5 DEF Wires
  <2>3. UNCHANGED <<slave, sensor, nacks>>
    BY <2>1, <2>2, ReactLow
  <2>4. Clocked(0)'
    BY <1>2, <2>1, <2>2, <2>3 DEF Clocked, Patience, InStep, Fate, Since
  <2>5. k = 3 => (k + 1 - 3) \div 2 = 0
    OBVIOUS
  <2> QED BY <1>2, <1>3, <1>5, <2>1, <2>4, <2>5 DEF InitAt, Wires, f
<1>6. CASE k \in 4 .. 58
  <2> PICK c \in 0 .. 27 : c = (k - 3) \div 2
    BY <1>6
  <2>0. f[k + 1] = IF (k - 2) % 2 = 1 THEN Set(1, 0) ELSE Set(1, 1)
    <3>1. k - 2 \in 1 .. 56 /\ (k - 2) + 3 = k + 1
      BY <1>6
    <3> QED BY <1>a, <3>1
  <2>1. CASE k % 2 = 1
    <3>1. m_nLastSDA' = 1 /\ m_nLastSCL' = 0 /\ React(1, 0)
      <4>1. (k - 2) % 2 = 1
        BY <2>1
      <4> QED BY <1>2, <2>0, <4>1 DEF Set
    <3>2. m_nLastSCL = 1 /\ Clocked(c)
      BY <1>1, <1>6, <2>1 DEF Wires
    <3>3. Clocked(c)'
      BY <1>2, <3>1, <3>2, ReactFall, ClockFall
    <3>4. ((k + 1) - 3) \div 2 = c /\ (k + 1) % 2 = 0 /\ k + 1 \in 4 .. 59
      BY <1>6, <2>1
    <3>5. Wires(1, (k + 1) % 2)' /\ Clocked(((k + 1) - 3) \div 2)'
      BY <3>1, <3>3, <3>4 DEF Wires
    <3> QED BY <1>2, <1>b, <3>4, <3>5
  <2>2. CASE k % 2 = 0
    <3>1. m_nLastSDA' = 1 /\ m_nLastSCL' = 1 /\ React(1, 1)
      <4>1. (k - 2) % 2 # 1
        BY <2>2
      <4> QED BY <1>2, <2>0, <4>1 DEF Set
    <3>2. m_nLastSCL = 0 /\ Clocked(c)
      BY <1>1, <1>6, <2>2 DEF Wires
    <3>3. slave' = Rises(slave, Wire(1, slave)) /\ UNCHANGED <<sensor, nacks>>
      BY <3>1, <3>2, ReactRise
    <3>4. Clocked(c + 1)'
      BY <1>2, <3>1, <3>2, <3>3, ClockRise
    <3>5. ((k + 1) - 3) \div 2 = c + 1 /\ (k + 1) % 2 = 1 /\ k + 1 \in 4 .. 59
      BY <1>6, <2>2
    <3>6. Wires(1, (k + 1) % 2)' /\ Clocked(((k + 1) - 3) \div 2)'
      BY <3>1, <3>4, <3>5 DEF Wires
    <3> QED BY <1>2, <1>b, <3>5, <3>6
  <2> QED BY <1>6, <2>1, <2>2
<1>7. CASE k = 59
  <2>1. m_nLastSDA' = 0 /\ m_nLastSCL' = 1 /\ React(0, 1)
    BY <1>0, <1>2, <1>7 DEF Set
  <2>2. m_nLastSDA = 1 /\ m_nLastSCL = 1 /\ Clocked(28)
    <3>1. (k - 3) \div 2 = 28 /\ k % 2 = 1
      BY <1>7
    <3> QED BY <1>1, <1>7, <3>1 DEF Wires
  <2>3. slave.st \in States /\ slave.n \in 0 .. 9 /\ slave.out \in {0, 1} /\ sensor.reg \in 0 .. 15
    BY SensorTyped DEF SlaveOK
  <2>4. slave.st \in {"idle", "wait", "data"}
    <3>1. Patience \in Nat
      BY <2>2, <2>3 DEF Patience
    <3> QED BY <2>2, <2>3, <3>1 DEF Clocked, States, Receiving
  <2>5. CASE slave.out = 1
    <3>1. slave' = Framed(slave, 0)
      BY <2>1, <2>2, <2>5, ReactHigh DEF Wire
    <3> QED BY <1>2, <1>3, <1>7, <2>1, <3>1 DEF InitAt, Wires, Framed, Bare, f
  <2>6. CASE slave.out = 0
    <3>1. slave.st = "data" /\ slave.n = 9
      BY <2>3, <2>4, <2>6 DEF SlaveOK, Receiving
    <3>2. UNCHANGED <<slave, sensor, nacks>>
      BY <2>1, <2>2, <2>6, ReactHigh DEF Wire
    <3>3. InStep(28) /\ Since(28) = 3 /\ slave # Idle
      BY <2>2, <2>6, <3>1 DEF InStep, Since, Idle
    <3>4. MaxRestarts <= 1 => (sensor.reg + 16 - 3) % 16 \in {0, 1, 10, 12, 14}
      BY <2>2, <3>1, <3>3 DEF Clocked, Fate, Receiving
    <3>5. MaxRestarts <= 1 => (sensor.reg + 16 - 0) % 16 \in {1, 3, 4, 13, 15}
      BY <2>3, <3>4
    <3>6. restarts > 0
      BY <2>2, <3>3 DEF Clocked, Typed
    <3>7. Stuck' /\ Dirty(0)'
      BY <1>2, <1>3, <2>6, <3>1, <3>2, <3>5, <3>6 DEF Stuck, Dirty
    <3> QED BY <1>2, <1>3, <1>7, <2>1, <3>7 DEF InitAt, Wires, f
  <2> QED BY <2>3, <2>5, <2>6
<1>8. CASE k = 60
  <2>1. m_nLastSDA' = 0 /\ m_nLastSCL' = 1 /\ React(0, 1) /\ m_nLastSDA = 0 /\ m_nLastSCL = 1
    BY <1>0, <1>1, <1>2, <1>8 DEF Set, Wires
  <2>2. UNCHANGED <<slave, sensor, nacks>>
    BY <2>1, ReactHigh
  <2>3. slave' = Bare("addr") \/ (Stuck' /\ Dirty(0)')
    BY <1>1, <1>2, <1>8, <2>2 DEF Stuck, Dirty
  <2> QED BY <1>2, <1>3, <1>8, <2>1, <2>3 DEF InitAt, Wires, f
<1>9. CASE k = 61
  <2>1. m_nLastSDA' = 1 /\ m_nLastSCL' = 1 /\ React(1, 1) /\ m_nLastSDA = 0 /\ m_nLastSCL = 1
    BY <1>0, <1>1, <1>2, <1>9 DEF Set, Wires
  <2>2. CASE slave = Bare("addr")
    <3>1. slave' = Framed(slave, 1)
      BY <2>1, <2>2, ReactHigh DEF Wire, Bare
    <3> QED BY <1>2, <1>3, <1>9, <2>1, <3>1 DEF InitAt, Wires, Framed, f
  <2>3. CASE Stuck /\ Dirty(0)
    <3>1. UNCHANGED <<slave, sensor, nacks>>
      BY <2>1, <2>3, ReactHigh DEF Wire, Stuck
    <3>2. Stuck' /\ Dirty(0)'
      BY <1>2, <2>3, <3>1 DEF Stuck, Dirty
    <3> QED BY <1>2, <1>3, <1>9, <2>1, <3>2 DEF InitAt, Wires, f
  <2> QED BY <1>1, <1>9, <2>2, <2>3
<1> QED BY <1>2, <1>4, <1>5, <1>6, <1>7, <1>8, <1>9

\* A setting: the place moves on, and what the call knows stays.
LEMMA SetPlace ==
  ASSUME Typed, SlaveOK, Place, i2c_master_setDC
  PROVE  Place'
<1>0. todo # << >>
  BY DEF i2c_master_setDC
<1>1. ASSUME NEW k \in 0 .. 62, InitAt(k) PROVE Place'
  <2>1. k + 1 \in 0 .. 62 /\ InitAt(k + 1)'
    BY <1>1, SetInit
  <2> QED BY <2>1 DEF Place
<1>2. ASSUME NEW k \in 0 .. 3, Starting(k) PROVE Place'
  <2>1. k + 1 \in 0 .. 3 /\ Starting(k + 1)'
    BY <1>2, SetStarting
  <2> QED BY <2>1 DEF Place
<1>3. ASSUME NEW k \in 0 .. 3, Again(k) PROVE Place'
  <2>1. k + 1 \in 0 .. 3 /\ Again(k + 1)'
    BY <1>3, SetAgain
  <2> QED BY <2>1 DEF Place
<1>4. ASSUME NEW k \in 0 .. 3, Stop3(k) \/ Stop4(k) \/ StopF(k) PROVE Place'
  <2>1. k + 1 \in 0 .. 3 /\ (Stop3(k + 1)' \/ Stop4(k + 1)' \/ StopF(k + 1)')
    BY <1>4, SetStops
  <2> QED BY <2>1 DEF Place
<1>5. ASSUME NEW k \in 0 .. 25, Byte1(k) \/ Byte2(k) \/ Byte3(k) \/ Byte4(k) PROVE Place'
  <2>1. k + 1 \in 0 .. 25 /\ (Byte1(k + 1)' \/ Byte2(k + 1)' \/ Byte3(k + 1)' \/ Byte4(k + 1)')
    BY <1>5, SetBytes
  <2> QED BY <2>1 DEF Place
<1>6. ASSUME NEW k \in 0 .. 4, Check1(k) \/ Check2(k) \/ Check3(k) \/ Check4(k) PROVE Place'
  <2>1. k + 1 \in 0 .. 4 /\ (Check1(k + 1)' \/ Check2(k + 1)' \/ Check3(k + 1)' \/ Check4(k + 1)')
    BY <1>6, SetChecks
  <2> QED BY <2>1 DEF Place
<1>7. ASSUME NEW k \in 0 .. 18, Read1(k) \/ Read2(k) PROVE Place'
  <2>1. k + 1 \in 0 .. 18 /\ (Read1(k + 1)' \/ Read2(k + 1)')
    BY <1>7, SetReads
  <2> QED BY <2>1 DEF Place
<1>8. ASSUME NEW k \in 0 .. 5, Ack1(k) \/ Ack2(k) PROVE Place'
  <2>1. k + 1 \in 0 .. 5 /\ (Ack1(k + 1)' \/ Ack2(k + 1)')
    BY <1>8, SetAck1, SetAck2
  <2> QED BY <2>1 DEF Place
<1>9. ~(Off \/ InitCall \/ AtStart \/ Told1 \/ Told2 \/ Told3 \/ Told4 \/ Kept1 \/ Kept2 \/ GaveUp)
  BY <1>0 DEF Off, InitCall, AtStart, Told1, Told2, Told3, Told4, Kept1, Kept2, GaveUp
<1> QED BY <1>1, <1>2, <1>3, <1>4, <1>5, <1>6, <1>7, <1>8, <1>9, Zenon DEF Place

\* A setting keeps the types, the package and the light.
LEMMA SetTyped ==
  ASSUME Typed, SlaveOK, i2c_master_setDC
  PROVE  Typed' /\ SlaveOK' /\ sensor'.id = sensor.id /\ sensor'.light = sensor.light
<1> DEFINE s == Head(todo)
<1>1. s \in Moves /\ Tail(todo) \in Seq(Moves)
  BY DEF i2c_master_setDC, Typed
<1>2. /\ m_nLastSDA' = s.sda /\ m_nLastSCL' = s.scl /\ React(s.sda, s.scl)
      /\ got' = IF s.get THEN 2 * got + Wire(s.sda, slave') ELSE got
      /\ todo' = Tail(todo) /\ misses' = IF nacks' = nacks THEN misses ELSE 0
      /\ UNCHANGED <<failed, restarts>>
  BY DEF i2c_master_setDC, driverVars
<1> HIDE DEF s
<1>3. s.sda \in {0, 1} /\ s.scl \in {0, 1}
  BY <1>1 DEF Moves
<1>4. /\ SlaveOK' /\ nacks' \in Nat
      /\ sensor' \in [reg : 0 .. 15, control : 0 .. 3, timing : 0 .. 31, id : Ids, light : Light]
      /\ sensor'.id = sensor.id /\ sensor'.light = sensor.light
  BY <1>2, <1>3, ReactTyped
<1>5. got' \in Nat
  <2>1. Wire(s.sda, slave') \in {0, 1}
    BY DEF Wire
  <2> QED BY <1>2, <2>1 DEF Typed
<1> QED BY <1>1, <1>2, <1>3, <1>4, <1>5 DEF Typed

-----------------------------------------------------------------------------
(* Calls: the next function of the transfer.                               *)

Names == {"start", "stop", "write", "check", "test", "read", "keep", "ack"}
Ops   == [op : Names, arg : Nat]

\* What the transfers are made of.
LEMMA PartsAre ==
  /\ \A n \in Names, x \in Nat : Op(n, x) \in Ops
  /\ 2 * I2C_ADDR = 114 /\ 2 * I2C_ADDR + 1 = 115
  /\ Start \in Seq(Ops) /\ Stop \in Seq(Ops)
  /\ \A b \in Nat : Byte(b) \in Seq(Ops)
  /\ Read(0) \in Seq(Ops) /\ Read(1) \in Seq(Ops)
  /\ \A f, g \in Seq(Ops) : f \o g \in Seq(Ops)
<1>1. \A n \in Names, x \in Nat : Op(n, x) \in Ops
  BY DEF Op, Ops, Names
<1>2. 2 * I2C_ADDR = 114 /\ 2 * I2C_ADDR + 1 = 115
  BY DEF I2C_ADDR
<1>b. /\ Op("start", 0) \in Ops /\ Op("stop", 0) \in Ops /\ Op("check", 0) \in Ops /\ Op("test", 0) \in Ops
      /\ Op("read", 0) \in Ops /\ Op("keep", 0) \in Ops /\ Op("ack", 0) \in Ops /\ Op("ack", 1) \in Ops
  BY DEF Op, Ops, Names
<1>c. \A x, y, z \in Ops : <<x>> \in Seq(Ops) /\ <<x, y, z>> \in Seq(Ops)
  OBVIOUS
<1>3. Start \in Seq(Ops) /\ Stop \in Seq(Ops)
  BY <1>b, <1>c, Zenon DEF Start, Stop
<1>4. \A b \in Nat : Byte(b) \in Seq(Ops)
  <2> TAKE b \in Nat
  <2>1. Op("write", b) \in Ops
    BY DEF Op, Ops, Names
  <2> QED BY <1>b, <1>c, <2>1, Zenon DEF Byte
<1>5. Read(0) \in Seq(Ops) /\ Read(1) \in Seq(Ops)
  BY <1>b, <1>c, Zenon DEF Read
<1>6. \A f, g \in Seq(Ops) : f \o g \in Seq(Ops)
  OBVIOUS
<1> QED BY <1>1, <1>2, <1>3, <1>4, <1>5, <1>6

\* A transfer begins with the address and the register.
LEMMA CommandIs ==
  ASSUME NEW reg \in Nat
  PROVE  Command(reg) \in Seq(Ops) /\ Select(reg) \in Seq(Ops)
<1>1. 2 * I2C_ADDR \in Nat /\ 2 * I2C_ADDR + 1 \in Nat /\ 128 + reg \in Nat
  BY DEF I2C_ADDR
<1>2. Byte(2 * I2C_ADDR) \in Seq(Ops) /\ Byte(2 * I2C_ADDR + 1) \in Seq(Ops) /\ Byte(128 + reg) \in Seq(Ops)
  BY <1>1, PartsAre
<1>3. Command(reg) \in Seq(Ops)
  BY <1>2, PartsAre, Zenon DEF Command
<1> QED BY <1>2, <1>3, PartsAre, Zenon DEF Select

\* The functions of a transfer, in order.
LEMMA JobIs ==
  ASSUME NEW s \in Steps
  PROVE  LET f == Job(s)
         IN  /\ f \in Seq(Ops) /\ Len(f) = IF s = "id" THEN 15 ELSE IF s \in Readers THEN 18 ELSE 11
             /\ f[1] = Op("start", 0) /\ f[2] = Op("write", 114) /\ f[3] = Op("check", 0) /\ f[4] = Op("test", 0)
             /\ f[5] = Op("write", 128 + Reg(s)) /\ f[6] = Op("check", 0) /\ f[7] = Op("test", 0)
             /\ s \in Writers => /\ f[8] = Op("write", Val(s)) /\ f[9] = Op("check", 0) /\ f[10] = Op("test", 0)
                                 /\ f[11] = Op("stop", 0)
             /\ s \in Readers => /\ f[8] = Op("start", 0) /\ f[9] = Op("write", 115) /\ f[10] = Op("check", 0)
                                 /\ f[11] = Op("test", 0) /\ f[12] = Op("read", 0) /\ f[13] = Op("keep", 0)
             /\ s = "id" => f[14] = Op("ack", 1) /\ f[15] = Op("stop", 0)
             /\ s \in {"data0", "data1"} =>
                  /\ f[14] = Op("ack", 0) /\ f[15] = Op("read", 0) /\ f[16] = Op("keep", 0)
                  /\ f[17] = Op("ack", 1) /\ f[18] = Op("stop", 0)
<1> PICK reg \in Nat : reg = Reg(s)
  BY StepIs
<1> PICK val \in Nat : val = Val(s)
  BY StepIs, OctetIs
<1>1. CASE s \in Writers
  <2>1. Job(s) = tsl2561_writebyte(reg, val) /\ s \notin Readers /\ s # "id" /\ s \notin {"data0", "data1"}
    BY <1>1 DEF Job, Writers, Readers
  <2> DEFINE f == tsl2561_writebyte(reg, val)
  <2>a. f \in Seq(Ops)
    BY CommandIs, PartsAre, Zenon DEF tsl2561_writebyte
  <2>b. Len(f) = 11
    BY DEF tsl2561_writebyte, Command, Byte, Start, Stop
  <2>c. f[1] = Op("start", 0) /\ f[2] = Op("write", 114) /\ f[3] = Op("check", 0) /\ f[4] = Op("test", 0)
    BY PartsAre DEF tsl2561_writebyte, Command, Byte, Start, Stop
  <2>d. f[5] = Op("write", 128 + reg) /\ f[6] = Op("check", 0) /\ f[7] = Op("test", 0)
    BY PartsAre DEF tsl2561_writebyte, Command, Byte, Start, Stop
  <2>e. f[8] = Op("write", val) /\ f[9] = Op("check", 0) /\ f[10] = Op("test", 0)
    BY PartsAre DEF tsl2561_writebyte, Command, Byte, Start, Stop
  <2>f. f[11] = Op("stop", 0)
    BY PartsAre DEF tsl2561_writebyte, Command, Byte, Start, Stop
  <2> HIDE DEF f
  <2>2. /\ f \in Seq(Ops) /\ Len(f) = 11
        /\ f[1] = Op("start", 0) /\ f[2] = Op("write", 114) /\ f[3] = Op("check", 0) /\ f[4] = Op("test", 0)
        /\ f[5] = Op("write", 128 + reg) /\ f[6] = Op("check", 0) /\ f[7] = Op("test", 0)
        /\ f[8] = Op("write", val) /\ f[9] = Op("check", 0) /\ f[10] = Op("test", 0)
        /\ f[11] = Op("stop", 0)
    BY <2>a, <2>b, <2>c, <2>d, <2>e, <2>f
  <2> HIDE DEF f
  <2> QED BY <1>1, <2>1, <2>2 DEF f
<1>2. CASE s = "id"
  <2>1. Job(s) = tsl2561_readbyte(reg) /\ s \in Readers /\ s \notin Writers /\ s \notin {"data0", "data1"}
    BY <1>2 DEF Job, Writers, Readers
  <2> DEFINE f == tsl2561_readbyte(reg)
  <2>a. f \in Seq(Ops)
    BY CommandIs, PartsAre, Zenon DEF tsl2561_readbyte
  <2>b. Len(f) = 15
    BY DEF tsl2561_readbyte, Select, Read, Command, Byte, Start, Stop
  <2>c. f[1] = Op("start", 0) /\ f[2] = Op("write", 114) /\ f[3] = Op("check", 0) /\ f[4] = Op("test", 0)
    BY PartsAre DEF tsl2561_readbyte, Select, Read, Command, Byte, Start, Stop
  <2>d. f[5] = Op("write", 128 + reg) /\ f[6] = Op("check", 0) /\ f[7] = Op("test", 0)
    BY PartsAre DEF tsl2561_readbyte, Select, Read, Command, Byte, Start, Stop
  <2>e. f[8] = Op("start", 0) /\ f[9] = Op("write", 115) /\ f[10] = Op("check", 0)
    BY PartsAre DEF tsl2561_readbyte, Select, Read, Command, Byte, Start, Stop
  <2>f. f[11] = Op("test", 0) /\ f[12] = Op("read", 0) /\ f[13] = Op("keep", 0)
    BY PartsAre DEF tsl2561_readbyte, Select, Read, Command, Byte, Start, Stop
  <2>g. f[14] = Op("ack", 1) /\ f[15] = Op("stop", 0)
    BY PartsAre DEF tsl2561_readbyte, Select, Read, Command, Byte, Start, Stop
  <2> HIDE DEF f
  <2>2. /\ f \in Seq(Ops) /\ Len(f) = 15
        /\ f[1] = Op("start", 0) /\ f[2] = Op("write", 114) /\ f[3] = Op("check", 0) /\ f[4] = Op("test", 0)
        /\ f[5] = Op("write", 128 + reg) /\ f[6] = Op("check", 0) /\ f[7] = Op("test", 0)
        /\ f[8] = Op("start", 0) /\ f[9] = Op("write", 115) /\ f[10] = Op("check", 0)
        /\ f[11] = Op("test", 0) /\ f[12] = Op("read", 0) /\ f[13] = Op("keep", 0)
        /\ f[14] = Op("ack", 1) /\ f[15] = Op("stop", 0)
    BY <2>a, <2>b, <2>c, <2>d, <2>e, <2>f, <2>g
  <2> HIDE DEF f
  <2> QED BY <1>2, <2>1, <2>2 DEF f
<1>3. CASE s \in {"data0", "data1"}
  <2>1. Job(s) = tsl2561_readword(reg) /\ s \in Readers /\ s \notin Writers /\ s # "id"
    BY <1>3 DEF Job, Writers, Readers
  <2> DEFINE f == tsl2561_readword(reg)
  <2>a. f \in Seq(Ops)
    BY CommandIs, PartsAre, Zenon DEF tsl2561_readword
  <2>b. Len(f) = 18
    BY DEF tsl2561_readword, Select, Read, Command, Byte, Start, Stop
  <2>c. f[1] = Op("start", 0) /\ f[2] = Op("write", 114) /\ f[3] = Op("check", 0) /\ f[4] = Op("test", 0)
    BY PartsAre DEF tsl2561_readword, Select, Read, Command, Byte, Start, Stop
  <2>d. f[5] = Op("write", 128 + reg) /\ f[6] = Op("check", 0) /\ f[7] = Op("test", 0)
    BY PartsAre DEF tsl2561_readword, Select, Read, Command, Byte, Start, Stop
  <2>e. f[8] = Op("start", 0) /\ f[9] = Op("write", 115) /\ f[10] = Op("check", 0)
    BY PartsAre DEF tsl2561_readword, Select, Read, Command, Byte, Start, Stop
  <2>f. f[11] = Op("test", 0) /\ f[12] = Op("read", 0) /\ f[13] = Op("keep", 0)
    BY PartsAre DEF tsl2561_readword, Select, Read, Command, Byte, Start, Stop
  <2>g. f[14] = Op("ack", 0) /\ f[15] = Op("read", 0) /\ f[16] = Op("keep", 0)
    BY PartsAre DEF tsl2561_readword, Select, Read, Command, Byte, Start, Stop
  <2>h. f[17] = Op("ack", 1) /\ f[18] = Op("stop", 0)
    BY PartsAre DEF tsl2561_readword, Select, Read, Command, Byte, Start, Stop
  <2> HIDE DEF f
  <2>2. /\ f \in Seq(Ops) /\ Len(f) = 18
        /\ f[1] = Op("start", 0) /\ f[2] = Op("write", 114) /\ f[3] = Op("check", 0) /\ f[4] = Op("test", 0)
        /\ f[5] = Op("write", 128 + reg) /\ f[6] = Op("check", 0) /\ f[7] = Op("test", 0)
        /\ f[8] = Op("start", 0) /\ f[9] = Op("write", 115) /\ f[10] = Op("check", 0)
        /\ f[11] = Op("test", 0) /\ f[12] = Op("read", 0) /\ f[13] = Op("keep", 0)
        /\ f[14] = Op("ack", 0) /\ f[15] = Op("read", 0) /\ f[16] = Op("keep", 0)
        /\ f[17] = Op("ack", 1) /\ f[18] = Op("stop", 0)
    BY <2>a, <2>b, <2>c, <2>d, <2>e, <2>f, <2>g, <2>h
  <2> HIDE DEF f
  <2> QED BY <1>3, <2>1, <2>2 DEF f
<1> QED BY <1>1, <1>2, <1>3 DEF Steps, Readers

\* The settings of a function, with the wires as they are.
LEMMA SettingsAre ==
  ASSUME NEW x
  PROVE  /\ Settings(Op("init", x)) = i2c_master_init
         /\ Settings(Op("start", x)) = StartFrom(m_nLastSCL)
         /\ Settings(Op("stop", x)) = StopAfter(m_nLastSCL)
         /\ Settings(Op("write", x)) = WriteFrom(m_nLastSDA, x)
         /\ Settings(Op("check", x)) = CheckFrom(m_nLastSDA)
         /\ Settings(Op("read", x)) = ReadFrom(m_nLastSDA)
         /\ Settings(Op("ack", x)) = AckFrom(m_nLastSDA, x)
         /\ Settings(Op("test", x)) = << >>
         /\ Settings(Op("keep", x)) = << >>
<1>1. Settings(Op("init", x)) = i2c_master_init
  <2> PICK o : o = Op("init", x)
    OBVIOUS
  <2>1. o.op = "init" /\ o.arg = x
    BY DEF Op
  <2>2. o.op # "start" /\ o.op # "stop" /\ o.op # "write" /\ o.op # "check" /\ o.op # "read" /\ o.op # "ack"
    BY <2>1
  <2>3. Settings(o) = i2c_master_init
    BY <2>1, <2>2, Zenon DEF Settings
  <2> QED BY <2>3
<1>2. Settings(Op("start", x)) = StartFrom(m_nLastSCL)
  <2> PICK o : o = Op("start", x)
    OBVIOUS
  <2>1. o.op = "start" /\ o.arg = x
    BY DEF Op
  <2>2. o.op # "init" /\ o.op # "stop" /\ o.op # "write" /\ o.op # "check" /\ o.op # "read" /\ o.op # "ack"
    BY <2>1
  <2>3. Settings(o) = StartFrom(m_nLastSCL)
    BY <2>1, <2>2, Zenon DEF Settings, i2c_master_start, StartFrom
  <2> QED BY <2>3
<1>3. Settings(Op("stop", x)) = StopAfter(m_nLastSCL)
  <2> PICK o : o = Op("stop", x)
    OBVIOUS
  <2>1. o.op = "stop" /\ o.arg = x
    BY DEF Op
  <2>2. o.op # "init" /\ o.op # "start" /\ o.op # "write" /\ o.op # "check" /\ o.op # "read" /\ o.op # "ack"
    BY <2>1
  <2>3. Settings(o) = StopAfter(m_nLastSCL)
    BY <2>1, <2>2, Zenon DEF Settings, i2c_master_stop
  <2> QED BY <2>3
<1>4. Settings(Op("write", x)) = WriteFrom(m_nLastSDA, x)
  <2> PICK o : o = Op("write", x)
    OBVIOUS
  <2>1. o.op = "write" /\ o.arg = x
    BY DEF Op
  <2>2. o.op # "init" /\ o.op # "start" /\ o.op # "stop" /\ o.op # "check" /\ o.op # "read" /\ o.op # "ack"
    BY <2>1
  <2>3. Settings(o) = WriteFrom(m_nLastSDA, x)
    BY <2>1, <2>2, Zenon DEF Settings, i2c_master_writeByte, WriteFrom
  <2> QED BY <2>3
<1>5. Settings(Op("check", x)) = CheckFrom(m_nLastSDA)
  <2> PICK o : o = Op("check", x)
    OBVIOUS
  <2>1. o.op = "check" /\ o.arg = x
    BY DEF Op
  <2>2. o.op # "init" /\ o.op # "start" /\ o.op # "stop" /\ o.op # "write" /\ o.op # "read" /\ o.op # "ack"
    BY <2>1
  <2>3. Settings(o) = CheckFrom(m_nLastSDA)
    BY <2>1, <2>2, Zenon DEF Settings, i2c_master_getAck, CheckFrom
  <2> QED BY <2>3
<1>6. Settings(Op("read", x)) = ReadFrom(m_nLastSDA)
  <2> PICK o : o = Op("read", x)
    OBVIOUS
  <2>1. o.op = "read" /\ o.arg = x
    BY DEF Op
  <2>2. o.op # "init" /\ o.op # "start" /\ o.op # "stop" /\ o.op # "write" /\ o.op # "check" /\ o.op # "ack"
    BY <2>1
  <2>3. Settings(o) = ReadFrom(m_nLastSDA)
    BY <2>1, <2>2, Zenon DEF Settings, i2c_master_readByte, ReadFrom
  <2> QED BY <2>3
<1>7. Settings(Op("ack", x)) = AckFrom(m_nLastSDA, x)
  <2> PICK o : o = Op("ack", x)
    OBVIOUS
  <2>1. o.op = "ack" /\ o.arg = x
    BY DEF Op
  <2>2. o.op # "init" /\ o.op # "start" /\ o.op # "stop" /\ o.op # "write" /\ o.op # "check" /\ o.op # "read"
    BY <2>1
  <2>3. Settings(o) = AckFrom(m_nLastSDA, x)
    BY <2>1, <2>2, Zenon DEF Settings, i2c_master_setAck, AckFrom
  <2> QED BY <2>3
<1>8. Settings(Op("test", x)) = << >>
  <2> PICK o : o = Op("test", x)
    OBVIOUS
  <2>1. o.op = "test" /\ o.arg = x
    BY DEF Op
  <2>2. o.op # "init" /\ o.op # "start" /\ o.op # "stop" /\ o.op # "write" /\ o.op # "check" /\ o.op # "read" /\ o.op # "ack"
    BY <2>1
  <2>3. Settings(o) = << >>
    BY <2>1, <2>2, Zenon DEF Settings
  <2> QED BY <2>3
<1>9. Settings(Op("keep", x)) = << >>
  <2> PICK o : o = Op("keep", x)
    OBVIOUS
  <2>1. o.op = "keep" /\ o.arg = x
    BY DEF Op
  <2>2. o.op # "init" /\ o.op # "start" /\ o.op # "stop" /\ o.op # "write" /\ o.op # "check" /\ o.op # "read" /\ o.op # "ack"
    BY <2>1
  <2>3. Settings(o) = << >>
    BY <2>1, <2>2, Zenon DEF Settings
  <2> QED BY <2>3
<1> QED BY <1>1, <1>2, <1>3, <1>4, <1>5, <1>6, <1>7, <1>8, <1>9

\* Nothing but the transfer has moved.
Held == UNCHANGED <<m_nLastSDA, m_nLastSCL, slave, step, data0, data1, part, lux, sensor, nacks, restarts, misses>>

\* The call of the function j + 1 of a transfer.
LEMMA CallStep ==
  ASSUME Call, step \in Steps, NEW j \in Nat, j < Len(Job(step)), script = Rest(Job(step), j),
         NEW n, NEW x, Job(step)[j + 1] = Op(n, x)
  PROVE  /\ todo = << >> /\ todo' = Settings(Op(n, x))
         /\ got' = IF n \in {"check", "read"} THEN 0 ELSE got
         /\ bytes' = IF n = "keep" THEN Append(bytes, got) ELSE bytes
         /\ failed' = (failed \/ (n = "test" /\ got = 1))
         /\ script' = IF n = "test" /\ got = 1 THEN GiveUp ELSE Rest(Job(step), j + 1)
         /\ Held
<1> DEFINE f == Job(step)
<1>1. f \in Seq(Ops)
  BY JobIs
<1> HIDE DEF f
<1>2. j \in 0 .. Len(f) /\ j < Len(f) /\ script = Rest(f, j) /\ f[j + 1] = Op(n, x)
  BY <1>1 DEF f
<1>3. Head(Rest(f, j)) = f[j + 1] /\ Tail(Rest(f, j)) = Rest(f, j + 1)
  BY <1>1, <1>2, RestStep
<1>4. Head(script) = Op(n, x) /\ Tail(script) = Rest(f, j + 1)
  BY <1>2, <1>3
<1>5. Op(n, x).op = n
  BY DEF Op
<1> QED BY <1>4, <1>5, Zenon DEF Call, Held, f

\* Nothing is left of a function when its settings are done.
LEMMA LastOf ==
  ASSUME NEW f \in Seq(Moves), NEW k \in 0 .. Len(f), todo = Rest(f, k), todo = << >>
  PROVE  k = Len(f)
<1>1. k < Len(f) => Rest(f, k) # << >>
  BY RestStep
<1> QED BY <1>1

\* While wires and sensor rest, what is known of them stays.
LEMMA HeldKeeps ==
  ASSUME Held
  PROVE  /\ Prepared => Prepared'
         /\ Done => Done'
         /\ Aimed => Aimed'
         /\ Behind => Behind'
         /\ \A d \in Nat : Dirty(d) => Dirty(d)'
         /\ \A i \in {1, 2}, v \in Octets : Fits(i, v) => Fits(i, v)'
         /\ \A st, b : Heard(st, b) => Heard(st, b)'
         /\ Lost => Lost'
         /\ Mute => Mute'
         /\ Stuck => Stuck'
         /\ \A a, c : Wires(a, c) => Wires(a, c)'
<1>1. Prepared => Prepared'
  BY DEF Held, Prepared
<1>2. Done => Done'
  BY DEF Held, Done
<1>3. \A d \in Nat : Dirty(d) => Dirty(d)'
  BY DEF Held, Dirty
<1>4. Aimed => Aimed'
  BY <1>3 DEF Held, Aimed, Reg
<1>5. Behind => Behind'
  BY DEF Held, Behind, Reg
<1>6. \A i \in {1, 2}, v \in Octets : Fits(i, v) => Fits(i, v)'
  BY DEF Held, Fits
<1>7. /\ \A st, b : Heard(st, b) => Heard(st, b)'
      /\ Lost => Lost'
      /\ Mute => Mute'
      /\ Stuck => Stuck'
      /\ \A a, c : Wires(a, c) => Wires(a, c)'
  BY DEF Held, Heard, Lost, Mute, Stuck, Wires
<1> QED BY <1>1, <1>2, <1>3, <1>4, <1>5, <1>6, <1>7

\* A sequence of settings of which none is done.
LEMMA Begin ==
  ASSUME NEW f \in Seq(Moves)
  PROVE  f = Rest(f, 0)
<1>1. 0 \in 0 .. Len(f)
  OBVIOUS
<1> QED BY <1>1, RestStep

\* The same for each of the functions.
LEMMA CallStart ==
  ASSUME Typed, Call, step \in Steps, failed = FALSE, NEW j \in 0 .. 17, j < Len(Job(step)),
         script = Rest(Job(step), j), Job(step)[j + 1] = Op("start", 0)
  PROVE  Held /\ bytes' = bytes /\ failed' = FALSE /\ script' = Rest(Job(step), j + 1)
         /\ todo' = Rest(StartFrom(m_nLastSCL), 0)
<1>1. /\ todo = << >> /\ todo' = Settings(Op("start", 0))
      /\ got' = IF "start" \in {"check", "read"} THEN 0 ELSE got
      /\ bytes' = IF "start" = "keep" THEN Append(bytes, got) ELSE bytes
      /\ failed' = (failed \/ ("start" = "test" /\ got = 1))
      /\ script' = IF "start" = "test" /\ got = 1 THEN GiveUp ELSE Rest(Job(step), j + 1)
      /\ Held
  <2>1. j \in Nat
    OBVIOUS
  <2> QED BY <2>1, CallStep, Zenon
<1>2. m_nLastSDA \in {0, 1} /\ m_nLastSCL \in {0, 1}
  BY DEF Typed
<1>3. StartFrom(m_nLastSCL) \in Seq(Moves)
  BY <1>2, StartIs
<1>4. Settings(Op("start", 0)) = StartFrom(m_nLastSCL)
  BY SettingsAre
<1>5. todo' = Rest(StartFrom(m_nLastSCL), 0)
  BY <1>1, <1>3, <1>4, Begin
<1> QED BY <1>1, <1>5

\* The calls that the transfers are made of: a stop,
LEMMA CallStop ==
  ASSUME Typed, Call, step \in Steps, failed = FALSE, NEW j \in 0 .. 17, j < Len(Job(step)),
         script = Rest(Job(step), j), Job(step)[j + 1] = Op("stop", 0)
  PROVE  Held /\ bytes' = bytes /\ failed' = FALSE /\ script' = Rest(Job(step), j + 1)
         /\ todo' = Rest(StopAfter(m_nLastSCL), 0)
<1>1. /\ todo = << >> /\ todo' = Settings(Op("stop", 0))
      /\ got' = IF "stop" \in {"check", "read"} THEN 0 ELSE got
      /\ bytes' = IF "stop" = "keep" THEN Append(bytes, got) ELSE bytes
      /\ failed' = (failed \/ ("stop" = "test" /\ got = 1))
      /\ script' = IF "stop" = "test" /\ got = 1 THEN GiveUp ELSE Rest(Job(step), j + 1)
      /\ Held
  <2>1. j \in Nat
    OBVIOUS
  <2> QED BY <2>1, CallStep, Zenon
<1>2. m_nLastSDA \in {0, 1} /\ m_nLastSCL \in {0, 1}
  BY DEF Typed
<1>3. StopAfter(m_nLastSCL) \in Seq(Moves)
  BY <1>2, StopIs
<1>4. Settings(Op("stop", 0)) = StopAfter(m_nLastSCL)
  BY SettingsAre
<1>5. todo' = Rest(StopAfter(m_nLastSCL), 0)
  BY <1>1, <1>3, <1>4, Begin
<1> QED BY <1>1, <1>5

\* a byte that is written,
LEMMA CallWrite ==
  ASSUME Typed, Call, step \in Steps, failed = FALSE, NEW j \in 0 .. 17, j < Len(Job(step)),
         script = Rest(Job(step), j), NEW x \in Octets, Job(step)[j + 1] = Op("write", x)
  PROVE  Held /\ bytes' = bytes /\ failed' = FALSE /\ script' = Rest(Job(step), j + 1)
         /\ todo' = Rest(WriteFrom(m_nLastSDA, x), 0)
<1>1. /\ todo = << >> /\ todo' = Settings(Op("write", x))
      /\ got' = IF "write" \in {"check", "read"} THEN 0 ELSE got
      /\ bytes' = IF "write" = "keep" THEN Append(bytes, got) ELSE bytes
      /\ failed' = (failed \/ ("write" = "test" /\ got = 1))
      /\ script' = IF "write" = "test" /\ got = 1 THEN GiveUp ELSE Rest(Job(step), j + 1)
      /\ Held
  <2>1. j \in Nat
    OBVIOUS
  <2> QED BY <2>1, CallStep, Zenon
<1>2. m_nLastSDA \in {0, 1} /\ m_nLastSCL \in {0, 1}
  BY DEF Typed
<1>3. WriteFrom(m_nLastSDA, x) \in Seq(Moves)
  BY <1>2, WriteIs
<1>4. Settings(Op("write", x)) = WriteFrom(m_nLastSDA, x)
  BY SettingsAre
<1>5. todo' = Rest(WriteFrom(m_nLastSDA, x), 0)
  BY <1>1, <1>3, <1>4, Begin
<1> QED BY <1>1, <1>5

\* the look at its acknowledgement,
LEMMA CallCheck ==
  ASSUME Typed, Call, step \in Steps, failed = FALSE, NEW j \in 0 .. 17, j < Len(Job(step)),
         script = Rest(Job(step), j), Job(step)[j + 1] = Op("check", 0)
  PROVE  Held /\ bytes' = bytes /\ failed' = FALSE /\ script' = Rest(Job(step), j + 1) /\ got' = 0
         /\ todo' = Rest(CheckFrom(m_nLastSDA), 0)
<1>1. /\ todo = << >> /\ todo' = Settings(Op("check", 0))
      /\ got' = IF "check" \in {"check", "read"} THEN 0 ELSE got
      /\ bytes' = IF "check" = "keep" THEN Append(bytes, got) ELSE bytes
      /\ failed' = (failed \/ ("check" = "test" /\ got = 1))
      /\ script' = IF "check" = "test" /\ got = 1 THEN GiveUp ELSE Rest(Job(step), j + 1)
      /\ Held
  <2>1. j \in Nat
    OBVIOUS
  <2> QED BY <2>1, CallStep, Zenon
<1>2. m_nLastSDA \in {0, 1} /\ m_nLastSCL \in {0, 1}
  BY DEF Typed
<1>3. CheckFrom(m_nLastSDA) \in Seq(Moves)
  BY <1>2, CheckIs
<1>4. Settings(Op("check", 0)) = CheckFrom(m_nLastSDA)
  BY SettingsAre
<1>5. todo' = Rest(CheckFrom(m_nLastSDA), 0)
  BY <1>1, <1>3, <1>4, Begin
<1> QED BY <1>1, <1>5

\* a byte that is read,
LEMMA CallRead ==
  ASSUME Typed, Call, step \in Steps, failed = FALSE, NEW j \in 0 .. 17, j < Len(Job(step)),
         script = Rest(Job(step), j), Job(step)[j + 1] = Op("read", 0)
  PROVE  Held /\ bytes' = bytes /\ failed' = FALSE /\ script' = Rest(Job(step), j + 1) /\ got' = 0
         /\ todo' = Rest(ReadFrom(m_nLastSDA), 0)
<1>1. /\ todo = << >> /\ todo' = Settings(Op("read", 0))
      /\ got' = IF "read" \in {"check", "read"} THEN 0 ELSE got
      /\ bytes' = IF "read" = "keep" THEN Append(bytes, got) ELSE bytes
      /\ failed' = (failed \/ ("read" = "test" /\ got = 1))
      /\ script' = IF "read" = "test" /\ got = 1 THEN GiveUp ELSE Rest(Job(step), j + 1)
      /\ Held
  <2>1. j \in Nat
    OBVIOUS
  <2> QED BY <2>1, CallStep, Zenon
<1>2. m_nLastSDA \in {0, 1} /\ m_nLastSCL \in {0, 1}
  BY DEF Typed
<1>3. ReadFrom(m_nLastSDA) \in Seq(Moves)
  BY <1>2, ReadIs
<1>4. Settings(Op("read", 0)) = ReadFrom(m_nLastSDA)
  BY SettingsAre
<1>5. todo' = Rest(ReadFrom(m_nLastSDA), 0)
  BY <1>1, <1>3, <1>4, Begin
<1> QED BY <1>1, <1>5

\* its acknowledgement,
LEMMA CallAck ==
  ASSUME Typed, Call, step \in Steps, failed = FALSE, NEW j \in 0 .. 17, j < Len(Job(step)),
         script = Rest(Job(step), j), NEW x \in {0, 1}, Job(step)[j + 1] = Op("ack", x)
  PROVE  Held /\ bytes' = bytes /\ failed' = FALSE /\ script' = Rest(Job(step), j + 1)
         /\ todo' = Rest(AckFrom(m_nLastSDA, x), 0)
<1>1. /\ todo = << >> /\ todo' = Settings(Op("ack", x))
      /\ got' = IF "ack" \in {"check", "read"} THEN 0 ELSE got
      /\ bytes' = IF "ack" = "keep" THEN Append(bytes, got) ELSE bytes
      /\ failed' = (failed \/ ("ack" = "test" /\ got = 1))
      /\ script' = IF "ack" = "test" /\ got = 1 THEN GiveUp ELSE Rest(Job(step), j + 1)
      /\ Held
  <2>1. j \in Nat
    OBVIOUS
  <2> QED BY <2>1, CallStep, Zenon
<1>2. m_nLastSDA \in {0, 1} /\ m_nLastSCL \in {0, 1}
  BY DEF Typed
<1>3. AckFrom(m_nLastSDA, x) \in Seq(Moves)
  BY <1>2, AckIs
<1>4. Settings(Op("ack", x)) = AckFrom(m_nLastSDA, x)
  BY SettingsAre
<1>5. todo' = Rest(AckFrom(m_nLastSDA, x), 0)
  BY <1>1, <1>3, <1>4, Begin
<1> QED BY <1>1, <1>5

\* the byte that is kept,
LEMMA CallKeep ==
  ASSUME Typed, Call, step \in Steps, failed = FALSE, NEW j \in 0 .. 17, j < Len(Job(step)),
         script = Rest(Job(step), j), Job(step)[j + 1] = Op("keep", 0)
  PROVE  Held /\ bytes' = Append(bytes, got) /\ failed' = FALSE /\ script' = Rest(Job(step), j + 1) /\ todo' = << >>
<1>1. /\ todo = << >> /\ todo' = Settings(Op("keep", 0))
      /\ got' = IF "keep" \in {"check", "read"} THEN 0 ELSE got
      /\ bytes' = IF "keep" = "keep" THEN Append(bytes, got) ELSE bytes
      /\ failed' = (failed \/ ("keep" = "test" /\ got = 1))
      /\ script' = IF "keep" = "test" /\ got = 1 THEN GiveUp ELSE Rest(Job(step), j + 1)
      /\ Held
  <2>1. j \in Nat
    OBVIOUS
  <2> QED BY <2>1, CallStep, Zenon
<1>2. Settings(Op("keep", 0)) = << >>
  BY SettingsAre
<1> QED BY <1>1, <1>2

\* and the test of an acknowledgement, which may end the transfer.
LEMMA CallTest ==
  ASSUME Typed, Call, step \in Steps, failed = FALSE, NEW j \in 0 .. 17, j < Len(Job(step)),
         script = Rest(Job(step), j), Job(step)[j + 1] = Op("test", 0)
  PROVE  /\ Held /\ bytes' = bytes /\ todo' = << >>
         /\ got # 1 => failed' = FALSE /\ script' = Rest(Job(step), j + 1)
         /\ got = 1 => failed' = TRUE /\ script' = Stop
<1>1. /\ todo = << >> /\ todo' = Settings(Op("test", 0))
      /\ got' = IF "test" \in {"check", "read"} THEN 0 ELSE got
      /\ bytes' = IF "test" = "keep" THEN Append(bytes, got) ELSE bytes
      /\ failed' = (failed \/ ("test" = "test" /\ got = 1))
      /\ script' = IF "test" = "test" /\ got = 1 THEN GiveUp ELSE Rest(Job(step), j + 1)
      /\ Held
  <2>1. j \in Nat
    OBVIOUS
  <2> QED BY <2>1, CallStep, Zenon
<1>2. Settings(Op("test", 0)) = << >>
  BY SettingsAre
<1> QED BY <1>1, <1>2 DEF GiveUp

\* The address with both directions is a byte.
LEMMA ByteOctets ==
  0 \in Octets /\ 1 \in Octets /\ 114 \in Octets /\ 115 \in Octets
BY OctetIs

\* The first start, the address, the register.
LEMMA CallFront ==
  ASSUME Typed, Call,
         \/ AtStart \/ Starting(3) \/ Byte1(25) \/ Check1(4) \/ Told1 \/ Byte2(25) \/ Check2(4)
  PROVE  Starting(0)' \/ Byte1(0)' \/ Check1(0)' \/ Told1' \/ Byte2(0)' \/ Check2(0)' \/ Told2' \/ GaveUp'
<1>0. step \in Steps /\ failed = FALSE /\ Prepared /\ bytes = << >>
  BY DEF AtStart, Starting, Byte1, Check1, Told1, Byte2, Check2, Common
<1>1. /\ Len(Job(step)) > 6
      /\ Job(step)[1] = Op("start", 0) /\ Job(step)[2] = Op("write", 114) /\ Job(step)[3] = Op("check", 0)
      /\ Job(step)[4] = Op("test", 0)
      /\ Job(step)[5] = Op("write", 128 + Reg(step)) /\ Job(step)[6] = Op("check", 0) /\ Job(step)[7] = Op("test", 0)
      /\ Len(Job(step)) \in Nat
  BY <1>0, JobIs
<1>2. 128 + Reg(step) \in Octets
  BY <1>0, StepIs
<1>3. CASE AtStart
  <2>1. script = Rest(Job(step), 0) /\ Job(step)[0 + 1] = Op("start", 0) /\ 0 < Len(Job(step))
    BY <1>1, <1>3 DEF AtStart, Common
  <2>2. Held /\ failed' = FALSE /\ script' = Rest(Job(step), 0 + 1) /\ bytes' = bytes /\ todo' = Rest(StartFrom(m_nLastSCL), 0)
    BY <1>0, <2>1, CallStart, 0 \in 0 .. 17, Zenon
  <2>3. Prepared' /\ Wires(1, 1)' /\ (Stuck => Stuck') /\ (Dirty(0) => Dirty(0)') /\ m_nLastSCL = 1
    BY <1>0, <1>3, <2>2, HeldKeeps DEF AtStart, Wires
  <2> QED BY <1>0, <1>3, <2>2, <2>3 DEF AtStart, Starting, Held, Common
<1>4. CASE Starting(3)
  <2>1. script = Rest(Job(step), 1) /\ Job(step)[1 + 1] = Op("write", 114) /\ 1 < Len(Job(step))
    BY <1>1, <1>4 DEF Starting, Common
  <2>2. Held /\ failed' = FALSE /\ script' = Rest(Job(step), 1 + 1) /\ bytes' = bytes /\ todo' = Rest(WriteFrom(m_nLastSDA, 114), 0)
    BY <1>0, <2>1, CallWrite, ByteOctets, 1 \in 0 .. 17, Zenon
  <2>3. Prepared' /\ Wires(0, 1)' /\ (Stuck => Stuck') /\ (Dirty(0) => Dirty(0)') /\ m_nLastSDA = 0
    BY <1>0, <1>4, <2>2, HeldKeeps DEF Starting, Wires
  <2>4. slave = Bare("addr") => Writing("addr", 114, 0)'
    BY <2>2 DEF Writing, Held
  <2> QED BY <1>0, <1>4, <2>2, <2>3, <2>4 DEF Starting, Byte1, Held, Common
<1>5. CASE Byte1(25)
  <2>1. script = Rest(Job(step), 2) /\ Job(step)[2 + 1] = Op("check", 0) /\ 2 < Len(Job(step))
    BY <1>1, <1>5 DEF Byte1, Common
  <2>2. Held /\ failed' = FALSE /\ script' = Rest(Job(step), 2 + 1) /\ bytes' = bytes /\ todo' = Rest(CheckFrom(m_nLastSDA), 0) /\ got' = 0
    BY <1>0, <2>1, CallCheck, 2 \in 0 .. 17, Zenon
  <2>3. Prepared' /\ (Dirty(1) => Dirty(1)')
    BY <1>0, <2>2, HeldKeeps
  <2>4. ASSUME NEW st, Writing(st, 114, 25) PROVE Checking(st, 114, 0)'
    <3>1. m_nLastSCL = 0 /\ Heard(st, 114)
      BY <2>4 DEF Writing
    <3>2. Heard(st, 114)'
      BY <2>2, <3>1, HeldKeeps
    <3> QED BY <2>2, <3>1, <3>2 DEF Checking, Held
  <2>5. \E a \in {0, 1} : todo' = Rest(CheckFrom(a), 0)
    BY <2>2 DEF Typed
  <2> QED BY <1>0, <1>5, <2>2, <2>3, <2>4, <2>5 DEF Byte1, Check1, Held, Common
<1>6. CASE Check1(4)
  <2>1. script = Rest(Job(step), 3) /\ Job(step)[3 + 1] = Op("test", 0) /\ 3 < Len(Job(step))
    BY <1>1, <1>6 DEF Check1, Common
  <2>2. /\ Held /\ bytes' = bytes /\ todo' = << >>
        /\ got # 1 => failed' = FALSE /\ script' = Rest(Job(step), 3 + 1)
        /\ got = 1 => failed' = TRUE /\ script' = Stop
    BY <1>0, <2>1, CallTest, 3 \in 0 .. 17, Zenon
  <2>3. Prepared' /\ Wires(1, 0)' /\ (Lost => Lost') /\ (Dirty(2) => Dirty(2)')
    BY <1>0, <1>6, <2>2, HeldKeeps DEF Check1
  <2> QED BY <1>0, <1>6, <2>2, <2>3 DEF Check1, Told1, GaveUp, Held, Common
<1>7. CASE Told1
  <2>1. script = Rest(Job(step), 4) /\ Job(step)[4 + 1] = Op("write", 128 + Reg(step)) /\ 4 < Len(Job(step))
    BY <1>1, <1>7 DEF Told1, Common
  <2>2. Held /\ failed' = FALSE /\ script' = Rest(Job(step), 4 + 1) /\ bytes' = bytes /\ todo' = Rest(WriteFrom(m_nLastSDA, 128 + Reg(step)), 0)
    BY <1>0, <1>2, <2>1, CallWrite, 4 \in 0 .. 17, Zenon
  <2>3. Prepared' /\ (Dirty(2) => Dirty(2)') /\ m_nLastSDA = 1 /\ Reg(step)' = Reg(step)
    BY <1>0, <1>7, <2>2, HeldKeeps DEF Told1, Wires, Held
  <2>4. \A st, b : slave = Bare(st) => Writing(st, b, 0)'
    BY <2>2 DEF Writing, Held
  <2> QED BY <1>0, <1>7, <2>2, <2>3, <2>4 DEF Told1, Byte2, Held, Common
<1>8. CASE Byte2(25)
  <2>1. script = Rest(Job(step), 5) /\ Job(step)[5 + 1] = Op("check", 0) /\ 5 < Len(Job(step))
    BY <1>1, <1>8 DEF Byte2, Common
  <2>2. Held /\ failed' = FALSE /\ script' = Rest(Job(step), 5 + 1) /\ bytes' = bytes /\ todo' = Rest(CheckFrom(m_nLastSDA), 0) /\ got' = 0
    BY <1>0, <2>1, CallCheck, 5 \in 0 .. 17, Zenon
  <2>3. Prepared' /\ (Dirty(2) => Dirty(2)') /\ Reg(step)' = Reg(step)
    BY <1>0, <2>2, HeldKeeps DEF Held
  <2>4. ASSUME NEW st, NEW b, Writing(st, b, 25) PROVE Checking(st, b, 0)'
    <3>1. m_nLastSCL = 0 /\ Heard(st, b)
      BY <2>4 DEF Writing
    <3>2. Heard(st, b)'
      BY <2>2, <3>1, HeldKeeps
    <3> QED BY <2>2, <3>1, <3>2 DEF Checking, Held
  <2>5. \E a \in {0, 1} : todo' = Rest(CheckFrom(a), 0)
    BY <2>2 DEF Typed
  <2> QED BY <1>0, <1>8, <2>2, <2>3, <2>4, <2>5 DEF Byte2, Check2, Held, Common
<1>9. CASE Check2(4)
  <2>1. script = Rest(Job(step), 6) /\ Job(step)[6 + 1] = Op("test", 0) /\ 6 < Len(Job(step))
    BY <1>1, <1>9 DEF Check2, Common
  <2>2. /\ Held /\ bytes' = bytes /\ todo' = << >>
        /\ got # 1 => failed' = FALSE /\ script' = Rest(Job(step), 6 + 1)
        /\ got = 1 => failed' = TRUE /\ script' = Stop
    BY <1>0, <2>1, CallTest, 6 \in 0 .. 17, Zenon
  <2>3. Prepared' /\ Wires(1, 0)' /\ (Lost => Lost') /\ (Aimed => Aimed')
    BY <1>0, <1>9, <2>2, HeldKeeps DEF Check2
  <2> QED BY <1>0, <1>9, <2>2, <2>3 DEF Check2, Told2, GaveUp, Held, Common
<1> QED BY <1>3, <1>4, <1>5, <1>6, <1>7, <1>8, <1>9

\* The byte that is written, and the stop.
LEMMA CallWrites ==
  ASSUME Typed, Call, step \in Writers, Told2 \/ Byte3(25) \/ Check3(4) \/ Told3
  PROVE  Byte3(0)' \/ Check3(0)' \/ Told3' \/ Stop3(0)' \/ GaveUp'
<1>0. step \in Steps /\ failed = FALSE
  BY DEF Told2, Byte3, Check3, Told3, Common, Steps
<1>1. /\ Len(Job(step)) = 11
      /\ Job(step)[8] = Op("write", Val(step)) /\ Job(step)[9] = Op("check", 0) /\ Job(step)[10] = Op("test", 0)
      /\ Job(step)[11] = Op("stop", 0)
  <2>1. step # "id" /\ step \notin Readers
    BY DEF Writers, Readers
  <2> QED BY <1>0, <2>1, JobIs
<1>2. Val(step) \in Octets
  BY <1>0, StepIs
<1>3. CASE Told2
  <2>1. script = Rest(Job(step), 7) /\ Job(step)[7 + 1] = Op("write", Val(step)) /\ 7 < Len(Job(step))
    BY <1>1, <1>3 DEF Told2, Common
  <2>2. Held /\ failed' = FALSE /\ script' = Rest(Job(step), 7 + 1) /\ bytes' = bytes /\ todo' = Rest(WriteFrom(m_nLastSDA, Val(step)), 0)
    BY <1>0, <1>2, <2>1, CallWrite, 7 \in 0 .. 17, Zenon
  <2>3. Prepared' /\ Aimed' /\ m_nLastSDA = 1 /\ Val(step)' = Val(step)
    BY <1>0, <1>3, <2>2, HeldKeeps DEF Told2, Wires, Held
  <2>4. Writing("data", Val(step), 0)'
    BY <1>3, <2>2 DEF Told2, Writing, Held
  <2> QED BY <1>0, <1>3, <2>2, <2>3, <2>4 DEF Told2, Byte3, Held, Common
<1>4. CASE Byte3(25)
  <2>1. script = Rest(Job(step), 8) /\ Job(step)[8 + 1] = Op("check", 0) /\ 8 < Len(Job(step))
    BY <1>1, <1>4 DEF Byte3, Common
  <2>2. Held /\ failed' = FALSE /\ script' = Rest(Job(step), 8 + 1) /\ bytes' = bytes /\ todo' = Rest(CheckFrom(m_nLastSDA), 0) /\ got' = 0
    BY <1>0, <2>1, CallCheck, 8 \in 0 .. 17, Zenon
  <2>3. Prepared' /\ Aimed' /\ Val(step)' = Val(step)
    BY <1>4, <2>2, HeldKeeps DEF Byte3, Held
  <2>4. Checking("data", Val(step), 0)'
    <3> PICK b : b = Val(step)
      OBVIOUS
    <3>1. m_nLastSCL = 0 /\ Heard("data", b)
      BY <1>4 DEF Byte3, Writing
    <3>2. Heard("data", b)'
      BY <2>2, <3>1, HeldKeeps
    <3> QED BY <2>2, <2>3, <3>1, <3>2 DEF Checking, Held
  <2>5. \E a \in {0, 1} : todo' = Rest(CheckFrom(a), 0)
    BY <2>2 DEF Typed
  <2> QED BY <1>0, <1>4, <2>2, <2>3, <2>4, <2>5 DEF Byte3, Check3, Held, Common
<1>5. CASE Check3(4)
  <2>1. script = Rest(Job(step), 9) /\ Job(step)[9 + 1] = Op("test", 0) /\ 9 < Len(Job(step))
    BY <1>1, <1>5 DEF Check3, Common
  <2>2. /\ Held /\ bytes' = bytes /\ todo' = << >>
        /\ got # 1 => failed' = FALSE /\ script' = Rest(Job(step), 9 + 1)
        /\ got = 1 => failed' = TRUE /\ script' = Stop
    BY <1>0, <2>1, CallTest, 9 \in 0 .. 17, Zenon
  <2>3. Wires(1, 0)' /\ (Lost => Lost') /\ (Done => Done')
    BY <1>0, <1>5, <2>2, HeldKeeps DEF Check3
  <2> QED BY <1>0, <1>5, <2>2, <2>3 DEF Check3, Told3, GaveUp, Held, Common
<1>6. CASE Told3
  <2>1. script = Rest(Job(step), 10) /\ Job(step)[10 + 1] = Op("stop", 0) /\ 10 < Len(Job(step))
    BY <1>1, <1>6 DEF Told3, Common
  <2>2. Held /\ failed' = FALSE /\ script' = Rest(Job(step), 10 + 1) /\ bytes' = bytes /\ todo' = Rest(StopAfter(m_nLastSCL), 0)
    BY <1>0, <2>1, CallStop, 10 \in 0 .. 17, Zenon
  <2>3. Done' /\ m_nLastSCL = 0
    BY <1>6, <2>2, HeldKeeps DEF Told3, Wires
  <2>4. Stopping(0)'
    BY <1>6, <2>2, <2>3 DEF Told3, Stopping, Held, Bare
  <2> QED BY <1>0, <1>6, <2>2, <2>3, <2>4 DEF Told3, Stop3, Held, Common
<1> QED BY <1>3, <1>4, <1>5, <1>6

\* The second byte of a word goes behind the first.
LEMMA AppendIs ==
  ASSUME NEW x \in Nat, NEW y \in Nat
  PROVE  Append(<<x>>, y) = <<x, y>>
<1> DEFINE f == <<x>>
<1> DEFINE g == Append(f, y)
<1> DEFINE h == <<x, y>>
<1>1. f \in Seq(Nat) /\ Len(f) = 1 /\ f[1] = x
  OBVIOUS
<1>2. h \in Seq(Nat) /\ Len(h) = 2 /\ h[1] = x /\ h[2] = y
  OBVIOUS
<1> HIDE DEF f, h
<1>3. g \in Seq(Nat) /\ Len(g) = 2 /\ g[1] = x /\ g[2] = y
  <2>1. ASSUME NEW s \in Seq(Nat), NEW e \in Nat
        PROVE  /\ Append(s, e) \in Seq(Nat) /\ Len(Append(s, e)) = Len(s) + 1
               /\ \A i \in 1 .. Len(s) : Append(s, e)[i] = s[i]
               /\ Append(s, e)[Len(s) + 1] = e
    OBVIOUS
  <2>2. /\ g \in Seq(Nat) /\ Len(g) = Len(f) + 1 /\ \A i \in 1 .. Len(f) : g[i] = f[i]
        /\ g[Len(f) + 1] = y
    BY <1>1, <2>1, Zenon
  <2> HIDE DEF g
  <2> QED BY <1>1, <2>2
<1> HIDE DEF g
<1>4. \A i \in 1 .. 2 : g[i] = h[i]
  BY <1>2, <1>3
<1>5. g = h
  BY <1>2, <1>3, <1>4
<1> QED BY <1>5 DEF f, g, h

\* The functions of a transfer that reads.
LEMMA ReaderIs ==
  ASSUME NEW s \in Readers
  PROVE  /\ Len(Job(s)) = IF s = "id" THEN 15 ELSE 18
         /\ Job(s)[8] = Op("start", 0) /\ Job(s)[9] = Op("write", 115) /\ Job(s)[10] = Op("check", 0)
         /\ Job(s)[11] = Op("test", 0) /\ Job(s)[12] = Op("read", 0) /\ Job(s)[13] = Op("keep", 0)
         /\ s = "id" => Job(s)[14] = Op("ack", 1) /\ Job(s)[15] = Op("stop", 0)
         /\ s # "id" => /\ Job(s)[14] = Op("ack", 0) /\ Job(s)[15] = Op("read", 0)
                        /\ Job(s)[16] = Op("keep", 0) /\ Job(s)[17] = Op("ack", 1) /\ Job(s)[18] = Op("stop", 0)
<1>1. s \in Steps /\ (s # "id" => s \in {"data0", "data1"})
  BY DEF Steps, Readers
<1>2. Len(Job(s)) = IF s = "id" THEN 15 ELSE IF s \in Readers THEN 18 ELSE 11
  BY <1>1, JobIs, Zenon
<1>3. /\ Job(s)[8] = Op("start", 0) /\ Job(s)[9] = Op("write", 115) /\ Job(s)[10] = Op("check", 0)
      /\ Job(s)[11] = Op("test", 0) /\ Job(s)[12] = Op("read", 0) /\ Job(s)[13] = Op("keep", 0)
  BY <1>1, JobIs, Zenon
<1>4. s = "id" => Job(s)[14] = Op("ack", 1) /\ Job(s)[15] = Op("stop", 0)
  BY <1>1, JobIs, Zenon
<1>5. s # "id" => /\ Job(s)[14] = Op("ack", 0) /\ Job(s)[15] = Op("read", 0)
                  /\ Job(s)[16] = Op("keep", 0) /\ Job(s)[17] = Op("ack", 1) /\ Job(s)[18] = Op("stop", 0)
  BY <1>1, JobIs, Zenon
<1> QED BY <1>2, <1>3, <1>4, <1>5

\* The second start and the address.
LEMMA CallSelect ==
  ASSUME Typed, Call, step \in Readers, Told2 \/ Again(3) \/ Byte4(25) \/ Check4(4) \/ Told4
  PROVE  Again(0)' \/ Byte4(0)' \/ Check4(0)' \/ Told4' \/ Read1(0)' \/ GaveUp'
<1>0. step \in Steps /\ failed = FALSE /\ Prepared /\ bytes = << >>
  BY DEF Told2, Again, Byte4, Check4, Told4, Common, Steps
<1>1. /\ Len(Job(step)) > 14 /\ Len(Job(step)) \in Nat
      /\ Job(step)[8] = Op("start", 0) /\ Job(step)[9] = Op("write", 115) /\ Job(step)[10] = Op("check", 0)
      /\ Job(step)[11] = Op("test", 0) /\ Job(step)[12] = Op("read", 0)
  BY ReaderIs
<1>3. CASE Told2
  <2>1. script = Rest(Job(step), 7) /\ Job(step)[7 + 1] = Op("start", 0) /\ 7 < Len(Job(step))
    BY <1>1, <1>3 DEF Told2, Common
  <2>2. Held /\ failed' = FALSE /\ script' = Rest(Job(step), 7 + 1) /\ bytes' = bytes /\ todo' = Rest(StartFrom(m_nLastSCL), 0)
    BY <1>0, <2>1, CallStart, 7 \in 0 .. 17, Zenon
  <2>3. Prepared' /\ Aimed' /\ Wires(1, 0)' /\ m_nLastSCL = 0
    BY <1>0, <1>3, <2>2, HeldKeeps DEF Told2, Wires
  <2> QED BY <1>0, <1>3, <2>2, <2>3 DEF Told2, Again, Held, Common
<1>4. CASE Again(3)
  <2>1. script = Rest(Job(step), 8) /\ Job(step)[8 + 1] = Op("write", 115) /\ 8 < Len(Job(step))
    BY <1>1, <1>4 DEF Again, Common
  <2>2. Held /\ failed' = FALSE /\ script' = Rest(Job(step), 8 + 1) /\ bytes' = bytes /\ todo' = Rest(WriteFrom(m_nLastSDA, 115), 0)
    BY <1>0, <2>1, CallWrite, ByteOctets, 8 \in 0 .. 17, Zenon
  <2>3. Prepared' /\ Aimed' /\ m_nLastSDA = 0
    BY <1>0, <1>4, <2>2, HeldKeeps DEF Again, Wires
  <2>4. Writing("addr", 115, 0)'
    BY <1>4, <2>2 DEF Again, Writing, Held
  <2> QED BY <1>0, <1>4, <2>2, <2>3, <2>4 DEF Again, Byte4, Held, Common
<1>5. CASE Byte4(25)
  <2>1. script = Rest(Job(step), 9) /\ Job(step)[9 + 1] = Op("check", 0) /\ 9 < Len(Job(step))
    BY <1>1, <1>5 DEF Byte4, Common
  <2>2. Held /\ failed' = FALSE /\ script' = Rest(Job(step), 9 + 1) /\ bytes' = bytes /\ todo' = Rest(CheckFrom(m_nLastSDA), 0) /\ got' = 0
    BY <1>0, <2>1, CallCheck, 9 \in 0 .. 17, Zenon
  <2>3. Prepared' /\ Aimed'
    BY <1>5, <2>2, HeldKeeps DEF Byte4
  <2>4. Checking("addr", 115, 0)'
    <3>1. m_nLastSCL = 0 /\ Heard("addr", 115)
      BY <1>5 DEF Byte4, Writing
    <3>2. Heard("addr", 115)'
      BY <2>2, <3>1, HeldKeeps
    <3> QED BY <2>2, <3>1, <3>2 DEF Checking, Held
  <2>5. \E a \in {0, 1} : todo' = Rest(CheckFrom(a), 0)
    BY <2>2 DEF Typed
  <2> QED BY <1>0, <1>5, <2>2, <2>3, <2>4, <2>5 DEF Byte4, Check4, Held, Common
<1>6. CASE Check4(4)
  <2>1. script = Rest(Job(step), 10) /\ Job(step)[10 + 1] = Op("test", 0) /\ 10 < Len(Job(step))
    BY <1>1, <1>6 DEF Check4, Common
  <2>2. /\ Held /\ bytes' = bytes /\ todo' = << >>
        /\ got # 1 => failed' = FALSE /\ script' = Rest(Job(step), 10 + 1)
        /\ got = 1 => failed' = TRUE /\ script' = Stop
    BY <1>0, <2>1, CallTest, 10 \in 0 .. 17, Zenon
  <2>3. Prepared' /\ Wires(1, 0)' /\ (Lost => Lost') /\ (Behind => Behind')
    BY <1>0, <1>6, <2>2, HeldKeeps DEF Check4
  <2>4. \/ got = 1 /\ Lost
        \/ got = 0 /\ Behind /\ \E v \in Octets : Sending(v, 0, Bit(v, 7)) /\ Fits(1, v)
    BY <1>6 DEF Check4
  <2>5. CASE got = 1 /\ Lost
    BY <1>0, <2>2, <2>3, <2>5, <1>6 DEF Check4, GaveUp, Held, Common
  <2>6. CASE got = 0 /\ Behind /\ \E v \in Octets : Sending(v, 0, Bit(v, 7)) /\ Fits(1, v)
    <3> PICK v \in Octets : Sending(v, 0, Bit(v, 7)) /\ Fits(1, v)
      BY <2>6
    <3>1. Sending(v, 0, Bit(v, 7))' /\ Fits(1, v)'
      BY <2>2, HeldKeeps DEF Held, Sending
    <3>2. \E x \in Octets : Sending(x, 0, Bit(x, 7))' /\ Fits(1, x)'
      BY <3>1
    <3> QED BY <1>0, <2>2, <2>3, <2>6, <3>2, <1>6 DEF Check4, Told4, Held, Common
  <2> QED BY <2>4, <2>5, <2>6
<1>7. CASE Told4
  <2>1. script = Rest(Job(step), 11) /\ Job(step)[11 + 1] = Op("read", 0) /\ 11 < Len(Job(step))
    BY <1>1, <1>7 DEF Told4, Common
  <2>2. Held /\ failed' = FALSE /\ script' = Rest(Job(step), 11 + 1) /\ bytes' = bytes /\ todo' = Rest(ReadFrom(m_nLastSDA), 0) /\ got' = 0
    BY <1>0, <2>1, CallRead, 11 \in 0 .. 17, Zenon
  <2>3. Prepared' /\ Behind' /\ m_nLastSDA = 1
    BY <1>7, <2>2, HeldKeeps DEF Told4, Wires
  <2> PICK v \in Octets : Sending(v, 0, Bit(v, 7)) /\ Fits(1, v)
    BY <1>7 DEF Told4
  <2>4. Reading(v, 0)'
    BY <1>7, <2>2 DEF Told4, Reading, Sending, Wires, Held
  <2>5. Fits(1, v)'
    BY <2>2, HeldKeeps
  <2>6. \E x \in Octets : Reading(x, 0)' /\ Fits(1, x)'
    BY <2>4, <2>5
  <2> QED BY <1>0, <1>7, <2>2, <2>3, <2>6 DEF Told4, Read1, Held, Common
<1> QED BY <1>3, <1>4, <1>5, <1>6, <1>7

\* The bytes that are read.
LEMMA CallReads ==
  ASSUME Typed, Call, step \in Readers, Read1(18) \/ Kept1 \/ Ack1(5)
  PROVE  Kept1' \/ Ack1(0)' \/ Read2(0)' \/ Stop4(0)'
<1>0. step \in Steps /\ failed = FALSE /\ Prepared
  BY DEF Read1, Kept1, Ack1, Common, Steps
<1>1. /\ Len(Job(step)) > 14 /\ Len(Job(step)) \in Nat
      /\ Job(step)[13] = Op("keep", 0)
      /\ Job(step)[14] = Op("ack", IF step = "id" THEN 1 ELSE 0)
      /\ step = "id" => Job(step)[15] = Op("stop", 0)
      /\ step # "id" => Job(step)[15] = Op("read", 0)
  BY ReaderIs
<1>3. CASE Read1(18)
  <2>1. script = Rest(Job(step), 12) /\ Job(step)[12 + 1] = Op("keep", 0) /\ 12 < Len(Job(step))
    BY <1>1, <1>3 DEF Read1, Common
  <2>2. Held /\ failed' = FALSE /\ script' = Rest(Job(step), 12 + 1) /\ bytes' = Append(bytes, got) /\ todo' = << >>
    BY <1>0, <2>1, CallKeep, 12 \in 0 .. 17, Zenon
  <2> PICK v \in Octets : Reading(v, 18) /\ Fits(1, v)
    BY <1>3 DEF Read1
  <2>3. Sending(v, 8, 1) /\ got = v /\ Wires(1, 0)
    BY DEF Reading, Wires
  <2>4. Prepared' /\ Behind' /\ Wires(1, 0)' /\ Fits(1, v)'
    BY <1>3, <2>2, <2>3, HeldKeeps DEF Read1
  <2>5. Sending(v, 8, 1)'
    BY <2>2, <2>3 DEF Held, Sending
  <2>6. bytes' = <<v>>
    BY <1>3, <2>2, <2>3 DEF Read1
  <2>7. \E x \in Octets : Sending(x, 8, 1)' /\ Fits(1, x)' /\ bytes' = <<x>>
    BY <2>4, <2>5, <2>6
  <2> QED BY <1>0, <2>2, <2>4, <2>7 DEF Kept1, Held, Common
<1>4. CASE Kept1
  <2> DEFINE l == IF step = "id" THEN 1 ELSE 0
  <2>1. script = Rest(Job(step), 13) /\ Job(step)[13 + 1] = Op("ack", l) /\ 13 < Len(Job(step))
    BY <1>1, <1>4 DEF Kept1, Common
  <2>0. l \in {0, 1}
    OBVIOUS
  <2> HIDE DEF l
  <2>2. Held /\ failed' = FALSE /\ script' = Rest(Job(step), 13 + 1) /\ bytes' = bytes /\ todo' = Rest(AckFrom(m_nLastSDA, l), 0)
    BY <1>0, <2>0, <2>1, CallAck, 13 \in 0 .. 17, Zenon
  <2>3. Prepared' /\ Behind' /\ m_nLastSDA = 1 /\ m_nLastSCL = 0
    BY <1>4, <2>2, HeldKeeps DEF Kept1, Wires
  <2> PICK v \in Octets : Sending(v, 8, 1) /\ Fits(1, v) /\ bytes = <<v>>
    BY <1>4 DEF Kept1
  <2>4. Fits(1, v)' /\ bytes' = <<v>>
    BY <2>2, HeldKeeps
  <2>5. Acking(l, v, 0)'
    <3>1. l' = l
      BY <2>2 DEF Held, l
    <3> QED BY <2>2, <2>3, <3>1 DEF Acking, Sending, Held
  <2>6. \E x \in Octets : Fits(1, x)' /\ bytes' = <<x>> /\ (0 < 4 => Acking(l, x, 0)' /\ Behind')
    BY <2>3, <2>4, <2>5
  <2>7. l' = l /\ step' = step
    BY <2>2 DEF Held, l
  <2> QED BY <1>0, <2>2, <2>3, <2>6, <2>7 DEF Ack1, Common, l
<1>5. CASE Ack1(5)
  <2>0. /\ script = Rest(Job(step), 14) /\ m_nLastSDA = 1 /\ m_nLastSCL = 0
        /\ \E v \in Octets : Fits(1, v) /\ bytes = <<v>>
        /\ step = "id" => Mute
        /\ step # "id" => \E w \in Octets : Sending(w, 0, Bit(w, 7)) /\ Fits(2, w)
    BY <1>5 DEF Ack1, Common, Wires
  <2> PICK v \in Octets : Fits(1, v) /\ bytes = <<v>>
    BY <2>0
  <2>1. CASE step = "id"
    <3>1. Job(step)[14 + 1] = Op("stop", 0) /\ 14 < Len(Job(step))
      BY <1>1, <2>1
    <3>2. Held /\ failed' = FALSE /\ script' = Rest(Job(step), 14 + 1) /\ bytes' = bytes /\ todo' = Rest(StopAfter(m_nLastSCL), 0)
      BY <1>0, <2>0, <3>1, CallStop, 14 \in 0 .. 17, Zenon
    <3>3. Prepared' /\ Fits(1, v)' /\ bytes' = <<v>>
      BY <1>0, <3>2, HeldKeeps
    <3>4. Stopping(0)'
      BY <2>0, <2>1, <3>2 DEF Stopping, Held, Mute
    <3>5. \E x \in Octets : Fits(1, x)' /\ bytes' = <<x>>
      BY <3>3
    <3> QED BY <2>0, <2>1, <3>2, <3>3, <3>4, <3>5 DEF Stop4, Held, Common
  <2>2. CASE step # "id"
    <3>1. Job(step)[14 + 1] = Op("read", 0) /\ 14 < Len(Job(step)) /\ step \in {"data0", "data1"}
      BY <1>1, <2>2 DEF Readers
    <3>2. Held /\ failed' = FALSE /\ script' = Rest(Job(step), 14 + 1) /\ bytes' = bytes /\ todo' = Rest(ReadFrom(m_nLastSDA), 0) /\ got' = 0
      BY <1>0, <2>0, <3>1, CallRead, 14 \in 0 .. 17, Zenon
    <3> PICK w \in Octets : Sending(w, 0, Bit(w, 7)) /\ Fits(2, w)
      BY <2>0, <2>2
    <3>3. Prepared' /\ Fits(1, v)' /\ Fits(2, w)' /\ bytes' = <<v>>
      BY <1>0, <3>2, HeldKeeps
    <3>4. Reading(w, 0)'
      BY <2>0, <3>2 DEF Reading, Sending, Held
    <3>5. (\E x \in Octets : Fits(1, x)' /\ bytes' = <<x>>) /\ (\E x \in Octets : Reading(x, 0)' /\ Fits(2, x)')
      BY <3>3, <3>4
    <3> QED BY <2>0, <3>1, <3>2, <3>3, <3>5 DEF Read2, Held, Common
  <2> QED BY <2>1, <2>2
<1> QED BY <1>3, <1>4, <1>5

\* The second byte.
LEMMA CallSecond ==
  ASSUME Typed, Call, step \in {"data0", "data1"}, Read2(18) \/ Kept2 \/ Ack2(5)
  PROVE  Kept2' \/ Ack2(0)' \/ Stop4(0)'
<1>0. step \in Steps /\ failed = FALSE /\ Prepared /\ step \in Readers /\ step # "id"
  BY DEF Read2, Kept2, Ack2, Common, Steps, Readers
<1>1. /\ Len(Job(step)) = 18
      /\ Job(step)[16] = Op("keep", 0) /\ Job(step)[17] = Op("ack", 1) /\ Job(step)[18] = Op("stop", 0)
  BY <1>0, JobIs
<1>3. CASE Read2(18)
  <2>1. script = Rest(Job(step), 15) /\ Job(step)[15 + 1] = Op("keep", 0) /\ 15 < Len(Job(step))
    BY <1>1, <1>3 DEF Read2, Common
  <2>2. Held /\ failed' = FALSE /\ script' = Rest(Job(step), 15 + 1) /\ bytes' = Append(bytes, got) /\ todo' = << >>
    BY <1>0, <2>1, CallKeep, 15 \in 0 .. 17, Zenon
  <2> PICK v \in Octets : Fits(1, v) /\ bytes = <<v>>
    BY <1>3 DEF Read2
  <2> PICK w \in Octets : Reading(w, 18) /\ Fits(2, w)
    BY <1>3 DEF Read2
  <2>3. Sending(w, 8, 1) /\ got = w /\ Wires(1, 0)
    BY DEF Reading, Wires
  <2>4. Prepared' /\ Wires(1, 0)' /\ Fits(1, v)' /\ Fits(2, w)'
    BY <1>0, <2>2, <2>3, HeldKeeps
  <2>5. Sending(w, 8, 1)'
    BY <2>2, <2>3 DEF Held, Sending
  <2>a. Append(<<v>>, w) = <<v, w>>
    BY AppendIs, OctetIs
  <2>6. bytes' = <<v, w>>
    BY <2>2, <2>3, <2>a, Zenon
  <2>7. \E x, y \in Octets : Sending(y, 8, 1)' /\ Fits(1, x)' /\ Fits(2, y)' /\ bytes' = <<x, y>>
    BY <2>4, <2>5, <2>6
  <2>8. Common({"data0", "data1"}, 16)'
    BY <1>0, <2>2 DEF Held, Common
  <2> QED BY <2>2, <2>4, <2>7, <2>8 DEF Kept2
<1>4. CASE Kept2
  <2>1. script = Rest(Job(step), 16) /\ Job(step)[16 + 1] = Op("ack", 1) /\ 16 < Len(Job(step))
    BY <1>1, <1>4 DEF Kept2, Common
  <2>2. Held /\ failed' = FALSE /\ script' = Rest(Job(step), 16 + 1) /\ bytes' = bytes /\ todo' = Rest(AckFrom(m_nLastSDA, 1), 0)
    BY <1>0, <2>1, CallAck, 1 \in {0, 1}, 16 \in 0 .. 17, Zenon
  <2>3. Prepared' /\ m_nLastSDA = 1 /\ m_nLastSCL = 0
    BY <1>4, <2>2, HeldKeeps DEF Kept2, Wires
  <2> PICK v \in Octets, w \in Octets : Sending(w, 8, 1) /\ Fits(1, v) /\ Fits(2, w) /\ bytes = <<v, w>>
    BY <1>4 DEF Kept2
  <2>4. Fits(1, v)' /\ Fits(2, w)' /\ bytes' = <<v, w>>
    BY <2>2, HeldKeeps
  <2>5. Acking(1, w, 0)'
    BY <2>2, <2>3 DEF Acking, Sending, Held
  <2>6. \E x, y \in Octets : Fits(1, x)' /\ Fits(2, y)' /\ bytes' = <<x, y>> /\ (0 < 4 => Acking(1, y, 0)')
    BY <2>4, <2>5
  <2> QED BY <1>0, <2>2, <2>3, <2>6 DEF Ack2, Held, Common
<1>5. CASE Ack2(5)
  <2>1. script = Rest(Job(step), 17) /\ Job(step)[17 + 1] = Op("stop", 0) /\ 17 < Len(Job(step)) /\ m_nLastSCL = 0
    BY <1>1, <1>5 DEF Ack2, Common, Wires
  <2>2. Held /\ failed' = FALSE /\ script' = Rest(Job(step), 17 + 1) /\ bytes' = bytes /\ todo' = Rest(StopAfter(m_nLastSCL), 0)
    BY <1>0, <2>1, CallStop, 17 \in 0 .. 17, Zenon
  <2> PICK v \in Octets, w \in Octets : Fits(1, v) /\ Fits(2, w) /\ bytes = <<v, w>>
    BY <1>5 DEF Ack2
  <2>3. Prepared' /\ Fits(1, v)' /\ Fits(2, w)' /\ bytes' = <<v, w>>
    BY <1>0, <2>2, HeldKeeps
  <2>4. Stopping(0)'
    BY <1>5, <2>1, <2>2 DEF Ack2, Stopping, Held, Mute
  <2>5. \E x, y \in Octets : Fits(1, x)' /\ Fits(2, y)' /\ bytes' = <<x, y>>
    BY <2>3
  <2> QED BY <1>0, <2>1, <2>2, <2>3, <2>4, <2>5 DEF Stop4, Held, Common
<1> QED BY <1>3, <1>4, <1>5

\* The stop of a transfer that failed, and i2c_master_init().
LEMMA CallOthers ==
  ASSUME Typed, Call, GaveUp \/ InitCall
  PROVE  StopF(0)' \/ InitAt(0)'
<1>1. CASE GaveUp
  <2>1. script = <<Op("stop", 0)>> /\ Op("stop", 0).op = "stop" /\ m_nLastSCL = 0
    BY <1>1 DEF GaveUp, Stop, Op, Wires
  <2>2. Head(script) = Op("stop", 0) /\ Tail(script) = << >>
    BY <2>1
  <2>3. Held /\ todo' = Settings(Op("stop", 0)) /\ script' = << >> /\ failed' = TRUE
    BY <1>1, <2>1, <2>2, Zenon DEF Call, Held, GaveUp
  <2>4. StopAfter(0) \in Seq(Moves)
    BY StopIs
  <2>5. todo' = Rest(StopAfter(0), 0)
    BY <2>1, <2>3, <2>4, SettingsAre, Begin
  <2>6. Stopping(0)' /\ misses' = 0
    BY <1>1, <2>1, <2>3 DEF Stopping, GaveUp, Lost, Held
  <2> QED BY <1>1, <2>3, <2>5, <2>6 DEF StopF, GaveUp, Held
<1>2. CASE InitCall
  <2>1. script = <<Op("init", 0)>> /\ Op("init", 0).op = "init"
    BY <1>2 DEF InitCall, Op
  <2>2. Head(script) = Op("init", 0) /\ Tail(script) = << >>
    BY <2>1
  <2>3. Held /\ todo' = Settings(Op("init", 0)) /\ script' = << >> /\ failed' = FALSE
    BY <1>2, <2>1, <2>2, Zenon DEF Call, Held, InitCall
  <2>4. i2c_master_init \in Seq(Moves)
    BY InitIs
  <2>5. todo' = Rest(i2c_master_init, 0)
    BY <2>3, <2>4, SettingsAre, Begin
  <2>6. Clocked(0) => Clocked(0)'
    BY <2>3 DEF Held, Clocked, Fate, Since, InStep, Patience
  <2> QED BY <1>2, <2>3, <2>5, <2>6 DEF InitAt, InitCall, Held, Wires
<1> QED BY <1>1, <1>2

\* Where a call leads.
Called ==
  \/ Starting(0) \/ Byte1(0) \/ Check1(0) \/ Told1 \/ Byte2(0) \/ Check2(0) \/ Told2 \/ GaveUp
  \/ Byte3(0) \/ Check3(0) \/ Told3 \/ Stop3(0)
  \/ Again(0) \/ Byte4(0) \/ Check4(0) \/ Told4 \/ Read1(0)
  \/ Kept1 \/ Ack1(0) \/ Read2(0) \/ Stop4(0) \/ Kept2 \/ Ack2(0)
  \/ StopF(0) \/ InitAt(0)

\* Every call begins where the last one has ended.
LEMMA CallPlace ==
  ASSUME Typed, Place, Call
  PROVE  Called'
<1>0. todo = << >> /\ script # << >>
  BY DEF Call
<1>1. CASE AtStart \/ Told1
  BY <1>1, CallFront, Zenon DEF Called
<1>2. CASE Told2
  <2>1. step \in Writers \/ step \in Readers
    BY <1>2 DEF Told2, Common, Steps
  <2> QED BY <1>2, <2>1, CallWrites, CallSelect, Zenon DEF Called
<1>3. CASE Told3
  <2>1. step \in Writers
    BY <1>3 DEF Told3, Common
  <2> QED BY <1>3, <2>1, CallWrites, Zenon DEF Called
<1>4. CASE Told4
  <2>1. step \in Readers
    BY <1>4 DEF Told4, Common
  <2> QED BY <1>4, <2>1, CallSelect, Zenon DEF Called
<1>5. CASE Kept1
  <2>1. step \in Readers
    BY <1>5 DEF Kept1, Common
  <2> QED BY <1>5, <2>1, CallReads, Zenon DEF Called
<1>6. CASE Kept2
  <2>1. step \in {"data0", "data1"}
    BY <1>6 DEF Kept2, Common
  <2> QED BY <1>6, <2>1, CallSecond, Zenon DEF Called
<1>7. CASE GaveUp \/ InitCall
  BY <1>7, CallOthers, Zenon DEF Called
<1>8. ~Off /\ ~ \E k \in 0 .. 62 : InitAt(k)
  BY <1>0 DEF Off, InitAt
<1>9. ASSUME NEW k \in 0 .. 3, Starting(k) PROVE Called'
  <2>1. k = 3
    <3>1. StartFrom(1) \in Seq(Moves) /\ Len(StartFrom(1)) = 3
      BY StartIs
    <3> QED BY <1>0, <1>9, <3>1, LastOf DEF Starting
  <2>2. Starting(3)
    BY <1>9, <2>1
  <2> QED BY <2>2, CallFront, Zenon DEF Called
<1>10. ASSUME NEW k \in 0 .. 3, Again(k) PROVE Called'
  <2>1. k = 3
    <3>1. StartFrom(0) \in Seq(Moves) /\ Len(StartFrom(0)) = 3
      BY StartIs
    <3> QED BY <1>0, <1>10, <3>1, LastOf DEF Again
  <2>2. Again(3) /\ step \in Readers
    BY <1>10, <2>1 DEF Again, Common
  <2> QED BY <2>2, CallSelect, Zenon DEF Called
<1>11. ASSUME NEW k \in 0 .. 3 PROVE ~Stop3(k) /\ ~Stop4(k) /\ ~StopF(k)
  <2>1. ASSUME step \in Steps, script = Rest(Job(step), Len(Job(step))) PROVE FALSE
    <3> DEFINE f == Job(step)
    <3>1. f \in Seq(Ops)
      BY <2>1, JobIs
    <3> HIDE DEF f
    <3>2. Len(f) \in 0 .. Len(f)
      BY <3>1
    <3>3. Rest(f, Len(f)) = << >>
      BY <3>1, <3>2, RestStep
    <3> QED BY <1>0, <2>1, <3>3 DEF f
  <2>2. ~Stop3(k)
    <3> SUFFICES ASSUME Stop3(k) PROVE FALSE
      OBVIOUS
    <3>1. step \in Writers /\ step \in Steps /\ step # "id" /\ step \notin Readers /\ script = Rest(Job(step), 11)
      BY DEF Stop3, Common, Writers, Readers, Steps
    <3>2. Len(Job(step)) = 11
      BY <3>1, JobIs
    <3> QED BY <2>1, <3>1, <3>2
  <2>3. ~Stop4(k)
    <3> SUFFICES ASSUME Stop4(k) PROVE FALSE
      OBVIOUS
    <3>1. step \in Readers /\ step \in Steps /\ script = Rest(Job(step), IF step = "id" THEN 15 ELSE 18)
      BY DEF Stop4, Common, Steps
    <3>2. Len(Job(step)) = IF step = "id" THEN 15 ELSE 18
      BY <3>1, ReaderIs
    <3> QED BY <2>1, <3>1, <3>2
  <2> QED BY <1>0, <2>2, <2>3 DEF StopF
<1>12. ASSUME NEW k \in 0 .. 25, Byte1(k) \/ Byte2(k) \/ Byte3(k) \/ Byte4(k) PROVE Called'
  <2>0. step \in Steps
    BY <1>12 DEF Byte1, Byte2, Byte3, Byte4, Common, Steps
  <2>1. 128 + Reg(step) \in Octets /\ Val(step) \in Octets
    BY <2>0, StepIs
  <2>2. \A b \in Octets : /\ WriteFrom(0, b) \in Seq(Moves) /\ Len(WriteFrom(0, b)) = 25
                          /\ WriteFrom(1, b) \in Seq(Moves) /\ Len(WriteFrom(1, b)) = 25
    BY WriteIs
  <2>3. \E a \in {0, 1}, b \in Octets : todo = Rest(WriteFrom(a, b), k)
    BY <1>12, <2>1, ByteOctets DEF Byte1, Byte2, Byte3, Byte4
  <2>4. k = 25
    <3> PICK a \in {0, 1}, b \in Octets : todo = Rest(WriteFrom(a, b), k)
      BY <2>3
    <3>1. WriteFrom(a, b) \in Seq(Moves) /\ Len(WriteFrom(a, b)) = 25
      BY <2>2
    <3> QED BY <1>0, <3>1, LastOf
  <2>5. Byte1(25) \/ Byte2(25) \/ (Byte3(25) /\ step \in Writers) \/ (Byte4(25) /\ step \in Readers)
    BY <1>12, <2>4 DEF Byte3, Byte4, Common
  <2> QED BY <2>5, CallFront, CallWrites, CallSelect, Zenon DEF Called
<1>13. ASSUME NEW k \in 0 .. 4, Check1(k) \/ Check2(k) \/ Check3(k) \/ Check4(k) PROVE Called'
  <2>1. PICK a \in {0, 1} : todo = Rest(CheckFrom(a), k)
    BY <1>13 DEF Check1, Check2, Check3, Check4
  <2>2. k = 4
    <3>1. CheckFrom(a) \in Seq(Moves) /\ Len(CheckFrom(a)) = 4
      BY CheckIs
    <3> QED BY <1>0, <2>1, <3>1, LastOf
  <2>3. Check1(4) \/ Check2(4) \/ (Check3(4) /\ step \in Writers) \/ (Check4(4) /\ step \in Readers)
    BY <1>13, <2>2 DEF Check3, Check4, Common
  <2> QED BY <2>3, CallFront, CallWrites, CallSelect, Zenon DEF Called
<1>14. ASSUME NEW k \in 0 .. 18, Read1(k) \/ Read2(k) PROVE Called'
  <2>1. k = 18
    <3>1. ReadFrom(1) \in Seq(Moves) /\ Len(ReadFrom(1)) = 18
      BY ReadIs
    <3> QED BY <1>0, <1>14, <3>1, LastOf DEF Read1, Read2
  <2>2. (Read1(18) /\ step \in Readers) \/ (Read2(18) /\ step \in {"data0", "data1"})
    BY <1>14, <2>1 DEF Read1, Read2, Common
  <2> QED BY <2>2, CallReads, CallSecond, Zenon DEF Called
<1>15. ASSUME NEW k \in 0 .. 5, Ack1(k) \/ Ack2(k) PROVE Called'
  <2>1. PICK l \in {0, 1} : todo = Rest(AckFrom(1, l), k)
    BY <1>15 DEF Ack1, Ack2
  <2>2. k = 5
    <3>1. AckFrom(1, l) \in Seq(Moves) /\ Len(AckFrom(1, l)) = 5
      BY AckIs
    <3> QED BY <1>0, <2>1, <3>1, LastOf
  <2>3. (Ack1(5) /\ step \in Readers) \/ (Ack2(5) /\ step \in {"data0", "data1"})
    BY <1>15, <2>2 DEF Ack1, Ack2, Common
  <2> QED BY <2>3, CallReads, CallSecond, Zenon DEF Called
<1> QED BY <1>1, <1>2, <1>3, <1>4, <1>5, <1>6, <1>7, <1>8, <1>9, <1>10, <1>11, <1>12, <1>13, <1>14, <1>15,
           Zenon DEF Place

\* The settings that a call leaves.
LEMMA CalledTodo ==
  Called => todo \in Seq(Moves)
<1> SUFFICES ASSUME Called PROVE todo \in Seq(Moves)
  OBVIOUS
<1>0. /\ << >> \in Seq(Moves) /\ \A f \in Seq(Moves) : Rest(f, 0) \in Seq(Moves)
  BY Begin
<1>1. CASE Told1 \/ Told2 \/ GaveUp \/ Told3 \/ Told4 \/ Kept1 \/ Kept2
  BY <1>0, <1>1 DEF Told1, Told2, GaveUp, Told3, Told4, Kept1, Kept2
<1>2. CASE Starting(0) \/ Again(0)
  <2>1. StartFrom(0) \in Seq(Moves) /\ StartFrom(1) \in Seq(Moves)
    BY StartIs
  <2> QED BY <1>0, <1>2, <2>1 DEF Starting, Again
<1>3. CASE Byte1(0) \/ Byte2(0) \/ Byte3(0) \/ Byte4(0)
  <2>0. step \in Steps
    BY <1>3 DEF Byte1, Byte2, Byte3, Byte4, Common, Steps
  <2>1. 128 + Reg(step) \in Octets /\ Val(step) \in Octets
    BY <2>0, StepIs
  <2>2. \A b \in Octets : WriteFrom(0, b) \in Seq(Moves) /\ WriteFrom(1, b) \in Seq(Moves)
    BY WriteIs
  <2> QED BY <1>0, <1>3, <2>1, <2>2, ByteOctets DEF Byte1, Byte2, Byte3, Byte4
<1>4. CASE Check1(0) \/ Check2(0) \/ Check3(0) \/ Check4(0)
  <2>1. CheckFrom(0) \in Seq(Moves) /\ CheckFrom(1) \in Seq(Moves)
    BY CheckIs
  <2> QED BY <1>0, <1>4, <2>1 DEF Check1, Check2, Check3, Check4
<1>5. CASE Stop3(0) \/ Stop4(0) \/ StopF(0)
  <2>1. StopAfter(0) \in Seq(Moves)
    BY StopIs
  <2> QED BY <1>0, <1>5, <2>1 DEF Stop3, Stop4, StopF
<1>6. CASE Read1(0) \/ Read2(0)
  <2>1. ReadFrom(1) \in Seq(Moves)
    BY ReadIs
  <2> QED BY <1>0, <1>6, <2>1 DEF Read1, Read2
<1>7. CASE Ack1(0) \/ Ack2(0)
  <2>1. AckFrom(1, 0) \in Seq(Moves) /\ AckFrom(1, 1) \in Seq(Moves)
    BY AckIs
  <2> QED BY <1>0, <1>7, <2>1 DEF Ack1, Ack2
<1>8. CASE InitAt(0)
  <2>1. i2c_master_init \in Seq(Moves)
    BY InitIs
  <2> QED BY <1>0, <1>8, <2>1 DEF InitAt
<1> QED BY <1>1, <1>2, <1>3, <1>4, <1>5, <1>6, <1>7, <1>8, Zenon DEF Called

\* A call keeps the invariant.
LEMMA CallInv ==
  ASSUME IInv, Call
  PROVE  IInv'
<1>0. Typed /\ SlaveOK /\ Place /\ Locals /\ Genuine /\ Recovers
  BY DEF IInv
<1>1. Called'
  BY <1>0, CallPlace
<1>2. (Called => todo \in Seq(Moves))'
  BY CalledTodo, PTL
<1>3. Held /\ failed' \in BOOLEAN /\ got' \in Nat
  BY <1>0 DEF Call, Held, Typed
<1>4. Typed'
  BY <1>0, <1>1, <1>2, <1>3 DEF Typed, Held
<1>5. SlaveOK'
  BY <1>0, <1>3 DEF SlaveOK, Held
<1>6. Place'
  <2>1. 0 \in 0 .. 62 /\ 0 \in 0 .. 3 /\ 0 \in 0 .. 25 /\ 0 \in 0 .. 4 /\ 0 \in 0 .. 18 /\ 0 \in 0 .. 5
    OBVIOUS
  <2> QED BY <1>1, <2>1, Zenon DEF Place, Called
<1>7. Locals'
  BY <1>0, <1>3 DEF Locals, Held
<1>8. Genuine'
  BY <1>0, <1>3 DEF Genuine, LightGenuine, LuxGenuine, Held
<1>9. Recovers'
  BY <1>0, <1>3 DEF Recovers, Held
<1> QED BY <1>4, <1>5, <1>6, <1>7, <1>8, <1>9 DEF IInv

-----------------------------------------------------------------------------
(* The invariant.                                                          *)

\* Outside of a call of tsl2561_lux() nothing is left to do.
LEMMA OffOnly ==
  ASSUME Place, step = "off"
  PROVE  Off
<1>1. step \notin Steps /\ step # "init"
  BY DEF Steps, Readers, Writers
<1>2. /\ ~InitCall /\ \A k \in 0 .. 62 : ~InitAt(k)
      /\ ~AtStart /\ ~Told1 /\ ~Told2 /\ ~Told3 /\ ~Told4 /\ ~Kept1 /\ ~Kept2 /\ ~GaveUp
  BY <1>1 DEF InitCall, InitAt, AtStart, Told1, Told2, Told3, Told4, Kept1, Kept2, GaveUp, Common, Steps, Readers
<1>3. \A k \in 0 .. 3 : ~Starting(k) /\ ~Again(k) /\ ~Stop3(k) /\ ~Stop4(k) /\ ~StopF(k)
  BY <1>1 DEF Starting, Again, Stop3, Stop4, StopF, Common, Steps
<1>4. \A k \in 0 .. 25 : ~Byte1(k) /\ ~Byte2(k) /\ ~Byte3(k) /\ ~Byte4(k)
  BY <1>1 DEF Byte1, Byte2, Byte3, Byte4, Common, Steps
<1>5. \A k \in 0 .. 4 : ~Check1(k) /\ ~Check2(k) /\ ~Check3(k) /\ ~Check4(k)
  BY <1>1 DEF Check1, Check2, Check3, Check4, Common, Steps
<1>6. \A k \in 0 .. 18 : ~Read1(k) /\ ~Read2(k)
  BY <1>1 DEF Read1, Read2, Common, Steps, Readers
<1>7. \A k \in 0 .. 5 : ~Ack1(k) /\ ~Ack2(k)
  BY <1>1 DEF Ack1, Ack2, Common, Steps, Readers
<1> QED BY <1>2, <1>3, <1>4, <1>5, <1>6, <1>7, Zenon DEF Place

\* So does a setting of the wires.
LEMMA SetInv ==
  ASSUME IInv, i2c_master_setDC
  PROVE  IInv'
<1>0. Typed /\ SlaveOK /\ Place /\ Locals /\ Genuine /\ Recovers
  BY DEF IInv
<1>1. Typed' /\ SlaveOK' /\ sensor'.id = sensor.id /\ sensor'.light = sensor.light
  BY <1>0, SetTyped
<1>2. Place'
  BY <1>0, SetPlace
<1>3. UNCHANGED <<step, data0, data1, part, lux, restarts>> /\ (misses' = misses \/ misses' = 0)
  BY DEF i2c_master_setDC, driverVars
<1>4. Locals'
  BY <1>0, <1>1, <1>3 DEF Locals
<1>5. step # "off"
  BY <1>0, OffOnly DEF i2c_master_setDC, Off
<1>6. Genuine'
  BY <1>3, <1>5 DEF Genuine, LightGenuine, LuxGenuine
<1>7. Recovers'
  BY <1>0, <1>1, <1>3 DEF Recovers, Typed
<1> QED BY <1>1, <1>2, <1>4, <1>6, <1>7 DEF IInv

\* In the middle of a transfer functions are left.
LEMMA ScriptLeft ==
  /\ \A j \in 0 .. 10 : Common(Steps, j) \/ Common(Writers, j) => script # << >>
  /\ \A j \in 0 .. 14 : Common(Readers, j) => script # << >>
  /\ \A j \in 0 .. 17 : Common({"data0", "data1"}, j) => script # << >>
<1>1. ASSUME NEW s \in Steps, NEW j \in Nat, j < Len(Job(s)) PROVE Rest(Job(s), j) # << >>
  <2> DEFINE f == Job(s)
  <2>1. f \in Seq(Ops)
    BY JobIs
  <2>2. j < Len(f)
    BY <1>1
  <2> HIDE DEF f
  <2>3. j \in 0 .. Len(f)
    BY <2>1, <2>2
  <2>4. Rest(f, j) # << >>
    BY <2>1, <2>2, <2>3, RestStep
  <2> QED BY <2>4 DEF f
<1>2. \A s \in Steps : Len(Job(s)) \in Nat /\ Len(Job(s)) > 10
  <2> TAKE s \in Steps
  <2>1. Len(Job(s)) = IF s = "id" THEN 15 ELSE IF s \in Readers THEN 18 ELSE 11
    BY JobIs, Zenon
  <2> QED BY <2>1
<1>3. \A s \in Readers : Len(Job(s)) \in Nat /\ Len(Job(s)) > 14
  BY ReaderIs
<1>4. \A s \in {"data0", "data1"} : Len(Job(s)) \in Nat /\ Len(Job(s)) > 17 /\ s \in Readers
  <2>1. \A s \in {"data0", "data1"} : s \in Readers /\ s # "id"
    BY DEF Readers
  <2> QED BY <2>1, ReaderIs
<1>5. ASSUME NEW j \in 0 .. 10, Common(Steps, j) \/ Common(Writers, j) PROVE script # << >>
  <2>1. step \in Steps /\ script = Rest(Job(step), j)
    BY <1>5 DEF Common, Steps
  <2>2. j \in Nat /\ j < Len(Job(step))
    BY <1>2, <2>1
  <2> QED BY <1>1, <2>1, <2>2
<1>6. ASSUME NEW j \in 0 .. 14, Common(Readers, j) PROVE script # << >>
  <2>1. step \in Readers /\ step \in Steps /\ script = Rest(Job(step), j)
    BY <1>6 DEF Common, Steps
  <2>2. j \in Nat /\ j < Len(Job(step))
    BY <1>3, <2>1
  <2> QED BY <1>1, <2>1, <2>2
<1>7. ASSUME NEW j \in 0 .. 17, Common({"data0", "data1"}, j) PROVE script # << >>
  <2>1. step \in {"data0", "data1"} /\ script = Rest(Job(step), j)
    BY <1>7 DEF Common
  <2>2. j \in Nat /\ j < Len(Job(step)) /\ step \in Steps
    BY <1>4, <2>1 DEF Steps
  <2> QED BY <1>1, <2>1, <2>2
<1> QED BY <1>5, <1>6, <1>7

\* Behind a transfer its last function was a stop.
LEMMA QuietPlace ==
  ASSUME Place, Quiet
  PROVE  Off \/ InitAt(62) \/ Stop3(3) \/ Stop4(3) \/ StopF(3)
<1>0. todo = << >> /\ script = << >>
  BY DEF Quiet
<1>1. ~InitCall /\ ~GaveUp
  BY <1>0 DEF InitCall, GaveUp, Stop
<1>2. ASSUME NEW k \in 0 .. 62, InitAt(k) PROVE InitAt(62)
  <2>1. i2c_master_init \in Seq(Moves) /\ Len(i2c_master_init) = 62
    BY InitIs
  <2>2. k = 62
    BY <1>0, <1>2, <2>1, LastOf DEF InitAt
  <2> QED BY <1>2, <2>2
<1>3. ASSUME NEW k \in 0 .. 3, Stop3(k) \/ Stop4(k) \/ StopF(k) PROVE Stop3(3) \/ Stop4(3) \/ StopF(3)
  <2>1. StopAfter(0) \in Seq(Moves) /\ Len(StopAfter(0)) = 3
    BY StopIs
  <2>2. todo = Rest(StopAfter(0), k)
    BY <1>3 DEF Stop3, Stop4, StopF
  <2>3. k = 3
    BY <1>0, <2>1, <2>2, LastOf
  <2> QED BY <1>3, <2>3
<1>4. /\ \A j \in 0 .. 10 : ~Common(Steps, j) /\ ~Common(Writers, j)
      /\ \A j \in 0 .. 14 : ~Common(Readers, j)
      /\ \A j \in 0 .. 17 : ~Common({"data0", "data1"}, j)
  BY <1>0, ScriptLeft, Zenon
<1>5. /\ ~Common(Steps, 0) /\ ~Common(Steps, 1) /\ ~Common(Steps, 2) /\ ~Common(Steps, 3) /\ ~Common(Steps, 4)
      /\ ~Common(Steps, 5) /\ ~Common(Steps, 6) /\ ~Common(Steps, 7)
      /\ ~Common(Writers, 8) /\ ~Common(Writers, 9) /\ ~Common(Writers, 10)
      /\ ~Common(Readers, 8) /\ ~Common(Readers, 9) /\ ~Common(Readers, 10) /\ ~Common(Readers, 11)
      /\ ~Common(Readers, 12) /\ ~Common(Readers, 13) /\ ~Common(Readers, 14)
      /\ ~Common({"data0", "data1"}, 15) /\ ~Common({"data0", "data1"}, 16) /\ ~Common({"data0", "data1"}, 17)
  BY <1>4
<1>6. ~AtStart /\ ~Told1 /\ ~Told2 /\ ~Told3 /\ ~Told4 /\ ~Kept1 /\ ~Kept2
  BY <1>5, Zenon DEF AtStart, Told1, Told2, Told3, Told4, Kept1, Kept2
<1>7. \A k : /\ ~Starting(k) /\ ~Again(k) /\ ~Byte1(k) /\ ~Byte2(k) /\ ~Byte3(k) /\ ~Byte4(k)
             /\ ~Check1(k) /\ ~Check2(k) /\ ~Check3(k) /\ ~Check4(k) /\ ~Read1(k) /\ ~Read2(k) /\ ~Ack1(k) /\ ~Ack2(k)
  BY <1>5, Zenon DEF Starting, Again, Byte1, Byte2, Byte3, Byte4, Check1, Check2, Check3, Check4, Read1, Read2,
       Ack1, Ack2
<1> QED BY <1>1, <1>2, <1>3, <1>6, <1>7, Zenon DEF Place

\* The transfers of the driver are the ones above.
LEMMA JobsAre ==
  /\ tsl2561_readbyte(REG_ID) = Job("id") /\ tsl2561_writebyte(REG_CONTROL, 3) = Job("on")
  /\ tsl2561_writebyte(REG_TIMING, 18) = Job("timing") /\ tsl2561_readword(REG_DATA0LOW) = Job("data0")
  /\ tsl2561_readword(REG_DATA1LOW) = Job("data1") /\ tsl2561_writebyte(REG_CONTROL, 0) = Job("down")
BY DEF Job, Reg, Val, Readers

\* What the next transfer begins with.
LEMMA Begins ==
  ASSUME NEW s \in Steps, Transfer(s, Job(s)), UNCHANGED <<busVars, sensor>>, todo = << >>, Wires(1, 1),
         slave = Idle, Prepared'
  PROVE  AtStart'
<1>1. Job(s) = Rest(Job(s), 0)
  <2> DEFINE f == Job(s)
  <2>1. f \in Seq(Ops)
    BY JobIs
  <2> HIDE DEF f
  <2>2. 0 \in 0 .. Len(f)
    BY <2>1
  <2>3. Rest(f, 0) = f
    BY <2>1, <2>2, RestStep
  <2> QED BY <2>3 DEF f
<1>2. Common(Steps, 0)' /\ bytes' = << >> /\ todo' = << >>
  BY <1>1 DEF Transfer, Common, busVars
<1>3. Wires(1, 1)' /\ slave' = Idle
  BY DEF Wires, busVars
<1> QED BY <1>2, <1>3 DEF AtStart

\* So does the beginning of tsl2561_lux().
LEMMA LuxCall ==
  ASSUME IInv, tsl2561_lux
  PROVE  IInv'
<1>0. Typed /\ SlaveOK /\ Place /\ Locals /\ Genuine /\ Recovers /\ step = "off"
  BY DEF IInv, tsl2561_lux
<1>1. Off
  BY <1>0, OffOnly
<1>2. /\ Transfer("id", Job("id"))
      /\ UNCHANGED <<busVars, data0, data1, part, lux, sensor, nacks, restarts, misses>>
  BY JobsAre DEF tsl2561_lux
<1>3. Job("id") = Rest(Job("id"), 0)
  <2> DEFINE f == Job("id")
  <2>1. f \in Seq(Ops)
    BY JobIs DEF Steps, Readers
  <2> HIDE DEF f
  <2>2. 0 \in 0 .. Len(f)
    BY <2>1
  <2>3. Rest(f, 0) = f
    BY <2>1, <2>2, RestStep
  <2> QED BY <2>3 DEF f
<1>4. Common(Steps, 0)' /\ bytes' = << >> /\ todo' = << >> /\ step' = "id" /\ failed' = FALSE
  BY <1>1, <1>2, <1>3 DEF Transfer, Common, busVars, Off, Steps, Readers
<1>5. Prepared' /\ Wires(1, 1)' /\ (Stuck => Stuck') /\ (Dirty(0) => Dirty(0)')
  BY <1>1, <1>2, <1>4 DEF Off, Prepared, Wires, Stuck, Dirty, busVars
<1>6. slave' = slave
  BY <1>2 DEF busVars
<1>7. AtStart'
  BY <1>1, <1>4, <1>5, <1>6 DEF AtStart, Off
<1>8. Typed' /\ SlaveOK'
  BY <1>0, <1>2, <1>4 DEF Typed, SlaveOK, busVars
<1>9. Locals' /\ Genuine' /\ Recovers'
  BY <1>0, <1>2, <1>4 DEF Locals, Genuine, LightGenuine, LuxGenuine, Recovers, Steps, Readers, Writers
<1> QED BY <1>7, <1>8, <1>9 DEF IInv, Place

\* So does the sensor when its light has been measured.
LEMMA ReadyInv ==
  ASSUME IInv, Ready
  PROVE  IInv'
<1>0. Typed /\ SlaveOK /\ Place /\ Locals /\ Genuine /\ Recovers /\ step = "init" /\ Quiet
  BY DEF IInv, Ready
<1>1. InitAt(62)
  BY <1>0, QuietPlace DEF Off, Stop3, Stop4, StopF, Common, Steps, Readers, Writers
<1>2. /\ step' = "off" /\ script' = << >> /\ failed' = FALSE /\ lux = -1
      /\ UNCHANGED <<busVars, data0, data1, part, lux, sensor, nacks, restarts, misses>>
  BY <1>0 DEF Ready, Transfer, Locals
<1>3. Off'
  <2>1. Wires(1, 1)' /\ (Stuck => Stuck') /\ (Dirty(0) => Dirty(0)') /\ slave' = slave /\ todo' = << >>
    BY <1>0, <1>1, <1>2 DEF InitAt, Wires, Stuck, Dirty, busVars, Quiet
  <2> QED BY <1>1, <1>2, <2>1 DEF InitAt, Off
<1>4. Typed' /\ SlaveOK'
  BY <1>0, <1>2 DEF Typed, SlaveOK, busVars
<1>5. Locals' /\ Genuine' /\ Recovers'
  BY <1>0, <1>2 DEF Locals, Genuine, LightGenuine, LuxGenuine, Recovers, Steps, Readers, Writers
<1> QED BY <1>3, <1>4, <1>5 DEF IInv, Place

\* So does a transfer that is given up.
LEMMA AbandonInv ==
  ASSUME IInv, Abandon
  PROVE  IInv'
<1>0. Typed /\ SlaveOK /\ Place /\ Locals /\ Genuine /\ Recovers /\ failed = TRUE /\ Quiet
  BY DEF IInv, Abandon, Typed
<1>1. StopF(3)
  BY <1>0, QuietPlace DEF Off, InitAt, Stop3, Stop4, Common
<1>2. /\ step' = "off" /\ script' = << >> /\ failed' = FALSE /\ lux' = -1
      /\ misses' = IF misses < MaxMisses THEN misses + 1 ELSE misses
      /\ UNCHANGED <<busVars, data0, data1, part, sensor, nacks, restarts>>
  BY DEF Abandon, Return, Transfer
<1>3. misses = 0 /\ m_nLastSDA = 1 /\ m_nLastSCL = 1 /\ slave = Idle
  BY <1>1 DEF StopF, Stopping
<1>4. Off'
  BY <1>0, <1>2, <1>3 DEF Off, Wires, busVars, Quiet
<1>5. misses' \in Nat /\ misses' <= 1
  BY <1>2, <1>3
<1>6. Typed' /\ SlaveOK'
  BY <1>0, <1>2, <1>5 DEF Typed, SlaveOK, busVars
<1>7. Locals' /\ Genuine' /\ Recovers'
  BY <1>0, <1>2, <1>5 DEF Locals, Genuine, LightGenuine, LuxGenuine, Recovers, Steps, Readers, Writers
<1> QED BY <1>4, <1>6, <1>7 DEF IInv, Place

-----------------------------------------------------------------------------
(* Light.                                                                  *)

\* The factors in the tables.
Factors == {498, 532, 575, 624, 367, 210, 24, 516, 552, 595, 642, 375, 257, 55}

\* The rows of the tables of calc_lux() are in the range of their factors.
LEMMA RowsAre ==
  ASSUME NEW type \in {0, 1}, NEW k \in 1 .. 7
  PROVE  Table(type)[k][2] \in Factors /\ Table(type)[k][3] \in Nat
<1>0. k = 1 \/ k = 2 \/ k = 3 \/ k = 4 \/ k = 5 \/ k = 6 \/ k = 7
  OBVIOUS
<1>1. CASE type = 0
  <2>1. Table(0) = << <<64, 498, 446>>, <<128, 532, 721>>, <<192, 575, 891>>, <<256, 624, 1022>>,
                      <<312, 367, 508>>, <<410, 210, 251>>, <<666, 24, 18>> >>
    BY DEF Table
  <2> QED BY <1>0, <1>1, <2>1 DEF Factors
<1>2. CASE type = 1
  <2>1. Table(1) = << <<67, 516, 429>>, <<133, 552, 705>>, <<200, 595, 867>>, <<266, 642, 991>>,
                      <<333, 375, 477>>, <<410, 257, 295>>, <<666, 55, 43>> >>
    BY DEF Table
  <2> QED BY <1>0, <1>2, <2>1 DEF Factors
<1> QED BY <1>1, <1>2

\* The first row that fits.
LEMMA LeastRow ==
  ASSUME NEW ks \in SUBSET (1 .. 7), ks # {}
  PROVE  \E k \in ks : \A j \in ks : k <= j
<1>1. \A j \in ks : j = 1 \/ j = 2 \/ j = 3 \/ j = 4 \/ j = 5 \/ j = 6 \/ j = 7
  OBVIOUS
<1>2. CASE 1 \in ks
  BY <1>1, <1>2
<1>3. CASE 1 \notin ks /\ 2 \in ks
  BY <1>1, <1>3
<1>4. CASE 1 \notin ks /\ 2 \notin ks /\ 3 \in ks
  BY <1>1, <1>4
<1>5. CASE 1 \notin ks /\ 2 \notin ks /\ 3 \notin ks /\ 4 \in ks
  BY <1>1, <1>5
<1>6. CASE 1 \notin ks /\ 2 \notin ks /\ 3 \notin ks /\ 4 \notin ks /\ 5 \in ks
  BY <1>1, <1>6
<1>7. CASE 1 \notin ks /\ 2 \notin ks /\ 3 \notin ks /\ 4 \notin ks /\ 5 \notin ks /\ 6 \in ks
  BY <1>1, <1>7
<1>8. CASE 1 \notin ks /\ 2 \notin ks /\ 3 \notin ks /\ 4 \notin ks /\ 5 \notin ks /\ 6 \notin ks /\ 7 \in ks
  BY <1>1, <1>8
<1> QED BY <1>1, <1>2, <1>3, <1>4, <1>5, <1>6, <1>7, <1>8

\* So is the row that is chosen.
LEMMA CoeffsAre ==
  ASSUME NEW type \in {0, 1}, NEW ratio
  PROVE  Coeffs(type, ratio)[2] \in Factors \cup {0} /\ Coeffs(type, ratio)[3] \in Nat
<1> DEFINE t  == Table(type)
           ks == {k \in 1 .. 7 : ratio <= t[k][1]}
           c  == CHOOSE k \in ks : \A j \in ks : k <= j
<1>1. Coeffs(type, ratio) = IF ks = {} THEN <<ratio, 0, 0>> ELSE t[c]
  BY DEF Coeffs
<1>2. ks \in SUBSET (1 .. 7)
  OBVIOUS
<1>3. ASSUME ks # {} PROVE c \in 1 .. 7
  <2> HIDE DEF t, ks
  <2>1. \E k \in ks : \A j \in ks : k <= j
    BY <1>2, <1>3, LeastRow
  <2>2. c \in ks
    BY <2>1
  <2> QED BY <1>2, <2>2
<1> HIDE DEF t, ks, c
<1>4. CASE ks = {}
  <2>1. Coeffs(type, ratio) = <<ratio, 0, 0>>
    BY <1>1, <1>4
  <2> QED BY <2>1
<1>5. CASE ks # {}
  BY <1>1, <1>3, <1>5, RowsAre DEF t
<1> QED BY <1>4, <1>5

\* calc_lux() stays in 32 bits and below its greatest value.
LEMMA LuxBound ==
  ASSUME NEW type \in {0, 1}, NEW raw0 \in Nat, raw0 < 65536, NEW raw1 \in Nat
  PROVE  calc_lux(type, raw0, raw1) \in Nat /\ calc_lux(type, raw0, raw1) <= 2568
<1> DEFINE c  == Coeffs(type, Ratio(raw0, raw1))
           rv == IF raw0 * c[2] < raw1 * c[3] THEN 0 ELSE raw0 * c[2] - raw1 * c[3]
<1>1. calc_lux(type, raw0, raw1) = ((rv + 8192) \div 16384) % 65536
  BY DEF calc_lux
<1>2. c[2] \in Factors \cup {0} /\ c[3] \in Nat
  BY CoeffsAre
<1> HIDE DEF c
<1>3. PICK b, m, p, q : b = c[2] /\ m = c[3] /\ p = raw0 * b /\ q = raw1 * m
  OBVIOUS
<1>4. p \in Nat /\ p <= 42073470
  <2>1. b \in Factors \cup {0}
    BY <1>2, <1>3
  <2> QED BY <1>3, <2>1 DEF Factors
<1>5. q \in Nat
  <2>1. m \in Nat
    BY <1>2, <1>3
  <2> QED BY <1>3, <2>1
<1>6. rv = IF p < q THEN 0 ELSE p - q
  BY <1>3
<1> HIDE DEF rv
<1>7. rv \in Nat /\ rv <= 42073470
  BY <1>4, <1>5, <1>6
<1> QED BY <1>1, <1>7

-----------------------------------------------------------------------------
(* The steps of tsl2561_lux() behind its transfers.                        *)

\* A transfer that did not fail has left the bus free.
LEMMA DonePlace ==
  ASSUME IInv, Quiet, failed = FALSE, step \in Steps
  PROVE  /\ todo = << >> /\ Wires(1, 1) /\ slave = Idle
         /\ step \in Readers => Stop4(3)
         /\ step \in Writers => Stop3(3)
<1>0. Place
  BY DEF IInv
<1>1. Stop3(3) \/ Stop4(3)
  BY <1>0, QuietPlace DEF Off, InitAt, StopF, Steps, Readers, Writers
<1>2. Stopping(3)
  BY <1>1 DEF Stop3, Stop4
<1>3. Wires(1, 1) /\ slave = Idle
  BY <1>2 DEF Stopping, Wires
<1>4. step \in Readers => step \notin Writers
  BY DEF Readers, Writers
<1>5. (Stop3(3) => step \in Writers) /\ (Stop4(3) => step \in Readers)
  BY DEF Stop3, Stop4, Common
<1> QED BY <1>1, <1>3, <1>4, <1>5 DEF Quiet

\* A step that begins the next transfer.
LEMMA GoesOn ==
  ASSUME IInv, Quiet, failed = FALSE, step \in Steps, NEW s \in Steps, Transfer(s, Job(s)),
         UNCHANGED <<busVars, sensor, nacks, restarts, misses, lux>>, Prepared', Locals'
  PROVE  IInv'
<1>0. Typed /\ SlaveOK /\ Place /\ Locals /\ Genuine /\ Recovers
  BY DEF IInv
<1>1. todo = << >> /\ Wires(1, 1) /\ slave = Idle
  BY DonePlace
<1>2. AtStart'
  BY <1>1, Begins
<1>3. step' = s /\ failed' = FALSE /\ s # "off"
  BY DEF Transfer, Steps, Readers, Writers
<1>4. Typed' /\ SlaveOK'
  BY <1>0, <1>3 DEF Typed, SlaveOK, busVars
<1>5. Genuine' /\ Recovers'
  BY <1>0, <1>3 DEF Genuine, LightGenuine, LuxGenuine, Recovers
<1> QED BY <1>2, <1>4, <1>5 DEF IInv, Place

\* A step that returns.
LEMMA ReturnsInv ==
  ASSUME IInv, Quiet, failed = FALSE, step \in Steps, NEW val \in Int, Return(val),
         UNCHANGED <<busVars, sensor, nacks, restarts>>, Genuine', Recovers'
  PROVE  IInv'
<1>0. Typed /\ SlaveOK
  BY DEF IInv
<1>1. todo = << >> /\ Wires(1, 1) /\ slave = Idle
  BY DonePlace
<1>2. step' = "off" /\ script' = << >> /\ failed' = FALSE /\ lux' = val
  BY DEF Return, Transfer
<1>3. Off'
  BY <1>1, <1>2 DEF Off, Wires, busVars
<1>4. misses' \in Nat
  BY <1>0 DEF Return, Typed
<1>5. Typed' /\ SlaveOK'
  BY <1>0, <1>2, <1>4 DEF Typed, SlaveOK, busVars
<1>6. Locals'
  BY <1>2 DEF Locals, Steps, Readers, Writers
<1> QED BY <1>3, <1>5, <1>6 DEF IInv, Place

\* The driver goes on behind the read of the id.
LEMMA AfterIdInv ==
  ASSUME IInv, Quiet, failed = FALSE, AfterId, UNCHANGED <<busVars, sensor, nacks, restarts>>
  PROVE  IInv'
<1>0. step = "id" /\ step \in Steps /\ step \in Readers /\ Typed /\ Recovers
  BY DEF AfterId, Steps, Readers, IInv
<1>1. Stop4(3)
  BY <1>0, DonePlace
<1>2. PICK v \in Octets : Fits(1, v) /\ bytes = <<v>>
  BY <1>0, <1>1 DEF Stop4
<1>3. part' = v \div 16
  BY <1>2 DEF AfterId
<1>4. v = sensor.id \/ (restarts > 0 /\ misses = 0 /\ (MaxRestarts <= 1 => v < 16))
  BY <1>0, <1>2 DEF Fits
<1>5. CASE part' \in {1, 5}
  <2>1. Transfer("on", Job("on")) /\ UNCHANGED <<lux, misses>> /\ "on" \in Steps
    BY <1>5, JobsAre DEF AfterId, Steps, Writers
  <2>2. step' = "on"
    BY <2>1 DEF Transfer
  <2>3. Prepared'
    BY <2>2 DEF Prepared
  <2>4. MaxRestarts <= 1 => part' = sensor.id \div 16
    <3>1. v \in Nat
      BY OctetIs
    <3>2. MaxRestarts <= 1 /\ v < 16 => v \div 16 = 0
      BY <3>1
    <3> QED BY <1>3, <1>4, <1>5, <3>2
  <2>5. Locals'
    BY <1>5, <2>2, <2>4 DEF Locals
  <2> QED BY <1>0, <2>1, <2>3, <2>5, GoesOn
<1>6. CASE part' \notin {1, 5}
  <2>1. Return(-1)
    BY <1>6 DEF AfterId
  <2>2. step' = "off" /\ lux' = -1
    BY <2>1 DEF Return, Transfer
  <2>3. Genuine'
    BY <2>2 DEF Genuine, LightGenuine, LuxGenuine
  <2>4. misses' = IF misses < MaxMisses THEN misses + 1 ELSE misses
    BY <2>1 DEF Return
  <2>5. Recovers'
    <3>1. v = sensor.id => sensor'.id \div 16 \notin {1, 5}
      BY <1>3, <1>6
    <3>2. misses = 0 => misses' <= 1
      BY <2>4
    <3> QED BY <1>4, <3>1, <3>2 DEF Recovers
  <2>6. -1 \in Int
    OBVIOUS
  <2> QED BY <1>0, <2>1, <2>3, <2>5, <2>6, ReturnsInv, Zenon
<1> QED BY <1>5, <1>6

\* The word that was read is the light of the channel.
LEMMA WordIs ==
  ASSUME IInv, Quiet, failed = FALSE, step \in {"data0", "data1"}
  PROVE  Word = sensor.light[IF step = "data0" THEN 1 ELSE 2] /\ Prepared
<1>0. step \in Steps /\ step \in Readers /\ step # "id" /\ Typed
  BY DEF Steps, Readers, IInv
<1>1. Stop4(3)
  BY <1>0, DonePlace
<1>2. PICK v \in Octets, w \in Octets : Fits(1, v) /\ Fits(2, w) /\ bytes = <<v, w>>
  BY <1>0, <1>1 DEF Stop4
<1>3. PICK x : x = sensor.light[IF step = "data0" THEN 1 ELSE 2]
  OBVIOUS
<1>4. x \in Nat
  <2>1. sensor.light \in [1 .. 2 -> Nat]
    BY <1>0, Tsl2561Constants DEF Typed
  <2> QED BY <1>3, <2>1
<1>5. v = x % 256 /\ w = x \div 256
  BY <1>2, <1>3 DEF Fits
<1>6. Word = w * 256 + v
  BY <1>2 DEF Word
<1>7. w * 256 + v = x
  BY <1>4, <1>5
<1> QED BY <1>1, <1>3, <1>6, <1>7 DEF Stop4

\* It goes on behind any other transfer.
LEMMA ContinueInv ==
  ASSUME IInv, Continue
  PROVE  IInv'
<1>0. Quiet /\ failed = FALSE /\ UNCHANGED <<busVars, sensor, nacks, restarts>> /\ Typed /\ Locals
  BY DEF Continue, IInv, Typed
<1>1. CASE AfterId
  BY <1>0, <1>1, AfterIdInv
<1>2. CASE AfterOn
  <2>1. /\ step = "on" /\ step \in Steps /\ step \in Writers /\ "timing" \in Steps
        /\ Transfer("timing", Job("timing")) /\ UNCHANGED <<data0, data1, part, lux, misses>>
    BY <1>2, JobsAre DEF AfterOn, Steps, Writers
  <2>2. Stop3(3) /\ step' = "timing"
    BY <1>0, <2>1, DonePlace DEF Transfer
  <2>3. Prepared'
    BY <1>0, <2>1, <2>2 DEF Prepared, Stop3, Done
  <2>4. Locals'
    BY <1>0, <2>1, <2>2 DEF Locals
  <2> QED BY <1>0, <2>1, <2>3, <2>4, GoesOn
<1>3. CASE AfterTiming
  <2>1. /\ step = "timing" /\ step \in Steps /\ step \in Writers /\ "data0" \in Steps
        /\ Transfer("data0", Job("data0")) /\ UNCHANGED <<data0, data1, part, lux, misses>>
    BY <1>3, JobsAre DEF AfterTiming, Steps, Writers, Readers
  <2>2. Stop3(3) /\ step' = "data0"
    BY <1>0, <2>1, DonePlace DEF Transfer
  <2>3. Prepared'
    BY <1>0, <2>1, <2>2 DEF Prepared, Stop3, Done
  <2>4. Locals'
    BY <1>0, <2>1, <2>2 DEF Locals
  <2> QED BY <1>0, <2>1, <2>3, <2>4, GoesOn
<1>4. CASE AfterData0
  <2>1. /\ step = "data0" /\ step \in Steps /\ "data1" \in Steps /\ data0' = Word
        /\ Transfer("data1", Job("data1")) /\ UNCHANGED <<data1, part, lux, misses>>
    BY <1>4, JobsAre DEF AfterData0, Steps, Readers
  <2>2. step' = "data1" /\ Word = sensor.light[1] /\ Prepared
    BY <1>0, <2>1, WordIs DEF Transfer
  <2>3. Prepared'
    BY <1>0, <2>1, <2>2 DEF Prepared
  <2>4. Locals'
    BY <1>0, <2>1, <2>2 DEF Locals
  <2> QED BY <1>0, <2>1, <2>3, <2>4, GoesOn
<1>5. CASE AfterData1
  <2>1. /\ step = "data1" /\ step \in Steps /\ "down" \in Steps /\ data1' = Word
        /\ Transfer("down", Job("down")) /\ UNCHANGED <<data0, part, lux, misses>>
    BY <1>5, JobsAre DEF AfterData1, Steps, Readers, Writers
  <2>2. step' = "down" /\ Word = sensor.light[2]
    BY <1>0, <2>1, WordIs DEF Transfer
  <2>3. Prepared'
    BY <2>2 DEF Prepared
  <2>4. Locals'
    BY <1>0, <2>1, <2>2 DEF Locals
  <2> QED BY <1>0, <2>1, <2>3, <2>4, GoesOn
<1>6. CASE AfterDown
  <2> DEFINE type == IF part = 5 THEN 0 ELSE 1
             val  == calc_lux(type, data0, data1)
  <2>1. step = "down" /\ step \in Steps /\ step \in Writers /\ Return(val) /\ UNCHANGED <<data0, data1, part>>
    BY <1>6 DEF AfterDown, Steps, Writers
  <2>2. Stop3(3) /\ sensor.control = 0
    BY <1>0, <2>1, DonePlace DEF Stop3, Done
  <2>3. data0 = sensor.light[1] /\ data1 = sensor.light[2] /\ (MaxRestarts <= 1 => part = sensor.id \div 16)
    BY <1>0, <2>1 DEF Locals
  <2>4. sensor.light \in [1 .. 2 -> Nat] /\ sensor.light[1] < 65536
    BY <1>0, Tsl2561Constants DEF Typed
  <2>5. data0 \in Nat /\ data0 < 65536 /\ data1 \in Nat
    BY <2>3, <2>4
  <2>6. type \in {0, 1}
    OBVIOUS
  <2> HIDE DEF type
  <2>7. val \in Nat /\ val <= 2568
    BY <2>5, <2>6, LuxBound
  <2> HIDE DEF val
  <2>8. step' = "off" /\ lux' = val /\ misses' = 0
    BY <2>1, <2>7 DEF Return, Transfer
  <2>9. <<data0, data1>> = sensor.light
    BY <2>3, <2>4
  <2>10. Genuine'
    BY <1>0, <2>1, <2>2, <2>3, <2>7, <2>8, <2>9 DEF Genuine, LightGenuine, LuxGenuine
  <2>11. Recovers'
    BY <2>8 DEF Recovers
  <2>12. val \in Int
    BY <2>7
  <2> QED BY <1>0, <2>1, <2>10, <2>11, <2>12, ReturnsInv, Zenon
<1> QED BY <1>1, <1>2, <1>3, <1>4, <1>5, <1>6 DEF Continue

-----------------------------------------------------------------------------
(* Restarts.                                                               *)

\* When the pins let go of the wires, a byte that the sensor receives gets its last bit, a 1.
LEMMA LetGo ==
  ASSUME Typed, SlaveOK, React(1, 1), slave'.st \in Receiving, slave'.n = 8
  PROVE  /\ slave'.st = slave.st /\ sensor' = sensor
         /\ \/ m_nLastSCL = 0 /\ slave.n = 7 /\ slave'.byte = 2 * slave.byte + 1
            \/ m_nLastSCL = 1 /\ m_nLastSDA = 1 /\ slave.n = 8 /\ slave'.byte = slave.byte
<1>0. /\ slave \in [st : States, n : 0 .. 9, byte : Nat, out : {0, 1}]
      /\ m_nLastSDA \in {0, 1} /\ m_nLastSCL \in {0, 1}
  BY DEF SlaveOK, Typed
<1>1. /\ sensor' = sensor
      /\ slave' = IF m_nLastSCL = 1 /\ Wire(m_nLastSDA, slave) # Wire(1, slave) THEN Framed(slave, Wire(1, slave))
                  ELSE IF m_nLastSCL = 0 THEN Rises(slave, Wire(1, slave)) ELSE slave
  BY <1>0 DEF React
<1>2. "idle" \notin Receiving /\ "wait" \notin Receiving /\ "send" \notin Receiving
  BY DEF Receiving
<1>3. CASE m_nLastSCL = 1
  <2>1. CASE Wire(m_nLastSDA, slave) # Wire(1, slave)
    <3>1. slave' = Framed(slave, Wire(1, slave))
      BY <1>1, <1>3, <2>1
    <3>2. slave'.n = 0
      BY <3>1 DEF Framed, Idle
    <3> QED BY <3>2
  <2>2. CASE Wire(m_nLastSDA, slave) = Wire(1, slave)
    <3>1. slave' = slave
      BY <1>1, <1>3, <2>2
    <3>2. slave.st \in Receiving /\ slave.n = 8
      BY <3>1
    <3>3. slave.out = 1
      BY <3>2 DEF SlaveOK
    <3>4. m_nLastSDA = 1
      BY <1>0, <2>2, <3>3 DEF Wire
    <3> QED BY <1>1, <1>3, <3>1, <3>2, <3>4
  <2> QED BY <2>1, <2>2
<1>4. CASE m_nLastSCL = 0
  <2>1. slave' = Rises(slave, Wire(1, slave))
    BY <1>1, <1>4
  <2>2. CASE slave.st \in Receiving /\ slave.n < 8
    <3>1. slave.out = 1
      BY <1>0, <2>2 DEF SlaveOK
    <3>2. Wire(1, slave) = 1
      BY <3>1 DEF Wire
    <3>3. slave' = [slave EXCEPT !.n = slave.n + 1, !.byte = 2 * slave.byte + 1]
      BY <2>1, <2>2, <3>2 DEF Rises
    <3>4. slave'.st = slave.st /\ slave'.n = slave.n + 1 /\ slave'.byte = 2 * slave.byte + 1
      BY <1>0, <3>3
    <3>5. slave.n = 7
      BY <1>0, <3>4
    <3> QED BY <1>1, <1>4, <3>4, <3>5
  <2>3. CASE slave.st \in Receiving /\ ~(slave.n < 8)
    <3>1. slave' = slave
      BY <1>2, <2>1, <2>3 DEF Rises
    <3>2. slave.n # 8
      BY <1>4, <2>3 DEF SlaveOK
    <3> QED BY <3>1, <3>2
  <2>4. CASE slave.st \notin Receiving
    <3>1. slave'.st = slave.st \/ slave'.st = "wait"
      BY <1>0, <2>1, <2>4 DEF Rises
    <3> QED BY <1>2, <2>4, <3>1
  <2> QED BY <2>2, <2>3, <2>4
<1> QED BY <1>0, <1>3, <1>4

\* The eighth bit of a byte is near.
Last == slave.st \in Receiving /\ ((m_nLastSCL = 0 /\ slave.n = 7) \/ (m_nLastSCL = 1 /\ m_nLastSDA = 1 /\ slave.n = 8))

\* Before the first restart that is only so in the middle of a byte of the driver.
LEMMA OnlyBytes ==
  ASSUME Typed, SlaveOK, Place, restarts = 0, Last
  PROVE  \E k \in 1 .. 24 :
           \/ Writing("addr", 114, k) \/ Writing("addr", 115, k)
           \/ step \in Steps /\ Writing("cmd", 128 + Reg(step), k)
           \/ step \in Steps /\ Writing("data", Val(step), k) /\ sensor.reg = Reg(step)
<1>0. slave.st \in Receiving /\ slave.n \in {7, 8} /\ (slave.n = 8 => m_nLastSDA = 1 /\ m_nLastSCL = 1)
  BY DEF Last
<1>1. slave # Idle /\ (\A st : slave # Bare(st)) /\ \A st, b : ~Heard(st, b)
  BY <1>0 DEF Idle, Bare, Heard, Lost, Receiving
<1>2. \A d : ~Dirty(d)
  BY DEF Dirty
<1>3. ~Off /\ ~InitCall
  BY <1>1, <1>2 DEF Off, InitCall, Clocked
<1>4. ASSUME NEW k \in 0 .. 62, InitAt(k) PROVE FALSE
  <2>1. \A c : ~Clocked(c)
    BY <1>1 DEF Clocked
  <2> QED BY <1>1, <1>2, <1>4, <2>1 DEF InitAt
<1>5. ~AtStart /\ ~Told1 /\ ~Told2 /\ ~Told3 /\ ~GaveUp
  BY <1>0, <1>1, <1>2 DEF AtStart, Told1, Told2, Told3, GaveUp, Lost, Receiving
<1>6. \A v, r, x : ~Sending(v, r, x)
  BY <1>0 DEF Sending, Receiving
<1>7. ~Told4 /\ ~Kept1 /\ ~Kept2
  BY <1>6 DEF Told4, Kept1, Kept2
<1>8. ASSUME NEW k \in 0 .. 3, Starting(k) \/ Again(k) PROVE FALSE
  BY <1>0, <1>1, <1>2, <1>8 DEF Starting, Again
<1>9. ASSUME NEW k \in 0 .. 3, Stopping(k) PROVE FALSE
  <2>1. k # 2 /\ k # 3
    BY <1>0, <1>1, <1>9 DEF Stopping, Last
  <2>2. k < 2
    BY <2>1
  <2> QED BY <1>0, <1>1, <1>9, <2>2 DEF Stopping, Receiving
<1>10. ASSUME NEW k \in 0 .. 3 PROVE ~Stop3(k) /\ ~Stop4(k) /\ ~StopF(k)
  BY <1>9 DEF Stop3, Stop4, StopF
<1>11. ASSUME NEW k \in 0 .. 4, Check1(k) \/ Check2(k) \/ Check3(k) \/ Check4(k) PROVE FALSE
  <2>1. \A st, b, i : ~Checking(st, b, i)
    BY <1>1 DEF Checking
  <2>2. ~(k < 4)
    BY <1>11, <2>1 DEF Check1, Check2, Check3, Check4
  <2>3. k = 4 /\ ~Lost
    BY <1>0, <2>2 DEF Lost, Receiving
  <2> QED BY <1>1, <1>2, <1>6, <1>11, <2>3 DEF Check1, Check2, Check3, Check4
<1>12. ASSUME NEW k \in 0 .. 18, Read1(k) \/ Read2(k) PROVE FALSE
  <2>1. \E v \in Octets : Reading(v, k)
    BY <1>12 DEF Read1, Read2
  <2>2. k \in 0 .. 2 \/ k \in 3 .. 17 \/ k = 18
    OBVIOUS
  <2> QED BY <1>6, <2>1, <2>2 DEF Reading
<1>13. ASSUME NEW k \in 0 .. 5, Ack1(k) \/ Ack2(k) PROVE FALSE
  <2>1. ~Mute
    BY <1>0 DEF Mute, Receiving
  <2>2. \A l \in {0, 1} : \A v : k < 4 => ~Acking(l, v, k)
    <3> SUFFICES ASSUME NEW l \in {0, 1}, NEW v, k < 4, Acking(l, v, k) PROVE FALSE
      OBVIOUS
    <3>1. k < 3 \/ k = 3
      OBVIOUS
    <3>2. slave.st # "wait"
      BY <1>0 DEF Receiving
    <3> QED BY <1>6, <3>1, <3>2 DEF Acking
  <2>3. k < 4 \/ k >= 4
    OBVIOUS
  <2> QED BY <1>6, <1>13, <2>1, <2>2, <2>3 DEF Ack1, Ack2
<1>14. ASSUME NEW k \in 0 .. 25, Byte1(k) \/ Byte2(k) \/ Byte3(k) \/ Byte4(k)
       PROVE  /\ k \in 1 .. 24
              /\ \/ Writing("addr", 114, k) \/ Writing("addr", 115, k)
                 \/ step \in Steps /\ Writing("cmd", 128 + Reg(step), k)
                 \/ step \in Steps /\ Writing("data", Val(step), k) /\ sensor.reg = Reg(step)
  <2>1. \/ Writing("addr", 114, k) \/ Writing("addr", 115, k)
        \/ step \in Steps /\ Writing("cmd", 128 + Reg(step), k)
        \/ step \in Steps /\ Writing("data", Val(step), k) /\ sensor.reg = Reg(step)
    BY <1>2, <1>14 DEF Byte1, Byte2, Byte3, Byte4, Common, Steps, Aimed
  <2>2. \A st, b : Writing(st, b, k) => k # 0 /\ k # 25
    BY <1>1 DEF Writing
  <2> QED BY <2>1, <2>2
<1> QED BY <1>3, <1>4, <1>5, <1>7, <1>8, <1>10, <1>11, <1>12, <1>13, <1>14, Zenon DEF Place

\* What the sensor then takes the byte for.
LEMMA LastByte ==
  ASSUME NEW st, NEW b \in Octets, NEW k \in 1 .. 24, Writing(st, b, k), Last
  PROVE  /\ slave.st = st
         /\ m_nLastSCL = 0 => 2 * slave.byte + 1 = 2 * (b \div 2) + 1
         /\ m_nLastSCL = 1 => slave.byte = 2 * (b \div 2) + 1
<1>0. b \in Nat
  BY OctetIs
<1>1. slave = [st |-> st, n |-> k \div 3, byte |-> Top(b, k \div 3), out |-> 1]
  BY DEF Writing
<1>2. slave.st = st /\ slave.n = k \div 3 /\ slave.byte = Top(b, k \div 3)
  BY <1>1
<1>3. Top(b, 7) = b \div 2 /\ Top(b, 8) = b \div 1
  BY DEF Top
<1>4. CASE m_nLastSCL = 0
  <2>1. slave.n = 7
    BY <1>4 DEF Last
  <2> QED BY <1>2, <1>3, <1>4, <2>1
<1>5. CASE m_nLastSCL = 1
  <2>1. slave.n = 8 /\ m_nLastSDA = 1
    BY <1>5 DEF Last
  <2>2. k = 24
    BY <1>2, <2>1
  <2>3. Bit(b, 7 - ((24 - 2) \div 3)) = 1
    BY <2>1, <2>2 DEF Writing
  <2>4. 7 - ((24 - 2) \div 3) = 0 /\ 2 ^ 0 = 1
    OBVIOUS
  <2>5. (b \div 1) % 2 = 1
    BY <2>3, <2>4 DEF Bit
  <2>6. slave.byte = b \div 1
    BY <1>2, <1>3, <2>1
  <2>7. b \div 1 = 2 * (b \div 2) + 1
    BY <1>0, <2>5
  <2> QED BY <1>2, <1>5, <2>6, <2>7
<1> QED BY <1>2, <1>4, <1>5 DEF Last

\* What a restart at any setting can make of a byte that is on its way.
LEMMA RestartFate ==
  ASSUME Typed, SlaveOK, Place, restarts = 0, React(1, 1), slave'.st \in Receiving, slave'.n = 8
  PROVE  /\ slave'.st = "data" => sensor'.reg \in {0, 1, 10, 12, 14}
         /\ slave'.st = "cmd" => slave'.byte % 16 \in {1, 11, 13, 15}
         /\ slave'.st = "addr" => slave'.byte % 2 = 1
<1>1. /\ slave'.st = slave.st /\ sensor' = sensor
      /\ \/ m_nLastSCL = 0 /\ slave.n = 7 /\ slave'.byte = 2 * slave.byte + 1
         \/ m_nLastSCL = 1 /\ m_nLastSDA = 1 /\ slave.n = 8 /\ slave'.byte = slave.byte
  BY LetGo
<1>2. Last
  BY <1>1 DEF Last
<1>3. PICK k \in 1 .. 24 :
           \/ Writing("addr", 114, k) \/ Writing("addr", 115, k)
           \/ step \in Steps /\ Writing("cmd", 128 + Reg(step), k)
           \/ step \in Steps /\ Writing("data", Val(step), k) /\ sensor.reg = Reg(step)
  BY <1>2, OnlyBytes
<1>4. ASSUME NEW st, NEW b \in Octets, Writing(st, b, k)
      PROVE  slave'.st = st /\ slave'.byte = 2 * (b \div 2) + 1
  <2>1. /\ slave.st = st
        /\ m_nLastSCL = 0 => 2 * slave.byte + 1 = 2 * (b \div 2) + 1
        /\ m_nLastSCL = 1 => slave.byte = 2 * (b \div 2) + 1
    BY <1>2, <1>4, LastByte
  <2> QED BY <1>1, <2>1
<1>5. CASE Writing("addr", 114, k) \/ Writing("addr", 115, k)
  <2>1. slave'.st = "addr" /\ (slave'.byte = 2 * (114 \div 2) + 1 \/ slave'.byte = 2 * (115 \div 2) + 1)
    BY <1>4, <1>5, ByteOctets
  <2>2. 2 * (114 \div 2) + 1 = 115 /\ 2 * (115 \div 2) + 1 = 115 /\ 115 % 2 = 1
    OBVIOUS
  <2> QED BY <2>1, <2>2
<1>6. CASE step \in Steps /\ Writing("cmd", 128 + Reg(step), k)
  <2>1. Reg(step) \in {0, 1, 10, 12, 14} /\ 128 + Reg(step) \in Octets
    BY <1>6, StepIs
  <2>2. slave'.st = "cmd" /\ slave'.byte = 2 * ((128 + Reg(step)) \div 2) + 1
    BY <1>4, <1>6, <2>1
  <2>3. PICK r : r = Reg(step)
    OBVIOUS
  <2>4. (2 * ((128 + r) \div 2) + 1) % 16 \in {1, 11, 13, 15}
    BY <2>1, <2>3
  <2> QED BY <2>2, <2>3, <2>4
<1>7. CASE step \in Steps /\ Writing("data", Val(step), k) /\ sensor.reg = Reg(step)
  <2>1. Reg(step) \in {0, 1, 10, 12, 14} /\ Val(step) \in Octets
    BY <1>7, StepIs
  <2>2. slave'.st = "data"
    BY <1>4, <1>7, <2>1
  <2> QED BY <1>1, <1>7, <2>1, <2>2
<1> QED BY <1>3, <1>5, <1>6, <1>7

\* A restart keeps the invariant.
LEMMA RestartInv ==
  ASSUME IInv, Restart
  PROVE  IInv'
<1>0. Typed /\ SlaveOK /\ Place
  BY DEF IInv
<1>1. /\ m_nLastSDA' = 1 /\ m_nLastSCL' = 1 /\ React(1, 1) /\ todo' = << >> /\ got' = 0
      /\ step' = "init" /\ script' = <<Op("init", 0)>> /\ failed' = FALSE /\ lux' = -1 /\ misses' = 0
      /\ restarts' = restarts + 1 /\ restarts < MaxRestarts
  BY DEF Restart, Transfer
<1>2. /\ SlaveOK' /\ nacks' \in Nat
      /\ sensor' \in [reg : 0 .. 15, control : 0 .. 3, timing : 0 .. 31, id : Ids, light : Light]
  BY <1>0, <1>1, ReactTyped
<1>3. restarts \in Nat /\ restarts' \in 0 .. MaxRestarts /\ MaxRestarts \in Nat
  BY <1>0, <1>1, Tsl2561Constants DEF Typed
<1>4. Typed'
  <2>1. << >> \in Seq(Moves)
    OBVIOUS
  <2> QED BY <1>1, <1>2, <1>3, <2>1 DEF Typed
<1>5. Clocked(0)'
  <2>0. /\ slave'.st \in States /\ slave'.n \in 0 .. 9 /\ slave'.byte \in Nat /\ restarts' # 0
        /\ sensor'.reg \in 0 .. 15
    BY <1>1, <1>2, <1>3 DEF SlaveOK
  <2>1. slave'.st \in {"send", "cmd", "addr"} => Patience' + 0 <= 18
    BY <1>1, <2>0 DEF Patience
  <2>2. ASSUME MaxRestarts <= 1, slave'.st \in Receiving, InStep(0)' PROVE Fate(0)'
    <3>1. slave'.n = 8
      <4>1. slave'.n = IF 0 % 9 = 1 THEN 9 ELSE (0 + 8) % 9
        BY <1>1, <2>2 DEF InStep
      <4> QED BY <4>1
    <3>2. restarts = 0
      BY <1>1, <1>3, <2>2
    <3>3. /\ slave'.st = "data" => sensor'.reg \in {0, 1, 10, 12, 14}
          /\ slave'.st = "cmd" => slave'.byte % 16 \in {1, 11, 13, 15}
          /\ slave'.st = "addr" => slave'.byte % 2 = 1
      BY <1>0, <1>1, <2>2, <3>1, <3>2, RestartFate
    <3>4. Since(0)' = 0
      <4>1. Since(0)' = (0 + 8 - 1) \div 9
        BY <1>1 DEF Since
      <4> QED BY <4>1
    <3>5. sensor'.reg \in {0, 1, 10, 12, 14} => (sensor'.reg + 16 - 0) % 16 \in {0, 1, 10, 12, 14}
      OBVIOUS
    <3> QED BY <3>3, <3>4, <3>5 DEF Fate
  <2> QED BY <2>0, <2>1, <2>2 DEF Clocked
<1>6. InitCall'
  BY <1>1, <1>5 DEF InitCall, Wires
<1>7. Locals' /\ Genuine' /\ Recovers'
  BY <1>1 DEF Locals, Genuine, LightGenuine, LuxGenuine, Recovers, Steps, Readers, Writers
<1> QED BY <1>2, <1>4, <1>6, <1>7 DEF IInv, Place

\* The driver starts within the invariant.
LEMMA StartInv == Init => IInv
<1> SUFFICES ASSUME Init PROVE IInv
  OBVIOUS
<1>1. /\ m_nLastSDA = 1 /\ m_nLastSCL = 1 /\ todo = << >> /\ got = 0 /\ slave = Idle
      /\ step = "init" /\ script = <<Op("init", 0)>> /\ failed = FALSE /\ lux = -1
      /\ nacks = 0 /\ restarts = 0 /\ misses = 0
  BY DEF Init
<1>2. Typed
  <2>1. << >> \in Seq(Moves)
    OBVIOUS
  <2>2. sensor \in [reg : {0}, control : {0}, timing : {2}, id : Ids, light : Light]
    BY DEF Init
  <2>3. sensor \in [reg : 0 .. 15, control : 0 .. 3, timing : 0 .. 31, id : Ids, light : Light]
    BY <2>2
  <2>4. MaxRestarts \in Nat
    BY Tsl2561Constants
  <2>5. restarts \in 0 .. MaxRestarts
    BY <1>1, <2>4
  <2> QED BY <1>1, <2>1, <2>3, <2>5 DEF Typed
<1>3. SlaveOK
  BY <1>1 DEF SlaveOK, Idle, States, Receiving
<1>4. Clocked(0)
  BY <1>1 DEF Clocked, Idle, Receiving
<1>5. InitCall
  BY <1>1, <1>4 DEF InitCall, Wires
<1>6. Locals /\ Genuine /\ Recovers
  BY <1>1 DEF Locals, Genuine, LightGenuine, LuxGenuine, Recovers, Steps, Readers, Writers
<1> QED BY <1>2, <1>3, <1>5, <1>6 DEF IInv, Place

\* Nothing happens, nothing changes.
LEMMA StutterInv == IInv /\ UNCHANGED vars => IInv'
<1> SUFFICES ASSUME IInv, UNCHANGED vars PROVE IInv'
  OBVIOUS
<1>1. UNCHANGED <<m_nLastSDA, m_nLastSCL, todo, got, slave, step, script, bytes, failed, data0, data1, part, lux,
                  sensor, nacks, restarts, misses>>
  BY DEF vars, busVars, driverVars
<1>2. Held
  BY <1>1 DEF Held
<1>3. Typed /\ SlaveOK /\ Place /\ Locals /\ Genuine /\ Recovers
  BY DEF IInv
<1>4. Typed' /\ SlaveOK' /\ Locals' /\ Genuine' /\ Recovers'
  BY <1>1, <1>3 DEF Typed, SlaveOK, Locals, Genuine, LightGenuine, LuxGenuine, Recovers
<1>5. \A S, j : Common(S, j) => Common(S, j)'
  BY <1>1 DEF Common
<1>6. /\ Prepared => Prepared'
      /\ Done => Done'
      /\ Aimed => Aimed'
      /\ Behind => Behind'
      /\ \A d \in Nat : Dirty(d) => Dirty(d)'
      /\ Lost => Lost'
      /\ Mute => Mute'
      /\ Stuck => Stuck'
      /\ \A a, c : Wires(a, c) => Wires(a, c)'
  BY <1>2, HeldKeeps
<1>7. \A i \in {1, 2}, v \in Octets : Fits(i, v) => Fits(i, v)'
  BY <1>2, HeldKeeps
<1>8. \A v, r, x : Sending(v, r, x) => Sending(v, r, x)'
  BY <1>1 DEF Sending
<1>9. \A st, b, k : Writing(st, b, k) => Writing(st, b, k)'
  BY <1>1 DEF Writing, Heard, Lost
<1>10. \A st, b, k : Checking(st, b, k) => Checking(st, b, k)'
  BY <1>1 DEF Checking, Heard, Lost
<1>11. \A v, k : Reading(v, k) => Reading(v, k)'
  BY <1>1 DEF Reading, Sending
<1>12. \A l, v, k : Acking(l, v, k) => Acking(l, v, k)'
  BY <1>1 DEF Acking, Sending
<1>13. \A k : Stopping(k) => Stopping(k)'
  BY <1>1 DEF Stopping
<1>14. \A c : Clocked(c) => Clocked(c)'
  BY <1>1 DEF Clocked, Fate, Since, InStep, Patience
<1>15. (Off => Off') /\ (InitCall => InitCall') /\ \A k : InitAt(k) => InitAt(k)'
  BY <1>1, <1>6, <1>14 DEF Off, InitCall, InitAt
<1>16. /\ AtStart => AtStart'
       /\ Told1 => Told1'
       /\ Told2 => Told2'
       /\ Told3 => Told3'
       /\ GaveUp => GaveUp'
       /\ \A k : Starting(k) => Starting(k)'
       /\ \A k : Again(k) => Again(k)'
  BY <1>1, <1>5, <1>6 DEF AtStart, Told1, Told2, Told3, GaveUp, Starting, Again
<1>17. \A k : /\ Byte1(k) => Byte1(k)'
              /\ Byte2(k) => Byte2(k)'
              /\ Byte3(k) => Byte3(k)'
              /\ Byte4(k) => Byte4(k)'
  BY <1>1, <1>5, <1>6, <1>9 DEF Byte1, Byte2, Byte3, Byte4
<1>18. \A k : /\ Check1(k) => Check1(k)'
              /\ Check2(k) => Check2(k)'
              /\ Check3(k) => Check3(k)'
              /\ Check4(k) => Check4(k)'
  BY <1>1, <1>5, <1>6, <1>7, <1>8, <1>10 DEF Check1, Check2, Check3, Check4
<1>19. /\ Told4 => Told4'
       /\ Kept1 => Kept1'
       /\ Kept2 => Kept2'
       /\ \A k : Read1(k) => Read1(k)'
       /\ \A k : Read2(k) => Read2(k)'
  BY <1>1, <1>5, <1>6, <1>7, <1>8, <1>11 DEF Told4, Kept1, Kept2, Read1, Read2
<1>20. \A k : /\ Ack1(k) => Ack1(k)'
              /\ Ack2(k) => Ack2(k)'
  BY <1>1, <1>5, <1>6, <1>7, <1>8, <1>12 DEF Ack1, Ack2
<1>21. \A k : /\ Stop3(k) => Stop3(k)'
              /\ Stop4(k) => Stop4(k)'
              /\ StopF(k) => StopF(k)'
  BY <1>1, <1>5, <1>6, <1>7, <1>13 DEF Stop3, Stop4, StopF
<1>22. Place'
  BY <1>3, <1>15, <1>16, <1>17, <1>18, <1>19, <1>20, <1>21, Zenon DEF Place
<1> QED BY <1>4, <1>22 DEF IInv

\* Every step keeps the invariant.
LEMMA NextInv == IInv /\ [Next]_vars => IInv'
<1> SUFFICES ASSUME IInv, [Next]_vars PROVE IInv'
  OBVIOUS
<1>1. CASE i2c_master_setDC
  BY <1>1, SetInv
<1>2. CASE Call
  BY <1>2, CallInv
<1>3. CASE tsl2561_lux
  BY <1>3, LuxCall
<1>4. CASE Continue
  BY <1>4, ContinueInv
<1>5. CASE Abandon
  BY <1>5, AbandonInv
<1>6. CASE Ready
  BY <1>6, ReadyInv
<1>7. CASE Restart
  BY <1>7, RestartInv
<1>8. CASE UNCHANGED vars
  BY <1>8, StutterInv
<1> QED BY <1>1, <1>2, <1>3, <1>4, <1>5, <1>6, <1>7, <1>8 DEF Next

\* Behind a transfer the bus is free.
LEMMA FreeBus == IInv => BusFree
<1> SUFFICES ASSUME IInv, Quiet, step \notin {"init", "off"} \/ restarts = 0
             PROVE  m_nLastSDA = 1 /\ m_nLastSCL = 1 /\ slave = Idle
  BY DEF BusFree, Idle
<1>0. Place
  BY DEF IInv
<1>1. Off \/ InitAt(62) \/ Stop3(3) \/ Stop4(3) \/ StopF(3)
  BY <1>0, QuietPlace
<1>2. CASE Off \/ InitAt(62)
  <2>1. restarts = 0
    BY <1>2 DEF Off, InitAt
  <2>2. ~Dirty(0)
    BY <2>1 DEF Dirty
  <2> QED BY <1>2, <2>2 DEF Off, InitAt, Wires
<1>3. CASE Stop3(3) \/ Stop4(3) \/ StopF(3)
  <2>1. Stopping(3)
    BY <1>3 DEF Stop3, Stop4, StopF
  <2> QED BY <2>1 DEF Stopping
<1> QED BY <1>1, <1>2, <1>3

\* The invariant, for all sensors, lights, missing acknowledges and restarts: where the driver
\* is in a transfer, what the sensor has heard of it, and what its registers hold.
THEOREM SensorInvariant == Spec => []IInv
<1>1. Init => IInv
  BY StartInv
<1>2. IInv /\ [Next]_vars => IInv'
  BY NextInv
<1> QED BY <1>1, <1>2, PTL DEF Spec

\* BusFree: behind every transfer of tsl2561_lux(), also behind one that a missing acknowledge
\* ended, i2c_master_stop() has left both wires high and the sensor waiting for a start.
THEOREM BusIsFree == Spec => []BusFree
<1>1. IInv => BusFree
  BY FreeBus
<1> QED BY <1>1, SensorInvariant, PTL

\* Recovers: however often and wherever the device restarts, and whatever the sensor does not
\* acknowledge, a fault costs at most one failing call of tsl2561_lux().
THEOREM SensorRecovers == Spec => []Recovers
<1>1. IInv => Recovers
  BY DEF IInv
<1> QED BY <1>1, SensorInvariant, PTL

\* A reading of tsl2561_lux() was computed by calc_lux() from what both channels of the sensor
\* measured, and the sensor is off again, whatever restarts there were.
THEOREM ReadingsGenuine == Spec => []LightGenuine
<1>1. IInv => LightGenuine
  BY DEF IInv, Genuine
<1> QED BY <1>1, SensorInvariant, PTL

\* LuxGenuine: with at most one restart the table is the one of the sensor's package, too.  What
\* one restart leaves in the register pointer never makes tsl2561_readbyte() of the id return
\* another known package.
THEOREM TableGenuine ==
  ASSUME MaxRestarts <= 1
  PROVE  Spec => []LuxGenuine
<1>1. IInv => LuxGenuine
  BY DEF IInv, Genuine
<1> QED BY <1>1, SensorInvariant, PTL

-----------------------------------------------------------------------------
(* One wire at a time.                                                     *)

\* The settings f, with the wires at a and c before.
Smooth(f, a, c) ==
  /\ f # << >> => f[1].sda = a \/ f[1].scl = c
  /\ \A i \in 1 .. Len(f) - 1 : f[i].sda = f[i + 1].sda \/ f[i].scl = f[i + 1].scl

\* i2c_master_init() is only called with SDA high; the other functions take it as it is.
Steady ==
  /\ Smooth(todo, m_nLastSDA, m_nLastSCL)
  /\ script \in Seq(Ops) \/ (script = <<Op("init", 0)>> /\ todo = << >> /\ m_nLastSDA = 1)

\* Start, stop and acknowledgements move one wire at a time.
LEMMA SmoothAre ==
  ASSUME NEW a \in {0, 1}, NEW c \in {0, 1}
  PROVE  /\ Smooth(<< >>, a, c)
         /\ Smooth(StartFrom(c), a, c)
         /\ Smooth(StopAfter(c), a, c)
         /\ Smooth(CheckFrom(a), a, c)
         /\ \A l : Smooth(AckFrom(a, l), a, c)
<1>1. Smooth(<< >>, a, c)
  BY DEF Smooth
<1>2. Smooth(StartFrom(c), a, c)
  BY DEF Smooth, StartFrom, Set
<1>3. Smooth(StopAfter(c), a, c)
  BY DEF Smooth, StopAfter, Set
<1>4. Smooth(CheckFrom(a), a, c)
  BY DEF Smooth, CheckFrom, Set, Get
<1>5. \A l : Smooth(AckFrom(a, l), a, c)
  <2> TAKE l
  <2> DEFINE f == AckFrom(a, l)
  <2>1. /\ Len(f) = 5 /\ f[1] = Set(a, 0) /\ f[2] = Set(l, 0) /\ f[3] = Set(l, 1)
        /\ f[4] = Set(l, 0) /\ f[5] = Set(1, 0)
    BY DEF AckFrom
  <2> HIDE DEF f
  <2>2. \A i \in 1 .. 4 : f[i].sda = f[i + 1].sda \/ f[i].scl = f[i + 1].scl
    BY <2>1 DEF Set
  <2>3. f[1].sda = a
    BY <2>1 DEF Set
  <2>4. Smooth(f, a, c)
    BY <2>1, <2>2, <2>3 DEF Smooth
  <2> QED BY <2>4 DEF f
<1> QED BY <1>1, <1>2, <1>3, <1>4, <1>5

\* So do the bytes that are written.
LEMMA SmoothWrite ==
  ASSUME NEW a \in {0, 1}, NEW c \in {0, 1}, NEW b \in Nat
  PROVE  Smooth(WriteFrom(a, b), a, c)
<1> DEFINE f == WriteFrom(a, b)
<1>1. /\ Len(f) = 25 /\ f[1] = Set(a, 0)
      /\ \A k \in 1 .. 24 : f[k + 1] = Set(Bit(b, 7 - ((k - 1) \div 3)), IF k % 3 = 2 THEN 1 ELSE 0)
  BY WriteNat, Zenon
<1> HIDE DEF f
<1>2. /\ f[1].sda = a /\ f[1].scl = 0
      /\ \A k \in 1 .. 24 : /\ f[k + 1].sda = Bit(b, 7 - ((k - 1) \div 3))
                            /\ f[k + 1].scl = IF k % 3 = 2 THEN 1 ELSE 0
  BY <1>1 DEF Set
<1>3. ASSUME NEW i \in 1 .. 24 PROVE f[i].sda = f[i + 1].sda \/ f[i].scl = f[i + 1].scl
  <2>1. CASE i = 1
    BY <1>2, <2>1
  <2>2. CASE i # 1
    <3>1. PICK k \in 1 .. 23 : i = k + 1
      <4>1. i - 1 \in 1 .. 23 /\ i = (i - 1) + 1
        BY <2>2
      <4> QED BY <4>1
    <3>2. k \in 1 .. 24 /\ k + 1 \in 1 .. 24
      OBVIOUS
    <3>3. /\ f[k + 1].sda = Bit(b, 7 - ((k - 1) \div 3))
          /\ f[k + 1].scl = IF k % 3 = 2 THEN 1 ELSE 0
          /\ f[(k + 1) + 1].sda = Bit(b, 7 - (((k + 1) - 1) \div 3))
          /\ f[(k + 1) + 1].scl = IF (k + 1) % 3 = 2 THEN 1 ELSE 0
      BY <1>2, <3>2
    <3>4. CASE k % 3 = 0
      <4>1. (k + 1) % 3 # 2 /\ k % 3 # 2
        BY <3>4
      <4> QED BY <3>1, <3>3, <4>1
    <3>5. CASE k % 3 # 0
      <4>1. (k - 1) \div 3 = ((k + 1) - 1) \div 3
        BY <3>5
      <4> QED BY <3>1, <3>3, <4>1
    <3> QED BY <3>4, <3>5
  <2> QED BY <2>1, <2>2
<1>4. Smooth(f, a, c)
  BY <1>1, <1>2, <1>3 DEF Smooth
<1> QED BY <1>4 DEF f

\* So do the bytes that are read.
LEMMA SmoothRead ==
  ASSUME NEW a \in {0, 1}, NEW c \in {0, 1}
  PROVE  Smooth(ReadFrom(a), a, c)
<1> DEFINE f == ReadFrom(a)
<1>1. /\ Len(f) = 18 /\ f[1] = Set(a, 0) /\ f[18] = Set(1, 0)
      /\ \A k \in 1 .. 16 : f[k + 1] = IF k % 2 = 1 THEN Set(1, 0) ELSE Get(1, 1)
  BY ReadIs, Zenon
<1> HIDE DEF f
<1>2. /\ f[1].sda = a /\ f[1].scl = 0 /\ f[18].sda = 1
      /\ \A k \in 1 .. 16 : f[k + 1].sda = 1 /\ (k = 1 => f[k + 1].scl = 0)
  BY <1>1 DEF Set, Get
<1>3. f[2].scl = 0
  <2>1. 1 \in 1 .. 16 /\ 1 + 1 = 2
    OBVIOUS
  <2> QED BY <1>2, <2>1
<1>4. ASSUME NEW i \in 2 .. 18 PROVE f[i].sda = 1
  <2>1. CASE i = 18
    BY <1>2, <2>1
  <2>2. CASE i # 18
    <3>1. PICK k \in 1 .. 16 : i = k + 1
      <4>1. i - 1 \in 1 .. 16 /\ i = (i - 1) + 1
        BY <2>2
      <4> QED BY <4>1
    <3> QED BY <1>2, <3>1
  <2> QED BY <2>1, <2>2
<1>5. ASSUME NEW i \in 1 .. 17 PROVE f[i].sda = f[i + 1].sda \/ f[i].scl = f[i + 1].scl
  <2>1. CASE i = 1
    BY <1>2, <1>3, <2>1
  <2>2. CASE i # 1
    <3>1. i \in 2 .. 18 /\ i + 1 \in 2 .. 18
      BY <2>2
    <3> QED BY <1>4, <3>1
  <2> QED BY <2>1, <2>2
<1>6. Smooth(f, a, c)
  BY <1>1, <1>2, <1>5 DEF Smooth
<1> QED BY <1>6 DEF f

\* So does i2c_master_init(), from where the start of the program leaves the wires.
LEMMA SmoothInit ==
  ASSUME NEW c \in {0, 1}
  PROVE  Smooth(i2c_master_init, 1, c)
<1> DEFINE f == i2c_master_init
<1>1. /\ Len(f) = 62
      /\ f[1] = Set(1, 0) /\ f[2] = Set(0, 0) /\ f[3] = Set(1, 0)
      /\ \A k \in 1 .. 56 : f[k + 3] = IF k % 2 = 1 THEN Set(1, 0) ELSE Set(1, 1)
      /\ f[60] = Set(0, 1) /\ f[61] = Set(0, 1) /\ f[62] = Set(1, 1)
  BY InitIs, Zenon
<1> HIDE DEF f
<1>2. /\ f[1].sda = 1 /\ f[1].scl = 0 /\ f[2].scl = 0 /\ f[3].sda = 1 /\ f[3].scl = 0
      /\ f[60].sda = 0 /\ f[60].scl = 1 /\ f[61].sda = 0 /\ f[61].scl = 1 /\ f[62].scl = 1
      /\ \A k \in 1 .. 56 : f[k + 3].sda = 1 /\ (k % 2 = 0 => f[k + 3].scl = 1)
  BY <1>1 DEF Set
<1>3. f[59].scl = 1
  <2>1. 56 \in 1 .. 56 /\ 56 + 3 = 59 /\ 56 % 2 = 0
    OBVIOUS
  <2> QED BY <1>2, <2>1
<1>4. ASSUME NEW i \in 3 .. 59 PROVE f[i].sda = 1
  <2>1. CASE i = 3
    BY <1>2, <2>1
  <2>2. CASE i # 3
    <3>1. PICK k \in 1 .. 56 : i = k + 3
      <4>1. i - 3 \in 1 .. 56 /\ i = (i - 3) + 3
        BY <2>2
      <4> QED BY <4>1
    <3> QED BY <1>2, <3>1
  <2> QED BY <2>1, <2>2
<1>5. ASSUME NEW i \in 1 .. 61 PROVE f[i].sda = f[i + 1].sda \/ f[i].scl = f[i + 1].scl
  <2>1. CASE i \in {1, 2, 59, 60, 61}
    BY <1>2, <1>3, <2>1
  <2>2. CASE i \notin {1, 2, 59, 60, 61}
    <3>1. i \in 3 .. 59 /\ i + 1 \in 3 .. 59
      BY <2>2
    <3> QED BY <1>4, <3>1
  <2> QED BY <2>1, <2>2
<1>6. Smooth(f, 1, c)
  BY <1>1, <1>2, <1>5 DEF Smooth
<1> QED BY <1>6 DEF f

\* So does every call.
LEMMA SmoothSettings ==
  ASSUME Typed, NEW o, o \in Ops \/ (o = Op("init", 0) /\ m_nLastSDA = 1)
  PROVE  Smooth(Settings(o), m_nLastSDA, m_nLastSCL)
<1>0. m_nLastSDA \in {0, 1} /\ m_nLastSCL \in {0, 1}
  BY DEF Typed
<1>1. CASE o = Op("init", 0) /\ m_nLastSDA = 1
  BY <1>0, <1>1, SettingsAre, SmoothInit
<1>2. CASE o \in Ops
  <2>1. PICK n \in Names, x \in Nat : o = Op(n, x)
    <3>1. o = Op(o.op, o.arg) /\ o.op \in Names /\ o.arg \in Nat
      BY <1>2 DEF Ops, Op
    <3> QED BY <3>1
  <2>2. CASE n = "start"
    BY <1>0, <2>1, <2>2, SettingsAre, SmoothAre
  <2>3. CASE n = "stop"
    BY <1>0, <2>1, <2>3, SettingsAre, SmoothAre
  <2>4. CASE n = "write"
    BY <1>0, <2>1, <2>4, SettingsAre, SmoothWrite
  <2>5. CASE n = "check"
    BY <1>0, <2>1, <2>5, SettingsAre, SmoothAre
  <2>6. CASE n = "read"
    BY <1>0, <2>1, <2>6, SettingsAre, SmoothRead
  <2>7. CASE n = "ack"
    BY <1>0, <2>1, <2>7, SettingsAre, SmoothAre
  <2>8. CASE n = "test" \/ n = "keep"
    BY <1>0, <2>1, <2>8, SettingsAre, SmoothAre
  <2> QED BY <2>2, <2>3, <2>4, <2>5, <2>6, <2>7, <2>8 DEF Names
<1> QED BY <1>1, <1>2

\* A setting of a smooth call moves one wire at most, and the rest stays smooth.
LEMMA SteadySet ==
  ASSUME Typed, Steady, i2c_master_setDC
  PROVE  Steady' /\ (m_nLastSDA' = m_nLastSDA \/ m_nLastSCL' = m_nLastSCL)
<1>1. /\ todo # << >> /\ todo' = Tail(todo) /\ script' = script
      /\ m_nLastSDA' = Head(todo).sda /\ m_nLastSCL' = Head(todo).scl
  BY DEF i2c_master_setDC, driverVars
<1>2. todo \in Seq(Moves) /\ Smooth(todo, m_nLastSDA, m_nLastSCL) /\ script \in Seq(Ops)
  BY <1>1 DEF Typed, Steady
<1>3. PICK f \in Seq(Moves) : f = todo
  BY <1>2
<1>4. f # << >> /\ Head(f) = f[1] /\ Len(f) \in Nat /\ Len(f) > 0 /\ Len(Tail(f)) = Len(f) - 1
  BY <1>1, <1>3
<1>5. \A i \in 1 .. Len(f) - 1 : Tail(f)[i] = f[i + 1]
  OBVIOUS
<1>6. f[1].sda = m_nLastSDA \/ f[1].scl = m_nLastSCL
  BY <1>2, <1>3, <1>4 DEF Smooth
<1>7. \A i \in 1 .. Len(f) - 1 : f[i].sda = f[i + 1].sda \/ f[i].scl = f[i + 1].scl
  BY <1>2, <1>3 DEF Smooth
<1>8. Smooth(Tail(f), f[1].sda, f[1].scl)
  <2> PICK g : g = Tail(f)
    OBVIOUS
  <2>1. Len(g) = Len(f) - 1 /\ \A i \in 1 .. Len(f) - 1 : g[i] = f[i + 1]
    BY <1>4, <1>5
  <2>2. ASSUME g # << >> PROVE g[1].sda = f[1].sda \/ g[1].scl = f[1].scl
    <3>1. Len(f) - 1 > 0
      BY <1>4, <2>2
    <3>2. 1 \in 1 .. Len(f) - 1 /\ 1 + 1 = 2
      BY <1>4, <3>1
    <3>3. g[1] = f[2] /\ (f[1].sda = f[2].sda \/ f[1].scl = f[2].scl)
      BY <1>7, <2>1, <3>2
    <3> QED BY <3>3
  <2>3. ASSUME NEW i \in 1 .. Len(g) - 1 PROVE g[i].sda = g[i + 1].sda \/ g[i].scl = g[i + 1].scl
    <3>1. i \in 1 .. Len(f) - 1 /\ i + 1 \in 1 .. Len(f) - 1
      BY <1>4, <2>1
    <3>2. g[i] = f[i + 1] /\ g[i + 1] = f[(i + 1) + 1]
      BY <2>1, <3>1
    <3>3. f[i + 1].sda = f[(i + 1) + 1].sda \/ f[i + 1].scl = f[(i + 1) + 1].scl
      BY <1>7, <3>1
    <3> QED BY <3>2, <3>3
  <2>4. Smooth(g, f[1].sda, f[1].scl)
    BY <2>2, <2>3 DEF Smooth
  <2> QED BY <2>4
<1>9. Smooth(todo', m_nLastSDA', m_nLastSCL')
  BY <1>1, <1>3, <1>4, <1>8
<1> QED BY <1>1, <1>2, <1>3, <1>4, <1>6, <1>9 DEF Steady

\* Every step leaves a smooth rest.
LEMMA SteadyNext == IInv /\ Steady /\ [Next]_vars => Steady'
<1> SUFFICES ASSUME IInv, Steady, [Next]_vars PROVE Steady'
  OBVIOUS
<1>0. Typed
  BY DEF IInv
<1>q. ASSUME todo' = << >>, script' \in Seq(Ops) PROVE Steady'
  BY <1>q DEF Steady, Smooth
<1>1. CASE i2c_master_setDC
  BY <1>0, <1>1, SteadySet
<1>2. CASE Call
  <2>1. /\ script # << >> /\ todo' = Settings(Head(script)) /\ UNCHANGED <<m_nLastSDA, m_nLastSCL>>
        /\ script' = GiveUp \/ script' = Tail(script)
    BY <1>2 DEF Call
  <2>2. /\ Head(script) \in Ops \/ (Head(script) = Op("init", 0) /\ m_nLastSDA = 1)
        /\ Tail(script) \in Seq(Ops)
    <3>1. CASE script \in Seq(Ops)
      BY <2>1, <3>1
    <3>2. CASE script = <<Op("init", 0)>> /\ m_nLastSDA = 1
      <4>1. Head(script) = Op("init", 0) /\ Tail(script) = << >>
        BY <3>2
      <4> QED BY <3>2, <4>1
    <3> QED BY <3>1, <3>2 DEF Steady
  <2>3. PICK f, a, c : f = Settings(Head(script)) /\ a = m_nLastSDA /\ c = m_nLastSCL
    OBVIOUS
  <2>4. Smooth(f, a, c)
    BY <1>0, <2>2, <2>3, SmoothSettings
  <2>5. Smooth(todo', m_nLastSDA', m_nLastSCL')
    BY <2>1, <2>3, <2>4
  <2>6. script' \in Seq(Ops)
    BY <2>1, <2>2, PartsAre DEF GiveUp
  <2> QED BY <2>5, <2>6 DEF Steady
<1>j. /\ \A s \in Steps : Job(s) \in Seq(Ops)
      /\ "id" \in Steps /\ "on" \in Steps /\ "timing" \in Steps /\ "data0" \in Steps /\ "data1" \in Steps
      /\ "down" \in Steps /\ << >> \in Seq(Ops)
  <2>1. \A s \in Steps : Job(s) \in Seq(Ops)
    BY JobIs, Zenon
  <2> QED BY <2>1 DEF Steps, Readers, Writers
<1>3. CASE tsl2561_lux
  <2>1. todo' = << >> /\ script' = Job("id")
    BY <1>3, JobsAre DEF tsl2561_lux, Quiet, busVars, Transfer
  <2> QED BY <1>j, <1>q, <2>1
<1>4. CASE Continue
  <2>1. todo' = << >>
    BY <1>4 DEF Continue, Quiet, busVars
  <2>2. \/ script' = << >> \/ script' = Job("on") \/ script' = Job("timing") \/ script' = Job("data0")
        \/ script' = Job("data1") \/ script' = Job("down")
    BY <1>4, JobsAre DEF Continue, AfterId, AfterOn, AfterTiming, AfterData0, AfterData1, AfterDown, Return, Transfer
  <2> QED BY <1>j, <1>q, <2>1, <2>2
<1>5. CASE Abandon \/ Ready
  <2>1. todo' = << >> /\ script' = << >>
    BY <1>5 DEF Abandon, Ready, Return, Transfer, Quiet, busVars
  <2> QED BY <1>j, <1>q, <2>1
<1>6. CASE Restart
  <2>1. todo' = << >> /\ script' = <<Op("init", 0)>> /\ m_nLastSDA' = 1
    BY <1>6 DEF Restart, Transfer
  <2> QED BY <2>1 DEF Steady, Smooth
<1>7. CASE UNCHANGED vars
  BY <1>7 DEF vars, busVars, driverVars, Steady, Smooth
<1> QED BY <1>1, <1>2, <1>3, <1>4, <1>5, <1>6, <1>7 DEF Next

\* And moves one wire at most.
LEMMA SteadyMoves ==
  IInv /\ Steady /\ [Next]_vars =>
    [todo # << >> /\ restarts' = restarts => m_nLastSDA' = m_nLastSDA \/ m_nLastSCL' = m_nLastSCL]_vars
<1> SUFFICES ASSUME IInv, Steady, Next, todo # << >>, restarts' = restarts
             PROVE  m_nLastSDA' = m_nLastSDA \/ m_nLastSCL' = m_nLastSCL
  OBVIOUS
<1>0. Typed /\ restarts \in Nat
  BY DEF IInv, Typed
<1>1. CASE i2c_master_setDC
  BY <1>0, <1>1, SteadySet
<1>2. CASE Call \/ tsl2561_lux \/ Continue \/ Abandon \/ Ready
  BY <1>2 DEF Call, tsl2561_lux, Continue, Abandon, Ready, Quiet
<1>3. CASE Restart
  BY <1>0, <1>3 DEF Restart
<1> QED BY <1>1, <1>2, <1>3 DEF Next

\* OneWireMoves: no setting of i2c_master_setDC() moves both wires, in no transfer, and not
\* between the end of a function of the master and the first setting of the next one either.
THEOREM WiresMoveApart == Spec => OneWireMoves
<1>1. Init => Steady
  BY DEF Init, Steady, Smooth
<1>2. IInv /\ Steady /\ [Next]_vars => Steady'
  BY SteadyNext
<1>3. Spec => []Steady
  BY <1>1, <1>2, SensorInvariant, PTL DEF Spec
<1>4. IInv /\ Steady /\ [Next]_vars =>
        [todo # << >> /\ restarts' = restarts => m_nLastSDA' = m_nLastSDA \/ m_nLastSCL' = m_nLastSCL]_vars
  BY SteadyMoves
<1> QED BY <1>3, <1>4, SensorInvariant, PTL DEF Spec, OneWireMoves
=============================================================================
