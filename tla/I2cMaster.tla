----------------------------- MODULE I2cMaster -----------------------------
(***************************************************************************)
(* The two wires of i2c/i2c_master.c and a slave on them.                  *)
(*                                                                         *)
(* Every function of the master is a sequence of settings of the wires,    *)
(* some of them followed by a look at SDA.  SDA is low if either side      *)
(* pulls it low.  The slave follows the I2C protocol: it only sees the     *)
(* edges of the wires.                                                     *)
(***************************************************************************)
EXTENDS Integers, Sequences

VARIABLES
  m_nLastSDA, m_nLastSCL,   \* what the master has set last
  todo,                     \* settings that are left of the current function
  got,                      \* the bits that were read, as a number
  slave                     \* the slave's protocol engine

busVars == <<m_nLastSDA, m_nLastSCL, todo, got, slave>>

\* A setting of the wires, and one that is followed by i2c_master_getDC().
Set(a, c) == [sda |-> a, scl |-> c, get |-> FALSE]
Get(a, c) == [sda |-> a, scl |-> c, get |-> TRUE]

\* s, n times.
Times(n, s) == [i \in 1 .. n * Len(s) |-> s[1 + ((i - 1) % Len(s))]]

Bit(b, i) == (b \div 2 ^ i) % 2

-----------------------------------------------------------------------------
(* The functions of the master.                                            *)

i2c_master_start == <<Set(1, m_nLastSCL), Set(1, 1), Set(0, 1)>>

\* Mutant: SDA is not pulled low before SCL rises.
StopAfter_Direct(c) == <<Set(0, 1), Set(1, 1)>>

StopAfter(c) == <<Set(0, c), Set(0, 1), Set(1, 1)>>

i2c_master_stop == StopAfter(m_nLastSCL)

i2c_master_setAck(level) ==
  <<Set(m_nLastSDA, 0), Set(level, 0), Set(level, 1), Set(level, 0), Set(1, 0)>>

i2c_master_getAck == <<Set(m_nLastSDA, 0), Set(1, 0), Get(1, 1), Set(1, 0)>>

i2c_master_readByte ==
  <<Set(m_nLastSDA, 0)>> \o Times(8, <<Set(1, 0), Get(1, 1)>>) \o <<Set(1, 0)>>

i2c_master_writeByte(b) ==
  <<Set(m_nLastSDA, 0)>> \o
  [n \in 1 .. 24 |-> Set(Bit(b, 7 - ((n - 1) \div 3)), IF n % 3 = 2 THEN 1 ELSE 0)]

\* Mutant: the clocks that bring a slave to the end of its byte are left out.
i2c_master_init_NoClocks == <<Set(1, 0), Set(0, 0), Set(1, 0)>> \o StopAfter(0)

i2c_master_init ==
  <<Set(1, 0), Set(0, 0), Set(1, 0)>> \o Times(28, <<Set(1, 0), Set(1, 1)>>) \o StopAfter(1)

-----------------------------------------------------------------------------
(* The slave.  st: "idle", "wait" (for a start or a stop), the byte that   *)
(* it receives ("addr", "cmd", "data"), or "send".  n: bits of the byte    *)
(* that are over, 9 in the clock of the acknowledge.                       *)

Receiving == {"addr", "cmd", "data"}

Idle == [st |-> "idle", n |-> 0, byte |-> 0, out |-> 1]

Wire(a, s) == IF a = 0 \/ s.out = 0 THEN 0 ELSE 1

\* A start or a stop: SDA moves while SCL is high.
Framed(s, sda) ==
  IF sda = 0 THEN [st |-> "addr", n |-> 0, byte |-> 0, out |-> 1] ELSE Idle

\* SCL rises: a bit is taken from SDA, or the master's acknowledge.
Rises(s, sda) ==
  IF s.st \in Receiving /\ s.n < 8 THEN [s EXCEPT !.n = @ + 1, !.byte = 2 * @ + sda]
  ELSE IF s.st = "send" /\ s.n < 8 THEN [s EXCEPT !.n = @ + 1]
  ELSE IF s.st = "send" THEN IF sda = 0 THEN [s EXCEPT !.n = 9] ELSE [s EXCEPT !.st = "wait"]
  ELSE s

\* SCL falls in the middle of a byte that is sent: the next bit.
NextBit(s) == IF s.n < 8 THEN [s EXCEPT !.out = Bit(s.byte, 7 - s.n)] ELSE [s EXCEPT !.out = 1]
=============================================================================
