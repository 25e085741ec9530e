------------------------------ MODULE Tsl2561 ------------------------------
(***************************************************************************)
(* The driver of the light sensor (drivers/tsl2561.c) on the bus of        *)
(* I2cMaster, the sensor, and restarts of the device in the middle of a    *)
(* transfer, which the sensor does not notice.                             *)
(***************************************************************************)
EXTENDS I2cMaster

CONSTANTS
  Ids,         \* what the sensor may have in REG_ID
  Light,       \* what it may measure: <<data0, data1>>
  MaxNacks,    \* bytes that it does not acknowledge
  MaxRestarts, \* restarts of the device
  MaxMisses    \* failing calls that are counted

I2C_ADDR     == 57    \* 0x39
REG_CONTROL  == 0
REG_TIMING   == 1
REG_ID       == 10
REG_DATA0LOW == 12
REG_DATA1LOW == 14

ASSUME Tsl2561Constants ==
  /\ Ids \subseteq 0 .. 255
  /\ \A l \in Light : l \in [1 .. 2 -> Nat] /\ l[1] < 65536 /\ l[2] < 65536
  /\ MaxNacks \in Nat /\ MaxRestarts \in Nat /\ MaxMisses \in Nat

VARIABLES
  step,      \* where tsl2561_lux() is; "init" in i2c_master_gpio_init(), "off" outside
  script,    \* functions of the master that are left of the transfer
  bytes,     \* bytes read in this transfer
  failed,    \* the transfer was not acknowledged
  data0,     \* local variables of tsl2561_lux()
  data1,
  part,
  lux,       \* what it returned last
  sensor,    \* the sensor: [reg, control, timing, id, light]
  nacks, restarts,
  misses     \* history: calls in a row that failed since the last fault

driverVars == <<step, script, bytes, failed, data0, data1, part, lux>>
vars == <<busVars, driverVars, sensor, nacks, restarts, misses>>

-----------------------------------------------------------------------------
(* Light.                                                                  *)

\* Rows of the tables: up to this ratio, b and m; type 0 is T/FN/CL, type 1 CS.
Table(type) ==
  IF type = 0
  THEN << <<64, 498, 446>>, <<128, 532, 721>>, <<192, 575, 891>>, <<256, 624, 1022>>,
          <<312, 367, 508>>, <<410, 210, 251>>, <<666, 24, 18>> >>
  ELSE << <<67, 516, 429>>, <<133, 552, 705>>, <<200, 595, 867>>, <<266, 642, 991>>,
          <<333, 375, 477>>, <<410, 257, 295>>, <<666, 55, 43>> >>

Ratio(raw0, raw1) == ((IF raw0 = 0 THEN 0 ELSE (raw1 * 1024) \div raw0) + 1) \div 2

\* The row for a ratio; behind the last one there is only dark.
Coeffs(type, ratio) ==
  LET t  == Table(type)
      ks == {k \in 1 .. 7 : ratio <= t[k][1]}
  IN  IF ks = {} THEN <<ratio, 0, 0>> ELSE t[CHOOSE k \in ks : \A j \in ks : k <= j]

\* Gain 16 and 402 ms: the scale is 1.  rv is a uint32_t; where the difference would
\* wrap it is set to 0, and all products fit.  The result is a uint16_t.
calc_lux(type, raw0, raw1) ==
  LET c  == Coeffs(type, Ratio(raw0, raw1))
      rv == IF raw0 * c[2] < raw1 * c[3] THEN 0 ELSE raw0 * c[2] - raw1 * c[3]
  IN  ((rv + 8192) \div 16384) % 65536

-----------------------------------------------------------------------------
(* The transfers, as sequences of functions of the master.                 *)

Op(name, arg) == [op |-> name, arg |-> arg]

\* A byte, and the end of the transfer if it is not acknowledged.
Byte(b) == <<Op("write", b), Op("check", 0), Op("test", 0)>>

Start == <<Op("start", 0)>>
Stop  == <<Op("stop", 0)>>

\* Mutant: the transfer is given up without a stop.
GiveUp_NoStop == << >>

\* What is done when a byte is not acknowledged.
GiveUp == Stop

Command(reg)  == Start \o Byte(2 * I2C_ADDR) \o Byte(128 + reg)
Select(reg)   == Command(reg) \o Start \o Byte(2 * I2C_ADDR + 1)
Read(level)   == <<Op("read", 0), Op("keep", 0), Op("ack", level)>>

tsl2561_readbyte(reg)       == Select(reg) \o Read(1) \o Stop
tsl2561_readword(reg)       == Select(reg) \o Read(0) \o Read(1) \o Stop
tsl2561_writebyte(reg, val) == Command(reg) \o Byte(val) \o Stop

Init ==
  /\ m_nLastSDA = 1 /\ m_nLastSCL = 1 /\ todo = << >> /\ got = 0 /\ slave = Idle
  /\ step = "init" /\ script = <<Op("init", 0)>> /\ bytes = << >> /\ failed = FALSE
  /\ data0 = 0 /\ data1 = 0 /\ part = 0 /\ lux = -1
  /\ sensor \in [reg : {0}, control : {0}, timing : {2}, id : Ids, light : Light]
  /\ nacks = 0 /\ restarts = 0 /\ misses = 0

-----------------------------------------------------------------------------
(* The sensor.                                                             *)

\* The byte in a register; the channels count only when the power is on, and with the
\* gain and time of the code.
Contents(reg) ==
  LET measured == sensor.control = 3 /\ sensor.timing = 18
      light(n) == IF measured THEN sensor.light[n] ELSE 0
  IN  CASE reg = REG_CONTROL      -> sensor.control
        [] reg = REG_TIMING       -> sensor.timing
        [] reg = REG_ID           -> sensor.id
        [] reg = REG_DATA0LOW     -> light(1) % 256
        [] reg = REG_DATA0LOW + 1 -> light(1) \div 256
        [] reg = REG_DATA1LOW     -> light(2) % 256
        [] reg = REG_DATA1LOW + 1 -> light(2) \div 256
        [] OTHER                  -> 0

\* Is the byte for the sensor?
Mine == slave.st = "addr" => slave.byte \div 2 = I2C_ADDR

\* The first bit of the register, and the next register.
SendNext ==
  /\ slave' = [st |-> "send", n |-> 0, byte |-> Contents(sensor.reg),
               out |-> Bit(Contents(sensor.reg), 7)]
  /\ sensor' = [sensor EXCEPT !.reg = (@ + 1) % 16]

Listen(st) == slave' = [st |-> st, n |-> 0, byte |-> 0, out |-> 1]

\* The clock of the acknowledge is over: the byte takes effect.
Taken ==
  \/ slave.st = "addr" /\ slave.byte % 2 = 1 /\ SendNext
  \/ slave.st = "addr" /\ slave.byte % 2 = 0 /\ Listen("cmd") /\ UNCHANGED sensor
  \/ slave.st = "cmd" /\ Listen("data") /\ sensor' = [sensor EXCEPT !.reg = slave.byte % 16]
  \/ /\ slave.st = "data" /\ Listen("data")
     /\ sensor' = [sensor EXCEPT !.control = IF sensor.reg = REG_CONTROL THEN slave.byte % 4 ELSE @,
                                 !.timing = IF sensor.reg = REG_TIMING THEN slave.byte % 32 ELSE @,
                                 !.reg = (@ + 1) % 16]

\* The slave at a falling edge of SCL.
Falls ==
  \/ /\ slave.st \in Receiving /\ slave.n = 8
     /\ \/ Mine /\ slave' = [slave EXCEPT !.n = 9, !.out = 0] /\ UNCHANGED nacks
        \/ ~Mine /\ slave' = [slave EXCEPT !.st = "wait"] /\ UNCHANGED nacks
        \/ Mine /\ nacks < MaxNacks /\ nacks' = nacks + 1 /\ slave' = [slave EXCEPT !.st = "wait"]
     /\ UNCHANGED sensor
  \/ slave.st \in Receiving /\ slave.n = 9 /\ Taken /\ UNCHANGED nacks
  \/ slave.st = "send" /\ slave.n = 9 /\ SendNext /\ UNCHANGED nacks
  \/ slave.st = "send" /\ slave.n < 9 /\ slave' = NextBit(slave) /\ UNCHANGED <<sensor, nacks>>
  \/ /\ slave.st \in {"idle", "wait"} \/ (slave.st \in Receiving /\ slave.n < 8)
     /\ UNCHANGED <<slave, sensor, nacks>>

\* The wires change to a, c.
React(a, c) ==
  LET old == Wire(m_nLastSDA, slave)
      new == Wire(a, slave)
  IN  IF m_nLastSCL = 1 /\ c = 0 THEN Falls
      ELSE /\ slave' = IF m_nLastSCL = 1 /\ old # new THEN Framed(slave, new)
                       ELSE IF m_nLastSCL = 0 /\ c = 1 THEN Rises(slave, new)
                       ELSE slave
           /\ UNCHANGED <<sensor, nacks>>

-----------------------------------------------------------------------------
(* The driver.                                                             *)

\* The next setting of the wires.
i2c_master_setDC ==
  /\ todo # << >>
  /\ LET s == Head(todo)
     IN  /\ m_nLastSDA' = s.sda /\ m_nLastSCL' = s.scl
         /\ React(s.sda, s.scl)
         /\ got' = IF s.get THEN 2 * got + Wire(s.sda, slave') ELSE got
  /\ todo' = Tail(todo)
  /\ misses' = IF nacks' = nacks THEN misses ELSE 0
  /\ UNCHANGED <<driverVars, restarts>>

\* The next function of the master.
Settings(o) ==
  CASE o.op = "init"  -> i2c_master_init
    [] o.op = "start" -> i2c_master_start
    [] o.op = "stop"  -> i2c_master_stop
    [] o.op = "write" -> i2c_master_writeByte(o.arg)
    [] o.op = "check" -> i2c_master_getAck
    [] o.op = "read"  -> i2c_master_readByte
    [] o.op = "ack"   -> i2c_master_setAck(o.arg)
    [] OTHER          -> << >>

Call ==
  /\ todo = << >> /\ script # << >>
  /\ LET o == Head(script)
     IN  /\ todo' = Settings(o)
         /\ got' = IF o.op \in {"check", "read"} THEN 0 ELSE got
         /\ bytes' = IF o.op = "keep" THEN Append(bytes, got) ELSE bytes
         /\ failed' = (failed \/ (o.op = "test" /\ got = 1))
         /\ script' = IF o.op = "test" /\ got = 1 THEN GiveUp ELSE Tail(script)
  /\ UNCHANGED <<m_nLastSDA, m_nLastSCL, slave, step, data0, data1, part, lux, sensor, nacks,
                 restarts, misses>>

Quiet == todo = << >> /\ script = << >>

\* The next transfer of tsl2561_lux().
Transfer(next, ops) == step' = next /\ script' = ops /\ bytes' = << >> /\ failed' = FALSE

\* tsl2561_lux() returns.
Return(val) ==
  /\ Transfer("off", << >>) /\ lux' = val
  /\ misses' = IF val >= 0 THEN 0 ELSE IF misses < MaxMisses THEN misses + 1 ELSE misses

tsl2561_lux ==
  /\ Quiet /\ step = "off"
  /\ Transfer("id", tsl2561_readbyte(REG_ID))
  /\ UNCHANGED <<busVars, data0, data1, part, lux, sensor, nacks, restarts, misses>>

\* The steps of tsl2561_lux() behind its transfers.
AfterId ==
  /\ step = "id" /\ part' = bytes[1] \div 16
  /\ IF part' \in {1, 5}
     THEN Transfer("on", tsl2561_writebyte(REG_CONTROL, 3)) /\ UNCHANGED <<lux, misses>>
     ELSE Return(-1)
  /\ UNCHANGED <<data0, data1>>

\* Mutant: the second byte is taken for the low one.
Word_Swapped == bytes[1] * 256 + bytes[2]

Word == bytes[2] * 256 + bytes[1]

AfterOn ==
  /\ step = "on" /\ Transfer("timing", tsl2561_writebyte(REG_TIMING, 18))
  /\ UNCHANGED <<data0, data1, part, lux, misses>>

AfterTiming ==
  /\ step = "timing" /\ Transfer("data0", tsl2561_readword(REG_DATA0LOW))
  /\ UNCHANGED <<data0, data1, part, lux, misses>>

AfterData0 ==
  /\ step = "data0" /\ data0' = Word /\ Transfer("data1", tsl2561_readword(REG_DATA1LOW))
  /\ UNCHANGED <<data1, part, lux, misses>>

AfterData1 ==
  /\ step = "data1" /\ data1' = Word /\ Transfer("down", tsl2561_writebyte(REG_CONTROL, 0))
  /\ UNCHANGED <<data0, part, lux, misses>>

AfterDown ==
  /\ step = "down" /\ Return(calc_lux(IF part = 5 THEN 0 ELSE 1, data0, data1))
  /\ UNCHANGED <<data0, data1, part>>

Continue ==
  /\ Quiet /\ ~failed
  /\ AfterId \/ AfterOn \/ AfterTiming \/ AfterData0 \/ AfterData1 \/ AfterDown
  /\ UNCHANGED <<busVars, sensor, nacks, restarts>>

\* A transfer failed: so does the call.
Abandon ==
  /\ Quiet /\ failed /\ Return(-1)
  /\ UNCHANGED <<busVars, data0, data1, part, sensor, nacks, restarts>>

\* i2c_master_gpio_init() returns.
Ready ==
  /\ Quiet /\ step = "init" /\ Transfer("off", << >>)
  /\ UNCHANGED <<busVars, data0, data1, part, lux, sensor, nacks, restarts, misses>>

\* The device restarts: the pins let go of the wires, then i2c_master_gpio_init() runs.
Restart ==
  /\ restarts < MaxRestarts /\ restarts' = restarts + 1
  /\ m_nLastSDA' = 1 /\ m_nLastSCL' = 1 /\ React(1, 1)
  /\ todo' = << >> /\ got' = 0
  /\ Transfer("init", <<Op("init", 0)>>)
  /\ data0' = 0 /\ data1' = 0 /\ part' = 0 /\ lux' = -1 /\ misses' = 0

Next == i2c_master_setDC \/ Call \/ tsl2561_lux \/ Continue \/ Abandon \/ Ready \/ Restart

Spec == Init /\ [][Next]_vars

-----------------------------------------------------------------------------

\* A reading of tsl2561_lux() that is not -1 is the light that the sensor measured, computed
\* with the table of its package and within the 16 bits of calc_lux(), and the sensor is off
\* again: whatever was not acknowledged before, and wherever in a transfer the device was
\* restarted, with the garbage that the sensor then took for data.  At most one restart: two can
\* leave the register pointer where the read of the id gives that of the other package.
LuxGenuine ==
  step = "off" /\ lux >= 0 =>
    /\ <<data0, data1>> = sensor.light /\ part = sensor.id \div 16 /\ sensor.control = 0
    /\ lux <= 2568

\* Behind every transfer, also one that a missing acknowledge ended, the wires are high and
\* the sensor waits for a start.  After a restart this need not hold before the first
\* transfer: the stop of i2c_master_init() is lost if its 28th clock is the sensor's
\* acknowledge.
BusFree ==
  Quiet /\ (step \notin {"init", "off"} \/ restarts = 0) =>
    m_nLastSDA = 1 /\ m_nLastSCL = 1 /\ slave.st = "idle" /\ slave.out = 1

\* A sensor of a known package costs at most one failing call of tsl2561_lux() per fault: the
\* call behind it succeeds, also when i2c_master_init() did not reach the sensor.
Recovers == sensor.id \div 16 \in {1, 5} => misses <= 1

\* No setting of i2c_master_setDC() moves both wires: the sensor could see the edges in
\* either order, and take a bit for a start or a stop.  (A restart lets go of both.)
OneWireMoves ==
  [][todo # << >> /\ restarts' = restarts =>
       m_nLastSDA' = m_nLastSDA \/ m_nLastSCL' = m_nLastSCL]_vars
=============================================================================
