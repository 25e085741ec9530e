---------------------------- MODULE MonitorProofs ----------------------------
(***************************************************************************)
(* The uptime clock is exact, for every period of the counter and of the   *)
(* timer: all that is needed is that two samples are less than one period  *)
(* of the counter apart.  With it the mails of the light monitor, for      *)
(* every sensor, every spacing and every such clock.                       *)
(***************************************************************************)
EXTENDS Monitor, TLAPS

Typed ==
  /\ counter \in 0 .. W - 1 /\ uptime_last \in 0 .. W - 1
  /\ wraps \in Nat /\ uptime_high \in Nat
  /\ pc \in {"idle", "sample", "days2"} /\ gap \in Nat /\ since \in Nat

\* The last sample was taken since ticks ago, in this period of the counter or in
\* the one before.
Sampled ==
  \/ wraps = uptime_high /\ counter = uptime_last + since
  \/ wraps = uptime_high + 1 /\ counter + W = uptime_last + since

\* A sample is never older than the timer and the handler allow.
Recent ==
  /\ pc = "idle" => since <= gap /\ gap <= PERIOD + LATE
  /\ pc = "sample" => since <= PERIOD + LATE + gap /\ gap <= SPAN
  /\ pc = "days2" => since <= gap /\ gap <= SPAN
  /\ since <= PERIOD + LATE + SPAN

IInv == Typed /\ Sampled /\ Recent

\* At the start the counter is 0, and so are the variables.
LEMMA InitIInv == Init => IInv
BY UptimeConstants DEF Init, IInv, Typed, Sampled, Recent

\* Every step keeps the invariant.
LEMMA NextIInv ==
  ASSUME IInv, [Next]_vars
  PROVE  IInv'
<1> USE UptimeConstants DEF IInv
<1>1. CASE Tick
  <2>1. /\ gap' = gap + 1 /\ since' = since + 1 /\ UNCHANGED <<uptime_high, uptime_last, pc>>
        /\ pc = "idle" => gap < PERIOD + LATE
        /\ pc # "idle" => gap < SPAN
    BY <1>1 DEF Tick
  <2>2. Recent'
    BY <2>1 DEF Typed, Recent
  <2>3. CASE counter = W - 1
    <3>1. counter' = 0 /\ wraps' = wraps + 1
      BY <1>1, <2>3 DEF Tick
    <3>2. wraps = uptime_high
      BY <2>1, <2>2, <2>3 DEF Sampled, Typed, Recent
    <3> QED BY <2>1, <2>2, <2>3, <3>1, <3>2 DEF Typed, Sampled
  <2>4. CASE counter # W - 1
    <3>1. counter' = counter + 1 /\ wraps' = wraps
      BY <1>1, <2>4 DEF Tick
    <3> QED BY <2>1, <2>2, <2>4, <3>1 DEF Typed, Sampled
  <2> QED BY <2>3, <2>4
<1>2. CASE uptime_handler
  BY <1>2 DEF uptime_handler, Typed, Sampled, Recent
<1>3. CASE Sample
  <2>1. counter < uptime_last <=> wraps = uptime_high + 1
    BY DEF Sampled, Recent, Typed
  <2>2. uptime_high' = wraps
    BY <1>3, <2>1 DEF Sample, Sampled, Typed
  <2> QED BY <1>3, <2>2 DEF Sample, Typed, Sampled, Recent
<1>4. CASE Report
  BY <1>4 DEF Report, Typed, Sampled, Recent
<1>5. CASE UNCHANGED vars
  BY <1>5 DEF vars, Typed, Sampled, Recent
<1> QED BY <1>1, <1>2, <1>3, <1>4, <1>5 DEF Next

\* The invariant gives the value of uptime_us().
LEMMA IInvExact == IInv => ClockExact
<1> SUFFICES ASSUME IInv PROVE ClockExact
  OBVIOUS
<1> USE UptimeConstants DEF IInv
<1>1. CASE wraps = uptime_high
  <2>1. ~(counter < uptime_last)
    BY <1>1 DEF Sampled, Typed
  <2> QED BY <1>1, <2>1 DEF ClockExact, uptime_us, now
<1>2. CASE wraps = uptime_high + 1
  <2>1. counter < uptime_last
    BY <1>2 DEF Sampled, Recent, Typed
  <2>2. wraps * W = uptime_high * W + W /\ uptime_high * W \in Nat
    BY <1>2 DEF Typed
  <2>3. uptime_us = now - W
    BY <2>2 DEF uptime_us, now, Typed
  <2> QED BY <2>1, <2>3 DEF ClockExact
<1> QED BY <1>1, <1>2 DEF Sampled

\* uptime_us() is the true time or, between a wrap and the next call of the handler,
\* exactly one period of the counter short of it.
THEOREM UptimeExact == Spec => []ClockExact
<1>1. IInv /\ [Next]_vars => IInv'
  BY NextIInv
<1> QED BY <1>1, InitIInv, IInvExact, PTL DEF Spec
-----------------------------------------------------------------------------
(* The mail names the day that it is.                                      *)

\* uptime_us() when the handler was called, gap ticks ago: if no wrap is to be seen, as
\* many ticks less than now.  Between the second and the third read either the counter
\* has just wrapped, or the handler has seen a wrap and the counter is still small.
CalledAt(t) == days1 = t \div DAY

Called ==
  /\ pc = "sample" =>
       gap <= since /\ (uptime_last <= counter => CalledAt(uptime_us - gap))
  /\ pc = "days2" =>
       \/ uptime_last <= counter /\ gap <= counter /\ CalledAt(uptime_us - gap)
       \/ counter < uptime_last /\ CalledAt(uptime_us + W - gap)
       \/ uptime_last <= counter /\ counter <= PERIOD + LATE + gap

\* At the start no handler is running.
LEMMA InitCalled == Init => Called
BY DEF Init, Called

\* How a tick moves the clock of the program.
LEMMA TickMoves ==
  ASSUME IInv, Tick
  PROVE  /\ UNCHANGED <<uptime_high, uptime_last, pc, days1>>
         /\ gap' = gap + 1 /\ since' = since + 1
         /\ pc # "idle" => gap + 1 <= SPAN
         /\ counter = W - 1 => counter' = 0 /\ uptime_us' = uptime_us + 1 - W
         /\ counter # W - 1 => counter' = counter + 1 /\ uptime_us' = uptime_us + 1
<1> USE UptimeConstants DEF IInv
<1>1. /\ UNCHANGED <<uptime_high, uptime_last, pc, days1>>
      /\ gap' = gap + 1 /\ since' = since + 1
      /\ pc # "idle" => gap + 1 <= SPAN
      /\ counter = W - 1 => counter' = 0
      /\ counter # W - 1 => counter' = counter + 1
  BY DEF Tick, Typed
<1>2. uptime_high * W \in Nat /\ counter \in Nat
  BY DEF Typed
<1> QED BY <1>1, <1>2 DEF uptime_us

\* uptime_us() is a number.
LEMMA ClockNat == IInv => uptime_us \in Nat
BY UptimeConstants DEF IInv, Typed, uptime_us

\* Every step keeps what is known of the time of the call.
LEMMA NextCalled ==
  ASSUME IInv, IInv', Called, [Next]_vars
  PROVE  Called'
<1> USE UptimeConstants DEF IInv
<1>0. uptime_us \in Nat
  BY ClockNat
<1>1. CASE Tick
  <2>1. /\ UNCHANGED <<uptime_high, uptime_last, pc, days1>>
        /\ gap' = gap + 1 /\ since' = since + 1
        /\ pc # "idle" => gap + 1 <= SPAN
        /\ counter = W - 1 => counter' = 0 /\ uptime_us' = uptime_us + 1 - W
        /\ counter # W - 1 => counter' = counter + 1 /\ uptime_us' = uptime_us + 1
    BY <1>1, TickMoves
  <2>2. CASE pc = "sample"
    <3>1. gap' <= since'
      BY <2>1, <2>2 DEF Called, Typed
    <3>2. ASSUME uptime_last' <= counter'
          PROVE  CalledAt(uptime_us - gap) /\ uptime_us' - gap' = uptime_us - gap
      <4>1. counter # W - 1 /\ uptime_last <= counter
        BY <2>1, <2>2, <3>2 DEF Typed, Sampled, Recent
      <4>2. uptime_us' = uptime_us + 1
        BY <2>1, <4>1
      <4>3. uptime_us' - gap' = uptime_us - gap
        BY <1>0, <2>1, <4>2 DEF Typed
      <4> QED BY <2>2, <4>1, <4>3 DEF Called
    <3>3. uptime_last' <= counter' => CalledAt(uptime_us - gap)'
      BY <2>1, <3>2 DEF CalledAt
    <3> QED BY <2>1, <2>2, <3>1, <3>3 DEF Called
  <2>3. CASE pc = "days2"
    <3>1. CASE uptime_last <= counter /\ gap <= counter /\ CalledAt(uptime_us - gap)
      <4>1. CASE counter = W - 1
        <5>1. uptime_us' + W - gap' = uptime_us - gap
          BY <1>0, <2>1, <4>1 DEF Typed
        <5>2. counter' < uptime_last'
          BY <2>1, <2>3, <4>1 DEF Typed, Sampled, Recent
        <5>3. CalledAt(uptime_us + W - gap)'
          BY <2>1, <3>1, <5>1 DEF CalledAt
        <5> QED BY <2>1, <2>3, <5>2, <5>3 DEF Called
      <4>2. CASE counter # W - 1
        <5>1. uptime_us' - gap' = uptime_us - gap
          BY <1>0, <2>1, <4>2 DEF Typed
        <5>2. uptime_last' <= counter' /\ gap' <= counter'
          BY <2>1, <3>1, <4>2 DEF Typed
        <5>3. CalledAt(uptime_us - gap)'
          BY <2>1, <3>1, <5>1 DEF CalledAt
        <5> QED BY <2>1, <2>3, <5>2, <5>3 DEF Called
      <4> QED BY <4>1, <4>2
    <3>2. CASE counter < uptime_last /\ CalledAt(uptime_us + W - gap)
      <4>1. counter # W - 1
        BY <3>2 DEF Typed
      <4>2. uptime_us' + W - gap' = uptime_us + W - gap
        BY <1>0, <2>1, <4>1 DEF Typed
      <4>3. counter' < uptime_last'
        BY <2>1, <2>3, <3>2, <4>1 DEF Typed, Sampled, Recent
      <4>4. CalledAt(uptime_us + W - gap)'
        BY <2>1, <3>2, <4>2 DEF CalledAt
      <4> QED BY <2>1, <2>3, <4>3, <4>4 DEF Called
    <3>3. CASE uptime_last <= counter /\ counter <= PERIOD + LATE + gap
      <4>1. counter # W - 1
        BY <2>1, <2>3, <3>3 DEF Typed
      <4>2. uptime_last' <= counter' /\ counter' <= PERIOD + LATE + gap'
        BY <2>1, <3>3, <4>1 DEF Typed
      <4> QED BY <2>1, <2>3, <4>2 DEF Called
    <3> QED BY <2>3, <3>1, <3>2, <3>3 DEF Called
  <2> QED BY <2>1, <2>2, <2>3 DEF Called
<1>2. CASE uptime_handler
  <2>1. pc' = "sample" /\ gap' = 0 /\ since' = since /\ days1' = uptime_us \div DAY
    BY <1>2 DEF uptime_handler
  <2>2. uptime_us' = uptime_us
    BY <1>2 DEF uptime_handler, uptime_us
  <2>3. uptime_us' - gap' = uptime_us
    BY <1>0, <2>1, <2>2
  <2> QED BY <2>1, <2>3 DEF Called, CalledAt, Typed
<1>3. CASE Sample
  <2>1. /\ pc = "sample" /\ pc' = "days2" /\ uptime_last' = counter
        /\ UNCHANGED <<counter, days1, gap>>
    BY <1>3 DEF Sample
  <2>2. CASE counter < uptime_last
    <3>1. counter <= PERIOD + LATE + gap
      BY <2>1, <2>2 DEF Typed, Sampled, Recent
    <3> QED BY <2>1, <3>1 DEF Called, Typed
  <2>3. CASE ~(counter < uptime_last)
    <3>1. uptime_last <= counter /\ gap <= counter
      BY <2>1, <2>3 DEF Typed, Sampled, Recent, Called
    <3>2. uptime_us' = uptime_us
      BY <1>3, <2>3 DEF Sample, uptime_us
    <3>3. CalledAt(uptime_us - gap)
      BY <2>1, <3>1 DEF Called
    <3>4. CalledAt(uptime_us - gap)'
      BY <2>1, <3>2, <3>3 DEF CalledAt
    <3>5. uptime_last' <= counter' /\ gap' <= counter'
      BY <2>1, <3>1 DEF Typed
    <3> QED BY <2>1, <3>4, <3>5 DEF Called
  <2> QED BY <2>2, <2>3
<1>4. CASE Report
  BY <1>4 DEF Report, Called
<1>5. CASE UNCHANGED vars
  BY <1>5 DEF vars, Called, CalledAt, uptime_us
<1> QED BY <1>1, <1>2, <1>3, <1>4, <1>5 DEF Next

\* An earlier time lies in no later day.
LEMMA DayMonotone ==
  ASSUME NEW a \in Nat, NEW b \in Nat, a <= b
  PROVE  ~(a \div DAY > b \div DAY)
<1> USE UptimeConstants
<1> DEFINE q == a \div DAY
           r == b \div DAY
<1>1. q \in Nat /\ r \in Nat /\ DAY * q <= a /\ b < DAY * (r + 1)
  OBVIOUS
<1>2. ASSUME q > r PROVE FALSE
  <2>1. PICK k \in Nat : q = r + 1 + k
    <3>1. q - r - 1 \in Nat /\ q = r + 1 + (q - r - 1)
      BY <1>1, <1>2
    <3> QED BY <3>1
  <2>2. DAY * q = DAY * (r + 1) + DAY * k /\ DAY * k \in Nat
    BY <1>1, <2>1
  <2> QED BY <1>1, <2>2
<1> QED BY <1>2

\* When there is a mail, no wrap is unseen: the third read is the true time.
LEMMA MailSeen ==
  ASSUME IInv, Called, pc = "days2", NewDay
  PROVE  uptime_last <= counter /\ uptime_us = now
<1> USE UptimeConstants
<1>1. ClockExact /\ uptime_us \in Nat
  BY IInvExact, ClockNat
<1>2. ~(counter < uptime_last)
  <2>1. SUFFICES ASSUME counter < uptime_last PROVE FALSE
    OBVIOUS
  <2>2. days1 = (uptime_us + W - gap) \div DAY
    BY <2>1 DEF Called, CalledAt, IInv, Typed
  <2>3. gap <= SPAN /\ gap \in Nat
    BY DEF IInv, Typed, Recent
  <2>4. uptime_us + W - gap \in Nat /\ uptime_us <= uptime_us + W - gap
    BY <1>1, <2>3
  <2>5. ~(uptime_us \div DAY > (uptime_us + W - gap) \div DAY)
    BY <1>1, <2>4, DayMonotone
  <2> QED BY <2>2, <2>5 DEF NewDay, days2
<1>3. uptime_last <= counter
  BY <1>2 DEF IInv, Typed
<1> QED BY <1>1, <1>2, <1>3 DEF ClockExact

\* A mail of uptime_handler() is for the day that it is.
LEMMA ReportToday ==
  ASSUME IInv, Called, Report, NEW d \in DOMAIN days, days'[d] # days[d]
  PROVE  d = now \div DAY
<1>1. NewDay /\ d = days2 /\ pc = "days2"
  BY DEF Report
<1> QED BY <1>1, MailSeen DEF days2

\* For every length of the day, of the counter and of the timer, the mail that
\* uptime_handler() sends at the end of a day names the day that it is, wherever the
\* counter wraps between the handler's three reads.
THEOREM MailsNameToday == Spec => MailNamesToday
<1> DEFINE Names == \A d \in DOMAIN days : days'[d] # days[d] => d = now \div DAY
<1>1. IInv /\ Called /\ [Next]_vars => IInv' /\ Called'
  BY NextIInv, NextCalled
<1>2. IInv /\ Called /\ [Next]_vars => [Names]_vars
  <2>1. SUFFICES ASSUME IInv, Called, [Next]_vars, NEW d \in DOMAIN days, days'[d] # days[d]
                 PROVE  d = now \div DAY
    OBVIOUS
  <2>2. Report
    BY <2>1 DEF Next, Tick, uptime_handler, Sample, vars
  <2> QED BY <2>1, <2>2, ReportToday
<1> QED BY <1>1, <1>2, InitIInv, InitCalled, PTL DEF Spec, MailNamesToday
-----------------------------------------------------------------------------
(* No day is reported three times.                                         *)

\* Times and days.
LEMMA DayOf ==
  ASSUME NEW t \in Nat, NEW d \in Nat
  PROVE  /\ t \div DAY < d => t < d * DAY
         /\ t \div DAY = d => d * DAY <= t
<1> USE UptimeConstants
<1> DEFINE q == t \div DAY
<1>1. q \in Nat /\ DAY * q <= t /\ t < DAY * (q + 1) /\ DAY * q = q * DAY
  OBVIOUS
<1> HIDE DEF q
<1>2. ASSUME q < d PROVE t < d * DAY
  <2>1. d - q - 1 \in Nat /\ d = q + 1 + (d - q - 1)
    BY <1>1, <1>2
  <2>2. PICK k \in Nat : d = q + 1 + k
    BY <2>1
  <2>3. d * DAY = DAY * (q + 1) + k * DAY /\ k * DAY \in Nat
    BY <1>1, <2>2
  <2>4. d * DAY \in Nat /\ DAY * (q + 1) \in Nat
    BY <1>1
  <2> QED BY <1>1, <2>3, <2>4
<1> QED BY <1>1, <1>2 DEF q

\* When the last wrap was that the handler has seen.
seen == uptime_high * W

\* What the mails so far say of a wrap that was seen at h: behind the first mail of a day
\* the next wrap is in that day or later, behind the second one this wrap is.
Bound(h) ==
  \A d \in DOMAIN days : /\ days[d] >= 1 => h + W > d * DAY
                         /\ days[d] >= 2 => h > d * DAY

\* A day that was reported had begun when the handler was called.
Begun ==
  \A d \in DOMAIN days :
    days[d] >= 1 => d * DAY <= now /\ (pc # "idle" => d * DAY <= now - gap)

\* uptime_us() when the handler was called, if it has seen a wrap or is about to: the
\* clock was one period late if the counter had wrapped by then.
Jumped ==
  /\ pc = "sample" /\ counter < uptime_last =>
       \/ gap <= counter /\ CalledAt(now - W - gap)
       \/ CalledAt(now - gap)
  /\ pc = "days2" /\ uptime_last <= counter =>
       \/ gap <= counter /\ now - W - gap \in Nat /\ CalledAt(now - W - gap) /\ Bound(seen - W)
       \/ CalledAt(now - gap)

MailInv ==
  /\ days \in [1 .. MaxTime \div DAY -> Nat] /\ TwiceAtMost
  /\ gap <= now /\ Bound(seen) /\ Begun /\ Jumped

\* The clocks in terms of the last wrap that was seen.
LEMMA Clocks ==
  ASSUME IInv
  PROVE  /\ now \in Nat /\ seen \in Nat
         /\ uptime_last <= counter => now = seen + counter /\ uptime_us = now
         /\ counter < uptime_last => now = seen + W + counter /\ uptime_us = now - W
<1> USE UptimeConstants DEF IInv
<1>1. seen \in Nat /\ wraps * W \in Nat
  BY DEF Typed, seen
<1>2. CASE wraps = uptime_high
  <2>1. uptime_last <= counter
    BY <1>2 DEF Sampled, Typed, Recent
  <2> QED BY <1>1, <1>2, <2>1 DEF now, seen, uptime_us, Typed
<1>3. CASE wraps = uptime_high + 1
  <2>1. counter < uptime_last
    BY <1>3 DEF Sampled, Recent, Typed
  <2>2. wraps * W = seen + W
    BY <1>3 DEF Typed, seen
  <2>3. now = seen + W + counter /\ uptime_us = seen + counter
    BY <2>2 DEF now, uptime_us, seen
  <2> QED BY <1>1, <2>1, <2>3 DEF Typed
<1> QED BY <1>2, <1>3 DEF Sampled

\* Days are numbers, so are their beginnings.
LEMMA DayStarts == \A d \in 1 .. MaxTime \div DAY : d \in Nat /\ d * DAY \in Nat
BY UptimeConstants

\* At the start nothing was reported.
LEMMA InitMail == Init => MailInv
<1> SUFFICES ASSUME Init PROVE MailInv
  OBVIOUS
<1>1. now = 0 /\ gap = 0 /\ pc = "idle"
  BY UptimeConstants DEF Init, now
<1> QED BY <1>1 DEF Init, MailInv, TwiceAtMost, Bound, Begun, Jumped

\* Time passes: what is said of the call stays true.
LEMMA TickMail ==
  ASSUME IInv, IInv', Called, MailInv, Tick
  PROVE  MailInv'
<1> USE UptimeConstants DEF MailInv
<1>1. /\ UNCHANGED <<uptime_high, uptime_last, pc, days1, days>>
      /\ gap' = gap + 1 /\ since' = since + 1
      /\ pc # "idle" => gap + 1 <= SPAN
      /\ counter = W - 1 => counter' = 0
      /\ counter # W - 1 => counter' = counter + 1
  BY TickMoves DEF Tick
<1>2. now \in Nat /\ seen \in Nat /\ gap \in Nat
  BY Clocks DEF IInv, Typed
<1>3. now' = now + 1
  <2>1. wraps * W \in Nat /\ counter \in 0 .. W - 1 /\ wraps \in Nat
    BY DEF IInv, Typed
  <2>2. CASE counter = W - 1
    <3>1. counter' = 0 /\ wraps' = wraps + 1
      BY <2>2 DEF Tick
    <3>2. wraps' * W = wraps * W + W
      BY <2>1, <3>1
    <3> QED BY <2>1, <2>2, <3>1, <3>2 DEF now
  <2>3. CASE counter # W - 1
    <3>1. counter' = counter + 1 /\ wraps' = wraps
      BY <2>3 DEF Tick
    <3> QED BY <2>1, <3>1 DEF now
  <2> QED BY <2>2, <2>3
<1>4. /\ seen' = seen /\ now' - gap' = now - gap /\ now' - W - gap' = now - W - gap
      /\ gap' <= now' /\ (seen - W)' = seen - W
  BY <1>1, <1>2, <1>3 DEF seen
<1>5. Bound(seen)' /\ (Bound(seen - W) => Bound(seen - W)') /\ TwiceAtMost'
  BY <1>1, <1>4 DEF Bound, TwiceAtMost
<1>6. Begun'
  <2> SUFFICES ASSUME NEW d \in DOMAIN days, days[d] >= 1
               PROVE  d * DAY <= now' /\ (pc # "idle" => d * DAY <= now' - gap')
    BY <1>1 DEF Begun
  <2>1. d * DAY <= now /\ (pc # "idle" => d * DAY <= now - gap)
    BY DEF Begun
  <2>2. d * DAY \in Nat
    BY DayStarts
  <2> QED BY <1>2, <1>3, <1>4, <2>1, <2>2
<1>7. Jumped'
  <2>1. ASSUME pc = "sample", counter' < uptime_last
        PROVE  \/ gap' <= counter' /\ CalledAt(now - W - gap)'
               \/ CalledAt(now - gap)'
    <3>1. CASE counter < uptime_last
      <4>1. counter' = counter + 1 /\ (gap <= counter => gap' <= counter')
        BY <1>1, <3>1 DEF IInv, Typed
      <4>2. (gap <= counter /\ CalledAt(now - W - gap)) \/ CalledAt(now - gap)
        BY <2>1, <3>1 DEF Jumped
      <4> QED BY <1>1, <1>4, <4>1, <4>2 DEF CalledAt
    <3>2. CASE uptime_last <= counter
      <4>1. CalledAt(now - gap)
        BY <2>1, <3>2, Clocks DEF Called
      <4> QED BY <1>1, <1>4, <4>1 DEF CalledAt
    <3> QED BY <3>1, <3>2 DEF IInv, Typed
  <2>2. ASSUME pc = "days2", uptime_last <= counter'
        PROVE  \/ /\ gap' <= counter' /\ now' - W - gap' \in Nat
                  /\ CalledAt(now - W - gap)' /\ Bound(seen - W)'
               \/ CalledAt(now - gap)'
    <3>1. uptime_last <= counter /\ counter' = counter + 1
      BY <1>1, <2>2 DEF IInv, Typed, Sampled, Recent
    <3>2. gap <= counter => gap' <= counter'
      BY <1>1, <3>1 DEF IInv, Typed
    <3>3. \/ /\ gap <= counter /\ now - W - gap \in Nat
             /\ CalledAt(now - W - gap) /\ Bound(seen - W)
          \/ CalledAt(now - gap)
      BY <2>2, <3>1 DEF Jumped
    <3> QED BY <1>1, <1>4, <1>5, <3>2, <3>3 DEF CalledAt
  <2> QED BY <1>1, <2>1, <2>2 DEF Jumped
<1> QED BY <1>1, <1>4, <1>5, <1>6, <1>7

\* The handler is called, or looks at the counter.
LEMMA ReadMail ==
  ASSUME IInv, IInv', Called, MailInv, uptime_handler \/ Sample
  PROVE  MailInv'
<1> USE UptimeConstants DEF MailInv
<1>1. now \in Nat /\ seen \in Nat /\ gap \in Nat
  BY Clocks DEF IInv, Typed
<1>2. UNCHANGED <<counter, wraps, days>> /\ now' = now
  BY DEF uptime_handler, Sample, now
<1>3. CASE uptime_handler
  <2>1. /\ pc = "idle" /\ pc' = "sample" /\ gap' = 0 /\ days1' = uptime_us \div DAY
        /\ UNCHANGED <<uptime_high, uptime_last>>
    BY <1>3 DEF uptime_handler
  <2>2. gap' <= now' /\ seen' = seen /\ now' - gap' = now
    BY <1>1, <1>2, <2>1 DEF seen
  <2>3. Bound(seen)' /\ TwiceAtMost'
    BY <1>2, <2>2 DEF Bound, TwiceAtMost
  <2>4. Begun'
    BY <1>2, <2>2 DEF Begun
  <2>5. counter < uptime_last => gap' <= counter' /\ CalledAt(now - W - gap)'
    <3> SUFFICES ASSUME counter < uptime_last
                 PROVE  gap' <= counter' /\ CalledAt(now - W - gap)'
      OBVIOUS
    <3>1. uptime_us = now - W
      BY Clocks
    <3>2. now' - W - gap' = now - W
      BY <1>1, <1>2, <2>1
    <3>3. gap' <= counter'
      BY <1>2, <2>1 DEF IInv, Typed
    <3> QED BY <2>1, <3>1, <3>2, <3>3 DEF CalledAt
  <2>6. Jumped'
    BY <1>2, <2>1, <2>5 DEF Jumped
  <2> QED BY <1>2, <2>2, <2>3, <2>4, <2>6
<1>4. CASE Sample
  <2>1. /\ pc = "sample" /\ pc' = "days2" /\ uptime_last' = counter
        /\ UNCHANGED <<days1, gap>>
    BY <1>4 DEF Sample
  <2>2. Begun' /\ TwiceAtMost' /\ gap' <= now'
    BY <1>2, <2>1 DEF Begun, TwiceAtMost
  <2>3. CASE counter < uptime_last
    <3>1. uptime_high' = uptime_high + 1
      BY <1>4, <2>3 DEF Sample
    <3>2. seen' = seen + W /\ seen' - W = seen
      BY <1>1, <3>1 DEF seen, IInv, Typed
    <3>3. Bound(seen)' /\ Bound(seen - W)'
      <4>1. \A d \in DOMAIN days : d * DAY \in Nat
        BY DayStarts
      <4> QED BY <1>1, <1>2, <3>2, <4>1 DEF Bound
    <3>4. (gap <= counter /\ CalledAt(now - W - gap)) \/ CalledAt(now - gap)
      BY <2>1, <2>3 DEF Jumped
    <3>5. gap <= counter => now - W - gap \in Nat
      BY <1>1, <2>3, Clocks DEF IInv, Typed
    <3>6. Jumped'
      BY <1>2, <2>1, <3>3, <3>4, <3>5 DEF Jumped, CalledAt
    <3> QED BY <1>2, <2>2, <3>3, <3>6
  <2>4. CASE uptime_last <= counter
    <3>1. seen' = seen
      BY <1>4, <2>4 DEF Sample, seen, IInv, Typed
    <3>2. Bound(seen)'
      BY <1>2, <3>1 DEF Bound
    <3>3. CalledAt(now - gap)
      BY <2>1, <2>4, Clocks DEF Called
    <3>4. Jumped'
      BY <1>2, <2>1, <3>3 DEF Jumped, CalledAt
    <3> QED BY <1>2, <2>2, <3>2, <3>4
  <2> QED BY <2>3, <2>4 DEF IInv, Typed
<1> QED BY <1>3, <1>4

\* The report: the day was not reported before, or once and a wrap was seen since.
LEMMA ReportMail ==
  ASSUME IInv, Called, MailInv, Report
  PROVE  MailInv'
<1> USE UptimeConstants DEF MailInv
<1>1. /\ now \in Nat /\ seen \in Nat /\ gap \in Nat /\ gap <= now
      /\ counter \in Nat /\ counter < W
  BY Clocks DEF IInv, Typed
<1>2. /\ UNCHANGED <<counter, wraps, uptime_high, uptime_last, gap>>
      /\ pc = "days2" /\ pc' = "idle" /\ now' = now /\ seen' = seen
  BY DEF Report, now, seen
<1>3. Jumped' /\ gap' <= now'
  BY <1>2 DEF Jumped
<1>4. CASE days' = days
  BY <1>2, <1>3, <1>4 DEF TwiceAtMost, Bound, Begun
<1>5. CASE days' # days
  <2> DEFINE d == days2
  <2>1. NewDay /\ days' = [days EXCEPT ![d] = days[d] + 1] /\ d \in DOMAIN days
    BY <1>5 DEF Report
  <2>2. uptime_last <= counter /\ uptime_us = now /\ now = seen + counter
    BY <1>2, <2>1, MailSeen, Clocks
  <2>3. d \in Nat /\ d * DAY \in Nat /\ days[d] \in Nat /\ days[d] <= 2
    BY <2>1, DayStarts DEF TwiceAtMost
  <2>4. d = now \div DAY /\ days1 < d
    <3>1. d = now \div DAY
      BY <2>2 DEF days2
    <3>2. days1 < d
      BY <2>1, <2>3 DEF NewDay
    <3> QED BY <3>1, <3>2
  <2> HIDE DEF d
  <2>5. d * DAY <= now
    BY <1>1, <2>3, <2>4, DayOf
  <2>6. seen + W > d * DAY
    BY <1>1, <2>2, <2>3, <2>5
  <2>7. days[d] = 0 \/ (days[d] = 1 /\ seen > d * DAY)
    <3>1. CASE CalledAt(now - gap)
      <4>1. now - gap \in Nat /\ (now - gap) \div DAY < d
        BY <1>1, <2>4, <3>1 DEF CalledAt
      <4>2. now - gap < d * DAY
        BY <2>3, <4>1, DayOf
      <4>3. ~(days[d] >= 1)
        BY <1>1, <1>2, <2>1, <2>3, <4>2 DEF Begun
      <4> QED BY <2>3, <4>3
    <3>2. CASE /\ gap <= counter /\ now - W - gap \in Nat
               /\ CalledAt(now - W - gap) /\ Bound(seen - W)
      <4>1. now - W - gap < d * DAY
        BY <2>3, <2>4, <3>2, DayOf DEF CalledAt
      <4>2. seen - W < d * DAY
        BY <1>1, <2>2, <2>3, <3>2, <4>1
      <4>3. /\ days[d] >= 1 => seen - W + W > d * DAY
            /\ days[d] >= 2 => seen - W > d * DAY
        BY <2>1, <3>2 DEF Bound
      <4> QED BY <1>1, <2>3, <4>2, <4>3
    <3> QED BY <1>2, <2>2, <3>1, <3>2 DEF Jumped
  <2>8. /\ days' \in [1 .. MaxTime \div DAY -> Nat] /\ DOMAIN days' = DOMAIN days
        /\ days'[d] = days[d] + 1
        /\ \A e \in DOMAIN days : e # d => days'[e] = days[e]
    BY <2>1, <2>3
  <2>9. TwiceAtMost'
    BY <2>3, <2>7, <2>8 DEF TwiceAtMost
  <2>10. Bound(seen)'
    <3> SUFFICES ASSUME NEW e \in DOMAIN days
                 PROVE  /\ days'[e] >= 1 => seen + W > e * DAY
                        /\ days'[e] >= 2 => seen > e * DAY
      BY <1>2, <2>8 DEF Bound
    <3>1. CASE e = d
      BY <2>3, <2>6, <2>7, <2>8, <3>1
    <3>2. CASE e # d
      BY <2>8, <3>2 DEF Bound
    <3> QED BY <3>1, <3>2
  <2>11. Begun'
    BY <1>2, <2>5, <2>8 DEF Begun
  <2> QED BY <1>3, <2>8, <2>9, <2>10, <2>11
<1> QED BY <1>4, <1>5

\* "The uptime day count is incremented (ie once every 24 hours)": the mail of a day is
\* sent at most twice, for every length of the day, of the counter and of the timer, and
\* wherever the counter wraps.
THEOREM NeverThrice == Spec => []TwiceAtMost
<1> DEFINE Inv == IInv /\ Called /\ MailInv
<1>1. Init => Inv
  BY InitIInv, InitCalled, InitMail
<1>2. Inv /\ [Next]_vars => Inv'
  <2> SUFFICES ASSUME IInv, Called, MailInv, [Next]_vars PROVE MailInv' /\ IInv' /\ Called'
    OBVIOUS
  <2>1. IInv' /\ Called'
    BY NextIInv, NextCalled
  <2>2. CASE UNCHANGED vars
    <3>1. UNCHANGED <<now, seen, pc, days1, days, gap, counter, uptime_last>>
      BY <2>2 DEF vars, now, seen
    <3>2. MailInv'
      BY <3>1 DEF MailInv, TwiceAtMost, Bound, Begun, Jumped, CalledAt
    <3> QED BY <2>1, <3>2
  <2>3. CASE Tick
    BY <2>1, <2>3, TickMail
  <2>4. CASE uptime_handler \/ Sample
    BY <2>1, <2>4, ReadMail
  <2>5. CASE Report
    BY <2>1, <2>5, ReportMail
  <2> QED BY <2>1, <2>2, <2>3, <2>4, <2>5 DEF Next
<1>3. Inv => TwiceAtMost
  BY DEF MailInv
<1> QED BY <1>1, <1>2, <1>3, PTL DEF Spec

-----------------------------------------------------------------------------
(* The light monitor beside the clock.                                     *)

\* The clock does not notice the monitor.
LEMMA MonitorKeepsClock == [MonitorNext]_allVars => [Next]_vars
BY DEF MonitorNext, monitor, allVars

\* The monitor only looks at the clock, so everything that is proved of uptime.c holds
\* beside it.
THEOREM ClockImplemented == MonitorSpec => Spec
<1>1. MonitorInit => Init
  BY DEF MonitorInit
<1> QED BY <1>1, MonitorKeepsClock, PTL DEF MonitorSpec, Spec

\* With the monitor running: the clock is exact but for one wrap, mails name the day that
\* it is, and no day has three.
THEOREM ClockProperties ==
  MonitorSpec => []ClockExact /\ MailNamesToday /\ []TwiceAtMost
BY ClockImplemented, UptimeExact, MailsNameToday, NeverThrice, PTL

-----------------------------------------------------------------------------
(* Mails for light.                                                        *)

\* lastmail is what uptime_us() was at the last mail.
SentOK ==
  /\ oldlux \in Nat \cup {-1}
  /\ sent \in [at : Nat, lag : {0, W}, burst : Nat]
  /\ sent.at <= now
  /\ lastmail = sent.at - sent.lag

\* A product of numbers is one.
LEMMA NatTimes == \A a, b \in Nat : a * b \in Nat
OBVIOUS

\* How late the clock is.
LEMMA Lag ==
  ASSUME IInv
  PROVE  /\ now \in Nat /\ lag \in {0, W} /\ uptime_us = now - lag /\ uptime_us \in Nat
         /\ lag = 0 <=> wraps = uptime_high
         /\ now = wraps * W + counter /\ wraps * W \in Nat /\ W \in Nat
         /\ counter \in Nat /\ counter < W
<1> USE UptimeConstants
<1>1. now \in Nat /\ uptime_us \in Nat /\ W > 0
  BY Clocks, ClockNat DEF IInv, Typed
<1>2. /\ uptime_last <= counter => uptime_us = now
      /\ counter < uptime_last => uptime_us = now - W
  BY Clocks
<1>3. wraps = uptime_high <=> uptime_last <= counter
  BY DEF IInv, Typed, Sampled, Recent
<1>4. lag \in {0, W} /\ uptime_us = now - lag /\ (lag = 0 <=> wraps = uptime_high)
  <2>1. uptime_last <= counter \/ counter < uptime_last
    BY DEF IInv, Typed
  <2> QED BY <1>1, <1>2, <1>3, <2>1 DEF lag
<1>5. wraps * W \in Nat /\ counter \in Nat /\ counter < W
  BY DEF IInv, Typed
<1> QED BY <1>1, <1>4, <1>5 DEF now

\* Time does not go back.
LEMMA Forward ==
  ASSUME IInv, IInv', Next
  PROVE  now <= now'
<1>1. CASE Tick
  <2>1. wraps \in Nat /\ W \in Nat /\ wraps * W \in Nat /\ counter \in 0 .. W - 1
    BY UptimeConstants DEF IInv, Typed
  <2>2. (wraps + 1) * W = wraps * W + W
    BY <2>1
  <2> QED BY <1>1, <2>1, <2>2 DEF Tick, now
<1>2. CASE uptime_handler \/ Sample \/ Report
  <2>1. now' = now
    BY <1>2 DEF uptime_handler, Sample, Report, now
  <2>2. now \in Nat
    BY Lag
  <2> QED BY <2>1, <2>2
<1> QED BY <1>1, <1>2 DEF Next

\* The integer comparison of the code is the exact one.
LEMMA SharpExact ==
  ASSUME NEW old \in Nat, NEW lux \in Nat
  PROVE  lux > (old * 14) \div 10 <=> 10 * lux > 14 * old
OBVIOUS

\* One call of monitor(): what it sends, and what it remembers.
LEMMA MonitorStep ==
  ASSUME IInv, SentOK, NEW lux \in Readings, monitor(lux)
  PROVE  /\ SentOK' /\ now' = now /\ UNCHANGED vars
         /\ sent' # sent => Brighter /\ Apart(uptime_us, lastmail) > SPACE
         /\ Brighter /\ Apart(uptime_us, lastmail) > SPACE =>
              sent' = [at |-> now, lag |-> lag,
                       burst |-> IF now - sent.at > SPACE THEN 1 ELSE sent.burst + 1]
         /\ sent' # sent =>
              sent' = [at |-> now, lag |-> lag,
                       burst |-> IF now - sent.at > SPACE THEN 1 ELSE sent.burst + 1]
<1> USE MonitorConstants
<1>0. lux \in Nat \cup {-1} /\ oldlux \in Nat \cup {-1}
  BY DEF SentOK
<1>1. /\ UNCHANGED vars /\ now' = now
      /\ oldlux' = IF lux = -1 THEN oldlux ELSE lux
  BY DEF monitor, Remember, vars, now
<1>2. Sharp(oldlux, lux) <=> Brighter
  <2>1. CASE oldlux = -1 \/ lux = -1
    BY <1>0, <1>1, <2>1 DEF Sharp, Brighter
  <2>2. CASE oldlux # -1 /\ lux # -1
    BY <1>0, <1>1, <2>2, SharpExact DEF Sharp, Brighter
  <2> QED BY <2>1, <2>2
<1>3. CASE Sharp(oldlux, lux) /\ Apart(uptime_us, lastmail) > SPACE
  <2>1. /\ sent' = [at |-> now, lag |-> lag,
                    burst |-> IF now - sent.at > SPACE THEN 1 ELSE sent.burst + 1]
        /\ lastmail' = uptime_us
    BY <1>3 DEF monitor, LightMail, Record
  <2>2. lag \in {0, W} /\ now \in Nat /\ uptime_us = now - lag
    BY Lag
  <2>3. (IF now - sent.at > SPACE THEN 1 ELSE sent.burst + 1) \in Nat
    BY DEF SentOK
  <2>4. sent' \in [at : Nat, lag : {0, W}, burst : Nat] /\ sent'.at = now /\ sent'.lag = lag
    BY <2>1, <2>2, <2>3
  <2>5. SentOK'
    BY <1>0, <1>1, <2>1, <2>2, <2>4 DEF SentOK
  <2> QED BY <1>1, <1>2, <1>3, <2>1, <2>5
<1>4. CASE ~(Sharp(oldlux, lux) /\ Apart(uptime_us, lastmail) > SPACE)
  <2>1. UNCHANGED <<lastmail, sent>>
    BY <1>4 DEF monitor
  <2>2. SentOK'
    BY <1>0, <1>1, <2>1 DEF SentOK
  <2> QED BY <1>1, <1>2, <1>4, <2>1, <2>2
<1> QED BY <1>3, <1>4

\* Every step keeps SentOK; the clock's own steps send nothing.
LEMMA SentStep ==
  ASSUME IInv, IInv', SentOK, [MonitorNext]_allVars
  PROVE  SentOK'
<1>1. CASE Next /\ UNCHANGED monitorVars
  <2>1. now <= now' /\ now \in Nat /\ now' \in Nat
    <3>1. now \in Nat
      BY Lag
    <3>2. wraps' * W \in Nat /\ counter' \in Nat
      <4>1. wraps' \in Nat /\ counter' \in Nat /\ W \in Nat
        BY UptimeConstants DEF IInv, Typed
      <4> QED BY <4>1, NatTimes
    <3>3. now' \in Nat
      BY <3>2 DEF now
    <3> QED BY <1>1, <3>1, <3>3, Forward
  <2> QED BY <1>1, <2>1 DEF SentOK, monitorVars
<1>2. ASSUME NEW lux \in Readings, monitor(lux) PROVE SentOK'
  BY <1>2, MonitorStep
<1>3. CASE UNCHANGED allVars
  BY <1>3 DEF allVars, monitorVars, vars, SentOK, now
<1> QED BY <1>1, <1>2, <1>3 DEF MonitorNext
\* At the start the variables are as after a mail at time 0.
LEMMA InitSent == MonitorInit => SentOK
<1> SUFFICES ASSUME MonitorInit PROVE SentOK
  OBVIOUS
<1>1. now = 0
  BY UptimeConstants DEF MonitorInit, Init, now
<1> QED BY <1>1 DEF MonitorInit, SentOK

\* IInv and SentOK hold together.
LEMMA SentHolds == MonitorSpec => [](IInv /\ SentOK)
<1>1. MonitorInit => IInv /\ SentOK
  BY InitIInv, InitSent DEF MonitorInit
<1>2. IInv /\ SentOK /\ [MonitorNext]_allVars => IInv' /\ SentOK'
  BY MonitorKeepsClock, NextIInv, SentStep
<1> QED BY <1>1, <1>2, PTL DEF MonitorSpec

\* If the clock is as late as at the last mail, it measures true time.
LEMMA TrueSpace ==
  ASSUME IInv, SentOK, sent.lag = lag
  PROVE  Apart(uptime_us, lastmail) = now - sent.at
<1>1. now \in Nat /\ lag \in Nat /\ uptime_us = now - lag
  BY Lag
<1>2. sent.at \in Nat /\ sent.at <= now /\ lastmail = sent.at - lag
  BY DEF SentOK
<1> QED BY <1>1, <1>2 DEF Apart

\* LightMailsApart, for every set of readings, every spacing and every clock: a mail is
\* sent for forty percent more light and for nothing else, and, while the clock is as
\* late as at the last mail, exactly when that is more than SPACE of true time ago.
THEOREM LightMailsSpaced == MonitorSpec => LightMailsApart
<1> DEFINE A == /\ Mails => Brighter
                /\ Brighter /\ sent.lag = lag => (Mails <=> now - sent.at > SPACE)
<1>1. IInv /\ SentOK /\ [MonitorNext]_allVars => [A]_allVars
  <2> SUFFICES ASSUME IInv, SentOK, MonitorNext PROVE A
    OBVIOUS
  <2>1. CASE Next /\ UNCHANGED monitorVars
    BY <2>1 DEF monitorVars, Mails, Brighter, SentOK
  <2>2. ASSUME NEW lux \in Readings, monitor(lux) PROVE A
    <3>1. Mails => Brighter
      BY <2>2, MonitorStep DEF Mails
    <3>2. ASSUME Brighter, sent.lag = lag PROVE Mails <=> now - sent.at > SPACE
      <4>1. Apart(uptime_us, lastmail) = now - sent.at
        BY <3>2, TrueSpace
      <4>2. ASSUME now - sent.at > SPACE PROVE Mails
        <5>1. sent' = [at |-> now, lag |-> lag,
                       burst |-> IF now - sent.at > SPACE THEN 1 ELSE sent.burst + 1]
          BY <2>2, <3>2, <4>1, <4>2, MonitorStep
        <5>2. sent'.at = now /\ now # sent.at
          BY <4>2, <5>1, MonitorConstants, Lag DEF SentOK
        <5> QED BY <5>2 DEF Mails
      <4>3. Mails => now - sent.at > SPACE
        BY <2>2, <4>1, MonitorStep DEF Mails
      <4> QED BY <4>2, <4>3
    <3> QED BY <3>1, <3>2
  <2> QED BY <2>1, <2>2 DEF MonitorNext
<1> QED BY <1>1, SentHolds, PTL DEF MonitorSpec, LightMailsApart

-----------------------------------------------------------------------------
(* Bursts.                                                                 *)

\* The longest time between a wrap and the handler's seeing it.
SLACK == PERIOD + LATE + SPAN

\* At the last mail the counter was at most x: it is in this period of the counter, at most
\* x behind its begin, or almost a whole period ago.
Early(x) ==
  /\ sent.at <= wraps * W + x
  /\ sent.at < wraps * W => now - sent.at >= W - x

\* A mail by a late clock comes soon after a wrap, and one by an exact clock lies before
\* the wrap that has made the clock late.  In a burst the clock changes from mail to mail.
BurstInv ==
  /\ sent.lag = 0 /\ lag = W => sent.at < wraps * W
  /\ sent.lag = W => Early(SLACK)
  /\ sent.burst = 0 => sent.lag = 0
  /\ sent.burst = 2 => IF sent.lag = W THEN Early(SPACE) ELSE Early(SLACK + SPACE)
  /\ sent.burst = 3 => sent.lag = 0 /\ Early(2 * SPACE)
  /\ BurstBound

\* A burst is over before the next wrap.
Roomy == 3 * SPACE < W /\ SLACK + 2 * SPACE < W

\* Time passes, and the handler runs: what is known of the last mail stays true.
LEMMA EarlyStays ==
  ASSUME IInv, IInv', SentOK, Next, UNCHANGED sent, NEW x \in Nat, Early(x)
  PROVE  Early(x)'
<1> USE UptimeConstants
<1>1. /\ now \in Nat /\ wraps * W \in Nat /\ W \in Nat /\ counter \in Nat
      /\ now = wraps * W + counter /\ sent.at \in Nat
  BY Lag DEF SentOK
<1>2. CASE Tick /\ counter = W - 1
  <2>1. counter' = 0 /\ wraps' = wraps + 1
    BY <1>2 DEF Tick
  <2>2. wraps' * W = wraps * W + W
    BY <2>1 DEF IInv, Typed
  <2>3. now' = wraps * W + W
    BY <1>1, <2>1, <2>2 DEF now
  <2> QED BY <1>1, <1>2, <2>2, <2>3 DEF Early
<1>3. CASE Tick /\ counter # W - 1
  <2>1. wraps' = wraps /\ counter' = counter + 1
    BY <1>3 DEF Tick
  <2>2. now' = now + 1
    BY <1>1, <2>1 DEF now
  <2> QED BY <1>1, <2>1, <2>2 DEF Early
<1>4. CASE uptime_handler \/ Sample \/ Report
  <2>1. wraps' = wraps /\ now' = now
    BY <1>4 DEF uptime_handler, Sample, Report, now
  <2> QED BY <2>1 DEF Early
<1> QED BY <1>2, <1>3, <1>4 DEF Next

\* The clock's own steps keep BurstInv.
LEMMA ClockBurst ==
  ASSUME IInv, IInv', SentOK, BurstInv, Next, UNCHANGED sent
  PROVE  BurstInv'
<1> USE UptimeConstants, MonitorConstants
<1>1. SLACK \in Nat /\ SPACE \in Nat /\ SLACK + SPACE \in Nat /\ 2 * SPACE \in Nat
  BY DEF SLACK
<1>2. /\ Early(SLACK) => Early(SLACK)'
      /\ Early(SPACE) => Early(SPACE)'
      /\ Early(SLACK + SPACE) => Early(SLACK + SPACE)'
      /\ Early(2 * SPACE) => Early(2 * SPACE)'
  BY <1>1, EarlyStays
<1>3. sent.lag = 0 /\ lag' = W => sent.at < wraps' * W
  <2> SUFFICES ASSUME sent.lag = 0, lag' = W PROVE sent.at < wraps' * W
    OBVIOUS
  <2>0. W # 0 /\ W \in Nat
    OBVIOUS
  <2>1. wraps' # uptime_high'
    <3>1. wraps' = uptime_high' => lag' = 0
      <4> SUFFICES ASSUME wraps' = uptime_high' PROVE lag' = 0
        OBVIOUS
      <4>1. wraps' \in Nat /\ counter' \in Nat
        BY DEF IInv, Typed
      <4>2. wraps' * W \in Nat
        BY <2>0, <4>1, NatTimes
      <4>3. lag' = (wraps' * W + counter') - (wraps' * W + counter')
        BY DEF lag, now, uptime_us
      <4>4. \A a, b \in Nat : (a + b) - (a + b) = 0
        OBVIOUS
      <4> QED BY <4>1, <4>2, <4>3, <4>4
    <3> QED BY <2>0, <3>1
  <2>2. /\ now \in Nat /\ wraps * W \in Nat /\ counter \in Nat /\ counter < W
        /\ now = wraps * W + counter /\ sent.at \in Nat /\ sent.at <= now
    BY Lag DEF SentOK
  <2>3. CASE Tick /\ counter = W - 1
    <3>1. wraps' = wraps + 1
      BY <2>3 DEF Tick
    <3>2. wraps' * W = wraps * W + W
      BY <3>1 DEF IInv, Typed
    <3> QED BY <2>2, <3>2
  <2>4. CASE ~(Tick /\ counter = W - 1)
    <3>1. wraps' = wraps /\ (uptime_high' = uptime_high \/ uptime_high' = uptime_high + 1)
      BY <2>4 DEF Next, Tick, uptime_handler, Sample, Report
    <3>2. wraps = uptime_high + 1
      <4>1. wraps' = uptime_high' + 1 /\ uptime_high' \in Nat
        BY <2>1 DEF IInv, Typed, Sampled
      <4>2. wraps = uptime_high \/ wraps = uptime_high + 1
        BY DEF IInv, Sampled
      <4>3. uptime_high \in Nat
        BY DEF IInv, Typed
      <4>4. wraps = uptime_high + 1 \/ wraps = (uptime_high + 1) + 1
        BY <3>1, <4>1
      <4> QED BY <4>2, <4>3, <4>4
    <3>3. lag = W
      BY <3>2, Lag DEF IInv, Typed
    <3> QED BY <3>1, <3>3 DEF BurstInv
  <2> QED BY <2>3, <2>4
<1>4. /\ sent.lag = W => Early(SLACK)'
      /\ sent.burst = 0 => sent.lag = 0
      /\ sent.burst = 2 => IF sent.lag = W THEN Early(SPACE)' ELSE Early(SLACK + SPACE)'
      /\ sent.burst = 3 => sent.lag = 0 /\ Early(2 * SPACE)'
      /\ sent.burst <= 3
  BY <1>2 DEF BurstInv, BurstBound
<1> QED BY <1>3, <1>4 DEF BurstInv, BurstBound

\* A mail keeps BurstInv: a second one within SPACE is by a clock that has changed, and the
\* clock does not change a third time so soon.
LEMMA MailBurst ==
  ASSUME Roomy, IInv, SentOK, BurstInv, NEW lux \in Readings, monitor(lux)
  PROVE  BurstInv'
<1> USE UptimeConstants, MonitorConstants
<1>1. /\ now \in Nat /\ wraps * W \in Nat /\ W \in Nat /\ counter \in Nat /\ counter < W
      /\ now = wraps * W + counter /\ lag \in {0, W} /\ W # 0
      /\ sent.at \in Nat /\ sent.at <= now /\ sent.lag \in {0, W} /\ sent.burst \in Nat
      /\ sent.burst <= 3
  BY Lag DEF SentOK, BurstInv, BurstBound
<1>2. SLACK \in Nat /\ SPACE \in Nat /\ 3 * SPACE < W /\ SLACK + 2 * SPACE < W
  BY DEF SLACK, Roomy
<1>3. UNCHANGED vars /\ now' = now /\ lag' = lag /\ wraps' = wraps
  BY MonitorStep DEF vars, lag, now, uptime_us
<1>4. CASE sent' = sent
  BY <1>3, <1>4 DEF BurstInv, Early, BurstBound
<1>5. CASE sent' # sent
  <2>1. sent' = [at |-> now, lag |-> lag,
                 burst |-> IF now - sent.at > SPACE THEN 1 ELSE sent.burst + 1]
    BY <1>5, MonitorStep
  <2>2. sent'.at = now /\ sent'.lag = lag
    BY <2>1
  <2>3. \A x \in Nat : counter <= x => Early(x)'
    BY <1>1, <1>3, <2>2 DEF Early
  <2>4. lag = W => counter <= SLACK
    <3> SUFFICES ASSUME lag = W PROVE counter <= SLACK
      OBVIOUS
    <3>1. wraps = uptime_high + 1
      BY <1>1, Lag DEF IInv, Sampled
    <3> QED BY <3>1 DEF IInv, Typed, Sampled, Recent, SLACK
  <2>5. lag = W => Early(SLACK)'
    BY <1>2, <2>3, <2>4
  <2>6. CASE now - sent.at > SPACE
    <3>1. sent'.burst = 1
      BY <2>1, <2>6
    <3> QED BY <1>1, <1>3, <2>2, <2>5, <3>1 DEF BurstInv, BurstBound
  <2>7. CASE ~(now - sent.at > SPACE)
    <3>1. sent'.burst = sent.burst + 1
      BY <2>1, <2>7
    <3>2. lag # sent.lag
      <4> SUFFICES ASSUME sent.lag = lag PROVE FALSE
        OBVIOUS
      <4>1. Apart(uptime_us, lastmail) = now - sent.at
        BY TrueSpace
      <4> QED BY <1>5, <2>7, <4>1, MonitorStep
    <3>3. CASE sent.lag = 0 /\ lag = W
      <4>1. sent.at < wraps * W /\ counter <= SPACE
        BY <1>1, <1>2, <2>7, <3>3 DEF BurstInv
      <4>2. sent.burst # 2
        BY <1>1, <1>2, <2>7, <3>3, <4>1 DEF BurstInv, Early
      <4>3. sent.burst # 3
        BY <1>1, <1>2, <2>7, <4>1 DEF BurstInv, Early
      <4>4. Early(SPACE)' /\ sent'.burst \in {1, 2}
        BY <1>1, <1>2, <2>3, <3>1, <4>1, <4>2, <4>3
      <4> QED BY <1>1, <1>3, <2>2, <2>5, <3>3, <4>4 DEF BurstInv, BurstBound
    <3>4. CASE sent.lag = W /\ lag = 0
      <4>1. sent.burst # 0 /\ sent.burst # 3
        BY <1>1, <3>4 DEF BurstInv
      <4>2. counter <= SLACK + SPACE
        BY <1>1, <1>2, <2>7, <3>4 DEF BurstInv, Early
      <4>3. sent.burst = 2 => counter <= 2 * SPACE
        BY <1>1, <1>2, <2>7, <3>4 DEF BurstInv, Early
      <4>4. CASE sent.burst = 1
        <5>1. sent'.burst = 2 /\ Early(SLACK + SPACE)'
          BY <1>2, <2>3, <3>1, <4>2, <4>4
        <5> QED BY <1>1, <1>3, <2>2, <3>4, <5>1 DEF BurstInv, BurstBound
      <4>5. CASE sent.burst = 2
        <5>1. sent'.burst = 3 /\ Early(2 * SPACE)'
          BY <1>2, <2>3, <3>1, <4>3, <4>5
        <5> QED BY <1>1, <1>3, <2>2, <3>4, <5>1 DEF BurstInv, BurstBound
      <4> QED BY <1>1, <4>1, <4>4, <4>5
    <3> QED BY <1>1, <3>2, <3>3, <3>4
  <2> QED BY <2>6, <2>7
<1> QED BY <1>4, <1>5

\* BurstBound, for every clock whose handler sees a wrap, and for every spacing of which
\* three fit between two wraps (five minutes, 20 and 71 in the code): at most three mails
\* follow each other within SPACE, however the clock jumps.
THEOREM BurstsEnd ==
  ASSUME Roomy
  PROVE  MonitorSpec => []BurstBound
<1>1. MonitorInit => BurstInv
  <2> SUFFICES ASSUME MonitorInit PROVE BurstInv
    OBVIOUS
  <2>1. lag = 0 /\ W # 0 /\ sent.lag = 0 /\ sent.burst = 0
    BY UptimeConstants DEF MonitorInit, Init, lag, now, uptime_us
  <2> QED BY <2>1 DEF BurstInv, BurstBound
<1>2. IInv /\ SentOK /\ BurstInv /\ IInv' /\ [MonitorNext]_allVars => BurstInv'
  <2> SUFFICES ASSUME IInv, SentOK, BurstInv, IInv', [MonitorNext]_allVars PROVE BurstInv'
    OBVIOUS
  <2>1. CASE Next /\ UNCHANGED monitorVars
    BY <2>1, ClockBurst DEF monitorVars
  <2>2. ASSUME NEW lux \in Readings, monitor(lux) PROVE BurstInv'
    BY <2>2, MailBurst
  <2>3. CASE UNCHANGED allVars
    <3>1. UNCHANGED <<sent, lag, now, wraps>>
      BY <2>3 DEF allVars, monitorVars, vars, lag, now, uptime_us
    <3> QED BY <3>1 DEF BurstInv, BurstBound, Early
  <2> QED BY <2>1, <2>2, <2>3 DEF MonitorNext
<1>3. BurstInv => BurstBound
  BY DEF BurstInv
<1> QED BY <1>1, <1>2, <1>3, SentHolds, PTL DEF MonitorSpec
=============================================================================
