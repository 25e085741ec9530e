------------------------------- MODULE Uptime -------------------------------
(***************************************************************************)
(* The uptime clock of uptime.c: a 64 bit count made from the 32 bit       *)
(* counter of the SDK by a timer that looks for wraps, and the mail that   *)
(* the timer's handler sends when a day is over.                           *)
(*                                                                         *)
(* The counter goes on while the handler runs, so each of its three reads  *)
(* of the counter is a step of its own.                                    *)
(***************************************************************************)
EXTENDS Integers

CONSTANTS
  W,        \* ticks after which system_get_time() starts again at 0 (2^32 us)
  PERIOD,   \* period of uptime_timer
  LATE,     \* how late other callbacks can make the timer
  SPAN,     \* how long the handler can take
  DAY,
  MaxTime   \* ticks until the end of the model

ASSUME UptimeConstants ==
  /\ W \in Nat /\ PERIOD \in Nat /\ LATE \in Nat /\ SPAN \in Nat /\ DAY \in Nat \ {0}
  /\ MaxTime \in Nat
  /\ SPAN < PERIOD
  /\ PERIOD + LATE + SPAN < W

VARIABLES
  counter,      \* system_get_time()
  wraps,        \* how often it has started again
  uptime_high, uptime_last,
  pc,           \* "idle", or the next read in uptime_handler()
  days1,        \* its local variable
  gap,          \* ticks since the handler was last called
  since,        \* ticks since uptime_last was sampled
  days          \* history: the days that mails were sent for, and how often

vars == <<counter, wraps, uptime_high, uptime_last, pc, days1, gap, since, days>>

\* The true time since the start, which no part of the program knows.
now == wraps * W + counter

uptime_us == uptime_high * W + counter

Init ==
  /\ counter = 0 /\ wraps = 0
  /\ uptime_high = 0 /\ uptime_last = 0
  /\ pc = "idle" /\ days1 = 0 /\ gap = 0 /\ since = 0
  /\ days = [d \in 1 .. MaxTime \div DAY |-> 0]

\* Time passes, as long as the timer and its handler are on time.
Tick ==
  /\ now < MaxTime
  /\ gap < IF pc = "idle" THEN PERIOD + LATE ELSE SPAN
  /\ counter' = IF counter = W - 1 THEN 0 ELSE counter + 1
  /\ wraps' = IF counter = W - 1 THEN wraps + 1 ELSE wraps
  /\ gap' = gap + 1 /\ since' = since + 1
  /\ UNCHANGED <<uptime_high, uptime_last, pc, days1, days>>

\* The timer fires: the first read.
uptime_handler ==
  /\ pc = "idle" /\ gap >= PERIOD
  /\ days1' = uptime_us \div DAY
  /\ pc' = "sample" /\ gap' = 0
  /\ UNCHANGED <<counter, wraps, uptime_high, uptime_last, since, days>>

\* Mutant: the handler does not remember what it has seen.
Sample_Forgets ==
  /\ pc = "sample"
  /\ uptime_high' = IF counter < uptime_last THEN uptime_high + 1 ELSE uptime_high
  /\ pc' = "days2" /\ since' = 0
  /\ UNCHANGED <<counter, wraps, uptime_last, days1, gap, days>>

\* The second read, compared with the one of the last call.
Sample ==
  /\ pc = "sample"
  /\ uptime_high' = IF counter < uptime_last THEN uptime_high + 1 ELSE uptime_high
  /\ uptime_last' = counter
  /\ pc' = "days2" /\ since' = 0
  /\ UNCHANGED <<counter, wraps, days1, gap, days>>

days2 == uptime_us \div DAY

\* Mutant: a mail whenever the day is another one than before.
NewDay_Differs == days2 # days1

NewDay == days2 > days1

\* The third read, and perhaps the mail.
Report ==
  /\ pc = "days2"
  /\ days' = IF NewDay THEN [days EXCEPT ![days2] = @ + 1] ELSE days
  /\ pc' = "idle"
  /\ UNCHANGED <<counter, wraps, uptime_high, uptime_last, days1, gap, since>>

Next == Tick \/ uptime_handler \/ Sample \/ Report

Spec == Init /\ [][Next]_vars

-----------------------------------------------------------------------------
(* Properties.                                                             *)

\* No wrap is missed and none is counted twice: uptime_us() is the true time, or one
\* period of the counter short of it when the counter has wrapped since the handler
\* last looked at it.
ClockExact ==
  uptime_us = IF counter < uptime_last THEN now - W ELSE now

\* A mail names the day that it is, even if the counter wraps between the reads of
\* the handler.
MailNamesToday ==
  [][\A d \in DOMAIN days : days'[d] # days[d] => d = now \div DAY]_vars

\* "The uptime day count is incremented (ie once every 24 hours)": no day is mailed
\* twice.  It does not hold: the handler sends the mail of a day when it sees a wrap
\* less than W after midnight, and two wraps can be seen within that time.
OncePerDay == \A d \in DOMAIN days : days[d] <= 1

\* What the handler does give: never a third mail for a day.
TwiceAtMost == \A d \in DOMAIN days : days[d] <= 2
=============================================================================
