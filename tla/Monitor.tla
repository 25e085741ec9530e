------------------------------ MODULE Monitor ------------------------------
(***************************************************************************)
(* The light monitor of user_init.c: a timer that reads the light sensor   *)
(* and sends a mail when it has become much lighter, but not more often    *)
(* than every five minutes.  The five minutes are measured with the clock  *)
(* of Uptime, which is one wrap late until uptime_handler() has run.       *)
(*                                                                         *)
(* Callbacks do not interrupt each other: the monitor runs between two     *)
(* calls of uptime_handler(), as often as it likes.                        *)
(***************************************************************************)
EXTENDS Uptime

CONSTANTS
  Readings,   \* what tsl2561_lux() may return, -1 for a failure included
  SPACE       \* the five minutes

ASSUME MonitorConstants == Readings \subseteq Nat \cup {-1} /\ SPACE \in Nat

VARIABLES
  oldlux, lastmail,   \* static variables of monitor()
  sent                \* history: the last mail: its true time, how late the clock was, and how
                      \* many mails it ends of which each came too soon after the one before

monitorVars == <<oldlux, lastmail, sent>>
allVars     == <<vars, monitorVars>>

\* How late uptime_us() is.
lag == now - uptime_us

MonitorInit == Init /\ oldlux = -1 /\ lastmail = 0 /\ sent = [at |-> 0, lag |-> 0, burst |-> 0]

\* llabs(now - lastmail)
Apart(a, b) == IF a < b THEN b - a ELSE a - b

\* Mutant: the comparison includes the limit.
Sharp_AtLeast(old, lux) == old # -1 /\ lux # -1 /\ lux >= (old * 14) \div 10

Sharp(old, lux) == old # -1 /\ lux # -1 /\ lux > (old * 14) \div 10

Record ==
  sent' = [at |-> now, lag |-> lag,
           burst |-> IF now - sent.at > SPACE THEN 1 ELSE sent.burst + 1]

\* Mutant: the time of the mail is forgotten.
LightMail_Forgets == Record /\ UNCHANGED lastmail

LightMail == Record /\ lastmail' = uptime_us

\* A reading that failed is not remembered.
Remember(lux) == oldlux' = IF lux = -1 THEN oldlux ELSE lux

monitor(lux) ==
  /\ pc = "idle"
  /\ Remember(lux)
  /\ IF Sharp(oldlux, lux) /\ Apart(uptime_us, lastmail) > SPACE
     THEN LightMail
     ELSE UNCHANGED <<lastmail, sent>>
  /\ UNCHANGED vars

MonitorNext ==
  \/ Next /\ UNCHANGED monitorVars
  \/ \E lux \in Readings : monitor(lux)

MonitorSpec == MonitorInit /\ [][MonitorNext]_allVars

-----------------------------------------------------------------------------
(* Properties.                                                             *)

\* Forty percent more, in exact arithmetic.
Brighter == oldlux # -1 /\ 10 * oldlux' > 14 * oldlux
Mails    == sent' # sent

\* A mail is sent for an increase by more than forty percent exactly when the last one is
\* more than five minutes of true time ago, unless the counter has wrapped in between and
\* uptime_handler() has not seen it at one of the two mails; and for nothing else, a
\* sensor that fails for a while included.
LightMailsApart ==
  [][/\ Mails => Brighter
     /\ Brighter /\ sent.lag = lag => (Mails <=> now - sent.at > SPACE)]_allVars

\* However the clock jumps, at most three mails follow each other within five minutes:
\* one before the wrap, one by the late clock and one behind uptime_handler().
BurstBound == sent.burst <= 3
=============================================================================
