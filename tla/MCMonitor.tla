----------------------------- MODULE MCMonitor -----------------------------
(* Monitor in ticks of five minutes: the counter wraps after 70 minutes     *)
(* (71.6 in the SDK), the timer comes every 20, it and its handler may be   *)
(* five late.  Days are short, two and a half hours.  DayMails.cfg has the   *)
(* sizes of the code: ticks of 24 seconds, 179 of them until the counter     *)
(* wraps (4296 s, 4295 in the SDK), 50 until the timer, 3600 in a day.       *)
EXTENDS Monitor

\* 10 -> 14 is no sharp increase (14 > 14), 10 -> 15 is one.
MCReadings == {-1, 10, 14, 15}
=============================================================================
