------------------------------ MODULE Logging ------------------------------
(***************************************************************************)
(* The log in memory (log/log.c, log/log.h) and the pages that show it and *)
(* change its levels (http/url_logs.c).                                    *)
(*                                                                         *)
(* logbuf.main holds the newest bytes of all entries, newest entry first;  *)
(* the text is abstracted to the places where its lines end, in bytes, and *)
(* all sizes are those of the code.  A line that is cut at the end of main *)
(* loses its newline, so it is no line any more.                           *)
(***************************************************************************)
EXTENDS Integers, Sequences

CONSTANTS
  Messages,    \* what the program logs: [sys, level, prefix, msg, nl], see Entry
  Scenes,      \* [msg, times, refresh, left]: what was logged so far, the browser, and
               \* how many messages and changes of levels may come between its requests
  REQ,         \* the message of http_process() for a request of the page
  Tuned        \* systems whose level is changed

DEBUG    == 10
INFO     == 20
WARNING  == 30
ERROR    == 40
CRITICAL == 50
LevelSet  == {DEBUG, INFO, WARNING, ERROR, CRITICAL}
Systems   == {"CRYPTO", "DRIVER", "HTTP", "MAIN", "OTA", "SMTP"}

OUTBUF    == 4096           \* sizeof(http_outbuf)
MAIN      == OUTBUF - 500   \* sizeof(logbuf.main)
LINE      == 192            \* sizeof(logbuf.line)
ENTRY     == 256            \* sizeof(logbuf.entry)

\* Mutant: room for a log of long lines.
MAX_LINES_Short == 64

MAX_LINES == 100

ASSUME LoggingConstants ==
  /\ \A m \in Messages \cup {sc.msg : sc \in Scenes} \cup {REQ} :
       m \in [sys : Systems, level : LevelSet, prefix : Nat, msg : Nat, nl : BOOLEAN]
  /\ \A sc \in Scenes : sc.times \in Nat /\ sc.refresh \in BOOLEAN /\ sc.left \in Nat
  /\ Tuned \subseteq Systems
  /\ REQ.nl = FALSE

VARIABLES
  lines,     \* offsets in logbuf.main behind the newlines, in order: newest line first
  full,      \* logbuf.main holds no NUL
  nl,        \* logbuf.line holds a newline
  levels,    \* CRYPTO_LOG_LEVEL and so on
  run,       \* "on", "halted" by CRITICAL, or "wild" once lines[] was overrun
  outbuflen, \* http_outbuflen behind the last page
  answer,    \* history: what became of the last page: "none", "sent" or "failed"
  refresh,   \* does the browser ask for "/logs?refresh"?
  left       \* messages and changes of levels still to come

vars == <<lines, full, nl, levels, run, outbuflen, answer, refresh, left>>

\* The bytes of the first i lines, of all lines and of line i.
UpTo(ls, i) == IF i = 0 THEN 0 ELSE ls[i]
Bytes(ls)   == UpTo(ls, Len(ls))
Size(ls, i) == ls[i] - UpTo(ls, i - 1)

-----------------------------------------------------------------------------
(* Entries.                                                                *)

MIN(a, b) == IF a < b THEN a ELSE b
MAX(a, b) == IF a > b THEN a ELSE b

\* The lines of an entry: time, level, file and line number (prefix bytes), the message,
\* cut to fit logbuf.line, and a newline, cut to fit logbuf.entry.  nl: the message ends
\* with a newline of its own.
Entry(m) ==
  LET len == m.prefix + MIN(m.msg, LINE - 1) + 1
  IN  IF m.nl /\ len < ENTRY THEN <<len - 1, len>> ELSE <<MIN(len, ENTRY - 1)>>

\* The log: its lines, and whether main is filled to the last byte.
Log == [lines |-> lines, full |-> full]

\* The lines of ls, moved by n bytes, that are still whole: those in front of the first
\* one that is cut.
Whole(ls, n) == CHOOSE k \in 0 .. Len(ls) : /\ k < Len(ls) => ls[k + 1] + n > MAIN
                                            /\ \A i \in 1 .. k : ls[i] + n <= MAIN
Moved(ls, n) == [i \in 1 .. Whole(ls, n) |-> ls[i] + n]

\* The entry goes to the front, the end falls off.
log_entry(log, new) ==
  [lines |-> new \o Moved(log.lines, Bytes(new)),
   full  |-> log.full \/ Bytes(new) + Bytes(log.lines) >= MAIN]

\* The log of a device that has logged the same message over and over.
Past(sc) ==
  LET e   == Entry(sc.msg)
      all == [i \in 1 .. sc.times * Len(e) |->
                ((i - 1) \div Len(e)) * Bytes(e) + e[1 + ((i - 1) % Len(e))]]
  IN  [lines |-> Moved(all, 0), full |-> Bytes(all) >= MAIN]

Init ==
  /\ \E sc \in Scenes :
       /\ lines = Past(sc).lines /\ full = Past(sc).full
       /\ nl = (sc.times > 0 /\ sc.msg.nl) /\ refresh = sc.refresh /\ left = sc.left
  /\ levels = [s \in Systems |-> INFO]
  /\ run = "on" /\ outbuflen = 0 /\ answer = "none"

\* Mutant: a system whose level is that of the message stays silent.
Logged_Below(m) == levels[m.sys] < m.level

Logged(m) == levels[m.sys] <= m.level

\* DEBUG(), INFO(), WARNING(), ERROR()
Logs(log, m) == IF Logged(m) THEN log_entry(log, Entry(m)) ELSE log

Becomes(log) == \E l \in {log} : lines' = l.lines /\ full' = l.full

\* Some part of the program logs; CRITICAL() does not return.
Message(m) ==
  /\ run = "on" /\ left > 0 /\ left' = left - 1
  /\ Becomes(Logs(Log, m))
  /\ nl' = IF Logged(m) THEN m.nl ELSE nl
  /\ run' = IF m.level = CRITICAL THEN "halted" ELSE "on"
  /\ UNCHANGED <<levels, outbuflen, answer, refresh>>

-----------------------------------------------------------------------------
(* The levels.                                                             *)

log_raise(l) == IF l < CRITICAL THEN l + 10 ELSE l
log_lower(l) == IF l > DEBUG THEN l - 10 ELSE l

\* What http_process() logs of a request for "/logs/raise?http", and so on.
NameLen  == [CRYPTO |-> 6, DRIVER |-> 6, HTTP |-> 4, MAIN |-> 4, OTA |-> 3, SMTP |-> 4]
Tune(s)  == [REQ EXCEPT !.msg = @ + 7 + NameLen[s]]

\* The request is logged at the old level, the level is changed, the page answers.
Changed(s, level) ==
  /\ run = "on" /\ left > 0 /\ left' = left - 1
  /\ Becomes(Logs(Log, Tune(s)))
  /\ nl' = IF Logged(Tune(s)) THEN FALSE ELSE nl
  /\ levels' = [levels EXCEPT ![s] = level]
  /\ outbuflen' = 125
  /\ UNCHANGED <<run, answer, refresh>>

http_url_logs_raise(s) == Changed(s, log_raise(levels[s]))
http_url_logs_lower(s) == Changed(s, log_lower(levels[s]))

-----------------------------------------------------------------------------
(* The page.                                                               *)

\* The page's own messages.
Avoided  == [sys |-> "HTTP", level |-> DEBUG, prefix |-> 42, msg |-> 28, nl |-> FALSE]
Overflow == [sys |-> "HTTP", level |-> ERROR, prefix |-> 42, msg |-> 20, nl |-> FALSE]

\* strchr() runs on behind main, into logbuf.line: the piece of a line at the end
\* counts if there is a newline there.
Count(log, behind) ==
  Len(log.lines) + IF log.full /\ Bytes(log.lines) < MAIN /\ behind THEN 1 ELSE 0

\* Headers, style sheet and the start of the table.
Top == 85 + 208 + (IF refresh THEN 107 ELSE 0) + 8

\* Bytes in http_outbuf in front of row i.
Before(log, i) == Top + 45 * (i - 1) + UpTo(log.lines, i - 1)

\* Mutant: room is not left for the NUL.
HTTP_OUTBUF_APPEND_OffByOne(used, n) == n > OUTBUF - used

\* HTTP_OUTBUF_APPEND() of n bytes returns from the handler.
HTTP_OUTBUF_APPEND(used, n) == n >= OUTBUF - used

\* The guard in front of a row.
Guard(used, n) == used + 19 + n >= OUTBUF - 24

\* A row takes three appends: 28 bytes, the line, and 17 bytes.
RowFails(used, n) ==
  \/ HTTP_OUTBUF_APPEND(used, 28) \/ HTTP_OUTBUF_APPEND(used + 28, n)
  \/ HTTP_OUTBUF_APPEND(used + 28 + n, 17)

\* The row that ends the loop: the first that does not pass the guard or fails, or
\* the one that is not there; the oldest line is never shown.
Ends(log, i)      == \/ Guard(Before(log, i), Size(log.lines, i))
                     \/ RowFails(Before(log, i), Size(log.lines, i))
LastRow(log, num) ==
  CHOOSE i \in 1 .. num : (i = num \/ Ends(log, i)) /\ (\A j \in 1 .. i - 1 : ~Ends(log, j))

\* Mutant: it is not put back, so the log ends behind its first line.
Restored_Not(log, rows) == IF rows = 0 THEN log ELSE [lines |-> SubSeq(log.lines, 1, 1), full |-> FALSE]

\* The byte that a NUL is put on for the time of a row is put back.
Restored(log, rows) == log

\* A row that fails leaves its NUL in main, behind the line it was to show.
Torn(log, i) == [lines |-> SubSeq(log.lines, 1, i), full |-> FALSE]

\* What http_process() logs of a request.
Request == [REQ EXCEPT !.msg = @ + IF refresh THEN 8 ELSE 0]

\* logbuf.line behind the message of the request.
Behind == IF Logged(Request) THEN FALSE ELSE nl

\* More lines than lines[] has room for are written over the stack.
Overrun ==
  /\ run = "on" /\ Count(Logs(Log, Request), Behind) > MAX_LINES
  /\ run' = "wild"
  /\ UNCHANGED <<lines, full, nl, outbuflen, answer, levels, refresh, left>>

\* The page is answered.
Sent(log, used) ==
  /\ Becomes(log) /\ outbuflen' = used + 23
  /\ nl' = Behind /\ answer' = "sent"

\* HTTP_OUTBUF_APPEND() has returned from the handler.
Failed(log, used) ==
  /\ Becomes(Logs(log, Overflow)) /\ outbuflen' = used
  /\ nl' = IF Logged(Overflow) THEN FALSE ELSE Behind
  /\ answer' = "failed"

\* A request of the page; num - 1 rows would show all lines but the oldest.
http_url_logs ==
  /\ run = "on"
  /\ \E log \in {Logs(Log, Request)} : \E num \in {MAX(1, Count(log, Behind))} :
       /\ num <= MAX_LINES
       /\ \E i \in {LastRow(log, num)} : \E used \in {Before(log, i)} :
            IF i < num /\ ~Guard(used, Size(log.lines, i))
            THEN Failed(Torn(log, i), used + 28 + Size(log.lines, i))
            ELSE LET after == Restored(log, i - 1)
                     shown == IF i < num THEN Logs(after, Avoided) ELSE after
                 IN  IF HTTP_OUTBUF_APPEND(used, 23) THEN Failed(shown, used) ELSE Sent(shown, used)
  /\ UNCHANGED <<run, levels, refresh, left>>

Next ==
  \/ \E m \in Messages : Message(m)
  \/ \E s \in Tuned : http_url_logs_raise(s) \/ http_url_logs_lower(s)
  \/ http_url_logs \/ Overrun

Spec == Init /\ [][Next]_vars

\* Somebody wants to see the log, and asks again until it comes.
FairSpec == Spec /\ WF_vars(http_url_logs \/ Overrun)

-----------------------------------------------------------------------------
(* Properties.                                                             *)

\* Whatever is in the log, the page is built inside http_outbuf, with room for a NUL.
OutbufBounded == outbuflen < OUTBUF

\* lines[] of the page has room for all lines of the log, as long as no message ends
\* with a newline of its own and makes an empty line.
LinesFit == run = "wild" => \E i \in 1 .. Len(lines) : Size(lines, i) = 1

\* The log survives being shown: a page that was answered leaves every line that was
\* there and still fits, behind the lines it logged itself; one that was not answered
\* at least half of them, if lines are not shorter than 44 bytes.
LogKept ==
  [][answer' # "none" /\ UNCHANGED <<left, run>> =>
       \E k \in 0 .. MIN(3, Len(lines')) :
         LET moved == Moved(lines, UpTo(lines', k))
             rest  == SubSeq(lines', k + 1, Len(lines'))
         IN  \/ rest = moved
             \/ /\ answer' = "failed" /\ Len(rest) \in Len(moved) \div 2 .. Len(moved)
                /\ rest = SubSeq(moved, 1, Len(rest))]_vars

\* "Most recent log entries": a page that was not answered is answered when it is asked
\* for again and again at the default log level, as every request adds to the log and
\* shifts its lines.
RetryAnswered ==
  answer = "failed" ~> answer = "sent" \/ run # "on" \/ levels["HTTP"] # INFO
=============================================================================
