----------------------------- MODULE MCLogging -----------------------------
(* Logging with entries of many lengths, so that the last row of the page   *)
(* ends at every distance from the end of the buffer.                       *)
EXTENDS Logging

Msg(sys, level, prefix, len, end) ==
  [sys |-> sys, level |-> level, prefix |-> prefix, msg |-> len, nl |-> end]

\* "192.168.4.2:50211 host=192.168.4.1 url=/logs", of http/process.c:132
MCREQ == Msg("HTTP", INFO, 40, 44, FALSE)

\* Messages of the WiFi callback, as long as the name of the network makes them.
Wifi(n) == Msg("MAIN", INFO, 32, n, FALSE)

\* "baseurl overflow\n"; a refused system call at the start; a message that is cut.
Newline == Msg("HTTP", WARNING, 44, 17, TRUE)
Fatal   == Msg("MAIN", CRITICAL, 35, 25, FALSE)
Long    == Msg("SMTP", INFO, 70, 250, FALSE)

Scene(m, n, r, k) == [msg |-> m, times |-> n, refresh |-> r, left |-> k]

MCMessages == {Wifi(40), Newline, Fatal, Long}

\* A full log of one length each, in quiet; and four logs with a message or a change of
\* the level at any moment.
MCScenes ==
  {Scene(Wifi(n), 110, r, 0) : n \in 12 .. 80, r \in BOOLEAN}
  \cup {Scene(m, 110, FALSE, 1) : m \in {Newline, Long, Wifi(33)}}
  \cup {Scene(Long, 0, TRUE, 1)}
=============================================================================
