----------------------------- MODULE SmtpClient -----------------------------
(***************************************************************************)
(* The SMTP client of smtp/smtp.c and the server it talks to.              *)
(*                                                                         *)
(* One mail at a time is sent by a chain of callbacks: DNS, connect, and   *)
(* one reply handler per command.  The data that is received is a stream   *)
(* of units: a reply code with the character behind it ("250-", "250 "), a *)
(* piece of text, or CRLF.  inbuf is memory, not a queue: what the driver  *)
(* left in it stays there, and the handlers look for a line in all of it.  *)
(*                                                                         *)
(* pc is "reply" inside the handler that smtp_send_recv_cb() called;       *)
(* nothing else runs until it returns.                                     *)
(***************************************************************************)
EXTENDS Integers, Sequences

CONSTANTS
  NULL,
  BUF,         \* sizeof(smtp_state.inbuf), in units
  Memory,      \* what may lie behind inbuf
  Mail,        \* arguments of smtp_send(): tuples <<from, to, subj, body>>
  TooLong,     \* an argument that does not fit its field of smtp_state
  Configured,  \* did smtp_init() find an account in the user params?
  Words,       \* pieces of text
  Texts,       \* what a server may put between the code and CRLF
  EhloLines,   \* the lines a server may put in front of "250 "
  Challenges,  \* what a server may send behind "334 ", a sequence of units
  Base64,      \* units that b64_decode() takes
  Refusals,    \* may the server refuse a command?
  Segmented,   \* may a segment end inside a line?
  MaxFaults,   \* failures of the network, the SDK and the power supply
  MaxMails     \* mails taken on

CRLF   == "crlf"
NUL    == "nul"
Codes  == {"220 ", "250-", "250 ", "334 ", "235 ", "354 ", "221 ", "5xx "}
Units  == Codes \cup Words \cup {CRLF}
Dialog == {"GREET", "CHALLENGE", "AUTH", "FROM", "TO", "DATA", "QUIT", "CLOSE"}
States == Dialog \cup {"FAILED", "READY", "RESOLVE", "CONNECT"}

ASSUME SmtpConstants ==
  /\ BUF \in Nat \ {0}
  /\ Configured \in BOOLEAN /\ Refusals \in BOOLEAN /\ Segmented \in BOOLEAN
  /\ MaxFaults \in Nat /\ MaxMails \in Nat
  /\ Texts \subseteq Seq(Words) /\ Challenges \subseteq Seq(Words)
  /\ EhloLines \subseteq Seq(Words \cup {"250-", CRLF})
  /\ Memory \subseteq [0 .. BUF - 1 -> Units \cup {NUL}]

ASSUME SmtpWords == Words \cap (Codes \cup {CRLF, NUL}) = {}

ASSUME SmtpMail == \A m \in Mail : m = [i \in 1 .. 4 |-> m[i]]

VARIABLES
  state,      \* smtp_state.state
  mail,       \* smtp_state.from, to, subj and body
  inbuf,      \* smtp_state.inbuf
  inbufused,  \* smtp_state.inbufused
  timer,      \* argument of smtp_send_kill() while the timer runs, else "off"
  pc,         \* "reply" inside a reply handler, "idle" outside, "wild" after
              \* the count of bytes in use has wrapped below zero
  link,       \* the TCP connection: "down", "opening" or "up"
  net,        \* units on their way to the client
  inbox,      \* commands on their way to the server
  srv,        \* the server's session: envelope, challenge, has it said goodbye?
  asked,      \* history: mails taken on
  got,        \* history: what the server took on
  open,       \* history: may the last mail taken on still be delivered?
  faults      \* failures so far

stateVars == <<state, mail, inbuf, inbufused, timer, pc>>
netVars   == <<link, net, inbox, srv>>
histVars  == <<asked, got, open, faults>>
vars      == <<stateVars, netVars, histVars>>

Idle == pc = "idle"
Fault == faults < MaxFaults /\ faults' = faults + 1
NoSession == [env |-> <<NULL, NULL>>, chal |-> NULL, bye |-> FALSE]

\* smtp_init(); os_bzero() of the whole smtp_state.
Zeroed == [i \in 0 .. BUF - 1 |-> NUL]

Init ==
  /\ state = "READY" /\ mail = <<NULL, NULL, NULL, NULL>>
  /\ inbuf = Zeroed /\ inbufused = 0
  /\ timer = "off" /\ pc = "idle"
  /\ link = "down" /\ net = << >> /\ inbox = << >> /\ srv = NoSession
  /\ asked = << >> /\ got = << >> /\ open = FALSE /\ faults = 0

-----------------------------------------------------------------------------
(* Starting a mail.                                                        *)

\* state = FAILED, and smtp_send_kill(arg) in three seconds.
FailAndKill(arg) == state' = "FAILED" /\ timer' = arg

\* The callbacks are registered and espconn_connect() is called; each may fail.
smtp_send_connect ==
  \/ state' = "CONNECT" /\ link' = "opening" /\ UNCHANGED faults
  \/ Fault /\ state' = "FAILED" /\ UNCHANGED link

\* The arguments are copied in turn, up to one that does not fit.
Fits(m, i)  == \A j \in 1 .. i : m[j] # TooLong
Copied(m)   == [i \in 1 .. 4 |-> IF Fits(m, i) THEN m[i] ELSE mail[i]]

\* Mutant: a mail that is under way is no reason to refuse the next one.
Free_Always == Configured

\* The early returns of smtp_send().
Free == Configured /\ state = "READY"

\* An argument is too long: smtp_send() returns, what it copied stays.
SendRefused(m) ==
  /\ Idle /\ Free /\ ~Fits(m, 4)
  /\ mail' = Copied(m)
  /\ UNCHANGED <<state, inbuf, inbufused, timer, pc, netVars, histVars>>

\* espconn_gethostbyname() knows the address, has to ask for it, or fails.
smtp_send(m) ==
  /\ Idle /\ Free /\ Fits(m, 4) /\ Len(asked) < MaxMails
  /\ mail' = Copied(m)
  /\ asked' = Append(asked, m) /\ open' = TRUE
  /\ \/ smtp_send_connect
     \/ state' = "RESOLVE" /\ UNCHANGED <<link, faults>>
     \/ Fault /\ state' = "FAILED" /\ UNCHANGED link
  /\ UNCHANGED <<inbuf, inbufused, timer, pc, net, inbox, srv, got>>

smtp_send_dns ==
  /\ Idle /\ state = "RESOLVE"
  /\ \/ smtp_send_connect
     \/ Fault /\ state' = "FAILED" /\ UNCHANGED link
  /\ UNCHANGED <<mail, inbuf, inbufused, timer, pc, net, inbox, srv, asked, got, open>>

\* espconn_send() of a command, or its failure; kill then gets NULL.
Send(cmd, next) ==
  \/ state' = next /\ inbox' = Append(inbox, cmd) /\ UNCHANGED <<timer, faults>>
  \/ Fault /\ FailAndKill("null") /\ UNCHANGED inbox

\* The connection is there; the server greets in a session of its own.
smtp_send_conn_cb ==
  /\ Idle /\ link = "opening"
  /\ link' = "up" /\ srv' = NoSession
  /\ \E t \in Texts : net' = net \o <<"220 ">> \o t \o <<CRLF>>
  /\ \/ state' = "GREET" /\ inbox' = <<<<"ehlo">>>> /\ UNCHANGED <<timer, faults>>
     \/ Fault /\ (\E arg \in {"conn", "null"} : FailAndKill(arg)) /\ inbox' = << >>
  /\ UNCHANGED <<mail, inbuf, inbufused, pc, asked, got, open>>

-----------------------------------------------------------------------------
(* The end of a connection.                                                *)

Disconnected == link' = "down" /\ net' = << >> /\ inbox' = << >> /\ UNCHANGED srv

\* smtp_send_error_cb() and smtp_send_disconn_cb() log, and change nothing.
LinkLost ==
  /\ Idle /\ link \in {"opening", "up"}
  /\ Fault /\ Disconnected
  /\ UNCHANGED <<stateVars, asked, got, open>>

ServerCloses ==
  /\ Idle /\ link = "up" /\ srv.bye /\ net = << >>
  /\ Disconnected
  /\ UNCHANGED <<stateVars, histVars>>

\* The timer fires.  espconn_disconnect(NULL) does nothing.
smtp_send_kill ==
  /\ Idle /\ timer # "off"
  /\ timer' = "off"
  /\ IF timer = "conn" THEN Disconnected ELSE UNCHANGED netVars
  /\ UNCHANGED <<state, mail, inbuf, inbufused, pc, histVars>>

-----------------------------------------------------------------------------
(* The replies.                                                            *)

\* Mutant: the buffer may be filled to the last byte.
Overflows_OffByOne(n) == inbufused + n > BUF

Overflows(n) == inbufused + n >= BUF

\* A segment of n units arrives.
smtp_send_recv_cb(n) ==
  /\ Idle /\ link = "up" /\ n \in 1 .. Len(net)
  /\ Segmented \/ net[n] = CRLF
  /\ net' = SubSeq(net, n + 1, Len(net))
  /\ IF Overflows(n)
     THEN FailAndKill("null") /\ UNCHANGED <<inbuf, inbufused, pc>>
     ELSE /\ inbuf' = [i \in 0 .. BUF - 1 |->
                         IF i \in inbufused .. inbufused + n - 1
                         THEN net[i - inbufused + 1] ELSE inbuf[i]]
          /\ inbufused' = inbufused + n
          /\ pc' = IF state \in Dialog THEN "reply" ELSE "idle"
          /\ UNCHANGED <<state, timer>>
  /\ UNCHANGED <<mail, link, inbox, srv, histVars>>

\* os_strstr(inbuf, "\r\n"): the first CRLF in front of the first NUL.
CrlfAt == {i \in 0 .. BUF - 1 : /\ inbuf[i] = CRLF
                                /\ \A j \in 0 .. i - 1 : inbuf[j] \notin {CRLF, NUL}}
HasLine == CrlfAt # {}
LineLen == (CHOOSE i \in CrlfAt : TRUE) + 1

\* The text of the line, from "inbuf+4" to its end.
LineText == [i \in 1 .. LineLen - 2 |-> inbuf[i]]

\* The codes a handler takes.
Expected ==
  [GREET |-> {"220 ", "250-", "250 "}, CHALLENGE |-> {"334 "}, AUTH |-> {"235 "},
   FROM |-> {"250 "}, TO |-> {"250 "}, DATA |-> {"354 "}, QUIT |-> {"250 "},
   CLOSE |-> {"221 "}]

\* Is the line taken?  A challenge must also decode.
Accepted ==
  /\ inbuf[0] \in Expected[state]
  /\ state = "CHALLENGE" => \A i \in 1 .. LineLen - 2 : inbuf[i] \in Base64

\* No line yet: the handler returns.
Incomplete ==
  /\ pc = "reply" /\ ~HasLine
  /\ pc' = "idle"
  /\ UNCHANGED <<state, mail, inbuf, inbufused, timer, netVars, histVars>>

Rejected ==
  /\ pc = "reply" /\ HasLine /\ ~Accepted
  /\ FailAndKill("null") /\ pc' = "idle"
  /\ UNCHANGED <<mail, inbuf, inbufused, netVars, histVars>>

\* Mutant: what is behind the line stays where it is.
Consume_NoMove == inbufused' = inbufused - LineLen /\ UNCHANGED inbuf

\* The line is taken out; inbufused+1 bytes move to the front.
Consume ==
  /\ inbufused' = inbufused - LineLen
  /\ inbuf' = [i \in 0 .. BUF - 1 |-> IF i <= inbufused' THEN inbuf[i + LineLen] ELSE inbuf[i]]

\* The handler has a line that it takes.
Reply(s, codes) ==
  /\ pc = "reply" /\ state = s /\ HasLine /\ Accepted /\ inbuf[0] \in codes
  /\ LineLen <= inbufused
  /\ Consume

\* The line ends behind the data that was received: the uint16_t inbufused wraps, and
\* os_memmove() shifts nearly 64 kB of memory over the buffer and what is behind it.
\* Nothing sensible follows but a reset.
Wild ==
  /\ pc = "reply" /\ HasLine /\ Accepted /\ LineLen > inbufused
  /\ inbufused' = (inbufused - LineLen) % 65536
  /\ \E m \in Memory :
       inbuf' = [i \in 0 .. BUF - 1 |-> IF i + LineLen < BUF THEN inbuf[i + LineLen]
                                       ELSE m[i + LineLen - BUF]]
  /\ pc' = "wild"
  /\ UNCHANGED <<state, mail, timer, netVars, histVars>>

\* A handler that answers a line with one command and returns.
Command(s, code, cmd, next) ==
  /\ Reply(s, {code})
  /\ Send(cmd, next)
  /\ pc' = "idle"
  /\ UNCHANGED <<mail, link, net, srv, asked, got, open>>

\* The loop of smtp_send_greet() over the lines in front of "250 ".
GreetLine ==
  /\ Reply("GREET", {"220 ", "250-"})
  /\ pc' = IF inbufused' = 0 THEN "idle" ELSE "reply"
  /\ UNCHANGED <<state, mail, timer, netVars, histVars>>

\* Mutant: any line that starts with 250 ends the greeting.
smtp_send_greet_AnyLine ==
  \/ Reply("GREET", {"220 "}) /\ pc' = "idle" /\ UNCHANGED <<state, mail, timer, netVars, histVars>>
  \/ \E code \in {"250-", "250 "} : Command("GREET", code, <<"AUTH">>, "CHALLENGE")

smtp_send_greet     == GreetLine \/ Command("GREET", "250 ", <<"AUTH">>, "CHALLENGE")
smtp_send_challenge == Command("CHALLENGE", "334 ", <<"response", LineText>>, "AUTH")
smtp_send_auth      == Command("AUTH", "235 ", <<"mail FROM", mail[1]>>, "FROM")
smtp_send_from      == Command("FROM", "250 ", <<"rcpt TO", mail[2]>>, "TO")

\* Mutant: the command goes out with the state left as it was.
smtp_send_to_Stays  == Command("TO", "250 ", <<"data">>, "TO")

smtp_send_to        == Command("TO", "250 ", <<"data">>, "DATA")

smtp_send_data      == Command("DATA", "354 ", <<"message", mail>>, "QUIT")
smtp_send_quit      == Command("QUIT", "250 ", <<"quit">>, "CLOSE")

\* Mutant: the state is left as it was.
smtp_send_close_Stays ==
  /\ Reply("CLOSE", {"221 "})
  /\ pc' = "idle"
  /\ UNCHANGED <<state, mail, timer, netVars, histVars>>

smtp_send_close ==
  /\ Reply("CLOSE", {"221 "})
  /\ state' = "READY" /\ pc' = "idle"
  /\ UNCHANGED <<mail, timer, netVars, histVars>>

Handler ==
  \/ Incomplete \/ Rejected \/ Wild
  \/ smtp_send_greet \/ smtp_send_challenge \/ smtp_send_auth \/ smtp_send_from
  \/ smtp_send_to \/ smtp_send_data \/ smtp_send_quit \/ smtp_send_close

-----------------------------------------------------------------------------
(* The server, and restarts of the device.                                 *)

Line(code, t) == <<code>> \o t \o <<CRLF>>

\* The server takes the next command and answers it.
Serve ==
  /\ Idle /\ link = "up" /\ inbox # << >>
  /\ inbox' = Tail(inbox)
  /\ LET cmd == Head(inbox)
         says(code) == \E t \in Texts : net' = net \o Line(code, t)
     IN  \/ /\ cmd[1] = "ehlo"
            /\ \E e \in EhloLines, t \in Texts : net' = net \o e \o Line("250 ", t)
            /\ UNCHANGED <<srv, got, open>>
         \/ /\ cmd[1] = "AUTH"
            /\ \E c \in Challenges : net' = net \o Line("334 ", c) /\ srv' = [srv EXCEPT !.chal = c]
            /\ UNCHANGED <<got, open>>
         \/ /\ cmd[1] = "response" /\ cmd[2] = srv.chal
            /\ says("235 ") /\ UNCHANGED <<srv, got, open>>
         \/ /\ cmd[1] = "mail FROM"
            /\ says("250 ") /\ srv' = [srv EXCEPT !.env[1] = cmd[2]] /\ UNCHANGED <<got, open>>
         \/ /\ cmd[1] = "rcpt TO"
            /\ says("250 ") /\ srv' = [srv EXCEPT !.env[2] = cmd[2]] /\ UNCHANGED <<got, open>>
         \/ /\ cmd[1] = "data"
            /\ says("354 ") /\ UNCHANGED <<srv, got, open>>
         \/ /\ cmd[1] = "message"
            /\ says("250 ") /\ got' = Append(got, [env |-> srv.env, msg |-> cmd[2]])
            /\ open' = FALSE /\ UNCHANGED srv
         \/ /\ cmd[1] = "quit"
            /\ says("221 ") /\ srv' = [srv EXCEPT !.bye = TRUE] /\ UNCHANGED <<got, open>>
         \/ /\ Refusals \/ (cmd[1] = "response" /\ cmd[2] # srv.chal)
            /\ says("5xx ") /\ UNCHANGED <<srv, got, open>>
  /\ UNCHANGED <<stateVars, link, asked, faults>>

\* A reset of the device: after a fault, or by the watchdog.
Reset ==
  /\ IF pc = "wild" THEN UNCHANGED faults ELSE Fault
  /\ state' = "READY" /\ mail' = <<NULL, NULL, NULL, NULL>>
  /\ inbuf' = Zeroed /\ inbufused' = 0 /\ timer' = "off" /\ pc' = "idle"
  /\ Disconnected
  /\ open' = FALSE /\ UNCHANGED <<asked, got>>

Network ==
  \/ smtp_send_dns \/ smtp_send_conn_cb \/ Serve \/ ServerCloses
  \/ \E n \in 1 .. Len(net) : smtp_send_recv_cb(n)

Next ==
  \/ \E m \in Mail : SendRefused(m) \/ smtp_send(m)
  \/ smtp_send_kill
  \/ Network \/ Handler
  \/ LinkLost \/ Reset

Spec == Init /\ [][Next]_vars

\* The network, the server and the CPU carry on with what was begun, a timer
\* that was armed fires, and a watchdog resets a device that has gone astray.
FairSpec ==
  Spec /\ WF_vars(Network) /\ WF_vars(Handler) /\ WF_vars(smtp_send_kill)
       /\ WF_vars(pc = "wild" /\ Reset)

-----------------------------------------------------------------------------
(* Properties.                                                             *)

TypeOK ==
  /\ state \in States /\ pc \in {"idle", "reply", "wild"}
  /\ inbuf \in [0 .. BUF - 1 -> Units \cup {NUL}] /\ inbufused \in Nat
  /\ timer \in {"off", "conn", "null"}
  /\ link \in {"down", "opening", "up"}
  /\ net \in Seq(Units)
  /\ open \in BOOLEAN /\ faults \in 0 .. MaxFaults
  /\ pc = "reply" => state \in Dialog

\* The handlers treat inbuf as a string, and nobody writes the NUL behind the data:
\* whatever the server sends, the last byte of inbuf is NUL and the data ends in front
\* of it, so os_strstr() stays inside the buffer; and if no segment ends inside a line,
\* no line is found behind the data, where inbufused would wrap.  A segment that ends
\* inside a line does not give that: a CRLF of an older line may lie behind the data,
\* and the count wraps and the buffer is overwritten (Wild, smtp.c:349-350).
BufTerminated ==
  /\ pc = "wild" => Segmented
  /\ pc # "wild" => inbuf[BUF - 1] = NUL /\ inbufused < BUF

\* The client does not talk out of turn: a command is on its way alone and, but for
\* "ehlo", only when all the server has said before was received, read and taken
\* out of inbuf.
InTurn ==
  inbox # << >> =>
    Len(inbox) = 1 /\ (inbox[1] = <<"ehlo">> \/ (net = << >> /\ inbufused = 0))

\* smtp_send() is the at-most-once mail service of MailService: no mix of two
\* mails, no mail after a refused command, nothing sent twice.
MS == INSTANCE MailService WITH Mail <- Mail, asked <- asked, got <- got, open <- open
Serves == MS!Spec

\* "Mail triggers: after connecting to the configured AP, the uptime day count is
\* incremented": the client is ready for a trigger again and again.
ReadyAgain == []<>(state = "READY")
=============================================================================
