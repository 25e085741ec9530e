------------------------------- MODULE Mailer -------------------------------
(***************************************************************************)
(* SmtpAccount, SmtpClient and the callers of smtp_send() together.        *)
(*                                                                         *)
(* smtp_server is read four times for one mail: the addresses by the       *)
(* caller, the host by smtp_send(), the port when the connection is made,  *)
(* user and password when the challenge comes.  The setup page may change  *)
(* it between any two of these.  No callback interrupts another one.       *)
(***************************************************************************)
EXTENDS SmtpAccount

CONSTANTS
  NULL, TOOLONG,
  BUF, Memory, Words, Replies, EhloLines, Challenges, Base64, Segmented,  \* as in SmtpClient
  Servers,     \* accounts that exist: [host, port, user, pass]
  MaxFaults, MaxMails

VARIABLES
  state, mail, inbuf, inbufused, timer, pc,   \* as in SmtpClient
  link, net, inbox, srv,
  asked, got, open, faults,
  dest,    \* the address of the connection: [host, port]
  cred,    \* what the response to the challenge was made of: [user, pass]
  acct,    \* history: smtp_server when the mail was taken on
  moved,   \* history: it was changed between then and the response
  broken   \* history: a fault since the last start

\* The addresses that an account can have, and the mails that the callers send with them.
Addresses == {"", JUNK} \cup UNION {{q[n].val : n \in 1 .. Len(q)} : q \in Queries}
Mails     == {<<a[1], a[2], "subj", "">> : a \in Addresses \X Addresses}

C == INSTANCE SmtpClient WITH
       Configured <- TRUE, Refusals <- TRUE, TooLong <- TOOLONG, Texts <- Replies,
       Mail <- Mails

ASSUME MailerConstants ==
  /\ BUF \in Nat \ {0} /\ Segmented \in BOOLEAN /\ MaxFaults \in Nat /\ MaxMails \in Nat
  /\ Replies \subseteq Seq(Words) /\ Challenges \subseteq Seq(Words)
  /\ EhloLines \subseteq Seq(Words \cup {"250-", C!CRLF})
  /\ Words \cap (C!Codes \cup {C!CRLF, C!NUL}) = {}
  /\ Memory \subseteq [0 .. BUF - 1 -> C!Units \cup {C!NUL}]

accountVars == vars
clientVars  == <<state, mail, inbuf, inbufused, timer, pc, link, net, inbox, srv,
                 asked, got, open, faults>>
mailVars    == <<dest, cred, acct, moved, broken>>
mailerVars  == <<accountVars, clientVars, mailVars>>

MailerInit ==
  /\ Init /\ C!Init
  /\ dest = [host |-> "", port |-> 0] /\ cred = [user |-> "", pass |-> ""]
  /\ acct = Empty /\ moved = FALSE /\ broken = FALSE

\* A step of the client that may meet a fault.
Client(A) == A /\ broken' = (broken \/ faults' # faults) /\ UNCHANGED accountVars

-----------------------------------------------------------------------------
(* The callers of smtp_send().                                             *)

\* Mutant: the address of the last mail is kept.
Resolve_Cached == UNCHANGED dest

\* The host is looked up; the port is read with the answer, which may be there at once.
Resolve ==
  dest' = [host |-> smtp_server["host"],
           port |-> IF state' = "CONNECT" THEN smtp_server["port"] ELSE dest.port]

\* smtp_send(smtp_server.from, smtp_server.to, subj, "")
Submit ==
  /\ smtp_server["host"] # ""
  /\ Client(C!smtp_send(<<smtp_server["from"], smtp_server["to"], "subj", "">>))
  /\ Resolve
  /\ acct' = smtp_server /\ moved' = FALSE
  /\ UNCHANGED cred

\* The callers differ in the wording of the subject.
wifi_evt_cb    == Submit
uptime_handler == Submit
monitor        == Submit

-----------------------------------------------------------------------------
(* The client and the server.                                              *)

smtp_send_dns ==
  /\ Client(C!smtp_send_dns)
  /\ dest' = [dest EXCEPT !.port = IF state' = "CONNECT" THEN smtp_server["port"] ELSE @]
  /\ UNCHANGED <<cred, acct, moved>>

smtp_send_challenge ==
  /\ Client(C!smtp_send_challenge)
  /\ cred' = [user |-> smtp_server["user"], pass |-> smtp_server["pass"]]
  /\ UNCHANGED <<dest, acct, moved>>

\* The other callbacks do not read smtp_server.
Callback ==
  /\ Client(\/ C!smtp_send_kill \/ C!smtp_send_conn_cb \/ C!ServerCloses \/ C!LinkLost
            \/ \E n \in 1 .. Len(net) : C!smtp_send_recv_cb(n)
            \/ C!Incomplete \/ C!Rejected \/ C!Wild
            \/ C!smtp_send_greet \/ C!smtp_send_auth \/ C!smtp_send_from \/ C!smtp_send_to
            \/ C!smtp_send_data \/ C!smtp_send_quit \/ C!smtp_send_close)
  /\ UNCHANGED <<dest, cred, acct, moved>>

Login == [host |-> dest.host, port |-> dest.port, user |-> cred.user, pass |-> cred.pass]

\* A server lets in those it knows, and refuses nothing else.
Serve ==
  /\ Client(C!Serve)
  /\ LET says == net'[Len(net) + 1]
     IN  says = "5xx " <=> Head(inbox)[1] = "response" /\ Login \notin Servers
  /\ UNCHANGED <<dest, cred, acct, moved>>

-----------------------------------------------------------------------------
(* The account.                                                            *)

\* The mail is between smtp_send() and the response.
Early == state \in {"RESOLVE", "CONNECT", "GREET", "CHALLENGE"}

Setup(q) ==
  /\ C!Idle /\ http_url_smtp_setup(q)
  /\ moved' = (moved \/ (Early /\ smtp_server' # smtp_server))
  /\ UNCHANGED <<clientVars, dest, cred, acct, broken>>

Store == C!Idle /\ smtp_param_write /\ UNCHANGED <<clientVars, mailVars>>

\* A restart of the device.
Restart ==
  /\ C!Reset /\ smtp_init
  /\ broken' = FALSE
  /\ UNCHANGED <<dest, cred, acct, moved>>

Progress == smtp_send_dns \/ smtp_send_challenge \/ Callback \/ Serve

MailerNext ==
  \/ wifi_evt_cb \/ uptime_handler \/ monitor
  \/ Progress
  \/ (\E q \in Queries : Setup(q)) \/ Store
  \/ Restart

\* What was begun is carried on, and timers fire.
MailerSpec ==
  /\ MailerInit /\ [][MailerNext]_mailerVars
  /\ WF_mailerVars(Progress) /\ WF_mailerVars(Store)

-----------------------------------------------------------------------------
(* Properties.                                                             *)

Known(a) ==
  [host |-> a["host"], port |-> a["port"], user |-> a["user"], pass |-> a["pass"]] \in Servers

\* User and password go to the server they belong to: the response to a challenge is
\* made of the account whose host and port the client is connected to, over any number
\* of mails, setups and restarts, unless the setup page changed the account between
\* smtp_send() and the challenge.
CredentialsHome ==
  \A i \in 1 .. Len(inbox) :
    inbox[i][1] = "response" /\ ~moved =>
      /\ dest = [host |-> acct["host"], port |-> acct["port"]]
      /\ cred = [user |-> acct["user"], pass |-> acct["pass"]]

\* inbuf stays a terminated string over a whole dialogue of lines that arrive whole: in
\* no reply handler is a line found behind the data that was received.
BufTerminated == C!BufTerminated

\* A mail that was taken on with an account that exists is delivered, if there is no
\* fault and the setup page leaves the account alone until the response is out; what
\* the page does later does no harm.
Delivered == open ~> (~open \/ moved \/ broken \/ ~Known(acct))

\* "Mail triggers ...": the client is ready for the next trigger again, and also after
\* a restart that cures a fault.
ReadyForNext == (state # "READY") ~> (state = "READY" \/ moved \/ broken \/ ~Known(acct))
=============================================================================
