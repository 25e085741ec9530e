---------------------------- MODULE MailerProofs ----------------------------
(***************************************************************************)
(* What the user params hold was accepted, for every set of query strings, *)
(* any number of requests, restarts and failed saves.  What is proved of   *)
(* the account and of the client alone holds for both together, and the    *)
(* account of a mail stays the account of that mail.                       *)
(***************************************************************************)
EXTENDS Mailer, WellFoundedInduction, TLAPS

-----------------------------------------------------------------------------
(* The account alone.                                                      *)

ERASED == <<255, 255, 255, 255>>

\* Only complete accounts are answered 202.
AcceptedComplete == \A a \in accepted : Complete(a)

\* What the timer will store was accepted, if no request has changed it since.
ToBeStored == armed /\ touched = FALSE => smtp_server \in accepted

IInv ==
  /\ sector.magic \in {ERASED, MAGIC}
  /\ AcceptedComplete /\ ToBeStored
  /\ (sector.magic = MAGIC /\ spoilt = FALSE => sector.val \in accepted)
  /\ (fresh = TRUE /\ spoilt = FALSE => smtp_server = Empty \/ smtp_server \in accepted)

\* The histories are Boolean.
Flags ==
  /\ armed \in BOOLEAN /\ touched \in BOOLEAN /\ spoilt \in BOOLEAN /\ fresh \in BOOLEAN

\* At the start the sector is erased, nothing is armed and there is no account.
LEMMA InitIInv == Init => IInv /\ Flags
<1> SUFFICES ASSUME Init PROVE IInv /\ Flags
  OBVIOUS
<1>1. sector.magic = ERASED
  BY DEF Init, ERASED
<1>2. ERASED # MAGIC
  BY DEF ERASED, MAGIC
<1>3. AcceptedComplete /\ ToBeStored
  BY DEF Init, AcceptedComplete, ToBeStored
<1> QED BY <1>1, <1>2, <1>3 DEF Init, IInv, Flags

\* A request that is not answered 202 leaves the params alone; what it changes is not
\* stored unless the timer runs, and then it counts as touched.
LEMMA RefusedKeeps ==
  ASSUME IInv, Flags, NEW q \in Queries, Refused(q)
  PROVE  IInv' /\ Flags'
<1>1. /\ UNCHANGED <<armed, sector, accepted, spoilt>> /\ fresh' = FALSE
      /\ (smtp_server' = smtp_server /\ touched' = touched) \/ touched' = armed
  BY DEF Refused, Disturb
<1>2. AcceptedComplete' /\ ToBeStored'
  BY <1>1 DEF IInv, Flags, AcceptedComplete, ToBeStored, Complete
<1> QED BY <1>1, <1>2 DEF IInv, Flags

\* A 202 is given to complete accounts only.
LEMMA AcceptedKeeps ==
  ASSUME IInv, Flags, NEW q \in Queries, Accepted(q)
  PROVE  IInv' /\ Flags'
<1>1. /\ UNCHANGED <<sector, spoilt>> /\ armed' = TRUE /\ touched' = FALSE /\ fresh' = FALSE
      /\ accepted' = accepted \cup {smtp_server'}
  BY DEF Accepted
<1>2. Complete(smtp_server')
  BY DEF Accepted, Accepts
<1>3. AcceptedComplete' /\ ToBeStored'
  BY <1>1, <1>2 DEF IInv, AcceptedComplete, ToBeStored, Complete
<1> QED BY <1>1, <1>3 DEF IInv, Flags

\* The timer stores what is in RAM, or nothing.
LEMMA WriteKeeps ==
  ASSUME IInv, Flags, smtp_param_write
  PROVE  IInv' /\ Flags'
<1>1. /\ armed = TRUE /\ armed' = FALSE /\ touched' = FALSE
      /\ UNCHANGED <<smtp_server, accepted, fresh>>
  BY DEF smtp_param_write, Flags
<1>2. AcceptedComplete' /\ ToBeStored'
  BY <1>1 DEF IInv, AcceptedComplete, ToBeStored, Complete
<1>3. CASE sector' = [magic |-> MAGIC, val |-> smtp_server] /\ spoilt' = touched
  <2>1. sector'.magic = MAGIC /\ sector'.val = smtp_server
    BY <1>3
  <2>2. spoilt' = FALSE => smtp_server \in accepted
    BY <1>1, <1>3 DEF IInv, ToBeStored
  <2>3. spoilt' = FALSE => smtp_server' = Empty \/ smtp_server' \in accepted'
    BY <1>1, <2>2
  <2> QED BY <1>1, <1>2, <1>3, <2>1, <2>2, <2>3 DEF IInv, Flags
<1>4. CASE UNCHANGED <<sector, spoilt>>
  BY <1>1, <1>2, <1>4 DEF IInv, Flags
<1> QED BY <1>3, <1>4 DEF smtp_param_write, param_store

\* A start reads an account only behind the magic number.
LEMMA BootKeeps ==
  ASSUME IInv, Flags, smtp_init
  PROVE  IInv' /\ Flags'
<1>1. /\ UNCHANGED <<sector, accepted, spoilt>> /\ armed' = FALSE /\ touched' = FALSE
      /\ fresh' = TRUE
  BY DEF smtp_init
<1>2. param_retrieve => sector.magic = MAGIC
  BY DEF param_retrieve, IInv, ERASED, MAGIC
<1>3. spoilt' = FALSE => smtp_server' = Empty \/ smtp_server' \in accepted'
  BY <1>1, <1>2 DEF smtp_init, IInv
<1>4. AcceptedComplete' /\ ToBeStored'
  BY <1>1 DEF IInv, AcceptedComplete, ToBeStored, Complete
<1> QED BY <1>1, <1>3, <1>4 DEF IInv, Flags

\* The invariant of the account.
THEOREM IInvHolds == Spec => [](IInv /\ Flags)
<1>1. IInv /\ Flags /\ [Next]_vars => (IInv /\ Flags)'
  <2> SUFFICES ASSUME IInv, Flags, [Next]_vars
               PROVE  (IInv /\ Flags)'
    OBVIOUS
  <2>1. CASE UNCHANGED vars
    BY <2>1 DEF vars, histVars, IInv, Flags, AcceptedComplete, ToBeStored, Complete
  <2>2. CASE Next
    BY <2>2, RefusedKeeps, AcceptedKeeps, WriteKeeps, BootKeeps DEF Next, http_url_smtp_setup
  <2> QED BY <2>1, <2>2
<1> QED BY <1>1, InitIInv, PTL DEF Spec

\* The params hold complete accounts that were answered 202, unless a request changed
\* the account between the 202 and the store (http_url_smtp_setup, smtp_param_write).
THEOREM StoresAccepted == Spec => []StoredAccepted
<1>1. IInv /\ Flags => StoredAccepted
  BY DEF IInv, Flags, AcceptedComplete, StoredAccepted
<1> QED BY <1>1, IInvHolds, PTL

\* A device starts with no account or with one that was answered 202 (smtp_init,
\* param_retrieve).
THEOREM BootsAccepted == Spec => []BootAccepted
<1>1. IInv /\ Flags => BootAccepted
  BY DEF IInv, Flags, BootAccepted
<1> QED BY <1>1, IInvHolds, PTL

-----------------------------------------------------------------------------
(* The client in the composition is SmtpClient, and so are its theorems.   *)

CP == INSTANCE SmtpClientProofs WITH
        Configured <- TRUE, Refusals <- TRUE, TooLong <- TOOLONG, Texts <- Replies,
        Mail <- Mails

-----------------------------------------------------------------------------
(* The account in the composition.                                         *)

\* No step of Mailer does anything to the account that SmtpAccount does not.
LEMMA AccountSteps == [MailerNext]_mailerVars => [Next]_vars
<1> SUFFICES ASSUME [MailerNext]_mailerVars PROVE [Next]_vars
  OBVIOUS
<1>1. CASE wifi_evt_cb \/ uptime_handler \/ monitor
  BY <1>1 DEF wifi_evt_cb, uptime_handler, monitor, Submit, Client, accountVars
<1>2. CASE Progress
  BY <1>2 DEF Progress, smtp_send_dns, smtp_send_challenge, Callback, Serve, Client, accountVars
<1>3. CASE \E q \in Queries : Setup(q)
  BY <1>3 DEF Setup, Next
<1>4. CASE Store
  BY <1>4 DEF Store, Next
<1>5. CASE Restart
  BY <1>5 DEF Restart, Next
<1>6. CASE UNCHANGED mailerVars
  BY <1>6 DEF mailerVars, accountVars
<1> QED BY <1>1, <1>2, <1>3, <1>4, <1>5, <1>6 DEF MailerNext

\* With mails under way and restarts of the whole device the account is the one of
\* SmtpAccount.
THEOREM AccountImplemented == MailerSpec => Spec
<1>1. MailerInit => Init
  BY DEF MailerInit
<1> QED BY <1>1, AccountSteps, PTL DEF MailerSpec, Spec

\* So the flash holds what was answered 202, and the device starts with it, in the
\* composition too.
THEOREM AccountProperties == MailerSpec => []StoredAccepted /\ []BootAccepted
BY AccountImplemented, StoresAccepted, BootsAccepted, PTL

-----------------------------------------------------------------------------
(* The addresses.                                                          *)

Addressed(a) == a["from"] \in Addresses /\ a["to"] \in Addresses

AddressInv == Addressed(smtp_server) /\ Addressed(sector.val)

\* The last of the pairs for a field is one of them.
LEMMA LastIn ==
  ASSUME NEW S, NEW n \in Nat, S \subseteq 1 .. n, S # {}
  PROVE  Last(S) \in S
<1> DEFINE T == {n - i : i \in S}
<1>1. T \subseteq Nat /\ T # {}
  <2>1. \A i \in S : n - i \in Nat
    OBVIOUS
  <2> QED BY <2>1
<1>2. PICK x \in T : \A y \in T : ~(<<y, x>> \in OpToRel(<, Nat))
  BY <1>1, NatLessThanWellFounded, WFMin
<1>3. PICK i \in S : x = n - i
  BY <1>2
<1>4. \A j \in S : j <= i
  <2> TAKE j \in S
  <2>1. n - j \in T /\ n - j \in Nat /\ n - i \in Nat
    OBVIOUS
  <2>2. ~(n - j < n - i)
    BY <1>2, <1>3, <2>1 DEF OpToRel
  <2> QED BY <2>2
<1> QED BY <1>3, <1>4 DEF Last

\* The setup page fills in values of its query string.
LEMMA FilledAddressed ==
  ASSUME NEW q \in Queries, Addressed(smtp_server)
  PROVE  Addressed(Filled(q))
<1>1. ASSUME NEW f \in {"from", "to"}, smtp_server[f] \in Addresses
      PROVE  Filled(q)[f] \in Addresses
  <2>1. Filled(q)[f] = IF Pairs(q, f) = {} THEN smtp_server[f] ELSE q[Last(Pairs(q, f))].val
    BY DEF Filled, Fields, Texts
  <2>2. CASE Pairs(q, f) # {}
    <3>1. Last(Pairs(q, f)) \in 1 .. Len(q)
      BY <2>2, LastIn, AccountQueries DEF Pairs
    <3>2. PICK k \in 1 .. Len(q) : k = Last(Pairs(q, f))
      BY <3>1
    <3>3. q[k].val \in {q[n].val : n \in 1 .. Len(q)}
      OBVIOUS
    <3>4. q[k].val \in Addresses
      BY <3>3, Zenon DEF Addresses
    <3> QED BY <2>1, <2>2, <3>2, <3>4
  <2> QED BY <1>1, <2>1, <2>2
<1> QED BY <1>1 DEF Addressed

\* Addresses come from the setup page only.
THEOREM AddressesKnown == MailerSpec => []AddressInv
<1>0. "" \in Addresses /\ JUNK \in Addresses
  BY Zenon DEF Addresses
<1>1. Init => AddressInv
  <2> SUFFICES ASSUME Init PROVE AddressInv
    OBVIOUS
  <2>1. smtp_server["from"] = "" /\ smtp_server["to"] = ""
    BY DEF Init, Empty, Fields, Texts
  <2>2. sector.val["from"] = JUNK /\ sector.val["to"] = JUNK
    BY DEF Init, Fields, Texts
  <2> QED BY <1>0, <2>1, <2>2 DEF AddressInv, Addressed
<1>2. AddressInv /\ [Next]_vars => AddressInv'
  <2> SUFFICES ASSUME AddressInv, [Next]_vars PROVE AddressInv'
    OBVIOUS
  <2>1. ASSUME NEW q \in Queries, http_url_smtp_setup(q) PROVE AddressInv'
    <3>1. smtp_server' = Filled(q) /\ sector' = sector
      BY <2>1 DEF http_url_smtp_setup, Refused, Accepted
    <3> QED BY <3>1, FilledAddressed DEF AddressInv, Addressed
  <2>2. CASE smtp_param_write
    <3>1. smtp_server' = smtp_server /\ (sector' = sector \/ sector'.val = smtp_server)
      BY <2>2 DEF smtp_param_write, param_store
    <3> QED BY <3>1 DEF AddressInv, Addressed
  <2>3. CASE smtp_init
    <3>1. Addressed(Empty)
      BY <1>0 DEF Addressed, Empty, Fields, Texts
    <3>2. sector' = sector /\ smtp_server' \in {sector.val, Empty}
      BY <2>3 DEF smtp_init
    <3> QED BY <3>1, <3>2 DEF AddressInv, Addressed
  <2>4. CASE UNCHANGED vars
    BY <2>4 DEF vars, AddressInv, Addressed
  <2> QED BY <2>1, <2>2, <2>3, <2>4 DEF Next
<1> QED BY <1>1, <1>2, AccountImplemented, PTL DEF Spec

-----------------------------------------------------------------------------
(* The client in the composition: its steps are those that SmtpClientProofs *)
(* is about.                                                                *)

\* The constants of the client.
LEMMA ClientConstants ==
  /\ CP!CRLF = C!CRLF /\ CP!NUL = C!NUL /\ CP!Dialog = C!Dialog /\ CP!Codes = C!Codes
  /\ CP!Zeroed = C!Zeroed /\ CP!NoSession = C!NoSession
BY DEF C!CRLF, CP!CRLF, C!NUL, CP!NUL, C!Dialog, CP!Dialog, C!Codes, CP!Codes, C!Zeroed,
       CP!Zeroed, C!NoSession, CP!NoSession

\* What the steps are built of.
LEMMA SameParts ==
  /\ C!Idle = CP!Idle /\ C!Fault = CP!Fault /\ C!Disconnected = CP!Disconnected
  /\ C!smtp_send_connect = CP!smtp_send_connect
  /\ C!HasLine = CP!HasLine /\ C!LineLen = CP!LineLen /\ C!LineText = CP!LineText
  /\ C!Accepted = CP!Accepted /\ C!Consume = CP!Consume
<1>1. C!Idle = CP!Idle /\ C!Fault = CP!Fault /\ C!Disconnected = CP!Disconnected
  BY DEF C!Idle, CP!Idle, C!Fault, CP!Fault, C!Disconnected, CP!Disconnected
<1>2. C!smtp_send_connect = CP!smtp_send_connect
  BY DEF C!Fault, CP!Fault, C!smtp_send_connect, CP!smtp_send_connect
<1>3. /\ C!HasLine = CP!HasLine /\ C!LineLen = CP!LineLen /\ C!LineText = CP!LineText
      /\ C!Accepted = CP!Accepted /\ C!Consume = CP!Consume
  BY ClientConstants
     DEF C!HasLine, CP!HasLine, C!LineLen, CP!LineLen, C!LineText, CP!LineText, C!CrlfAt, CP!CrlfAt,
         C!Accepted, CP!Accepted, C!Consume, CP!Consume, C!Expected, CP!Expected
<1> QED BY <1>1, <1>2, <1>3

\* The reply handlers.
LEMMA SameReplies ==
  /\ C!Incomplete \/ C!Rejected \/ C!Wild \/ C!smtp_send_close => CP!Handler
  /\ C!smtp_send_greet \/ C!smtp_send_challenge \/ C!smtp_send_auth \/ C!smtp_send_from => CP!Handler
  /\ C!smtp_send_to \/ C!smtp_send_data \/ C!smtp_send_quit => CP!Handler
<1>1. ASSUME NEW s, NEW codes PROVE C!Reply(s, codes) => CP!Reply(s, codes)
  BY SameParts DEF C!Reply, CP!Reply
<1>2. ASSUME NEW cmd, NEW next PROVE C!Send(cmd, next) => CP!Send(cmd, next)
  BY SameParts DEF C!Send, CP!Send, C!FailAndKill, CP!FailAndKill
<1>3. ASSUME NEW s, NEW code, NEW cmd, NEW next
      PROVE  C!Command(s, code, cmd, next) => CP!Command(s, code, cmd, next)
  BY <1>1, <1>2 DEF C!Command, CP!Command
<1>4. C!GreetLine => CP!GreetLine
  BY <1>1, SameParts DEF C!GreetLine, CP!GreetLine, C!netVars, CP!netVars, C!histVars, CP!histVars
<1>5. C!Incomplete \/ C!Rejected \/ C!Wild \/ C!smtp_send_close => CP!Handler
  <2>1. ASSUME C!Wild PROVE CP!Wild
    <3>1. PICK m \in Memory :
            inbuf' = [i \in 0 .. BUF - 1 |-> IF i + C!LineLen < BUF THEN inbuf[i + C!LineLen]
                                            ELSE m[i + C!LineLen - BUF]]
      BY <2>1 DEF C!Wild
    <3>2. C!LineLen = CP!LineLen
      BY SameParts
    <3>3. inbuf' = [i \in 0 .. BUF - 1 |-> IF i + CP!LineLen < BUF THEN inbuf[i + CP!LineLen]
                                          ELSE m[i + CP!LineLen - BUF]]
      BY <3>1, <3>2, Zenon
    <3>4. /\ pc = "reply" /\ CP!HasLine /\ CP!Accepted /\ CP!LineLen > inbufused
          /\ inbufused' = (inbufused - CP!LineLen) % 65536 /\ pc' = "wild"
          /\ UNCHANGED <<state, mail, timer, link, net, inbox, srv, asked, got, open, faults>>
      BY <2>1, SameParts DEF C!Wild, C!netVars, C!histVars
    <3> QED BY <3>3, <3>4 DEF CP!Wild, CP!netVars, CP!histVars
  <2> QED BY <1>1, <2>1, SameParts
     DEF C!Incomplete, CP!Incomplete, C!Rejected, CP!Rejected, C!smtp_send_close,
         CP!smtp_send_close, CP!Handler, C!FailAndKill, CP!FailAndKill, C!netVars, CP!netVars,
         C!histVars, CP!histVars
<1>6. C!smtp_send_greet \/ C!smtp_send_challenge \/ C!smtp_send_auth \/ C!smtp_send_from => CP!Handler
  BY <1>3, <1>4, SameParts
     DEF C!smtp_send_greet, CP!smtp_send_greet, C!smtp_send_challenge, CP!smtp_send_challenge,
         C!smtp_send_auth, CP!smtp_send_auth, C!smtp_send_from, CP!smtp_send_from, CP!Handler
<1>7. C!smtp_send_to \/ C!smtp_send_data \/ C!smtp_send_quit => CP!Handler
  BY <1>3 DEF C!smtp_send_to, CP!smtp_send_to, C!smtp_send_data, CP!smtp_send_data,
              C!smtp_send_quit, CP!smtp_send_quit, CP!Handler
<1> QED BY <1>5, <1>6, <1>7

\* The other steps of the client.
LEMMA SameOthers ==
  /\ \A m \in Mails : C!smtp_send(m) => CP!Next
  /\ C!smtp_send_dns \/ C!smtp_send_kill \/ C!smtp_send_conn_cb \/ C!ServerCloses => CP!Next
  /\ C!LinkLost \/ C!Reset \/ C!Serve => CP!Next
  /\ (\E n \in 1 .. Len(net) : C!smtp_send_recv_cb(n)) => CP!Next
<1>1. \A m \in Mails : C!smtp_send(m) => CP!Next
  BY SameParts DEF C!smtp_send, CP!smtp_send, C!Free, CP!Free, C!Fits, CP!Fits, C!Copied, CP!Copied,
                   CP!Next
<1>2. C!smtp_send_dns \/ C!smtp_send_kill \/ C!smtp_send_conn_cb \/ C!ServerCloses => CP!Next
  BY SameParts, ClientConstants
     DEF C!smtp_send_dns, CP!smtp_send_dns, C!smtp_send_kill, CP!smtp_send_kill, C!smtp_send_conn_cb,
         CP!smtp_send_conn_cb, C!ServerCloses, CP!ServerCloses, C!FailAndKill, CP!FailAndKill,
         CP!Network, CP!Next, C!stateVars, CP!stateVars, C!netVars, CP!netVars, C!histVars, CP!histVars
<1>3. C!LinkLost \/ C!Reset => CP!Next
  BY SameParts, ClientConstants DEF C!LinkLost, CP!LinkLost, C!Reset, CP!Reset, CP!Next,
                                    C!stateVars, CP!stateVars
<1>4. C!Serve => CP!Next
  <2>1. C!Serve => CP!Serve
    BY DEF C!Serve, CP!Serve, C!Line, CP!Line, C!stateVars, CP!stateVars, C!CRLF, CP!CRLF, C!Idle, CP!Idle
  <2> QED BY <2>1 DEF CP!Network, CP!Next
<1>5. ASSUME NEW n \in 1 .. Len(net), C!smtp_send_recv_cb(n) PROVE CP!Next
  <2>1. CP!smtp_send_recv_cb(n)
    BY <1>5, SameParts, ClientConstants
       DEF C!smtp_send_recv_cb, CP!smtp_send_recv_cb, C!Overflows, CP!Overflows, C!FailAndKill,
           CP!FailAndKill, C!histVars, CP!histVars
  <2> QED BY <2>1 DEF CP!Network, CP!Next
<1> QED BY <1>1, <1>2, <1>3, <1>4, <1>5

\* Every step of Mailer is one of the client or leaves it alone.
LEMMA ClientSteps == AddressInv /\ [MailerNext]_mailerVars => [CP!Next]_CP!vars
<1> SUFFICES ASSUME AddressInv, [MailerNext]_mailerVars PROVE CP!Next \/ UNCHANGED CP!vars
  OBVIOUS
<1>1. CASE wifi_evt_cb \/ uptime_handler \/ monitor
  <2>1. C!smtp_send(<<smtp_server["from"], smtp_server["to"], "subj", "">>)
    BY <1>1 DEF wifi_evt_cb, uptime_handler, monitor, Submit, Client
  <2>2. <<smtp_server["from"], smtp_server["to"], "subj", "">> \in Mails
    <3>1. ASSUME NEW from \in Addresses, NEW to \in Addresses
          PROVE  <<from, to, "subj", "">> \in Mails
      <4> DEFINE a == <<from, to>>
      <4>1. a \in Addresses \X Addresses /\ a[1] = from /\ a[2] = to
        OBVIOUS
      <4> QED BY <4>1, Zenon DEF Mails
    <3> QED BY <3>1 DEF AddressInv, Addressed
  <2> QED BY <2>1, <2>2, SameOthers
<1>2. CASE Progress
  <2>1. CASE smtp_send_dns \/ smtp_send_challenge \/ Serve
    BY <2>1, SameOthers, SameReplies DEF smtp_send_dns, smtp_send_challenge, Serve, Client, CP!Next
  <2>2. CASE Callback
    BY <2>2, SameOthers, SameReplies DEF Callback, Client, CP!Next
  <2> QED BY <1>2, <2>1, <2>2 DEF Progress
<1>3. CASE (\E q \in Queries : Setup(q)) \/ Store \/ UNCHANGED mailerVars
  <2>1. UNCHANGED clientVars
    BY <1>3 DEF Setup, Store, mailerVars
  <2> QED BY <2>1 DEF clientVars, CP!vars, CP!stateVars, CP!netVars, CP!histVars
<1>4. CASE Restart
  BY <1>4, SameOthers DEF Restart
<1> QED BY <1>1, <1>2, <1>3, <1>4 DEF MailerNext

\* With an account that changes, three callers and restarts of the whole device the
\* client is the one of SmtpClient.
THEOREM ClientImplemented == MailerSpec => CP!Spec
<1>1. MailerInit => CP!Init
  BY ClientConstants DEF MailerInit, C!Init, CP!Init
<1> QED BY <1>1, ClientSteps, AddressesKnown, PTL DEF MailerSpec, CP!Spec

\* What SmtpClient assumes of its constants.
LEMMA ClientAssumptions ==
  /\ /\ BUF \in Nat \ {0}
     /\ TRUE \in BOOLEAN /\ TRUE \in BOOLEAN /\ Segmented \in BOOLEAN
     /\ MaxFaults \in Nat /\ MaxMails \in Nat
     /\ Replies \subseteq Seq(Words) /\ Challenges \subseteq Seq(Words)
     /\ EhloLines \subseteq Seq(Words \cup {"250-", CP!CRLF})
     /\ Memory \subseteq [0 .. BUF - 1 -> CP!Units \cup {CP!NUL}]
  /\ Words \cap (CP!Codes \cup {CP!CRLF, CP!NUL}) = {}
  /\ \A m \in Mails : m = [i \in 1 .. 4 |-> m[i]]
<1>1. /\ Segmented \in BOOLEAN /\ TRUE \in BOOLEAN
      /\ EhloLines \subseteq Seq(Words \cup {"250-", CP!CRLF})
      /\ Words \cap (CP!Codes \cup {CP!CRLF, CP!NUL}) = {}
  BY MailerConstants, ClientConstants, Zenon
<1>2. \A m \in Mails : m = [i \in 1 .. 4 |-> m[i]]
  <2>1. \A a, b, c, d : <<a, b, c, d>> = [i \in 1 .. 4 |-> <<a, b, c, d>>[i]]
    OBVIOUS
  <2> TAKE m \in Mails
  <2>2. PICK from, to : m = <<from, to, "subj", "">>
    BY DEF Mails
  <2>3. m = [i \in 1 .. 4 |-> <<from, to, "subj", "">>[i]]
    BY <2>1, <2>2, Zenon
  <2> QED BY <2>2, <2>3, Zenon
<1>3. Memory \subseteq [0 .. BUF - 1 -> CP!Units \cup {CP!NUL}]
  <2>1. CP!Units = C!Units
    BY ClientConstants DEF C!Units, CP!Units
  <2> QED BY <2>1, MailerConstants, ClientConstants, Zenon
<1> QED BY <1>1, <1>2, <1>3, MailerConstants

\* So the composition implements MailService and talks in turn, whatever the setup page
\* and the callers do.
THEOREM ClientProperties == MailerSpec => CP!Serves /\ []CP!InTurn
BY ClientImplemented, ClientAssumptions, CP!ServesMail, CP!TalksInTurn, PTL

\* inbuf is a terminated string in the composition too; if no segment ends inside a line,
\* inbufused never wraps.
THEOREM ClientBuffer == MailerSpec => []BufTerminated
<1>1. CP!BufTerminated => BufTerminated
  BY ClientConstants DEF BufTerminated, C!BufTerminated, CP!BufTerminated
<1> QED BY <1>1, ClientImplemented, ClientAssumptions, CP!BufferTerminated, PTL

\* Client and server are in step in the composition.
LEMMA ClientInvariant == MailerSpec => [](CP!Whole /\ CP!Dialogue)
BY ClientImplemented, ClientAssumptions, CP!DInvHolds, PTL

-----------------------------------------------------------------------------
(* The account of a mail.  A response is on its way in AUTH only; what      *)
(* matters is what the client has taken from smtp_server by then.           *)

Host(a)  == [host |-> a["host"], port |-> a["port"]]
Keys(a)  == [user |-> a["user"], pass |-> a["pass"]]

\* Up to the response smtp_server is the account that the mail was taken on with, and
\* what was read of it is of that account: the host from smtp_send() on, the port from
\* the DNS answer on, user and password in AUTH.
Follows ==
  /\ moved \in BOOLEAN
  /\ dest = [host |-> dest.host, port |-> dest.port]
  /\ ~moved =>
       /\ Early => smtp_server = acct
       /\ state = "RESOLVE" => dest.host = acct["host"]
       /\ state \in {"CONNECT", "GREET", "CHALLENGE", "AUTH"} => dest = Host(acct)
       /\ state = "AUTH" => cred = Keys(acct)

\* The callbacks that read nothing of smtp_server do not skip a state on the way to AUTH.
LEMMA CallbackStates ==
  ASSUME CP!Dialogue, Callback
  PROVE  /\ UNCHANGED <<smtp_server, dest, cred, acct, moved>>
         /\ \/ state' = state
            \/ state' \in {"FAILED", "READY", "FROM", "TO", "DATA", "QUIT", "CLOSE"}
            \/ state = "CONNECT" /\ state' = "GREET"
            \/ state = "GREET" /\ state' = "CHALLENGE"
<1> DEFINE Moves ==
       \/ state' = state
       \/ state' \in {"FAILED", "READY", "FROM", "TO", "DATA", "QUIT", "CLOSE"}
       \/ state = "CONNECT" /\ state' = "GREET"
       \/ state = "GREET" /\ state' = "CHALLENGE"
<1>1. UNCHANGED <<smtp_server, dest, cred, acct, moved>>
  BY DEF Callback, Client, accountVars, vars
<1> SUFFICES Moves
  BY <1>1
<1>2. CASE C!smtp_send_conn_cb
  BY <1>2 DEF C!smtp_send_conn_cb, C!Idle, C!FailAndKill, CP!Dialogue, CP!DInv, CP!Turns
<1>3. CASE C!smtp_send_kill \/ C!ServerCloses \/ C!LinkLost \/ C!Incomplete \/ C!Rejected \/ C!Wild
  BY <1>3 DEF C!smtp_send_kill, C!ServerCloses, C!LinkLost, C!Incomplete, C!Rejected, C!Wild,
              C!FailAndKill, C!stateVars
<1>4. CASE \E n \in 1 .. Len(net) : C!smtp_send_recv_cb(n)
  BY <1>4 DEF C!smtp_send_recv_cb, C!FailAndKill
<1>5. CASE C!smtp_send_greet
  BY <1>5 DEF C!smtp_send_greet, C!GreetLine, C!Command, C!Send, C!FailAndKill, C!Reply
<1>6. CASE C!smtp_send_auth \/ C!smtp_send_from \/ C!smtp_send_to \/ C!smtp_send_data \/ C!smtp_send_quit
  BY <1>6 DEF C!smtp_send_auth, C!smtp_send_from, C!smtp_send_to, C!smtp_send_data,
              C!smtp_send_quit, C!Command, C!Send, C!FailAndKill
<1>7. CASE C!smtp_send_close
  BY <1>7 DEF C!smtp_send_close
<1> QED BY <1>2, <1>3, <1>4, <1>5, <1>6, <1>7 DEF Callback, Client

\* Every step keeps the account of the mail.
LEMMA FollowsStep ==
  ASSUME CP!Dialogue, Follows, [MailerNext]_mailerVars
  PROVE  Follows'
<1>1. CASE wifi_evt_cb \/ uptime_handler \/ monitor
  <2>1. /\ state' \in {"CONNECT", "RESOLVE", "FAILED"} /\ smtp_server' = smtp_server
        /\ acct' = smtp_server /\ moved' = FALSE
        /\ dest' = [host |-> smtp_server["host"],
                    port |-> IF state' = "CONNECT" THEN smtp_server["port"] ELSE dest.port]
    BY <1>1 DEF wifi_evt_cb, uptime_handler, monitor, Submit, Client, Resolve, C!smtp_send,
                C!smtp_send_connect, accountVars, vars
  <2> QED BY <2>1 DEF Follows, Host, Early
<1>2. CASE smtp_send_dns
  <2>1. /\ state = "RESOLVE" /\ state' \in {"CONNECT", "FAILED"}
        /\ UNCHANGED <<smtp_server, cred, acct, moved>>
        /\ dest' = [dest EXCEPT !.port = IF state' = "CONNECT" THEN smtp_server["port"] ELSE @]
    BY <1>2 DEF smtp_send_dns, Client, C!smtp_send_dns, C!smtp_send_connect, accountVars, vars
  <2>2. dest' = [host |-> dest.host, port |-> IF state' = "CONNECT" THEN smtp_server["port"] ELSE dest.port]
    BY <2>1 DEF Follows
  <2> QED BY <2>1, <2>2 DEF Follows, Host, Early
<1>3. CASE smtp_send_challenge
  <2>1. /\ state = "CHALLENGE" /\ state' \in {"AUTH", "FAILED"}
        /\ UNCHANGED <<smtp_server, dest, acct, moved>> /\ cred' = Keys(smtp_server)
    BY <1>3 DEF smtp_send_challenge, Client, C!smtp_send_challenge, C!Command, C!Reply, C!Send,
                C!FailAndKill, accountVars, vars, Keys
  <2> QED BY <2>1 DEF Follows, Host, Keys, Early
<1>4. CASE Callback
  BY <1>4, CallbackStates DEF Follows, Host, Keys, Early
<1>5. CASE Serve
  <2>1. UNCHANGED <<smtp_server, dest, cred, acct, moved, state>>
    BY <1>5 DEF Serve, Client, C!Serve, C!stateVars, accountVars, vars
  <2> QED BY <2>1 DEF Follows, Host, Keys, Early
<1>6. ASSUME NEW q \in Queries, Setup(q) PROVE Follows'
  <2>1. /\ UNCHANGED <<state, dest, cred, acct>>
        /\ moved' = (moved \/ (Early /\ smtp_server' # smtp_server))
    BY <1>6 DEF Setup, clientVars
  <2>2. ~moved' => ~moved /\ (Early => smtp_server' = smtp_server)
    BY <2>1 DEF Follows
  <2>3. moved' \in BOOLEAN
    BY <2>1 DEF Follows
  <2> QED BY <2>1, <2>2, <2>3 DEF Follows, Host, Keys, Early
<1>7. CASE Store \/ UNCHANGED mailerVars
  <2>1. UNCHANGED <<smtp_server, dest, cred, acct, moved, state>>
    BY <1>7 DEF Store, smtp_param_write, clientVars, mailVars, mailerVars, accountVars, vars
  <2> QED BY <2>1 DEF Follows, Host, Keys, Early
<1>8. CASE Restart
  <2>1. state' = "READY" /\ UNCHANGED <<dest, cred, acct, moved>>
    BY <1>8 DEF Restart, C!Reset
  <2> QED BY <2>1 DEF Follows, Early
<1> QED BY <1>1, <1>2, <1>3, <1>4, <1>5, <1>6, <1>7, <1>8 DEF MailerNext, Progress

\* User and password only go to the server they belong to, unless the setup page changed
\* the account between smtp_send() and the challenge: for all accounts, query strings,
\* servers, segmentations, faults and restarts.
THEOREM CredentialsGoHome == MailerSpec => []CredentialsHome
<1>1. MailerInit => Follows
  BY DEF MailerInit, Init, C!Init, Follows, Early
<1>2. CP!Dialogue /\ Follows => CredentialsHome
  <2> SUFFICES ASSUME CP!Dialogue, Follows, NEW i \in 1 .. Len(inbox), inbox[i][1] = "response", ~moved
               PROVE  dest = Host(acct) /\ cred = Keys(acct)
    BY DEF CredentialsHome, Host, Keys
  <2>1. inbox # << >>
    OBVIOUS
  <2>2. state = "AUTH"
    <3>1. \A cmd : inbox = <<cmd>> => cmd[1] = "response"
      OBVIOUS
    <3>2. /\ <<"ehlo">>[1] # "response" /\ <<"AUTH">>[1] # "response" /\ <<"data">>[1] # "response"
          /\ <<"quit">>[1] # "response"
          /\ \A x : /\ <<"mail FROM", x>>[1] # "response" /\ <<"rcpt TO", x>>[1] # "response"
                    /\ <<"message", x>>[1] # "response"
      OBVIOUS
    <3>3. CP!DInv
      BY <2>1, <3>1, <3>2, Zenon DEF CP!Dialogue, CP!Astray
    <3> QED BY <2>1, <3>1, <3>2, <3>3, Zenon DEF CP!DInv, CP!Alone
  <2> QED BY <2>2 DEF Follows
<1> QED BY <1>1, <1>2, FollowsStep, ClientInvariant, PTL DEF MailerSpec
=============================================================================
