-------------------------- MODULE SmtpClientProofs --------------------------
(***************************************************************************)
(* Proofs about SmtpClient, for every buffer size, every server and every  *)
(* way of cutting what it says into segments.                              *)
(***************************************************************************)
EXTENDS SmtpClient, SequenceTheorems, TLAPS

Bytes == Units \cup {NUL}

\* The part of the state that the buffer depends on.
Typed ==
  /\ state \in States /\ pc \in {"idle", "reply", "wild"}
  /\ inbuf \in [0 .. BUF - 1 -> Bytes] /\ inbufused \in Nat
  /\ timer \in {"off", "conn", "null"}
  /\ link \in {"down", "opening", "up"}
  /\ net \in Seq(Units)
  /\ pc = "reply" => state \in Dialog

Counted == open \in BOOLEAN /\ faults \in 0 .. MaxFaults

\* The buffer ends with NUL and has room for it.
Terminated == inbuf[BUF - 1] = NUL /\ inbufused < BUF

IInv == Typed /\ Counted /\ Terminated

\* smtp_init() clears the buffer.
LEMMA InitIInv == Init => IInv
BY SmtpConstants DEF Init, IInv, Typed, Counted, Terminated, Zeroed, States, Dialog, Bytes

\* The first line that os_strstr() finds lies in the buffer.
LEMMA LineInBuf ==
  ASSUME HasLine
  PROVE  LineLen \in 1 .. BUF
<1> DEFINE i == CHOOSE k \in CrlfAt : TRUE
<1>1. i \in CrlfAt
  BY DEF HasLine
<1>2. i \in 0 .. BUF - 1
  BY <1>1 DEF CrlfAt
<1>3. LineLen = i + 1
  BY DEF LineLen
<1> HIDE DEF i
<1> QED BY <1>2, <1>3, SmtpConstants

\* A byte that is moved lies in the buffer.
LEMMA MovedIn ==
  ASSUME NEW b \in Nat, NEW u \in Nat, NEW l \in 1 .. b, u + l < b, NEW i \in 0 .. b - 1, i <= u
  PROVE  i + l \in 0 .. b - 1
OBVIOUS

\* Taking a line out leaves the last byte alone.
LEMMA ConsumeKeeps ==
  ASSUME IInv, HasLine, LineLen <= inbufused, Consume
  PROVE  /\ inbuf' \in [0 .. BUF - 1 -> Bytes] /\ inbufused' \in Nat
         /\ Terminated'
<1>1. LineLen \in 1 .. BUF
  BY LineInBuf
<1>2. inbufused \in Nat /\ inbufused < BUF /\ inbuf \in [0 .. BUF - 1 -> Bytes] /\ inbuf[BUF - 1] = NUL
  BY DEF IInv, Typed, Terminated
<1>3. inbufused' \in Nat /\ inbufused' < BUF - 1 /\ inbufused' + LineLen < BUF
  BY <1>1, <1>2, SmtpConstants DEF Consume
<1>4. inbuf' = [i \in 0 .. BUF - 1 |-> IF i <= inbufused' THEN inbuf[i + LineLen] ELSE inbuf[i]]
  BY DEF Consume
<1>5. inbuf' \in [0 .. BUF - 1 -> Bytes]
  <2>1. \A i \in 0 .. BUF - 1 : (IF i <= inbufused' THEN inbuf[i + LineLen] ELSE inbuf[i]) \in Bytes
    <3> SUFFICES ASSUME NEW i \in 0 .. BUF - 1
                 PROVE  (IF i <= inbufused' THEN inbuf[i + LineLen] ELSE inbuf[i]) \in Bytes
      OBVIOUS
    <3>1. BUF \in Nat
      BY SmtpConstants
    <3>2. i <= inbufused' => i + LineLen \in 0 .. BUF - 1
      BY <1>1, <1>3, <3>1, MovedIn
    <3> QED BY <1>2, <3>2
  <2> QED BY <1>4, <2>1
<1>6. inbuf'[BUF - 1] = NUL
  BY <1>2, <1>3, <1>4, SmtpConstants
<1>7. inbufused' < BUF
  BY <1>3, SmtpConstants
<1> QED BY <1>3, <1>5, <1>6, <1>7 DEF Terminated

\* A segment is stored in front of the last byte or not at all.
LEMMA RecvKeeps ==
  ASSUME IInv, NEW n \in 1 .. Len(net), smtp_send_recv_cb(n)
  PROVE  IInv'
<1>1. /\ inbufused \in Nat /\ inbufused < BUF /\ inbuf \in [0 .. BUF - 1 -> Bytes]
      /\ inbuf[BUF - 1] = NUL /\ net \in Seq(Units) /\ Len(net) \in Nat /\ n \in Nat /\ n >= 1
  BY DEF IInv, Typed, Terminated
<1>2. net' \in Seq(Units)
  <2>1. net' = SubSeq(net, n + 1, Len(net))
    BY DEF smtp_send_recv_cb
  <2>2. \A j \in n + 1 .. Len(net) : net[j] \in Units
    BY <1>1
  <2> QED BY <1>1, <2>1, <2>2, SubSeqProperties
<1>3. UNCHANGED <<link, open, faults>>
  BY DEF smtp_send_recv_cb, histVars
<1>4. Counted'
  BY <1>3 DEF IInv, Counted
<1>5. CASE Overflows(n)
  <2>1. state' = "FAILED" /\ timer' = "null" /\ UNCHANGED <<inbuf, inbufused, pc>> /\ pc = "idle"
    BY <1>5 DEF smtp_send_recv_cb, FailAndKill, Idle
  <2> QED BY <1>2, <1>3, <1>4, <2>1 DEF IInv, Typed, Terminated, States
<1>6. CASE ~Overflows(n)
  <2>1. /\ inbufused' = inbufused + n
        /\ pc' = IF state \in Dialog THEN "reply" ELSE "idle"
        /\ UNCHANGED <<state, timer>>
        /\ inbuf' = [i \in 0 .. BUF - 1 |-> IF i \in inbufused .. inbufused + n - 1
                                            THEN net[i - inbufused + 1] ELSE inbuf[i]]
    BY <1>6 DEF smtp_send_recv_cb
  <2>2. inbufused + n < BUF
    BY <1>1, <1>6, SmtpConstants DEF Overflows
  <2>3. inbuf' \in [0 .. BUF - 1 -> Bytes]
    <3>1. \A i \in inbufused .. inbufused + n - 1 : net[i - inbufused + 1] \in Units
      BY <1>1
    <3>2. \A i \in 0 .. BUF - 1 : (IF i \in inbufused .. inbufused + n - 1
                                  THEN net[i - inbufused + 1] ELSE inbuf[i]) \in Bytes
      BY <1>1, <3>1 DEF Bytes
    <3> QED BY <2>1, <3>2
  <2>4. inbuf'[BUF - 1] = NUL /\ inbufused' < BUF /\ inbufused' \in Nat
    BY <1>1, <2>1, <2>2, SmtpConstants
  <2>5. pc' \in {"idle", "reply", "wild"} /\ (pc' = "reply" => state' \in Dialog)
    BY <2>1
  <2> QED BY <1>2, <1>3, <1>4, <2>1, <2>3, <2>4, <2>5 DEF IInv, Typed, Terminated
<1> QED BY <1>5, <1>6

\* Sequences over a larger set.
LEMMA SeqGrows ==
  ASSUME NEW A, NEW B, A \subseteq B
  PROVE  Seq(A) \subseteq Seq(B)
OBVIOUS

\* Texts are data of the stream.
LEMMA WordsAreUnits == Seq(Words) \subseteq Seq(Units)
BY DEF Units

\* So are the lines of the answer to EHLO.
LEMMA EhloUnits == Seq(Words \cup {"250-", CRLF}) \subseteq Seq(Units)
<1>1. Words \cup {"250-", CRLF} \subseteq Units
  BY DEF Units, Codes
<1> QED BY <1>1

\* Concatenation keeps a sequence a sequence.
LEMMA Joined ==
  ASSUME NEW S, NEW s1 \in Seq(S), NEW s2 \in Seq(S), NEW s3 \in Seq(S), NEW x \in S, NEW y \in S
  PROVE  /\ s1 \o (<<x>> \o s2 \o <<y>>) \in Seq(S)
         /\ s1 \o s3 \o (<<x>> \o s2 \o <<y>>) \in Seq(S)
         /\ s1 \o <<x>> \o s2 \o <<y>> \in Seq(S)
<1>1. <<x>> \in Seq(S) /\ <<y>> \in Seq(S)
  OBVIOUS
<1>2. <<x>> \o s2 \in Seq(S) /\ s1 \o s3 \in Seq(S) /\ s1 \o <<x>> \in Seq(S)
  BY <1>1
<1>3. <<x>> \o s2 \o <<y>> \in Seq(S) /\ s1 \o <<x>> \o s2 \in Seq(S)
  BY <1>1, <1>2
<1> QED BY <1>1, <1>2, <1>3

\* What a server puts on the line keeps net a sequence.
LEMMA NetGrows ==
  ASSUME IInv, NEW e \in Seq(Units), NEW t \in Seq(Units), NEW code \in Units
  PROVE  /\ net \o Line(code, t) \in Seq(Units)
         /\ net \o e \o Line(code, t) \in Seq(Units)
         /\ net \o <<code>> \o t \o <<CRLF>> \in Seq(Units)
<1>1. CRLF \in Units
  BY DEF Units
<1>2. net \in Seq(Units)
  BY DEF IInv, Typed
<1>3. Line(code, t) = <<code>> \o t \o <<CRLF>>
  BY DEF Line
<1> QED BY <1>1, <1>2, <1>3, Joined, Zenon

\* A fault leaves the count in its range.
LEMMA FaultCounts ==
  ASSUME IInv, Fault
  PROVE  faults' \in 0 .. MaxFaults
BY SmtpConstants DEF IInv, Counted, Fault

\* The server's answers.
LEMMA ServeKeeps ==
  ASSUME IInv, Serve
  PROVE  IInv'
<1>1. UNCHANGED <<stateVars, link, faults>>
  BY DEF Serve
<1>2. net' \in Seq(Units)
  <2>1. \/ \E code \in {"250 ", "235 ", "354 ", "221 ", "5xx "}, t \in Texts : net' = net \o Line(code, t)
        \/ \E e \in EhloLines, t \in Texts : net' = net \o e \o Line("250 ", t)
        \/ \E c \in Challenges : net' = net \o Line("334 ", c)
    BY DEF Serve
  <2>2. << >> \in Seq(Units)
    OBVIOUS
  <2>3. /\ \A t \in Texts : t \in Seq(Units)
        /\ \A e \in EhloLines : e \in Seq(Units)
        /\ \A c \in Challenges : c \in Seq(Units)
    BY SmtpConstants, WordsAreUnits, EhloUnits
  <2>4. \A code \in {"250 ", "235 ", "354 ", "221 ", "5xx ", "334 "} : code \in Units
    BY DEF Units, Codes
  <2>5. CASE \E code \in {"250 ", "235 ", "354 ", "221 ", "5xx "}, t \in Texts : net' = net \o Line(code, t)
    BY <2>2, <2>3, <2>4, <2>5, NetGrows, Zenon
  <2>6. CASE \E e \in EhloLines, t \in Texts : net' = net \o e \o Line("250 ", t)
    BY <2>3, <2>4, <2>6, NetGrows, Zenon
  <2>7. CASE \E c \in Challenges : net' = net \o Line("334 ", c)
    BY <2>2, <2>3, <2>4, <2>7, NetGrows, Zenon
  <2> QED BY <2>1, <2>5, <2>6, <2>7
<1>3. open' \in BOOLEAN
  BY DEF Serve, IInv, Counted
<1> QED BY <1>1, <1>2, <1>3 DEF IInv, Typed, Counted, Terminated, stateVars

\* Steps that leave the buffer as it is.
LEMMA QuietKeeps ==
  ASSUME IInv,
         \/ \E m \in Mail : SendRefused(m) \/ smtp_send(m)
         \/ smtp_send_kill \/ smtp_send_dns \/ smtp_send_conn_cb \/ ServerCloses \/ LinkLost
  PROVE  IInv'
<1> USE DEF IInv
<1>1. UNCHANGED <<inbuf, inbufused, pc>> /\ pc = "idle"
  BY DEF SendRefused, smtp_send, smtp_send_kill, smtp_send_dns, smtp_send_conn_cb, ServerCloses,
         LinkLost, stateVars, Idle
<1>2. faults' \in 0 .. MaxFaults
  BY FaultCounts DEF SendRefused, smtp_send, smtp_send_connect, smtp_send_kill, smtp_send_dns,
         smtp_send_conn_cb, ServerCloses, LinkLost, histVars, Counted
<1>3. open' \in BOOLEAN
  BY DEF SendRefused, smtp_send, smtp_send_kill, smtp_send_dns, smtp_send_conn_cb, ServerCloses,
         LinkLost, histVars, Counted
<1>4. net' \in Seq(Units)
  <2>1. CASE smtp_send_conn_cb
    <3>1. PICK t \in Texts : net' = net \o <<"220 ">> \o t \o <<CRLF>>
      BY <2>1 DEF smtp_send_conn_cb
    <3>2. t \in Seq(Units)
      BY SmtpConstants, WordsAreUnits
    <3>3. "220 " \in Units
      BY DEF Units, Codes
    <3> QED BY <3>1, <3>2, <3>3, NetGrows, Zenon
  <2>2. CASE ~smtp_send_conn_cb
    <3>1. net' = net \/ net' = << >>
      BY <2>2 DEF SendRefused, smtp_send, smtp_send_kill, smtp_send_dns, ServerCloses,
         LinkLost, Disconnected, netVars
    <3>2. << >> \in Seq(Units) /\ net \in Seq(Units)
      BY DEF Typed
    <3> QED BY <3>1, <3>2, Zenon
  <2> QED BY <2>1, <2>2
<1>5. state' \in States /\ timer' \in {"off", "conn", "null"} /\ link' \in {"down", "opening", "up"}
  BY DEF SendRefused, smtp_send, smtp_send_connect, smtp_send_kill, smtp_send_dns,
         smtp_send_conn_cb, ServerCloses, LinkLost, Disconnected, FailAndKill, stateVars, netVars,
         Typed, States, Dialog
<1> QED BY <1>1, <1>2, <1>3, <1>4, <1>5 DEF Typed, Counted, Terminated

\* A handler that answers a line with a command.
LEMMA CommandKeeps ==
  ASSUME IInv, NEW s, NEW code, NEW cmd, NEW next \in Dialog, Command(s, code, cmd, next)
  PROVE  IInv'
<1>1. Reply(s, {code}) /\ Send(cmd, next) /\ pc' = "idle" /\ UNCHANGED <<link, net, open>>
  BY DEF Command
<1>2. inbuf' \in [0 .. BUF - 1 -> Bytes] /\ inbufused' \in Nat /\ Terminated'
  BY <1>1, ConsumeKeeps DEF Reply
<1>3. state' \in States /\ timer' \in {"off", "conn", "null"}
  BY <1>1 DEF Send, FailAndKill, States, IInv, Typed
<1>4. faults' \in 0 .. MaxFaults
  BY <1>1, FaultCounts DEF Send, IInv, Counted
<1> QED BY <1>1, <1>2, <1>3, <1>4 DEF IInv, Typed, Counted

\* The reply handlers.
LEMMA HandlerKeeps ==
  ASSUME IInv, Handler, ~Wild
  PROVE  IInv'
<1>1. CASE Incomplete \/ Rejected
  <2>1. /\ UNCHANGED <<inbuf, inbufused, link, net, open, faults>>
        /\ pc' = "idle" /\ state' \in States /\ timer' \in {"off", "conn", "null"}
    BY <1>1 DEF Incomplete, Rejected, FailAndKill, netVars, histVars, IInv, Typed, States
  <2> QED BY <2>1 DEF IInv, Typed, Counted, Terminated
<1>2. CASE GreetLine
  <2>1. Reply("GREET", {"220 ", "250-"}) /\ UNCHANGED <<state, timer, link, net, open, faults>>
    BY <1>2 DEF GreetLine, netVars, histVars
  <2>2. inbuf' \in [0 .. BUF - 1 -> Bytes] /\ inbufused' \in Nat /\ Terminated'
    BY <2>1, ConsumeKeeps DEF Reply
  <2>3. state = "GREET" /\ pc' \in {"idle", "reply"}
    BY <1>2, <2>1 DEF Reply, GreetLine
  <2> QED BY <2>1, <2>2, <2>3 DEF IInv, Typed, Counted, Dialog
<1>3. CASE smtp_send_close
  <2>1. /\ Reply("CLOSE", {"221 "}) /\ UNCHANGED <<timer, link, net, open, faults>>
        /\ state' = "READY" /\ pc' = "idle"
    BY <1>3 DEF smtp_send_close, netVars, histVars
  <2>2. inbuf' \in [0 .. BUF - 1 -> Bytes] /\ inbufused' \in Nat /\ Terminated'
    BY <2>1, ConsumeKeeps DEF Reply
  <2> QED BY <2>1, <2>2 DEF IInv, Typed, Counted, States
<1>4. CASE \/ Command("GREET", "250 ", <<"AUTH">>, "CHALLENGE") \/ smtp_send_challenge
           \/ smtp_send_auth \/ smtp_send_from \/ smtp_send_to \/ smtp_send_data \/ smtp_send_quit
  BY <1>4, CommandKeeps DEF smtp_send_challenge, smtp_send_auth, smtp_send_from, smtp_send_to,
     smtp_send_data, smtp_send_quit, Dialog
<1> QED BY <1>1, <1>2, <1>3, <1>4 DEF Handler, smtp_send_greet

\* A reset clears the buffer again.
LEMMA ResetKeeps ==
  ASSUME Counted, Reset
  PROVE  IInv'
<1>1. faults' \in 0 .. MaxFaults
  BY SmtpConstants DEF Reset, Fault, Counted
<1>2. BUF \in Nat \ {0}
  BY SmtpConstants
<1>3. inbuf' = Zeroed /\ inbufused' = 0 /\ Zeroed \in [0 .. BUF - 1 -> Bytes] /\ Zeroed[BUF - 1] = NUL
  BY <1>2 DEF Reset, Zeroed, Bytes
<1>4. /\ state' = "READY" /\ pc' = "idle" /\ timer' = "off" /\ link' = "down" /\ net' = << >>
      /\ open' = FALSE
  BY DEF Reset, Disconnected
<1>5. Terminated'
  BY <1>2, <1>3 DEF Terminated
<1>6. Counted'
  BY <1>1, <1>4 DEF Counted
<1>7. Typed'
  BY <1>3, <1>4 DEF Typed, States
<1> QED BY <1>5, <1>6, <1>7 DEF IInv

\* A handler is called when something was received.
Busy == pc = "reply" => inbufused # 0

\* If lines arrive whole, the data in the buffer ends with one.
Lines == ~Segmented /\ inbufused # 0 => inbuf[inbufused - 1] = CRLF

\* Every step but a wrap keeps: a handler runs with received data only.
LEMMA BusyKeeps ==
  ASSUME IInv, Busy, Next
  PROVE  Busy'
<1>1. ASSUME NEW n \in 1 .. Len(net), smtp_send_recv_cb(n) PROVE Busy'
  <2>1. inbufused \in Nat /\ n \in Nat /\ n >= 1
    BY DEF IInv, Typed
  <2> QED BY <1>1, <2>1 DEF smtp_send_recv_cb, Busy, Idle
<1>2. CASE GreetLine
  BY <1>2 DEF GreetLine, Busy
<1>3. CASE Handler /\ ~GreetLine
  <2>0. Wild => pc' = "wild"
    BY DEF Wild
  <2>1. pc' # "reply"
    BY <1>3, <2>0 DEF Handler, Incomplete, Rejected, smtp_send_greet, smtp_send_challenge, smtp_send_auth,
       smtp_send_from, smtp_send_to, smtp_send_data, smtp_send_quit, smtp_send_close, Command
  <2> QED BY <2>1 DEF Busy
<1>4. CASE \/ \E m \in Mail : SendRefused(m) \/ smtp_send(m)
           \/ smtp_send_kill \/ smtp_send_dns \/ smtp_send_conn_cb \/ ServerCloses \/ LinkLost
           \/ Serve \/ Reset
  <2>1. pc' = "idle"
    BY <1>4 DEF SendRefused, smtp_send, smtp_send_kill, smtp_send_dns, smtp_send_conn_cb, ServerCloses,
       LinkLost, Serve, Reset, stateVars, Idle
  <2> QED BY <2>1 DEF Busy
<1> QED BY <1>1, <1>2, <1>3, <1>4 DEF Next, Network

\* Every step but a wrap keeps: with whole lines the data ends with one.
LEMMA LinesKeep ==
  ASSUME IInv, Lines, Next, ~Wild
  PROVE  Lines'
<1>0. /\ inbufused \in Nat /\ inbufused < BUF /\ inbuf \in [0 .. BUF - 1 -> Bytes]
      /\ net \in Seq(Units) /\ BUF \in Nat \ {0}
  BY SmtpConstants DEF IInv, Typed, Terminated
<1>1. ASSUME NEW n \in 1 .. Len(net), smtp_send_recv_cb(n) PROVE Lines'
  <2>1. CASE Overflows(n)
    BY <1>1, <2>1 DEF smtp_send_recv_cb, Lines
  <2>2. CASE ~Overflows(n)
    <3>1. /\ Segmented \/ net[n] = CRLF
          /\ inbufused' = inbufused + n
          /\ inbuf' = [i \in 0 .. BUF - 1 |-> IF i \in inbufused .. inbufused + n - 1
                                              THEN net[i - inbufused + 1] ELSE inbuf[i]]
      BY <1>1, <2>2 DEF smtp_send_recv_cb
    <3>2. inbufused + n < BUF /\ n \in Nat /\ n >= 1
      BY <1>0, <2>2 DEF Overflows
    <3>3. inbuf'[inbufused' - 1] = net[n]
      BY <1>0, <3>1, <3>2
    <3> QED BY <3>1, <3>3 DEF Lines
  <2> QED BY <2>1, <2>2
<1>2. ASSUME NEW s, NEW codes, Reply(s, codes) PROVE Lines'
  <2>1. LineLen \in 1 .. BUF /\ LineLen <= inbufused
    BY <1>2, LineInBuf DEF Reply
  <2>2. /\ inbufused' = inbufused - LineLen
        /\ inbuf' = [i \in 0 .. BUF - 1 |-> IF i <= inbufused' THEN inbuf[i + LineLen] ELSE inbuf[i]]
    BY <1>2 DEF Reply, Consume
  <2>3. ASSUME inbufused' # 0 PROVE inbuf'[inbufused' - 1] = inbuf[inbufused - 1]
    <3>1. inbufused' - 1 \in 0 .. BUF - 1 /\ inbufused' - 1 <= inbufused'
          /\ inbufused' - 1 + LineLen = inbufused - 1
      BY <1>0, <2>1, <2>2, <2>3
    <3> QED BY <2>2, <3>1
  <2>4. inbufused # 0
    BY <1>0, <2>1
  <2> QED BY <2>3, <2>4 DEF Lines
<1>3. CASE Handler
  <2>1. CASE Incomplete \/ Rejected
    BY <2>1 DEF Incomplete, Rejected, Lines
  <2>2. CASE ~Incomplete /\ ~Rejected
    BY <1>2, <1>3, <2>2 DEF Handler, smtp_send_greet, GreetLine, smtp_send_challenge, smtp_send_auth,
       smtp_send_from, smtp_send_to, smtp_send_data, smtp_send_quit, smtp_send_close, Command
  <2> QED BY <2>1, <2>2
<1>4. CASE Reset
  BY <1>4 DEF Reset, Lines
<1>5. CASE \/ \E m \in Mail : SendRefused(m) \/ smtp_send(m)
           \/ smtp_send_kill \/ smtp_send_dns \/ smtp_send_conn_cb \/ ServerCloses \/ LinkLost
           \/ Serve
  <2>1. UNCHANGED <<inbuf, inbufused>>
    BY <1>5 DEF SendRefused, smtp_send, smtp_send_kill, smtp_send_dns, smtp_send_conn_cb, ServerCloses,
       LinkLost, Serve, stateVars
  <2> QED BY <2>1 DEF Lines
<1> QED BY <1>1, <1>3, <1>4, <1>5 DEF Next, Network

\* The count can wrap only if a segment ended inside a line: the line that is found
\* ends at the first CRLF, and the data ends with one.
LEMMA WrapNeedsCut ==
  ASSUME IInv, Busy, Lines, Wild
  PROVE  Segmented
<1> SUFFICES ASSUME ~Segmented PROVE FALSE
  OBVIOUS
<1> DEFINE i == CHOOSE k \in CrlfAt : TRUE
<1>1. i \in CrlfAt /\ LineLen = i + 1
  BY DEF Wild, HasLine, LineLen
<1>2. i \in 0 .. BUF - 1 /\ \A j \in 0 .. i - 1 : inbuf[j] \notin {CRLF, NUL}
  BY <1>1 DEF CrlfAt
<1> HIDE DEF i
<1>3. i + 1 > inbufused /\ inbufused \in Nat /\ inbufused # 0
  BY <1>1 DEF Wild, Busy, IInv, Typed
<1>4. inbuf[inbufused - 1] = CRLF
  BY <1>3 DEF Lines
<1>5. inbufused - 1 \in 0 .. i - 1
  BY <1>2, <1>3, <1>4 DEF Wild, IInv, Typed
<1> QED BY <1>2, <1>4, <1>5

\* What is left behind a wrap.
LEMMA WildKeeps ==
  ASSUME IInv, Wild
  PROVE  Typed' /\ Counted'
<1>1. LineLen \in 1 .. BUF
  BY LineInBuf DEF Wild
<1>2. BUF \in Nat \ {0} /\ inbufused \in Nat /\ inbuf \in [0 .. BUF - 1 -> Bytes]
  BY SmtpConstants DEF IInv, Typed
<1>3. inbufused' \in Nat
  BY <1>1, <1>2 DEF Wild
<1>4. inbuf' \in [0 .. BUF - 1 -> Bytes]
  <2>1. PICK m \in Memory :
          inbuf' = [i \in 0 .. BUF - 1 |-> IF i + LineLen < BUF THEN inbuf[i + LineLen]
                                          ELSE m[i + LineLen - BUF]]
    BY DEF Wild
  <2>2. m \in [0 .. BUF - 1 -> Bytes]
    BY SmtpConstants DEF Bytes
  <2>3. \A i \in 0 .. BUF - 1 :
          (IF i + LineLen < BUF THEN inbuf[i + LineLen] ELSE m[i + LineLen - BUF]) \in Bytes
    BY <1>1, <1>2, <2>2
  <2> QED BY <2>1, <2>3
<1>5. pc' = "wild" /\ UNCHANGED <<state, timer, link, net, open, faults>>
  BY DEF Wild, netVars, histVars
<1> QED BY <1>3, <1>4, <1>5 DEF IInv, Typed, Counted

\* The invariant, up to a wrap and behind it.
Whole ==
  /\ Typed /\ Counted
  /\ pc = "wild" => Segmented
  /\ pc # "wild" => IInv /\ Busy /\ Lines

\* The invariant contains the two properties.
LEMMA WholeImplies == Whole => TypeOK /\ BufTerminated
BY DEF Whole, IInv, TypeOK, Typed, Counted, Bytes, Terminated, BufTerminated

\* Behind a wrap there is only a reset.
LEMMA AfterWild ==
  ASSUME pc = "wild", Next
  PROVE  Reset
BY DEF Next, Network, Handler, SendRefused, smtp_send, smtp_send_kill, smtp_send_dns, smtp_send_conn_cb,
   ServerCloses, LinkLost, Serve, smtp_send_recv_cb, Idle, Incomplete, Rejected, Wild, smtp_send_greet,
   GreetLine, smtp_send_challenge, smtp_send_auth, smtp_send_from, smtp_send_to, smtp_send_data,
   smtp_send_quit, smtp_send_close, Command, Reply

\* Nothing else gets there.
LEMMA NotWild ==
  ASSUME pc # "wild", Next, ~Wild
  PROVE  pc' # "wild"
BY DEF Next, Network, Handler, SendRefused, smtp_send, smtp_send_kill, smtp_send_dns, smtp_send_conn_cb,
   ServerCloses, LinkLost, Serve, smtp_send_recv_cb, Incomplete, Rejected, smtp_send_greet, GreetLine,
   smtp_send_challenge, smtp_send_auth, smtp_send_from, smtp_send_to, smtp_send_data, smtp_send_quit,
   smtp_send_close, Command, Reset, stateVars

\* The invariant that the theorems below rest on is inductive.
THEOREM WholeHolds == Spec => []Whole
<1>1. Init => Whole
  BY InitIInv DEF Init, Whole, IInv, Busy, Lines
<1>2. Whole /\ [Next]_vars => Whole'
  <2> SUFFICES ASSUME Whole, [Next]_vars
               PROVE  Whole'
    OBVIOUS
  <2>1. CASE Reset
    <3>1. IInv' /\ pc' = "idle" /\ inbufused' = 0
      BY <2>1, ResetKeeps DEF Whole, Reset
    <3> QED BY <3>1 DEF Whole, IInv, Busy, Lines
  <2>2. CASE Wild
    <3>1. IInv /\ Busy /\ Lines /\ pc' = "wild"
      BY <2>2 DEF Wild, Whole
    <3>2. Typed' /\ Counted' /\ Segmented
      BY <2>2, <3>1, WildKeeps, WrapNeedsCut
    <3> QED BY <3>1, <3>2 DEF Whole
  <2>3. CASE Next /\ ~Reset /\ ~Wild
    <3>1. IInv /\ Busy /\ Lines
      BY <2>3, AfterWild DEF Whole
    <3>2. IInv'
      BY <2>3, <3>1, QuietKeeps, RecvKeeps, ServeKeeps, HandlerKeeps DEF Next, Network
    <3>3. Busy' /\ Lines'
      BY <2>3, <3>1, BusyKeeps, LinesKeep
    <3>4. pc' # "wild"
      BY <2>3, AfterWild, NotWild
    <3> QED BY <3>2, <3>3, <3>4 DEF Whole, IInv
  <2>4. CASE UNCHANGED vars
    BY <2>4 DEF vars, stateVars, netVars, histVars, Whole, IInv, Typed, Counted, Terminated, Busy, Lines
  <2> QED BY <2>1, <2>2, <2>3, <2>4
<1> QED BY <1>1, <1>2, PTL DEF Spec

\* Type correctness of the SMTP client.
THEOREM TypeCorrect == Spec => []TypeOK
BY WholeHolds, WholeImplies, PTL

\* inbuf is a terminated string up to a wrap of inbufused, for every server and every
\* segmentation, and there is no wrap if no segment ends inside a line.
THEOREM BufferTerminated == Spec => []BufTerminated
BY WholeHolds, WholeImplies, PTL

-----------------------------------------------------------------------------
(* The dialogue.  What is unread, in inbuf and behind it in the network, is *)
(* at most the answer to one command: the code that ends an answer has no   *)
(* CRLF behind it but the last unit.                                        *)

Finals == Codes \ {"220 ", "250-"}

\* Unit i of what is unread: u units in b, the others in n.
At(i, b, u, n) == IF i < u THEN b[i] ELSE n[i - u + 1]
Told(c, b, u, n) == \E i \in 0 .. u + Len(n) - 1 : At(i, b, u, n) = c
LastLine(b, u, n) ==
  \A i, j \in 0 .. u + Len(n) - 1 :
    i < j /\ At(i, b, u, n) \in Finals /\ At(j, b, u, n) = CRLF => j = u + Len(n) - 1

Heard(c) == Told(c, inbuf, inbufused, net)
Quiet == net = << >> /\ inbufused = 0

\* The command on its way is the one of the state; "ehlo" may outlive it.
Alone ==
  \/ inbox = << >>
  \/ /\ inbox = << <<"ehlo">> >> /\ state \in {"GREET", "FAILED"}
     /\ state = "GREET" => \A c \in Finals : ~Heard(c)
  \/ /\ Quiet
     /\ \/ state = "CHALLENGE" /\ inbox = << <<"AUTH">> >>
        \/ state = "AUTH" /\ inbox = << <<"response", inbox[1][2]>> >>
        \/ state = "FROM" /\ inbox = << <<"mail FROM", mail[1]>> >>
        \/ state = "TO" /\ inbox = << <<"rcpt TO", mail[2]>> >>
        \/ state = "DATA" /\ inbox = << <<"data">> >>
        \/ state = "QUIT" /\ inbox = << <<"message", mail>> >> /\ open = TRUE
        \/ state = "CLOSE" /\ inbox = << <<"quit">> >>

Turns ==
  /\ state \in {"READY", "RESOLVE", "CONNECT"} => inbox = << >> /\ Quiet
  /\ link = "opening" => state = "CONNECT"
  /\ state \in Dialog => LastLine(inbuf, inbufused, net)

\* The mail under way is the last one asked for, and the envelope is its own.
Own ==
  /\ asked \in Seq(Mail)
  /\ "env" \in DOMAIN srv /\ srv.env = <<srv.env[1], srv.env[2]>>
  /\ state \in Dialog \cup {"RESOLVE", "CONNECT"} => asked # << >> /\ mail = asked[Len(asked)]
  /\ state \in {"RESOLVE", "CONNECT", "GREET", "CHALLENGE", "AUTH", "FROM", "TO", "DATA"} => open = TRUE
  /\ state \in {"READY", "CLOSE"} => open = FALSE
  /\ (state = "FROM" /\ Heard("250 ")) \/ state \in {"TO", "DATA", "QUIT"} => srv.env[1] = mail[1]
  /\ (state = "TO" /\ Heard("250 ")) \/ state \in {"DATA", "QUIT"} => srv.env[2] = mail[2]
  /\ state = "QUIT" /\ Heard("250 ") => open = FALSE

DInv == Alone /\ Turns /\ Own

\* What is left of it when the count of bytes in inbuf has wrapped.
Astray ==
  /\ asked \in Seq(Mail)
  /\ "env" \in DOMAIN srv /\ srv.env = <<srv.env[1], srv.env[2]>>
  /\ inbox = << >> \/ inbox = << <<"ehlo">> >>

Dialogue == (pc # "wild" => DInv) /\ (pc = "wild" => Astray)

\* An empty sequence, and a sequence of one element.
LEMMA Single ==
  ASSUME NEW x
  PROVE  /\ Append(<< >>, x) = <<x>> /\ Tail(<<x>>) = << >> /\ Head(<<x>>) = x
         /\ <<x>> # << >> /\ Len(<<x>>) = 1 /\ <<x>>[1] = x
OBVIOUS

\* The code of the answer is the only one that ends an answer.
LEMMA OneFinal ==
  ASSUME NEW b, NEW u \in Nat, NEW r, NEW code, NEW p \in Nat, NEW q \in Nat, NEW l \in Nat,
         \A i \in 0 .. u + p - 1 : At(i, b, u, r) \notin Finals,
         \A i \in 1 .. q : At(u + p + i - 1, b, u, r) \notin Finals,
         At(u + p + q, b, u, r) = code,
         \A i \in 1 .. l : At(u + p + q + i, b, u, r) \in Words,
         At(u + p + q + l + 1, b, u, r) = CRLF,
         Len(r) = p + q + l + 2
  PROVE  /\ LastLine(b, u, r)
         /\ \A c \in Finals : Told(c, b, u, r) => c = code
<1>1. /\ \A x \in Words : x \notin Finals /\ x # CRLF
      /\ CRLF \notin Finals
  BY SmtpWords DEF Finals, Codes, CRLF
<1> DEFINE k == u + p + q
<1>2. \A i \in 0 .. u + p + q + l + 1 :
         \/ i \in 0 .. u + p - 1 \/ (\E j \in 1 .. q : i = u + p + j - 1) \/ i = k
         \/ (\E j \in 1 .. l : i = u + p + q + j) \/ i = u + p + q + l + 1
  <2> TAKE i \in 0 .. u + p + q + l + 1
  <2>1. CASE i \in u + p .. k - 1
    <3>1. i - u - p + 1 \in 1 .. q /\ i = u + p + (i - u - p + 1) - 1
      BY <2>1
    <3> QED BY <3>1
  <2>2. CASE i \in k + 1 .. k + l
    <3>1. i - k \in 1 .. l /\ i = u + p + q + (i - k)
      BY <2>2
    <3> QED BY <3>1
  <2> QED BY <2>1, <2>2
<1>3. \A i \in 0 .. u + p + q + l + 1 : At(i, b, u, r) \in Finals => i = k
  BY <1>1, <1>2, Zenon
<1>4. \A i \in 0 .. u + p + q + l + 1 : At(i, b, u, r) = CRLF /\ i > k => i = u + p + q + l + 1
  <2> SUFFICES ASSUME NEW i \in 0 .. u + p + q + l + 1, i > k, At(i, b, u, r) = CRLF,
                      i # u + p + q + l + 1
               PROVE  FALSE
    OBVIOUS
  <2>1. i - k \in 1 .. l /\ i = u + p + q + (i - k)
    OBVIOUS
  <2> QED BY <1>1, <2>1
<1>5. u + Len(r) - 1 = u + p + q + l + 1
  OBVIOUS
<1>6. LastLine(b, u, r)
  BY <1>3, <1>4, <1>5 DEF LastLine
<1> QED BY <1>3, <1>5, <1>6 DEF Told

\* An answer behind what is unread.
LEMMA Answered ==
  ASSUME NEW b, NEW u \in Nat, NEW n \in Seq(Units), NEW t \in Seq(Words), NEW code \in Finals,
         NEW e \in Seq(Words \cup {"250-", CRLF})
  PROVE  \A r : /\ r = n \o e \o (<<code>> \o t \o <<CRLF>>)
                /\ \A c \in Finals : ~Told(c, b, u, n)
                => /\ LastLine(b, u, r)
                   /\ \A c \in Finals : Told(c, b, u, r) => c = code
<1>a. SUFFICES ASSUME NEW r,
                      r = n \o e \o (<<code>> \o t \o <<CRLF>>),
                      \A c \in Finals : ~Told(c, b, u, n)
               PROVE  LastLine(b, u, r) /\ (\A c \in Finals : Told(c, b, u, r) => c = code)
  OBVIOUS
<1>1. e \in Seq(Units) /\ t \in Seq(Units) /\ code \in Units /\ CRLF \in Units
  BY EhloUnits, WordsAreUnits DEF Finals, Units
<1>2. /\ Len(n) \in Nat /\ Len(e) \in Nat /\ Len(t) \in Nat
      /\ Len(r) = Len(n) + Len(e) + Len(t) + 2
      /\ \A i \in 1 .. Len(n) : r[i] = n[i]
      /\ \A i \in 1 .. Len(e) : r[Len(n) + i] = e[i]
      /\ r[Len(n) + Len(e) + 1] = code
      /\ \A i \in 1 .. Len(t) : r[Len(n) + Len(e) + 1 + i] = t[i]
      /\ r[Len(n) + Len(e) + Len(t) + 2] = CRLF
  BY <1>1, <1>a
<1>3. /\ \A i \in 0 .. u + Len(n) - 1 : At(i, b, u, r) = At(i, b, u, n)
      /\ \A i \in 1 .. Len(e) : At(u + Len(n) + i - 1, b, u, r) = e[i]
      /\ At(u + Len(n) + Len(e), b, u, r) = code
      /\ \A i \in 1 .. Len(t) : At(u + Len(n) + Len(e) + i, b, u, r) = t[i]
      /\ At(u + Len(n) + Len(e) + Len(t) + 1, b, u, r) = CRLF
  <2>1. \A i \in 0 .. u + Len(n) - 1 : At(i, b, u, r) = At(i, b, u, n)
    BY <1>2 DEF At
  <2>2. \A i \in 1 .. Len(e) : At(u + Len(n) + i - 1, b, u, r) = e[i]
    BY <1>2 DEF At
  <2>3. At(u + Len(n) + Len(e), b, u, r) = code
    BY <1>2 DEF At
  <2>4. \A i \in 1 .. Len(t) : At(u + Len(n) + Len(e) + i, b, u, r) = t[i]
    BY <1>2 DEF At
  <2>5. At(u + Len(n) + Len(e) + Len(t) + 1, b, u, r) = CRLF
    BY <1>2 DEF At
  <2> QED BY <2>1, <2>2, <2>3, <2>4, <2>5
<1>4. \A i \in 0 .. u + Len(n) - 1 : At(i, b, u, r) \notin Finals
  BY <1>a, <1>3, Zenon DEF Told
<1>5. \A i \in 1 .. Len(e) : At(u + Len(n) + i - 1, b, u, r) \notin Finals
  <2>1. \A x \in Words \cup {"250-", CRLF} : x \notin Finals
    BY SmtpWords DEF Finals, Codes, CRLF
  <2>2. \A i \in 1 .. Len(e) : e[i] \in Words \cup {"250-", CRLF}
    OBVIOUS
  <2> QED BY <1>3, <2>1, <2>2, Zenon
<1>6. \A i \in 1 .. Len(t) : At(u + Len(n) + Len(e) + i, b, u, r) \in Words
  <2>1. \A i \in 1 .. Len(t) : t[i] \in Words
    OBVIOUS
  <2> QED BY <1>3, <2>1, Zenon
<1> QED BY <1>2, <1>3, <1>4, <1>5, <1>6, OneFinal, Zenon

\* A segment of k units that is stored: what is unread stays the same.
LEMMA Stored ==
  ASSUME NEW b, NEW u \in Nat, NEW n \in Seq(Units), NEW k \in 1 .. Len(n), u + k < BUF
  PROVE  \A b2, n2 :
           /\ b2 = [i \in 0 .. BUF - 1 |-> IF i \in u .. u + k - 1 THEN n[i - u + 1] ELSE b[i]]
           /\ n2 = SubSeq(n, k + 1, Len(n))
           => /\ LastLine(b, u, n) => LastLine(b2, u + k, n2)
              /\ \A c : Told(c, b2, u + k, n2) => Told(c, b, u, n)
<1>a. SUFFICES ASSUME NEW b2, NEW n2,
                      b2 = [i \in 0 .. BUF - 1 |-> IF i \in u .. u + k - 1 THEN n[i - u + 1] ELSE b[i]],
                      n2 = SubSeq(n, k + 1, Len(n))
               PROVE  /\ LastLine(b, u, n) => LastLine(b2, u + k, n2)
                      /\ \A c : Told(c, b2, u + k, n2) => Told(c, b, u, n)
  OBVIOUS
<1>1. Len(n) \in Nat /\ k \in Nat /\ k <= Len(n) /\ BUF \in Nat
  BY SmtpConstants
<1>2. Len(n2) = Len(n) - k /\ \A i \in 1 .. Len(n) - k : n2[i] = n[k + i]
  BY <1>1, <1>a, SubSeqProperties
<1>3. \A i \in 0 .. u + Len(n) - 1 : At(i, b2, u + k, n2) = At(i, b, u, n)
  <2> TAKE i \in 0 .. u + Len(n) - 1
  <2>1. CASE i < u
    BY <1>1, <1>a, <2>1 DEF At
  <2>2. CASE i \in u .. u + k - 1
    BY <1>1, <1>a, <2>2 DEF At
  <2>3. CASE i >= u + k
    <3>1. i - (u + k) + 1 \in 1 .. Len(n) - k /\ k + (i - (u + k) + 1) = i - u + 1
      BY <1>1, <2>3
    <3> QED BY <1>1, <1>2, <2>3, <3>1 DEF At
  <2> QED BY <1>1, <2>1, <2>2, <2>3
<1>4. (u + k) + Len(n2) = u + Len(n) /\ (u + k) + Len(n2) - 1 = u + Len(n) - 1
  BY <1>1, <1>2
<1>5. LastLine(b, u, n) => LastLine(b2, u + k, n2)
  BY <1>3, <1>4 DEF LastLine
<1> QED BY <1>3, <1>4, <1>5 DEF Told

\* A line of k units that is taken out: what is unread loses its front.
LEMMA Taken ==
  ASSUME NEW b, NEW u \in Nat, NEW n \in Seq(Units), NEW k \in 1 .. u, u < BUF
  PROVE  \A b2, u2 :
           /\ u2 = u - k
           /\ b2 = [i \in 0 .. BUF - 1 |-> IF i <= u2 THEN b[i + k] ELSE b[i]]
           => /\ LastLine(b, u, n) => LastLine(b2, u2, n)
              /\ \A c : Told(c, b2, u2, n) => Told(c, b, u, n)
<1> SUFFICES ASSUME NEW b2, NEW u2, u2 = u - k,
                    b2 = [i \in 0 .. BUF - 1 |-> IF i <= u2 THEN b[i + k] ELSE b[i]]
             PROVE  /\ LastLine(b, u, n) => LastLine(b2, u2, n)
                    /\ \A c : Told(c, b2, u2, n) => Told(c, b, u, n)
  OBVIOUS
<1>1. Len(n) \in Nat /\ k \in Nat /\ u2 \in Nat /\ BUF \in Nat
  BY SmtpConstants
<1>2. \A i \in 0 .. u2 + Len(n) - 1 :
         i + k \in 0 .. u + Len(n) - 1 /\ At(i, b2, u2, n) = At(i + k, b, u, n)
  BY <1>1 DEF At
<1>3. ASSUME LastLine(b, u, n) PROVE LastLine(b2, u2, n)
  <2> SUFFICES ASSUME NEW i \in 0 .. u2 + Len(n) - 1, NEW j \in 0 .. u2 + Len(n) - 1, i < j,
                      At(i, b2, u2, n) \in Finals, At(j, b2, u2, n) = CRLF
               PROVE  j = u2 + Len(n) - 1
    BY DEF LastLine
  <2>1. i + k < j + k
    BY <1>1
  <2>2. j + k = u + Len(n) - 1
    BY <1>2, <1>3, <2>1 DEF LastLine
  <2> QED BY <1>1, <2>2
<1> QED BY <1>2, <1>3 DEF Told

\* A line that starts with a code that ends an answer is all that is unread.
LEMMA TakenWhole ==
  ASSUME NEW b, NEW u \in Nat, NEW n \in Seq(Units), NEW k \in 1 .. u,
         LastLine(b, u, n), b[0] \in Finals, b[k - 1] = CRLF
  PROVE  u = k /\ n = << >>
<1>1. CRLF \notin Finals
  BY DEF Finals, Codes, CRLF
<1>2. Len(n) \in Nat /\ 0 < k - 1 /\ k - 1 < u
  BY <1>1
<1>3. At(0, b, u, n) = b[0] /\ At(k - 1, b, u, n) = b[k - 1]
  BY <1>2 DEF At
<1>4. k - 1 = u + Len(n) - 1
  BY <1>2, <1>3 DEF LastLine
<1>5. u = k /\ Len(n) = 0
  BY <1>2, <1>4
<1> QED BY <1>5

\* Less is unread when the connection is gone.
LEMMA Cut ==
  ASSUME NEW b, NEW u \in Nat, NEW n \in Seq(Units)
  PROVE  /\ LastLine(b, u, n) => LastLine(b, u, << >>)
         /\ \A c : Told(c, b, u, << >>) => Told(c, b, u, n)
         /\ \A c : ~Told(c, b, 0, << >>)
         /\ LastLine(b, 0, << >>)
<1>1. Len(n) \in Nat /\ Len(<< >>) = 0
  OBVIOUS
<1>2. \A i \in 0 .. u - 1 : At(i, b, u, n) = At(i, b, u, << >>) /\ i \in 0 .. u + Len(n) - 1
  BY <1>1 DEF At
<1>3. ASSUME LastLine(b, u, n) PROVE LastLine(b, u, << >>)
  <2> SUFFICES ASSUME NEW i \in 0 .. u - 1, NEW j \in 0 .. u - 1, i < j,
                      At(i, b, u, << >>) \in Finals, At(j, b, u, << >>) = CRLF
               PROVE  j = u - 1
    BY <1>1 DEF LastLine
  <2>1. j = u + Len(n) - 1
    BY <1>2, <1>3 DEF LastLine
  <2> QED BY <1>1, <2>1
<1>4. \A c : Told(c, b, u, << >>) => Told(c, b, u, n)
  BY <1>1, <1>2 DEF Told
<1>5. (\A c : ~Told(c, b, 0, << >>)) /\ LastLine(b, 0, << >>)
  BY <1>1 DEF Told, LastLine
<1> QED BY <1>3, <1>4, <1>5

\* No dialogue is under way at the start.
LEMMA InitDInv == Init => DInv
<1> SUFFICES ASSUME Init PROVE DInv
  OBVIOUS
<1>1. Alone /\ Turns
  BY DEF Init, Alone, Turns, Quiet, Dialog
<1>2. srv.env = <<NULL, NULL>> /\ "env" \in DOMAIN srv
  BY DEF Init, NoSession
<1>3. asked \in Seq(Mail) /\ state = "READY" /\ open = FALSE
  BY DEF Init
<1> QED BY <1>1, <1>2, <1>3 DEF DInv, Own, Dialog

\* Steps that leave the dialogue alone.
LEMMA SameDialogue ==
  ASSUME DInv, UNCHANGED <<state, mail, inbuf, inbufused, link, net, inbox, srv, asked, open>>
  PROVE  DInv'
<1>1. UNCHANGED Quiet /\ \A c : Heard(c)' = Heard(c)
  BY DEF Quiet, Heard
<1>2. Alone'
  BY <1>1 DEF DInv, Alone
<1>3. Turns'
  BY <1>1 DEF DInv, Turns
<1>4. Own'
  BY <1>1 DEF DInv, Own
<1> QED BY <1>2, <1>3, <1>4 DEF DInv

\* The end of a connection: what was on its way, in both directions, is lost.
LEMMA CutDInv ==
  ASSUME IInv, DInv, Disconnected, UNCHANGED <<state, mail, inbuf, inbufused, asked, open>>
  PROVE  DInv'
<1>1. link' = "down" /\ net' = << >> /\ inbox' = << >> /\ srv' = srv
  BY DEF Disconnected
<1>2. inbufused \in Nat /\ net \in Seq(Units)
  BY DEF IInv, Typed
<1>3. /\ LastLine(inbuf, inbufused, net) => LastLine(inbuf, inbufused, net)'
      /\ \A c : Heard(c)' => Heard(c)
  BY <1>1, <1>2, Cut DEF Heard
<1>4. Alone'
  BY <1>1 DEF Alone
<1>5. Turns'
  BY <1>1, <1>3 DEF DInv, Turns, Quiet
<1>6. Own'
  BY <1>1, <1>3 DEF DInv, Own
<1> QED BY <1>4, <1>5, <1>6 DEF DInv

\* A mail that is taken on is copied as it is, and becomes the last one asked for.
LEMMA SendDInv ==
  ASSUME IInv, DInv, NEW m \in Mail, smtp_send(m)
  PROVE  DInv'
<1>1. /\ state = "READY" /\ Fits(m, 4) /\ asked' = Append(asked, m) /\ open' = TRUE
      /\ UNCHANGED <<inbuf, inbufused, net, inbox, srv>>
  BY DEF smtp_send, Free
<1>2. mail' = m
  <2>1. \A i \in 1 .. 4 : Fits(m, i)
    BY <1>1 DEF Fits
  <2>2. mail' = [i \in 1 .. 4 |-> m[i]]
    BY <2>1 DEF smtp_send, Copied
  <2> QED BY <2>2, SmtpMail
<1>3. /\ state' \in {"CONNECT", "RESOLVE", "FAILED"}
      /\ link' = "opening" => state' = "CONNECT"
  BY <1>1 DEF smtp_send, smtp_send_connect, DInv, Turns
<1>4. inbox' = << >> /\ Quiet'
  BY <1>1 DEF DInv, Turns, Quiet
<1>5. asked' \in Seq(Mail) /\ asked' # << >> /\ asked'[Len(asked')] = m
  BY <1>1 DEF DInv, Own
<1>6. Alone' /\ Turns'
  BY <1>3, <1>4 DEF Alone, Turns, Dialog
<1>7. "env" \in DOMAIN srv' /\ srv'.env = <<srv'.env[1], srv'.env[2]>>
  BY <1>1 DEF DInv, Own
<1>8. Own'
  BY <1>1, <1>2, <1>3, <1>5, <1>7 DEF Own, Dialog
<1> QED BY <1>6, <1>8 DEF DInv

\* The address is there, or not.
LEMMA DnsDInv ==
  ASSUME IInv, DInv, smtp_send_dns
  PROVE  DInv'
<1>1. /\ state = "RESOLVE" /\ UNCHANGED <<mail, inbuf, inbufused, net, inbox, srv, asked, open>>
      /\ state' \in {"CONNECT", "FAILED"} /\ (link' = "opening" => state' = "CONNECT")
  BY DEF smtp_send_dns, smtp_send_connect, DInv, Turns
<1>2. inbox' = << >> /\ Quiet'
  BY <1>1 DEF DInv, Turns, Quiet
<1>3. Alone' /\ Turns'
  BY <1>1, <1>2 DEF Alone, Turns, Dialog
<1>4. Own'
  BY <1>1 DEF DInv, Own, Dialog
<1> QED BY <1>3, <1>4 DEF DInv

\* The greeting is a line without a code that ends an answer.
LEMMA ConnDInv ==
  ASSUME IInv, DInv, smtp_send_conn_cb
  PROVE  DInv'
<1>1. /\ state = "CONNECT" /\ Quiet /\ link' = "up" /\ srv' = NoSession
      /\ UNCHANGED <<mail, inbuf, inbufused, asked, open>>
  BY DEF smtp_send_conn_cb, DInv, Turns
<1>2. \/ state' = "GREET" /\ inbox' = << <<"ehlo">> >>
      \/ state' = "FAILED" /\ inbox' = << >>
  BY DEF smtp_send_conn_cb, FailAndKill
<1>3. PICK t \in Texts : net' = net \o <<"220 ">> \o t \o <<CRLF>>
  BY DEF smtp_send_conn_cb
<1>4. t \in Seq(Words) /\ \A i \in 1 .. Len(t) : t[i] \in Words
  BY SmtpConstants
<1>5. \A i \in 1 .. Len(net') : net'[i] \in Words \cup {"220 ", CRLF}
  <2>1. net = << >>
    BY <1>1 DEF Quiet
  <2>2. PICK S : S = Words \cup {"220 ", CRLF}
    OBVIOUS
  <2>3. Words \subseteq S /\ "220 " \in S /\ CRLF \in S
    BY <2>2
  <2>4. t \in Seq(S) /\ << >> \in Seq(S)
    <3>1. Seq(Words) \subseteq Seq(S)
      BY <2>3, SeqGrows, Zenon
    <3>2. << >> \in Seq(S)
      OBVIOUS
    <3> QED BY <1>4, <3>1, <3>2, Zenon
  <2>5. << >> \o <<"220 ">> \o t \o <<CRLF>> \in Seq(S)
    BY <2>3, <2>4, Joined, Zenon
  <2>6. net' \in Seq(S)
    BY <1>3, <2>1, <2>5, Zenon
  <2>7. \A i \in 1 .. Len(net') : net'[i] \in S
    BY <2>6
  <2> QED BY <2>2, <2>7
<1>6. \A x \in Words \cup {"220 ", CRLF} : x \notin Finals
  BY SmtpWords DEF Finals, Codes, CRLF
<1>7. inbufused' = 0
  BY <1>1 DEF Quiet
<1>8. \A i \in 0 .. inbufused' + Len(net') - 1 : At(i, inbuf', inbufused', net') \notin Finals
  <2>1. net' \in Seq(Units)
    BY QuietKeeps DEF IInv, Typed
  <2>2. \A i \in 0 .. Len(net') - 1 : At(i, inbuf', 0, net') = net'[i + 1] /\ i + 1 \in 1 .. Len(net')
    BY <2>1 DEF At
  <2>3. 0 + Len(net') - 1 = Len(net') - 1
    BY <2>1
  <2> QED BY <1>5, <1>6, <1>7, <2>2, <2>3
<1>9. (\A c \in Finals : ~Heard(c)') /\ LastLine(inbuf, inbufused, net)'
  BY <1>8 DEF Heard, Told, LastLine
<1>10. Alone'
  BY <1>2, <1>9 DEF Alone
<1>11. Turns'
  BY <1>1, <1>2, <1>9 DEF Turns
<1>12. "env" \in DOMAIN srv' /\ srv'.env = <<srv'.env[1], srv'.env[2]>>
  BY <1>1 DEF NoSession
<1>13. Own'
  BY <1>1, <1>2, <1>12 DEF DInv, Own, Dialog
<1> QED BY <1>10, <1>11, <1>13 DEF DInv

\* A segment that arrives: it is stored, or the client gives up.
LEMMA RecvDInv ==
  ASSUME IInv, DInv, NEW n \in 1 .. Len(net), smtp_send_recv_cb(n)
  PROVE  DInv'
<1>1. /\ link = "up" /\ net' = SubSeq(net, n + 1, Len(net))
      /\ UNCHANGED <<mail, link, inbox, srv, asked, open>>
  BY DEF smtp_send_recv_cb, histVars
<1>2. /\ inbufused \in Nat /\ net \in Seq(Units) /\ Len(net) \in Nat /\ net # << >> /\ state \in States
  BY DEF IInv, Typed
<1>3. ~Quiet /\ state \in Dialog \cup {"FAILED"} /\ (inbox = << >> \/ inbox = << <<"ehlo">> >>)
  <2>1. ~Quiet
    BY <1>2 DEF Quiet
  <2> QED BY <1>2, <2>1 DEF DInv, Alone, Turns, States
<1>4. CASE Overflows(n)
  <2>1. state' = "FAILED"
    BY <1>4 DEF smtp_send_recv_cb, FailAndKill
  <2>2. Alone'
    BY <1>1, <1>3, <2>1 DEF Alone
  <2>3. Turns'
    BY <1>1, <2>1 DEF Turns, Dialog
  <2>4. Own'
    BY <1>1, <2>1 DEF DInv, Own, Dialog
  <2> QED BY <2>2, <2>3, <2>4 DEF DInv
<1>5. CASE ~Overflows(n)
  <2>1. /\ inbufused' = inbufused + n /\ state' = state
        /\ inbuf' = [i \in 0 .. BUF - 1 |-> IF i \in inbufused .. inbufused + n - 1
                                            THEN net[i - inbufused + 1] ELSE inbuf[i]]
    BY <1>5 DEF smtp_send_recv_cb
  <2>2. inbufused + n < BUF
    BY <1>2, <1>5, SmtpConstants DEF Overflows
  <2>3. /\ LastLine(inbuf, inbufused, net) => LastLine(inbuf', inbufused + n, net')
        /\ \A c : Told(c, inbuf', inbufused + n, net') => Told(c, inbuf, inbufused, net)
    <3>1. \A b2, n2 :
             /\ b2 = [i \in 0 .. BUF - 1 |-> IF i \in inbufused .. inbufused + n - 1
                                            THEN net[i - inbufused + 1] ELSE inbuf[i]]
             /\ n2 = SubSeq(net, n + 1, Len(net))
             => /\ LastLine(inbuf, inbufused, net) => LastLine(b2, inbufused + n, n2)
                /\ \A c : Told(c, b2, inbufused + n, n2) => Told(c, inbuf, inbufused, net)
      BY <1>2, <2>2, Stored, Zenon
    <3> QED BY <1>1, <2>1, <3>1, Zenon
  <2>4. /\ LastLine(inbuf, inbufused, net) => LastLine(inbuf, inbufused, net)'
        /\ \A c : Heard(c)' => Heard(c)
    BY <2>1, <2>3 DEF Heard
  <2>5. Alone'
    BY <1>1, <1>3, <2>1, <2>4 DEF DInv, Alone, Quiet
  <2>6. Turns'
    BY <1>1, <1>3, <2>1, <2>4 DEF DInv, Turns, Dialog
  <2>7. Own'
    BY <1>1, <2>1, <2>4 DEF DInv, Own
  <2> QED BY <2>5, <2>6, <2>7 DEF DInv
<1> QED BY <1>4, <1>5

\* The envelope in the server's session, field by field.
LEMMA EnvSet ==
  ASSUME NEW s, "env" \in DOMAIN s, s.env = <<s.env[1], s.env[2]>>, NEW x
  PROVE  /\ "env" \in DOMAIN [s EXCEPT !.env[1] = x] /\ [s EXCEPT !.env[1] = x].env = <<x, s.env[2]>>
         /\ "env" \in DOMAIN [s EXCEPT !.env[2] = x] /\ [s EXCEPT !.env[2] = x].env = <<s.env[1], x>>
         /\ "env" \in DOMAIN [s EXCEPT !.chal = x] /\ [s EXCEPT !.chal = x].env = s.env
         /\ "env" \in DOMAIN [s EXCEPT !.bye = TRUE] /\ [s EXCEPT !.bye = TRUE].env = s.env
OBVIOUS

\* What an answer with this code has to do with the mail in this state.
Effect(code) ==
  /\ "env" \in DOMAIN srv' /\ srv'.env = <<srv'.env[1], srv'.env[2]>>
  /\ srv'.env[1] = IF state = "FROM" /\ code = "250 " THEN mail[1] ELSE srv.env[1]
  /\ srv'.env[2] = IF state = "TO" /\ code = "250 " THEN mail[2] ELSE srv.env[2]
  /\ open' = IF state = "QUIT" /\ code = "250 " THEN FALSE ELSE open

\* The server answers the command of the state with one line.
LEMMA Served ==
  ASSUME IInv, DInv, Serve, inbox # << >>
  PROVE  /\ inbox' = << >>
         /\ \E code \in Finals, t \in Seq(Words), e \in Seq(Words \cup {"250-", CRLF}) :
              net' = net \o e \o Line(code, t) /\ Effect(code)
<1> DEFINE Answer(code) ==
             \E t \in Seq(Words), e \in Seq(Words \cup {"250-", CRLF}) : net' = net \o e \o Line(code, t)
<1>1. "env" \in DOMAIN srv /\ srv.env = <<srv.env[1], srv.env[2]>> /\ net \in Seq(Units)
  BY DEF DInv, Own, IInv, Typed
<1>2. \A code : (\E t \in Texts \cup Challenges : net' = net \o Line(code, t)) => Answer(code)
  <2>1. << >> \in Seq(Words \cup {"250-", CRLF}) /\ net \o << >> = net
    BY <1>1
  <2>2. \A t \in Texts \cup Challenges : t \in Seq(Words)
    BY SmtpConstants
  <2> QED BY <2>1, <2>2, Zenon
<1>3. \A e \in EhloLines, t \in Texts : net' = net \o e \o Line("250 ", t) => Answer("250 ")
  <2>1. \A e \in EhloLines, t \in Texts : e \in Seq(Words \cup {"250-", CRLF}) /\ t \in Seq(Words)
    BY SmtpConstants
  <2> QED BY <2>1, Zenon
<1> HIDE DEF Answer
<1>4. /\ inbox' = << >>
      /\ \/ state \in {"GREET", "FAILED"} /\ Head(inbox)[1] = "ehlo"
         \/ state = "CHALLENGE" /\ Head(inbox)[1] = "AUTH"
         \/ state = "AUTH" /\ Head(inbox)[1] = "response"
         \/ state = "FROM" /\ Head(inbox)[1] = "mail FROM" /\ Head(inbox)[2] = mail[1]
         \/ state = "TO" /\ Head(inbox)[1] = "rcpt TO" /\ Head(inbox)[2] = mail[2]
         \/ state = "DATA" /\ Head(inbox)[1] = "data"
         \/ state = "QUIT" /\ Head(inbox)[1] = "message"
         \/ state = "CLOSE" /\ Head(inbox)[1] = "quit"
  <2>1. inbox' = Tail(inbox)
    BY DEF Serve
  <2>2. \/ state \in {"GREET", "FAILED"} /\ inbox = << <<"ehlo">> >>
        \/ state = "CHALLENGE" /\ inbox = << <<"AUTH">> >>
        \/ state = "AUTH" /\ inbox = << <<"response", inbox[1][2]>> >>
        \/ state = "FROM" /\ inbox = << <<"mail FROM", mail[1]>> >>
        \/ state = "TO" /\ inbox = << <<"rcpt TO", mail[2]>> >>
        \/ state = "DATA" /\ inbox = << <<"data">> >>
        \/ state = "QUIT" /\ inbox = << <<"message", mail>> >>
        \/ state = "CLOSE" /\ inbox = << <<"quit">> >>
    BY Zenon DEF DInv, Alone
  <2>3. /\ \A v : inbox = << <<v>> >> => inbox' = << >> /\ Head(inbox)[1] = v
        /\ \A v, x : inbox = << <<v, x>> >> => inbox' = << >> /\ Head(inbox)[1] = v /\ Head(inbox)[2] = x
    <3>1. ASSUME NEW v, inbox = << <<v>> >> PROVE Tail(inbox) = << >> /\ Head(inbox)[1] = v
      BY <3>1
    <3>2. ASSUME NEW v, NEW x, inbox = << <<v, x>> >>
          PROVE  Tail(inbox) = << >> /\ Head(inbox)[1] = v /\ Head(inbox)[2] = x
      BY <3>2
    <3> QED BY <2>1, <3>1, <3>2, Zenon
  <2> QED BY <2>2, <2>3, Zenon
<1>5. \/ Answer("5xx ") /\ UNCHANGED <<srv, open>>
      \/ Head(inbox)[1] \in {"ehlo", "response", "data"} /\ UNCHANGED <<srv, open>>
         /\ \E code \in {"250 ", "235 ", "354 "} : Answer(code)
      \/ Head(inbox)[1] = "AUTH" /\ Answer("334 ") /\ (\E c : srv' = [srv EXCEPT !.chal = c]) /\ open' = open
      \/ Head(inbox)[1] = "mail FROM" /\ Answer("250 ")
         /\ srv' = [srv EXCEPT !.env[1] = Head(inbox)[2]] /\ open' = open
      \/ Head(inbox)[1] = "rcpt TO" /\ Answer("250 ")
         /\ srv' = [srv EXCEPT !.env[2] = Head(inbox)[2]] /\ open' = open
      \/ Head(inbox)[1] = "message" /\ Answer("250 ") /\ open' = FALSE /\ srv' = srv
      \/ Head(inbox)[1] = "quit" /\ Answer("221 ") /\ srv' = [srv EXCEPT !.bye = TRUE] /\ open' = open
  BY <1>2, <1>3, Zenon DEF Serve
<1>6. PICK code \in Finals : Answer(code) /\ Effect(code)
  <2>1. \A c \in {"250 ", "235 ", "354 ", "334 ", "221 ", "5xx "} : c \in Finals
    BY DEF Finals, Codes
  <2>2. CASE Answer("5xx ") /\ UNCHANGED <<srv, open>>
    <3>1. Effect("5xx ")
      BY <1>1, <2>2 DEF Effect
    <3> QED BY <2>1, <2>2, <3>1
  <2>3. CASE Head(inbox)[1] \in {"ehlo", "response", "data"} /\ UNCHANGED <<srv, open>>
             /\ \E code \in {"250 ", "235 ", "354 "} : Answer(code)
    <3>1. state \notin {"FROM", "TO", "QUIT"}
      BY <1>4, <2>3
    <3>2. \A code : Effect(code)
      BY <1>1, <2>3, <3>1 DEF Effect
    <3> QED BY <2>1, <2>3, <3>2
  <2>4. CASE Head(inbox)[1] = "AUTH" /\ Answer("334 ") /\ (\E c : srv' = [srv EXCEPT !.chal = c]) /\ open' = open
    <3>1. "env" \in DOMAIN srv' /\ srv'.env = srv.env
      BY <1>1, <2>4, EnvSet
    <3>2. Effect("334 ")
      BY <1>1, <2>4, <3>1 DEF Effect
    <3> QED BY <2>1, <2>4, <3>2
  <2>5. CASE Head(inbox)[1] = "mail FROM" /\ Answer("250 ")
             /\ srv' = [srv EXCEPT !.env[1] = Head(inbox)[2]] /\ open' = open
    <3>1. state = "FROM" /\ Head(inbox)[2] = mail[1]
      BY <1>4, <2>5
    <3>2. srv' = [srv EXCEPT !.env[1] = mail[1]]
      BY <2>5, <3>1
    <3>3. "env" \in DOMAIN srv' /\ srv'.env = <<mail[1], srv.env[2]>>
      BY <1>1, <3>2, EnvSet
    <3>4. Effect("250 ")
      BY <1>1, <2>5, <3>1, <3>3 DEF Effect
    <3> QED BY <2>1, <2>5, <3>4
  <2>6. CASE Head(inbox)[1] = "rcpt TO" /\ Answer("250 ")
             /\ srv' = [srv EXCEPT !.env[2] = Head(inbox)[2]] /\ open' = open
    <3>1. state = "TO" /\ Head(inbox)[2] = mail[2]
      BY <1>4, <2>6
    <3>2. srv' = [srv EXCEPT !.env[2] = mail[2]]
      BY <2>6, <3>1
    <3>3. "env" \in DOMAIN srv' /\ srv'.env = <<srv.env[1], mail[2]>>
      BY <1>1, <3>2, EnvSet
    <3>4. Effect("250 ")
      BY <1>1, <2>6, <3>1, <3>3 DEF Effect
    <3> QED BY <2>1, <2>6, <3>4
  <2>7. CASE Head(inbox)[1] = "message" /\ Answer("250 ") /\ open' = FALSE /\ srv' = srv
    <3>1. state = "QUIT"
      BY <1>4, <2>7
    <3>2. Effect("250 ")
      BY <1>1, <2>7, <3>1 DEF Effect
    <3> QED BY <2>1, <2>7, <3>2
  <2>8. CASE Head(inbox)[1] = "quit" /\ Answer("221 ") /\ srv' = [srv EXCEPT !.bye = TRUE] /\ open' = open
    <3>1. "env" \in DOMAIN srv' /\ srv'.env = srv.env
      BY <1>1, <2>8, EnvSet
    <3>2. Effect("221 ")
      BY <1>1, <2>8, <3>1 DEF Effect
    <3> QED BY <2>1, <2>8, <3>2
  <2> QED BY <1>5, <2>2, <2>3, <2>4, <2>5, <2>6, <2>7, <2>8
<1> QED BY <1>4, <1>6, Zenon DEF Answer

\* The server's answer ends with its code, and nothing else is unread.
LEMMA ServeDInv ==
  ASSUME IInv, DInv, Serve
  PROVE  DInv'
<1>1. UNCHANGED <<state, mail, inbuf, inbufused, link, asked>> /\ inbox # << >>
  BY DEF Serve, stateVars
<1>2. inbox' = << >>
  BY <1>1, Served
<1>3. PICK code \in Finals, t \in Seq(Words), e \in Seq(Words \cup {"250-", CRLF}) :
        net' = net \o e \o Line(code, t) /\ Effect(code)
  BY <1>1, Served, Zenon
<1>4. state \in Dialog \cup {"FAILED"} /\ (state = "QUIT" => open = TRUE)
  BY <1>1 DEF DInv, Alone, Dialog
<1>5. Alone'
  BY <1>2 DEF Alone
<1>6. inbufused \in Nat /\ net \in Seq(Units)
  BY DEF IInv, Typed
<1>7. CASE state = "FAILED"
  <2>1. Turns'
    BY <1>1, <1>7 DEF DInv, Turns, Dialog
  <2>2. Own'
    BY <1>1, <1>3, <1>7 DEF DInv, Own, Effect, Dialog
  <2> QED BY <1>5, <2>1, <2>2 DEF DInv
<1>8. CASE state # "FAILED"
  <2>1. \A c \in Finals : ~Heard(c)
    <3>1. CASE state = "GREET"
      BY <1>1, <3>1 DEF DInv, Alone
    <3>2. CASE Quiet
      BY <1>6, <3>2, Cut DEF Quiet, Heard
    <3> QED BY <1>1, <1>8, <3>1, <3>2 DEF DInv, Alone
  <2>2. LastLine(inbuf, inbufused, net') /\ \A c \in Finals : Told(c, inbuf, inbufused, net') => c = code
    <3>1. net' = net \o e \o (<<code>> \o t \o <<CRLF>>)
      BY <1>3 DEF Line
    <3>2. \A c \in Finals : ~Told(c, inbuf, inbufused, net)
      BY <2>1 DEF Heard
    <3>3. \A r : /\ r = net \o e \o (<<code>> \o t \o <<CRLF>>)
                 /\ \A c \in Finals : ~Told(c, inbuf, inbufused, net)
                 => /\ LastLine(inbuf, inbufused, r)
                    /\ \A c \in Finals : Told(c, inbuf, inbufused, r) => c = code
      BY <1>6, Answered, Zenon
    <3> QED BY <3>1, <3>2, <3>3, Zenon
  <2>3. LastLine(inbuf, inbufused, net)' /\ (Heard("250 ")' => code = "250 ")
    <3>1. "250 " \in Finals
      BY DEF Finals, Codes
    <3> QED BY <1>1, <2>2, <3>1 DEF Heard
  <2>4. Turns'
    BY <1>1, <1>4, <1>8, <2>3 DEF DInv, Turns, Dialog
  <2>5. Own'
    BY <1>1, <1>3, <1>4, <2>3 DEF DInv, Own, Effect, Dialog
  <2> QED BY <1>5, <2>4, <2>5 DEF DInv
<1> QED BY <1>7, <1>8

\* The line that os_strstr() finds ends with CRLF.
LEMMA LineEnds ==
  ASSUME HasLine
  PROVE  inbuf[LineLen - 1] = CRLF
<1> DEFINE i == CHOOSE k \in CrlfAt : TRUE
<1>1. i \in CrlfAt
  BY DEF HasLine
<1>2. i \in 0 .. BUF - 1 /\ inbuf[i] = CRLF
  BY <1>1 DEF CrlfAt
<1>3. LineLen = i + 1
  BY DEF LineLen
<1> HIDE DEF i
<1>4. LineLen - 1 = i
  BY <1>2, <1>3, SmtpConstants
<1> QED BY <1>2, <1>4

\* A handler that takes a line: if its code ends an answer, all was read.
LEMMA ReplyTakes ==
  ASSUME IInv, DInv, NEW s, NEW codes, Reply(s, codes), net' = net
  PROVE  /\ state = s /\ state \in Dialog /\ inbuf[0] \in codes /\ Heard(inbuf[0])
         /\ ~Quiet
         /\ LastLine(inbuf, inbufused, net)' /\ \A c : Heard(c)' => Heard(c)
         /\ inbuf[0] \in Finals => Quiet'
<1>1. /\ pc = "reply" /\ state = s /\ HasLine /\ inbuf[0] \in codes
      /\ LineLen <= inbufused /\ Consume
  BY DEF Reply
<1>2. /\ state \in Dialog /\ inbufused \in Nat /\ inbufused < BUF /\ net \in Seq(Units)
      /\ LastLine(inbuf, inbufused, net)
  BY <1>1 DEF IInv, Typed, Terminated, DInv, Turns
<1>3. LineLen \in 1 .. BUF /\ inbuf[LineLen - 1] = CRLF
  BY <1>1, LineInBuf, LineEnds
<1>4. LineLen \in 1 .. inbufused
  BY <1>1, <1>2, <1>3, SmtpConstants
<1>5. /\ inbufused' = inbufused - LineLen
      /\ inbuf' = [i \in 0 .. BUF - 1 |-> IF i <= inbufused' THEN inbuf[i + LineLen] ELSE inbuf[i]]
  BY <1>1 DEF Consume
<1>6. LastLine(inbuf', inbufused', net) /\ \A c : Told(c, inbuf', inbufused', net) => Told(c, inbuf, inbufused, net)
  <2>1. \A b2, u2 :
           /\ u2 = inbufused - LineLen
           /\ b2 = [i \in 0 .. BUF - 1 |-> IF i <= u2 THEN inbuf[i + LineLen] ELSE inbuf[i]]
           => /\ LastLine(inbuf, inbufused, net) => LastLine(b2, u2, net)
              /\ \A c : Told(c, b2, u2, net) => Told(c, inbuf, inbufused, net)
    BY <1>2, <1>4, Taken, Zenon
  <2> QED BY <1>2, <1>5, <2>1, Zenon
<1>7. LastLine(inbuf, inbufused, net)' /\ \A c : Heard(c)' => Heard(c)
  BY <1>6 DEF Heard
<1>8. Heard(inbuf[0]) /\ ~Quiet
  <2>1. 0 \in 0 .. inbufused + Len(net) - 1 /\ 0 < inbufused
    BY <1>2, <1>4
  <2> QED BY <2>1 DEF Heard, Told, At, Quiet
<1>9. ASSUME inbuf[0] \in Finals PROVE Quiet'
  <2>1. inbufused = LineLen /\ net = << >>
    BY <1>2, <1>3, <1>4, <1>9, TakenWhole
  <2> QED BY <1>2, <1>5, <2>1 DEF Quiet
<1> QED BY <1>1, <1>2, <1>7, <1>8, <1>9

\* A handler that answers a line: the command goes out alone and in turn, or not at all.
LEMMA CommandTurns ==
  ASSUME IInv, DInv, NEW s, NEW code \in Finals, NEW cmd, NEW next, Command(s, code, cmd, next)
  PROVE  /\ state = s /\ Heard(code) /\ Quiet'
         /\ \/ state' = next /\ inbox' = <<cmd>>
            \/ state' = "FAILED" /\ inbox' = << >>
         /\ UNCHANGED <<mail, link, srv, asked, open>>
<1>1. Reply(s, {code}) /\ Send(cmd, next) /\ UNCHANGED <<mail, link, net, srv, asked, open>>
  BY DEF Command
<1>2. /\ state = s /\ state \in Dialog /\ Heard(code) /\ ~Quiet /\ Quiet'
  BY <1>1, ReplyTakes
<1>3. inbox = << >>
  BY <1>2 DEF DInv, Alone, Dialog
<1>4. \/ state' = next /\ inbox' = <<cmd>>
      \/ state' = "FAILED" /\ inbox' = << >>
  BY <1>1, <1>3, Single DEF Send, FailAndKill
<1> QED BY <1>1, <1>2, <1>4

\* When all was read, the invariant is about the command, the mail and the envelope.
LEMMA QuietDInv ==
  ASSUME Quiet', asked' \in Seq(Mail),
         "env" \in DOMAIN srv' /\ srv'.env = <<srv'.env[1], srv'.env[2]>>,
         link' # "opening", state' \in Dialog, Alone',
         asked' # << >> /\ mail' = asked'[Len(asked')],
         state' \in {"GREET", "CHALLENGE", "AUTH", "FROM", "TO", "DATA"} => open' = TRUE,
         state' = "CLOSE" => open' = FALSE,
         state' \in {"TO", "DATA", "QUIT"} => srv'.env[1] = mail'[1],
         state' \in {"DATA", "QUIT"} => srv'.env[2] = mail'[2]
  PROVE  DInv'
<1>1. 0 \in Nat /\ << >> \in Seq(Units)
  OBVIOUS
<1>2. inbufused' = 0 /\ net' = << >>
  BY DEF Quiet
<1>3. (\A c : ~Heard(c)') /\ LastLine(inbuf, inbufused, net)'
  BY <1>1, <1>2, Cut DEF Heard
<1>4. Turns'
  BY <1>3 DEF Turns, Dialog
<1>5. Own'
  BY <1>3 DEF Own, Dialog
<1> QED BY <1>4, <1>5 DEF DInv

\* A client that has given up says nothing more.
LEMMA FailedDInv ==
  ASSUME DInv, state' = "FAILED", inbox' = << >> \/ (inbox' = inbox /\ inbox = << <<"ehlo">> >>),
         UNCHANGED <<mail, srv, asked>>, link' # "opening"
  PROVE  DInv'
<1>1. Alone'
  BY DEF Alone
<1>2. Turns'
  BY DEF Turns, Dialog
<1>3. Own'
  BY DEF DInv, Own, Dialog
<1> QED BY <1>1, <1>2, <1>3 DEF DInv

\* The chain of handlers.
LEMMA ChainDInv ==
  ASSUME IInv, DInv,
         \/ Command("GREET", "250 ", <<"AUTH">>, "CHALLENGE") \/ smtp_send_challenge
         \/ smtp_send_auth \/ smtp_send_from \/ smtp_send_to \/ smtp_send_data \/ smtp_send_quit
  PROVE  DInv'
<1>1. {"250 ", "334 ", "235 ", "354 "} \subseteq Finals
  BY DEF Finals, Codes
<1>2. PICK s, code, cmd, next :
        /\ Command(s, code, cmd, next) /\ code \in Finals
        /\ \/ s = "GREET" /\ next = "CHALLENGE" /\ cmd = <<"AUTH">>
           \/ s = "CHALLENGE" /\ next = "AUTH" /\ cmd = <<"response", LineText>>
           \/ s = "AUTH" /\ next = "FROM" /\ cmd = <<"mail FROM", mail[1]>>
           \/ s = "FROM" /\ code = "250 " /\ next = "TO" /\ cmd = <<"rcpt TO", mail[2]>>
           \/ s = "TO" /\ code = "250 " /\ next = "DATA" /\ cmd = <<"data">>
           \/ s = "DATA" /\ next = "QUIT" /\ cmd = <<"message", mail>>
           \/ s = "QUIT" /\ code = "250 " /\ next = "CLOSE" /\ cmd = <<"quit">>
  BY <1>1, Zenon DEF smtp_send_challenge, smtp_send_auth, smtp_send_from, smtp_send_to,
     smtp_send_data, smtp_send_quit
<1>3. /\ state = s /\ Heard(code) /\ Quiet'
      /\ \/ state' = next /\ inbox' = <<cmd>>
         \/ state' = "FAILED" /\ inbox' = << >>
      /\ UNCHANGED <<mail, link, srv, asked, open>>
  BY <1>2, CommandTurns, Zenon
<1>4. link' # "opening" /\ state \in Dialog
  BY <1>2, <1>3 DEF DInv, Turns, Dialog
<1>5. CASE state' = "FAILED" /\ inbox' = << >>
  BY <1>3, <1>4, <1>5, FailedDInv
<1>6. CASE state' = next /\ inbox' = <<cmd>>
  <2>1. state' \in Dialog
    BY <1>2, <1>6 DEF Dialog
  <2>2. Alone'
    <3>1. CASE s = "CHALLENGE"
      <4>1. state' = "AUTH" /\ inbox' = << <<"response", LineText>> >>
        BY <1>2, <1>6, <3>1
      <4>2. inbox'[1][2] = LineText
        BY <4>1
      <4> QED BY <1>3, <4>1, <4>2 DEF Alone
    <3>2. CASE s = "DATA"
      <4>1. open' = TRUE
        BY <1>3, <3>2 DEF DInv, Own
      <4> QED BY <1>2, <1>3, <1>6, <3>2, <4>1 DEF Alone
    <3> QED BY <1>2, <1>3, <1>6, <3>1, <3>2 DEF Alone
  <2>3. /\ asked' \in Seq(Mail) /\ asked' # << >> /\ mail' = asked'[Len(asked')]
        /\ "env" \in DOMAIN srv' /\ srv'.env = <<srv'.env[1], srv'.env[2]>>
    BY <1>3, <1>4 DEF DInv, Own
  <2>4. /\ state' \in {"GREET", "CHALLENGE", "AUTH", "FROM", "TO", "DATA"} => open' = TRUE
        /\ state' = "CLOSE" => open' = FALSE
    BY <1>2, <1>3, <1>6 DEF DInv, Own
  <2>5. /\ state' \in {"TO", "DATA", "QUIT"} => srv'.env[1] = mail'[1]
        /\ state' \in {"DATA", "QUIT"} => srv'.env[2] = mail'[2]
    BY <1>2, <1>3, <1>6 DEF DInv, Own
  <2> QED BY <1>3, <1>4, <2>1, <2>2, <2>3, <2>4, <2>5, QuietDInv
<1> QED BY <1>3, <1>5, <1>6

\* The lines in front of "250 " go one by one.
LEMMA GreetDInv ==
  ASSUME IInv, DInv, GreetLine
  PROVE  DInv'
<1>1. /\ Reply("GREET", {"220 ", "250-"})
      /\ UNCHANGED <<state, mail, link, net, inbox, srv, asked, open>>
  BY DEF GreetLine, netVars, histVars
<1>2. /\ state = "GREET" /\ LastLine(inbuf, inbufused, net)' /\ \A c : Heard(c)' => Heard(c)
  BY <1>1, ReplyTakes
<1>3. Alone'
  BY <1>1, <1>2 DEF DInv, Alone
<1>4. Turns'
  BY <1>1, <1>2 DEF DInv, Turns
<1>5. Own'
  BY <1>1, <1>2 DEF DInv, Own
<1> QED BY <1>3, <1>4, <1>5 DEF DInv

\* The last line of the dialogue leaves nothing behind.
LEMMA CloseDInv ==
  ASSUME IInv, DInv, smtp_send_close
  PROVE  DInv'
<1>1. /\ Reply("CLOSE", {"221 "}) /\ state' = "READY"
      /\ UNCHANGED <<mail, link, net, inbox, srv, asked, open>>
  BY DEF smtp_send_close, netVars, histVars
<1>2. "221 " \in Finals
  BY DEF Finals, Codes
<1>3. state = "CLOSE" /\ ~Quiet /\ Quiet'
  <2>1. /\ state = "CLOSE" /\ inbuf[0] \in {"221 "} /\ ~Quiet
        /\ inbuf[0] \in Finals => Quiet'
    BY <1>1, ReplyTakes, Zenon
  <2> QED BY <1>2, <2>1
<1>4. inbox' = << >>
  BY <1>1, <1>3 DEF DInv, Alone
<1>5. Alone' /\ Turns'
  BY <1>1, <1>3, <1>4 DEF DInv, Alone, Turns, Dialog
<1>6. Own'
  BY <1>1, <1>3 DEF DInv, Own, Dialog
<1> QED BY <1>5, <1>6 DEF DInv

\* Each reply handler keeps client and server in step.
LEMMA HandlerDInv ==
  ASSUME IInv, Busy, DInv, Handler, ~Wild
  PROVE  DInv'
<1>1. CASE Incomplete
  BY <1>1, SameDialogue DEF Incomplete, netVars, histVars
<1>2. CASE Rejected
  <2>1. /\ state' = "FAILED" /\ UNCHANGED <<mail, inbuf, inbufused, link, net, inbox, srv, asked, open>>
        /\ state \in Dialog /\ ~Quiet
    BY <1>2 DEF Rejected, FailAndKill, netVars, histVars, IInv, Typed, Busy, Quiet
  <2>2. inbox = << >> \/ inbox = << <<"ehlo">> >>
    BY <2>1 DEF DInv, Alone
  <2>3. link' # "opening"
    BY <2>1 DEF DInv, Turns, Dialog
  <2> QED BY <2>1, <2>2, <2>3, FailedDInv
<1>3. CASE GreetLine
  BY <1>3, GreetDInv
<1>4. CASE smtp_send_close
  BY <1>4, CloseDInv
<1> QED BY <1>1, <1>2, <1>3, <1>4, ChainDInv DEF Handler, smtp_send_greet

\* A reset starts from nothing.
LEMMA ResetDInv ==
  ASSUME DInv \/ Astray, Reset
  PROVE  DInv'
<1>1. /\ state' = "READY" /\ inbox' = << >> /\ Quiet' /\ link' = "down" /\ open' = FALSE
      /\ UNCHANGED <<srv, asked>>
  BY DEF Reset, Disconnected, Quiet
<1>2. Alone' /\ Turns'
  BY <1>1 DEF Alone, Turns, Dialog
<1>3. Own'
  BY <1>1 DEF DInv, Astray, Own, Dialog
<1> QED BY <1>2, <1>3 DEF DInv

\* An argument that is too long changes the fields of a mail that nobody sends.
LEMMA RefusedDInv ==
  ASSUME IInv, DInv, NEW m \in Mail, SendRefused(m)
  PROVE  DInv'
<1>1. /\ state = "READY" /\ UNCHANGED <<state, inbuf, inbufused, link, net, inbox, srv, asked, open>>
  BY DEF SendRefused, Free, netVars, histVars
<1>2. Alone' /\ Turns'
  BY <1>1 DEF DInv, Alone, Turns, Quiet, Dialog
<1>3. Own'
  BY <1>1 DEF DInv, Own, Dialog
<1> QED BY <1>2, <1>3 DEF DInv

\* Every step but a wrap keeps client and server in step.
LEMMA NextDInv ==
  ASSUME IInv, Busy, DInv, Next, ~Wild
  PROVE  DInv'
<1>1. CASE smtp_send_kill
  <2>1. UNCHANGED <<state, mail, inbuf, inbufused, asked, open>> /\ (Disconnected \/ UNCHANGED netVars)
    BY <1>1 DEF smtp_send_kill, histVars
  <2> QED BY <2>1, CutDInv, SameDialogue DEF netVars
<1>2. CASE LinkLost \/ ServerCloses
  BY <1>2, CutDInv DEF LinkLost, ServerCloses, stateVars, histVars
<1>3. CASE \E m \in Mail : SendRefused(m) \/ smtp_send(m)
  BY <1>3, RefusedDInv, SendDInv
<1>4. CASE \E n \in 1 .. Len(net) : smtp_send_recv_cb(n)
  BY <1>4, RecvDInv
<1> QED BY <1>1, <1>2, <1>3, <1>4, DnsDInv, ConnDInv, ServeDInv, HandlerDInv, ResetDInv
        DEF Next, Network

\* A wrap comes when there is data, and then no command but "ehlo" is on its way.
LEMMA WildDialogue ==
  ASSUME IInv, Busy, DInv, Wild
  PROVE  Astray'
<1>1. ~Quiet /\ state \in Dialog /\ UNCHANGED <<asked, srv, inbox>>
  BY DEF Wild, Busy, Quiet, IInv, Typed, netVars, histVars
<1> QED BY <1>1 DEF DInv, Alone, Own, Astray

\* The invariant of the dialogue.
THEOREM DInvHolds == Spec => [](Whole /\ Dialogue)
<1>1. Init => Dialogue
  BY InitDInv DEF Init, Dialogue
<1>2. Whole /\ Whole' /\ Dialogue /\ [Next]_vars => Dialogue'
  <2> SUFFICES ASSUME Whole, Dialogue, [Next]_vars PROVE Dialogue'
    OBVIOUS
  <2>1. CASE Reset
    <3>1. pc' = "idle"
      BY <2>1 DEF Reset
    <3> QED BY <2>1, <3>1, ResetDInv DEF Dialogue
  <2>2. CASE Wild
    BY <2>2, WildDialogue DEF Wild, Whole, Dialogue
  <2>3. CASE Next /\ ~Reset /\ ~Wild
    <3>1. pc # "wild" /\ pc' # "wild"
      BY <2>3, AfterWild, NotWild
    <3>2. IInv /\ Busy /\ DInv
      BY <3>1 DEF Whole, Dialogue
    <3> QED BY <2>3, <3>1, <3>2, NextDInv DEF Dialogue
  <2>4. CASE UNCHANGED vars
    <3>1. CASE pc # "wild"
      BY <2>4, <3>1, SameDialogue DEF vars, stateVars, netVars, histVars, Dialogue
    <3>2. CASE pc = "wild"
      BY <2>4, <3>2 DEF vars, stateVars, netVars, histVars, Dialogue, Astray
    <3> QED BY <3>1, <3>2
  <2> QED BY <2>1, <2>2, <2>3, <2>4
<1> QED BY <1>1, <1>2, WholeHolds, PTL DEF Spec

\* The client does not talk out of turn: behind "ehlo", a command goes out alone, and
\* only when all that the server has said was received and taken out of inbuf.
THEOREM TalksInTurn == Spec => []InTurn
<1>1. Dialogue => InTurn
  <2> SUFFICES ASSUME Dialogue, inbox # << >>
               PROVE  Len(inbox) = 1 /\ (inbox[1] = <<"ehlo">> \/ Quiet)
    BY DEF InTurn, Quiet
  <2>1. CASE inbox = << <<"ehlo">> >>
    BY <2>1, Single
  <2>2. CASE inbox # << <<"ehlo">> >>
    <3>0. DInv
      BY <2>2 DEF Dialogue, Astray
    <3>1. Quiet
      BY <2>2, <3>0 DEF DInv, Alone
    <3>2. \E c : inbox = <<c>>
      BY <2>2, <3>0, Zenon DEF DInv, Alone
    <3> QED BY <3>1, <3>2, Single
  <2> QED BY <2>1, <2>2
<1> QED BY <1>1, DInvHolds, PTL

\* smtp_send() implements the at-most-once mail service: a mail is delivered with its
\* own envelope, at most once, and only while it is the last one that was taken on.
THEOREM ServesMail == Spec => Serves
<1>1. Init => MS!Init
  BY DEF Init, MS!Init
<1>2. ASSUME Whole, Dialogue, [Next]_vars PROVE [MS!Next]_MS!mvars
  <2>0. Idle => IInv /\ DInv
    BY <1>2 DEF Idle, Whole, Dialogue
  <2>1. CASE \E m \in Mail : smtp_send(m)
    <3>1. PICK m \in Mail : smtp_send(m)
      BY <2>1
    <3>2. open = FALSE
      <4>1. state = "READY" /\ Idle
        BY <3>1 DEF smtp_send, Free
      <4> QED BY <2>0, <4>1 DEF DInv, Own
    <3>3. MS!Ask(m)
      BY <3>1, <3>2 DEF smtp_send, MS!Ask
    <3> QED BY <3>3 DEF MS!Next
  <2>2. CASE Serve
    <3>1. CASE UNCHANGED <<got, open>>
      BY <2>2, <3>1 DEF Serve, MS!mvars
    <3>2. CASE /\ Head(inbox)[1] = "message" /\ open' = FALSE
               /\ got' = Append(got, [env |-> srv.env, msg |-> Head(inbox)[2]])
      <4>1. inbox # << >> /\ asked' = asked /\ DInv
        BY <2>0, <2>2 DEF Serve
      <4>2. state = "QUIT" /\ inbox = << <<"message", mail>> >> /\ open = TRUE
        <5>1. /\ \A v : inbox = << <<v>> >> => Head(inbox)[1] = v
              /\ \A v, x : inbox = << <<v, x>> >> => Head(inbox)[1] = v
          <6>1. ASSUME NEW v, inbox = << <<v>> >> PROVE Head(inbox)[1] = v
            BY <6>1
          <6>2. ASSUME NEW v, NEW x, inbox = << <<v, x>> >> PROVE Head(inbox)[1] = v
            BY <6>2
          <6> QED BY <6>1, <6>2
        <5>2. \A v \in {"ehlo", "AUTH", "response", "mail FROM", "rcpt TO", "data", "quit"} : v # Head(inbox)[1]
          BY <3>2
        <5> QED BY <4>1, <5>1, <5>2, Zenon DEF DInv, Alone
      <4>3. Head(inbox)[2] = mail
        BY <4>2
      <4>4. srv.env[1] = mail[1] /\ srv.env[2] = mail[2] /\ mail = asked[Len(asked)]
        BY <4>1, <4>2 DEF DInv, Own, Dialog
      <4>5. srv.env = <<mail[1], mail[2]>>
        <5>1. srv.env = <<srv.env[1], srv.env[2]>>
          BY <4>1 DEF DInv, Own
        <5> QED BY <4>4, <5>1
      <4>6. MS!Deliver
        BY <3>2, <4>1, <4>2, <4>3, <4>4, <4>5 DEF MS!Deliver
      <4> QED BY <4>6 DEF MS!Next
    <3> QED BY <2>2, <3>1, <3>2 DEF Serve
  <2>3. CASE Reset
    <3>1. open' = FALSE /\ UNCHANGED <<asked, got>>
      BY <2>3 DEF Reset
    <3>2. open = TRUE \/ open = FALSE
      BY <1>2 DEF Whole, Counted
    <3> QED BY <3>1, <3>2 DEF MS!Next, MS!Lose, MS!mvars
  <2>4. CASE \/ \E m \in Mail : SendRefused(m)
             \/ smtp_send_kill \/ smtp_send_dns \/ smtp_send_conn_cb \/ ServerCloses \/ LinkLost
             \/ \E n \in 1 .. Len(net) : smtp_send_recv_cb(n)
             \/ Handler \/ UNCHANGED vars
    <3>0. Wild => UNCHANGED <<asked, got, open>>
      BY DEF Wild, histVars
    <3>1. UNCHANGED <<asked, got, open>>
      BY <2>4, <3>0 DEF SendRefused, smtp_send_kill, smtp_send_dns, smtp_send_conn_cb, ServerCloses, LinkLost,
         smtp_send_recv_cb, histVars, vars, Handler, Incomplete, Rejected, smtp_send_greet,
         GreetLine, smtp_send_challenge, smtp_send_auth, smtp_send_from, smtp_send_to,
         smtp_send_data, smtp_send_quit, smtp_send_close, Command
    <3> QED BY <3>1 DEF MS!mvars
  <2> QED BY <1>2, <2>1, <2>2, <2>3, <2>4 DEF Next, Network
<1> QED BY <1>1, <1>2, DInvHolds, PTL DEF Spec, Serves, MS!Spec

=============================================================================
