--------------------------- MODULE OtaPushProofs ---------------------------
(***************************************************************************)
(* Over-the-air updates, for every flash and sector size, every set of     *)
(* uploads and every segmentation, with any number of clients, flash       *)
(* faults and power losses: what an upload writes, what a 202 says, what   *)
(* is booted, which uploads are accepted, and that a call ends.            *)
(***************************************************************************)
EXTENDS OtaPush, SequenceTheorems, TLAPS

Content == Unit \cup {STALE}

\* The part of the type invariant that the argument needs.
Typed ==
  /\ up \in [Clients -> Uploads \cup {NULL}]
  /\ postused \in [Clients -> Nat] /\ sent \in [Clients -> Nat]
  /\ buf \in [Clients -> Seq(Content)]
  /\ secbuf \in Seq(Content)
  /\ beg \in Nat /\ cur \in Nat
  /\ boot \in {1, 2}
  /\ pc # "idle" => who \in Clients /\ up[who] # NULL

\* The sectors flushed so far and the sector buffer are what was taken of the body.
Account(c) == (cur - beg) * SEC + Len(secbuf) = postused[c]

\* otastate is fit for a further part of the upload of c.
Target(c) ==
  /\ owner = c
  /\ beg = UserAddr(3 - boot) /\ cur >= beg
  /\ postlen(c) <= MaxApp * SEC /\ postused[c] <= postlen(c)

Ready(c) == Target(c) /\ (Rest(c) > 0 => Account(c) /\ Len(secbuf) <= SEC)

\* A client that owns otastate finds it ready, also behind a flash operation that
\* failed; inside the loop it is ready; at a flash operation the buffer holds the next
\* sector.
Progress ==
  /\ \A c \in Clients : up[c] = NULL => postused[c] = 0
  /\ \A c \in Clients : owner = c /\ postused[c] > 0 => Ready(c)
  /\ pc = "loop" => Ready(who)
  /\ pc \in {"erase", "write"} =>
       /\ Target(who) /\ Account(who)
       /\ Len(secbuf) \in 1 .. SEC
       /\ Len(secbuf) = SEC \/ Rest(who) = 0

IInv == Typed /\ Progress

Confined == \A a \in Sectors : flash'[a] # flash[a] => a \in AppArea(3 - boot)

-----------------------------------------------------------------------------
\* Lengths of images are natural numbers.
LEMMA UploadTypes ==
  ASSUME NEW u \in Uploads
  PROVE  u.img \in Seq(Unit) /\ Len(u.img) \in Nat /\ u.trailing \in Nat
BY OtaConstants

\* The application areas lie within the flash and apart from each other, from the
\* user params (three sectors, from size_kb/2 - 12 KB) and from the SDK's data at
\* the end of the flash (four sectors).
THEOREM LayoutDisjoint ==
  /\ AppArea(1) \subseteq Sectors /\ AppArea(2) \subseteq Sectors
  /\ AppArea(1) \cap AppArea(2) = {}
  /\ \A n \in {1, 2} : /\ AppArea(n) \cap (HALF - 3 .. HALF - 1) = {}
                       /\ AppArea(n) \cap (2 * HALF - 4 .. 2 * HALF - 1) = {}
BY OtaConstants DEF AppArea, Sectors, UserAddr, USER1, USER2, MaxApp

\* At a flash operation the sector is inside the application area of the partition
\* that is not running.
LEMMA TargetInArea ==
  ASSUME IInv, pc \in {"erase", "write"}
  PROVE  cur \in AppArea(3 - boot)
<1>1. who \in Clients /\ up[who] \in Uploads /\ Target(who) /\ Account(who)
  BY OtaConstants DEF IInv, Typed, Progress
<1>2. Len(secbuf) \in Nat \ {0} /\ postused[who] \in Nat /\ postlen(who) \in Nat
  BY <1>1, UploadTypes DEF IInv, Typed, Progress, postlen
<1>3. (cur - beg) * SEC < MaxApp * SEC
  BY <1>1, <1>2, OtaConstants DEF Account, Target, IInv, Typed, MaxApp
<1>4. cur - beg < MaxApp
  BY <1>3, OtaConstants DEF IInv, Typed, MaxApp
<1> QED BY <1>1, <1>4, OtaConstants DEF AppArea, Target, IInv, Typed, MaxApp

\* Nothing is owned when the device starts.
LEMMA InitIInv == Init => IInv
BY OtaConstants DEF Init, RamInit, IInv, Typed, Progress

\* A segment is appended to the buffer or dropped.
LEMMA ReceiveTypes ==
  ASSUME Typed, NEW c \in Clients, NEW u \in Uploads, NEW n \in Chunks,
         NEW have \in Seq(Content), NEW done \in Nat, Receive(c, u, n, have, done)
  PROVE  buf' \in [Clients -> Seq(Content)] /\ sent' \in [Clients -> Nat]
<1>1. Stream(u) \in Seq(Content)
  <2>1. u.img \in Seq(Content)
    BY UploadTypes DEF Content
  <2>2. [i \in 1 .. u.trailing |-> STALE] \in Seq(Content)
    BY UploadTypes DEF Content
  <2> QED BY <2>1, <2>2 DEF Stream
<1>2. n \in Nat
  BY OtaConstants
<1>3. SubSeq(Stream(u), done + 1, done + n) \in Seq(Content)
  BY <1>1, <1>2, SubSeqProperties DEF Receive
<1>4. have \o SubSeq(Stream(u), done + 1, done + n) \in Seq(Content)
  BY <1>3
<1> QED BY <1>2, <1>4 DEF Receive, Typed

\* The peers' steps leave otastate alone and start a call only where it may start.
LEMMA PeersKeep ==
  ASSUME IInv, NEW c \in Clients,
         \/ \E u \in Uploads, n \in Chunks : Connect(c, u, n)
         \/ \E n \in Chunks : Data(c, n)
         \/ Close(c)
  PROVE  IInv'
<1> USE DEF IInv
<1>1. ASSUME NEW u \in Uploads, NEW n \in Chunks, Connect(c, u, n) PROVE IInv'
  <2>1. buf' \in [Clients -> Seq(Content)] /\ sent' \in [Clients -> Nat]
    <3>1. << >> \in Seq(Content)
      OBVIOUS
    <3> QED BY <1>1, <3>1, ReceiveTypes DEF Connect
  <2>2. /\ pc = "idle" /\ up[c] = NULL /\ up' = [up EXCEPT ![c] = u] /\ u # NULL
        /\ UNCHANGED <<postused, owner, beg, cur, secbuf, boot>>
        /\ (pc' = "enter" /\ who' = c) \/ (pc' = "idle")
    BY <1>1, OtaConstants DEF Connect, otaVars, Receive
  <2>3. Typed'
    BY <2>1, <2>2 DEF Typed
  <2>4. Progress'
    BY <2>2 DEF Typed, Progress, Ready, Target, Account, Rest, postlen
  <2> QED BY <2>3, <2>4
<1>2. ASSUME NEW n \in Chunks, Data(c, n) PROVE IInv'
  <2>1. up[c] \in Uploads /\ buf[c] \in Seq(Content) /\ sent[c] \in Nat
    BY <1>2 DEF Data, Typed
  <2>2. buf' \in [Clients -> Seq(Content)] /\ sent' \in [Clients -> Nat]
    BY <1>2, <2>1, ReceiveTypes DEF Data
  <2>3. /\ pc = "idle" /\ up[c] # NULL
        /\ UNCHANGED <<up, postused, owner, beg, cur, secbuf, boot>>
        /\ (pc' = "enter" /\ who' = c) \/ (pc' = "idle")
    BY <1>2 DEF Data, otaVars, Receive
  <2>4. Typed'
    BY <2>2, <2>3 DEF Typed
  <2>5. Progress'
    BY <2>3 DEF Typed, Progress, Ready, Target, Account, Rest, postlen
  <2> QED BY <2>4, <2>5
<1>3. CASE Close(c)
  <2>1. Typed'
    BY <1>3 DEF Close, otaVars, callVars, Typed
  <2>2. Progress'
    BY <1>3 DEF Close, otaVars, callVars, Typed, Progress, Ready, Target, Account, Rest, postlen
  <2> QED BY <2>1, <2>2
<1> QED BY <1>1, <1>2, <1>3

\* The start of a call: the upload begins, goes on, or is refused.
LEMMA EnterKeeps ==
  ASSUME IInv, Begin \/ Resume
  PROVE  IInv'
<1> USE DEF IInv
<1>1. who \in Clients /\ up[who] \in Uploads /\ up[who] # NULL /\ postlen(who) \in Nat
  BY UploadTypes DEF Begin, Resume, Typed, postlen
<1>2. UserAddr(3 - boot) \in Nat
  BY OtaConstants DEF UserAddr, USER1, USER2, Typed
<1>3. CASE Begin
  <2>1. /\ pc = "enter" /\ postused[who] = 0 /\ owner' = who
        /\ UNCHANGED <<up, sent, buf, postused, boot>>
    BY <1>3 DEF Begin
  <2>2. CASE Acceptable(who)
    <3>1. /\ beg' = UserAddr(3 - boot) /\ cur' = beg' /\ secbuf' = << >>
          /\ pc' = "loop" /\ who' = who
          /\ postlen(who) <= MaxApp * SEC
      BY <1>3, <2>2 DEF Begin, Acceptable, NewUpload, locals
    <3>2. Typed'
      BY <1>1, <1>2, <2>1, <3>1 DEF Typed
    <3>3. (cur' - beg') * SEC + Len(secbuf') = 0 /\ Len(secbuf') <= SEC
      BY <1>2, <3>1, OtaConstants
    <3>4. Ready(who)'
      BY <1>1, <1>2, <2>1, <3>1, <3>3, OtaConstants DEF Ready, Target, Account, Rest, postlen
    <3>5. Progress'
      BY <1>1, <2>1, <3>1, <3>4 DEF Progress, Typed
    <3> QED BY <3>2, <3>5
  <2>3. CASE ~Acceptable(who)
    <3>1. /\ pc' = "idle"
          /\ beg' \in Nat /\ cur' \in Nat /\ secbuf' \in Seq(Content)
      <4>1. pc' = "idle"
        BY <1>3, <2>3 DEF Begin, Return, Leave
      <4>2. CASE SupportedMap
        BY <1>2, <1>3, <4>1, <4>2 DEF Begin, NewUpload
      <4>3. CASE ~SupportedMap
        BY <1>3, <4>1, <4>3 DEF Begin, Typed
      <4> QED BY <4>1, <4>2, <4>3
    <3>2. Typed'
      BY <2>1, <3>1 DEF Typed
    <3>3. Progress'
      BY <1>1, <2>1, <3>1 DEF Progress, Typed
    <3> QED BY <3>2, <3>3
  <2> QED BY <2>2, <2>3
<1>4. CASE Resume
  <2>1. /\ pc = "enter" /\ postused[who] > 0
        /\ UNCHANGED <<up, sent, buf, postused, owner, beg, cur, secbuf, boot>>
        /\ \/ owner = who /\ pc' = "loop" /\ who' = who
           \/ pc' = "idle"
    BY <1>4 DEF Resume, Return, Leave, otaVars, locals
  <2>2. Typed'
    BY <1>1, <2>1 DEF Typed
  <2>3. Progress'
    BY <1>1, <2>1 DEF Typed, Progress, Ready, Target, Account, Rest, postlen
  <2> QED BY <2>2, <2>3
<1> QED BY <1>3, <1>4

\* One turn of the loop moves ChunkLen units from the buffer to the sector buffer.
LEMMA CopyKeeps ==
  ASSUME IInv, Copy
  PROVE  IInv'
<1> USE DEF IInv
<1>1. /\ who \in Clients /\ up[who] \in Uploads /\ postlen(who) \in Nat
      /\ postused[who] \in Nat /\ pc = "loop"
      /\ Target(who) /\ Account(who) /\ Len(secbuf) <= SEC
      /\ buf[who] \in Seq(Content) /\ Len(buf[who]) \in Nat \ {0}
      /\ secbuf \in Seq(Content) /\ Len(secbuf) \in Nat
      /\ Rest(who) \in Nat \ {0}
  <2>1. /\ who \in Clients /\ up[who] \in Uploads /\ pc = "loop" /\ Rest(who) > 0
        /\ Len(buf[who]) > 0 /\ Ready(who)
    BY DEF Copy, Typed, Progress
  <2>2. /\ postused[who] \in Nat /\ buf[who] \in Seq(Content) /\ secbuf \in Seq(Content)
    BY <2>1 DEF Typed
  <2>3. postlen(who) \in Nat
    BY <2>1, UploadTypes DEF postlen
  <2>4. Rest(who) \in Nat \ {0}
    BY <2>1, <2>2, <2>3 DEF Rest
  <2>5. Target(who) /\ Account(who) /\ Len(secbuf) <= SEC
    BY <2>1 DEF Ready
  <2> QED BY <2>1, <2>2, <2>3, <2>4, <2>5
<1> DEFINE len == ChunkLen
<1>2. /\ len \in Nat /\ len <= Len(buf[who]) /\ len <= Rest(who) /\ len <= SEC - Len(secbuf)
      /\ len > 0 \/ Len(secbuf) = SEC
  BY <1>1, OtaConstants DEF ChunkLen, MIN
<1>3. /\ secbuf' = secbuf \o SubSeq(buf[who], 1, len)
      /\ buf' = [buf EXCEPT ![who] = SubSeq(buf[who], len + 1, Len(buf[who]))]
      /\ postused' = [postused EXCEPT ![who] = postused[who] + len]
      /\ UNCHANGED <<up, sent, owner, beg, cur, boot, who>>
      /\ pc' = IF Len(secbuf') = SEC \/ postused'[who] = postlen(who) THEN "erase" ELSE "loop"
  BY DEF Copy, locals
<1> HIDE DEF len
<1>4. /\ SubSeq(buf[who], 1, len) \in Seq(Content) /\ Len(SubSeq(buf[who], 1, len)) = len
      /\ SubSeq(buf[who], len + 1, Len(buf[who])) \in Seq(Content)
  <2>1. \A i \in 1 .. Len(buf[who]) : buf[who][i] \in Content
    BY <1>1
  <2>2. /\ SubSeq(buf[who], 1, len) \in Seq(Content)
        /\ Len(SubSeq(buf[who], 1, len)) = (IF 1 <= len THEN len - 1 + 1 ELSE 0)
    BY <1>1, <1>2, <2>1, SubSeqProperties
  <2>3. SubSeq(buf[who], len + 1, Len(buf[who])) \in Seq(Content)
    BY <1>1, <1>2, <2>1, SubSeqProperties
  <2> QED BY <1>2, <2>2, <2>3
<1>5. secbuf' \in Seq(Content) /\ Len(secbuf') = Len(secbuf) + len
  BY <1>1, <1>3, <1>4
<1>6. postused'[who] = postused[who] + len /\ postused'[who] <= postlen(who) /\ postlen(who)' = postlen(who)
  BY <1>1, <1>2, <1>3 DEF Typed, Rest, postlen
<1>7. Typed'
  BY <1>1, <1>2, <1>3, <1>4, <1>5 DEF Typed
<1>8. Target(who)' /\ Account(who)' /\ Len(secbuf') \in 1 .. SEC
  <2>1. (cur - beg) * SEC \in Int
    BY OtaConstants DEF Typed
  <2> QED BY <1>1, <1>2, <1>3, <1>5, <1>6, <2>1, OtaConstants DEF Target, Account, postlen
<1>9. \A c \in Clients : c # who => postused'[c] = postused[c]
  BY <1>3 DEF Typed
<1>10. Progress'
  <2>1. \A c \in Clients : up'[c] = NULL => postused'[c] = 0
    BY <1>1, <1>3, <1>9, OtaConstants DEF Progress
  <2>2. owner' = who
    BY <1>1, <1>3 DEF Target
  <2>3. Ready(who)'
    BY <1>8, OtaConstants DEF Ready
  <2>4. pc' = "erase" => Len(secbuf') = SEC \/ Rest(who)' = 0
    <3>1. postused'[who'] = postused'[who] /\ postlen(who)' = postlen(who)
      BY <1>3, <1>6
    <3>2. pc' = "erase" => Len(secbuf') = SEC \/ postused'[who'] = postlen(who)'
      BY <1>3, <3>1
    <3> QED BY <1>1, <3>1, <3>2 DEF Rest
  <2> QED BY <1>1, <1>3, <1>8, <2>1, <2>2, <2>3, <2>4 DEF Progress
<1> QED BY <1>7, <1>10

\* Flushing a sector moves on to the next one; a partial sector is the last.
LEMMA FlushKeeps ==
  ASSUME IInv, pc = "write", Flushed
  PROVE  IInv'
<1> USE DEF IInv
<1>1. /\ who \in Clients /\ up[who] \in Uploads /\ postused[who] \in Nat
      /\ Target(who) /\ Account(who) /\ (Len(secbuf) = SEC \/ Rest(who) = 0)
      /\ beg \in Nat /\ cur \in Nat /\ postlen(who) \in Nat
  BY UploadTypes DEF Typed, Progress, postlen
<1>2. /\ UNCHANGED <<up, sent, buf, postused, owner, beg, boot, who>>
      /\ cur' = cur + 1 /\ secbuf' = << >> /\ pc' = "loop"
  BY DEF Flushed, clientVars, locals
<1>3. (cur + 1 - beg) * SEC = (cur - beg) * SEC + SEC /\ (cur - beg) * SEC \in Int
  BY <1>1, OtaConstants
<1>4. Len(secbuf') = 0 /\ secbuf' \in Seq(Content)
  BY <1>2
<1>5. Typed'
  BY <1>1, <1>2, <1>4 DEF Typed
<1>6. Target(who)'
  BY <1>1, <1>2 DEF Target, postlen
<1>7. Rest(who) > 0 => Account(who)'
  BY <1>1, <1>2, <1>3, <1>4, OtaConstants DEF Account, Rest
<1>8. Ready(who)'
  BY <1>2, <1>4, <1>6, <1>7, OtaConstants DEF Ready, Rest, postlen
<1>9. Progress'
  BY <1>1, <1>2, <1>8 DEF Progress, Target
<1> QED BY <1>5, <1>9

\* The other steps of a call move no data.
LEMMA CallKeeps ==
  ASSUME IInv, Erase \/ EraseFails \/ WriteFails \/ More \/ Complete \/ Read \/ ReadFails \/ Decide
  PROVE  IInv'
<1> USE DEF IInv
<1>1. /\ who \in Clients /\ pc # "idle"
      /\ UNCHANGED <<up, sent, buf, postused, owner, beg, cur, secbuf, boot>>
  BY DEF Erase, EraseFails, WriteFails, More, Complete, Read, ReadFails, Decide, FlashFault,
         clientVars, otaVars, Typed
<1>2. \A c \in Clients : /\ Target(c)' = Target(c) /\ Account(c)' = Account(c)
                         /\ Ready(c)' = Ready(c) /\ Rest(c)' = Rest(c)
  BY <1>1 DEF Target, Account, Ready, Rest, postlen
<1>3. \/ pc' = "idle"
      \/ who' = who /\ (pc' = "read" \/ (pc = "erase" /\ pc' = "write"))
  BY DEF Erase, EraseFails, WriteFails, More, Complete, Read, ReadFails, Decide, FlashFault, Return,
         Leave, locals
<1>4. Typed'
  BY <1>1, <1>3 DEF Typed
<1>5. Progress'
  BY <1>1, <1>2, <1>3 DEF Progress, Typed
<1> QED BY <1>4, <1>5

\* A restart forgets everything but the flash.
LEMMA RestartKeeps ==
  ASSUME IInv, Restart, boot' \in {1, 2}
  PROVE  IInv'
BY OtaConstants DEF Restart, Leave, IInv, Typed, Progress

\* IInv is an inductive invariant of the updates.
LEMMA IInvStep == IInv /\ [Next]_vars => IInv'
<1> SUFFICES ASSUME IInv, [Next]_vars PROVE IInv'
  OBVIOUS
<1>1. CASE \E c \in Clients, u \in Uploads, n \in Chunks : Connect(c, u, n)
  BY <1>1, PeersKeep
<1>2. CASE \E c \in Clients, n \in Chunks : Data(c, n)
  BY <1>2, PeersKeep
<1>3. CASE \E c \in Clients : Close(c)
  BY <1>3, PeersKeep
<1>4. CASE Begin \/ Resume
  BY <1>4, EnterKeeps
<1>5. CASE Copy
  BY <1>5, CopyKeeps
<1>6. CASE Write \/ WriteGarbage
  BY <1>6, FlushKeeps DEF Write, WriteGarbage
<1>7. CASE Erase \/ EraseFails \/ WriteFails \/ More \/ Complete \/ Read \/ ReadFails \/ Decide
  BY <1>7, CallKeeps
<1>8. CASE ota_reboot \/ PowerLoss
  <2>1. Restart /\ boot' \in {1, 2}
    BY <1>8 DEF ota_reboot, PowerLoss, IInv, Typed
  <2> QED BY <2>1, RestartKeeps
<1>9. CASE UNCHANGED vars
  BY <1>9 DEF vars, clientVars, otaVars, callVars, locals, IInv, Typed, Progress, Ready, Target, Account,
              Rest, postlen
<1> QED BY <1>1, <1>2, <1>3, <1>4, <1>5, <1>6, <1>7, <1>8, <1>9 DEF Next, Handler

\* What a step of an upload may write.
LEMMA StepConfined ==
  ASSUME IInv, [Next]_vars
  PROVE  Confined
<1> SUFFICES ASSUME NEW a \in Sectors, flash'[a] # flash[a]
             PROVE  a \in AppArea(3 - boot)
  BY DEF Confined
<1>1. Erase \/ Write \/ WriteGarbage
  BY DEF Next, Handler, vars, Connect, Data, Close, Begin, Resume, Copy, EraseFails, WriteFails,
         More, Complete, Read, ReadFails, Decide, ota_reboot, PowerLoss, Restart
<1>2. pc \in {"erase", "write"} /\ \E s : flash' = [flash EXCEPT ![cur] = s]
  BY <1>1 DEF Erase, Write, WriteGarbage
<1>3. a = cur
  BY <1>2
<1> QED BY <1>2, <1>3, TargetInArea

\* WritesConfined: whatever is uploaded and whatever fails, only sectors of the
\* application area of the partition that is not running change.
THEOREM UploadsConfined == Spec => WritesConfined
<1>1. IInv /\ [Next]_vars => [Confined]_vars
  BY StepConfined
<1> QED BY <1>1, InitIInv, IInvStep, PTL DEF Spec, WritesConfined, Confined

-----------------------------------------------------------------------------
(* What is read back.  Once the body is complete, the hash is fed with what *)
(* the flash holds, unit by unit, and compared with what was received.      *)

\* What the hash is fed with.
Bytes == Content \cup {PAD}

Calls == {"loop", "erase", "write", "read"}

\* otastate is about the upload of c.
Bound(c) ==
  /\ owner = c /\ beg = UserAddr(3 - boot)
  /\ appsize = postlen(c) /\ appsize <= MaxApp * SEC

Kept ==
  /\ flash \in [Sectors -> Seq(Content)]
  /\ sha \in Seq(Bytes)
  /\ addr \in Nat /\ appsize \in Nat
  /\ verdicts \in [Clients -> SUBSET {202, 400}]
  /\ \A c \in Clients : up[c] = NULL => verdicts[c] = {}
  /\ \A c \in Clients : owner = c /\ postused[c] > 0 => Bound(c)
  /\ pc \in Calls => Bound(who)

\* The part of the application that was read so far.
ReadBack ==
  pc = "read" =>
    /\ Rest(who) = 0 /\ addr >= beg /\ sha \in Seq(Content)
    /\ Len(sha) = MIN((addr - beg) * SEC, appsize)
    /\ \A i \in 1 .. Len(sha) : sha[i] = UnitOf(3 - boot, i)

KInv == Kept /\ ReadBack

\* Division by the size of a sector.
LEMMA DivMod ==
  ASSUME NEW d \in Nat \ {0}, NEW k \in Nat, NEW r \in Nat, r < d
  PROVE  (k * d + r) \div d = k /\ (k * d + r) % d = r
OBVIOUS

\* A quotient is bounded when the dividend is.
LEMMA DivLess ==
  ASSUME NEW d \in Nat \ {0}, NEW a \in Nat, NEW k \in Nat, a < k * d
  PROVE  a \div d \in Nat /\ a \div d < k
OBVIOUS

\* At the start the flash holds the factory image and no call is under way.
LEMMA InitKInv == Init => KInv
<1> SUFFICES ASSUME Init PROVE KInv
  OBVIOUS
<1>1. flash \in [Sectors -> Seq(Content)]
  <2>1. \A a \in Sectors : SectorOf(Factory, a, USER1) \in Seq(Content)
    <3> TAKE a \in Sectors
    <3>1. Factory \in Seq(Content)
      BY OtaConstants DEF Content
    <3>2. a \in Int /\ USER1 \in Int /\ Len(Factory) \in Nat /\ SEC \in Nat \ {0}
      BY <3>1, OtaConstants DEF Sectors, USER1
    <3> DEFINE n == (a - USER1) * SEC
    <3>3. n \in Int /\ (a >= USER1 => n \in Nat)
      BY <3>2 DEF USER1
    <3> HIDE DEF n
    <3>4. CASE a < USER1 \/ n >= Len(Factory)
      BY <3>4 DEF SectorOf, n
    <3>5. CASE ~(a < USER1 \/ n >= Len(Factory))
      <4>1. SectorOf(Factory, a, USER1) = SubSeq(Factory, n + 1, MIN(n + SEC, Len(Factory)))
        BY <3>5 DEF SectorOf, n
      <4>2. n \in Nat /\ MIN(n + SEC, Len(Factory)) \in 0 .. Len(Factory)
        BY <3>2, <3>3, <3>5 DEF MIN
      <4>3. \A i \in n + 1 .. MIN(n + SEC, Len(Factory)) : Factory[i] \in Content
        BY <3>1, <3>2, <4>2
      <4> QED BY <3>1, <4>1, <4>2, <4>3, SubSeqProperties
    <3> QED BY <3>4, <3>5
  <2> QED BY <2>1 DEF Init
<1>2. sha \in Seq(Bytes)
  BY DEF Init, RamInit
<1>3. Kept
  BY <1>1, <1>2 DEF Init, RamInit, Kept, Calls
<1>4. ReadBack
  BY DEF Init, RamInit, ReadBack
<1> QED BY <1>3, <1>4 DEF KInv

\* The peers' steps touch neither otastate nor the flash.
LEMMA PeersKInv ==
  ASSUME IInv, KInv, NEW c \in Clients,
         \/ \E u \in Uploads, n \in Chunks : Connect(c, u, n)
         \/ \E n \in Chunks : Data(c, n)
         \/ Close(c)
  PROVE  KInv'
<1>1. /\ pc = "idle" /\ pc' \in {"idle", "enter"}
      /\ UNCHANGED <<owner, sha, beg, appsize, addr, flash, boot>>
  BY DEF Connect, Data, Close, Receive, otaVars, callVars, locals
<1>2. /\ \A d \in Clients : d # c => up'[d] = up[d] /\ postused'[d] = postused[d] /\ verdicts'[d] = verdicts[d]
      /\ postused'[c] = 0 \/ (up'[c] = up[c] /\ postused'[c] = postused[c])
      /\ verdicts' \in [Clients -> SUBSET {202, 400}]
      /\ up'[c] = NULL => verdicts'[c] = {}
  <2>1. /\ verdicts \in [Clients -> SUBSET {202, 400}] /\ (\A d \in Clients : up[d] = NULL => verdicts[d] = {})
        /\ up \in [Clients -> Uploads \cup {NULL}] /\ postused \in [Clients -> Nat]
        /\ (\A d \in Clients : up[d] = NULL => postused[d] = 0)
    BY DEF IInv, Typed, Progress, KInv, Kept
  <2>2. ASSUME NEW u \in Uploads, NEW n \in Chunks, Connect(c, u, n)
        PROVE  /\ up[c] = NULL /\ up' = [up EXCEPT ![c] = u] /\ UNCHANGED <<postused, verdicts>> /\ u # NULL
    BY <2>2, OtaConstants DEF Connect
  <2>3. ASSUME NEW n \in Chunks, Data(c, n) PROVE UNCHANGED <<up, postused, verdicts>>
    BY <2>3 DEF Data
  <2>4. ASSUME Close(c)
        PROVE  /\ up' = [up EXCEPT ![c] = NULL] /\ postused' = [postused EXCEPT ![c] = 0]
               /\ verdicts' = [verdicts EXCEPT ![c] = {}]
    BY <2>4 DEF Close
  <2>5. CASE \E u \in Uploads, n \in Chunks : Connect(c, u, n)
    BY <2>1, <2>2, <2>5
  <2>6. CASE \E n \in Chunks : Data(c, n)
    BY <2>1, <2>3, <2>6
  <2>7. CASE Close(c)
    BY <2>1, <2>4, <2>7
  <2> QED BY <2>5, <2>6, <2>7
<1>3. Kept'
  BY <1>1, <1>2 DEF KInv, Kept, Bound, postlen, Calls
<1>4. ReadBack'
  BY <1>1 DEF ReadBack
<1> QED BY <1>3, <1>4 DEF KInv

\* A response is a 202 or a 400.
LEMMA ReturnTypes ==
  ASSUME Kept, who \in Clients, up[who] # NULL, NEW code \in {202, 400}, Return(code)
  PROVE  /\ verdicts' \in [Clients -> SUBSET {202, 400}]
         /\ pc' = "idle" /\ addr' = 0
         /\ \A c \in Clients : verdicts'[c] = verdicts[c] \cup (IF c = who THEN {code} ELSE {})
         /\ \A c \in Clients : c # who => verdicts'[c] = verdicts[c]
         /\ verdicts'[who] = verdicts[who] \cup {code}
         /\ \A c \in Clients : up[c] = NULL => verdicts'[c] = {}
BY DEF Return, Leave, Kept

\* The start of a call.
LEMMA EnterKInv ==
  ASSUME IInv, KInv, Begin \/ Resume
  PROVE  KInv'
<1>1. who \in Clients /\ up[who] \in Uploads /\ up[who] # NULL /\ postlen(who) \in Nat /\ pc = "enter"
  BY UploadTypes DEF IInv, Begin, Resume, Typed, postlen
<1>2. /\ Kept /\ UNCHANGED <<up, postused, flash, boot>> /\ addr' \in Nat
      /\ (pc' = "loop" /\ who' = who) \/ pc' = "idle"
  BY DEF Begin, Resume, KInv, Kept, Return, Leave, locals
<1>3. ReadBack'
  BY <1>2 DEF ReadBack
<1>4. /\ verdicts' \in [Clients -> SUBSET {202, 400}]
      /\ \A c \in Clients : up'[c] = NULL => verdicts'[c] = {}
  <2>1. CASE Return(400)
    BY <1>1, <1>2, <2>1, ReturnTypes
  <2>2. CASE UNCHANGED verdicts
    BY <1>2, <2>2 DEF Kept
  <2> QED BY <2>1, <2>2 DEF Begin, Resume
<1>5. CASE Begin
  <2>1. postused[who] = 0 /\ owner' = who /\ sha' = << >> /\ (Acceptable(who) \/ pc' = "idle")
    BY <1>5 DEF Begin, Return, Leave
  <2>2. appsize' \in Nat
    BY <1>1, <1>2, <1>5 DEF Begin, NewUpload, Kept
  <2>3. Acceptable(who) => Bound(who)'
    BY <1>1, <1>2, <1>5 DEF Begin, NewUpload, Acceptable, Bound, postlen
  <2>4. sha' \in Seq(Bytes)
    BY <2>1
  <2>5. Kept'
    BY <1>1, <1>2, <1>4, <2>1, <2>2, <2>3, <2>4 DEF Kept, Calls
  <2> QED BY <1>3, <2>5 DEF KInv
<1>6. CASE Resume
  <2>1. /\ postused[who] > 0 /\ UNCHANGED <<owner, sha, beg, appsize>> /\ (owner = who \/ pc' = "idle")
    BY <1>6 DEF Resume, Return, Leave, otaVars
  <2>2. Kept'
    BY <1>1, <1>2, <1>4, <2>1 DEF Kept, Calls, Bound, postlen
  <2> QED BY <1>3, <2>2 DEF KInv
<1> QED BY <1>5, <1>6

\* The steps of the loop and the flash operations.
LEMMA LoopKInv ==
  ASSUME IInv, KInv, Copy \/ Erase \/ Write \/ WriteGarbage \/ More
  PROVE  KInv'
<1>1. /\ who \in Clients /\ up[who] # NULL /\ pc \in {"loop", "erase", "write"} /\ Kept /\ Bound(who)
      /\ secbuf \in Seq(Content) /\ flash \in [Sectors -> Seq(Content)] /\ sha \in Seq(Bytes)
      /\ postused \in [Clients -> Nat]
  BY DEF IInv, Typed, Copy, Erase, Write, WriteGarbage, More, KInv, Kept, Calls
<1>2. /\ UNCHANGED <<up, owner, beg, appsize, boot, verdicts>> /\ addr' \in Nat
      /\ (pc' \in {"loop", "erase", "write"} /\ who' = who) \/ pc' = "idle"
  BY <1>1 DEF Kept, Copy, Erase, Write, WriteGarbage, Flushed, More, Leave, clientVars, otaVars,
              histVars, locals
<1>3. ReadBack'
  BY <1>2 DEF ReadBack
<1>4. \A c \in Clients : postused'[c] > 0 => postused[c] > 0 \/ c = who
  <2>1. CASE Copy
    BY <1>1, <2>1 DEF Copy
  <2>2. CASE Erase \/ Write \/ WriteGarbage \/ More
    BY <2>2 DEF Erase, Write, WriteGarbage, Flushed, More, clientVars
  <2> QED BY <2>1, <2>2
<1>5. flash' \in [Sectors -> Seq(Content)]
  <2>1. << >> \in Seq(Content) /\ [n \in 1 .. Len(secbuf) |-> STALE] \in Seq(Content)
    BY <1>1 DEF Content
  <2>2. flash' = flash \/ \E s \in Seq(Content) : flash' = [flash EXCEPT ![cur] = s]
    BY <1>1, <2>1, Zenon DEF Copy, Erase, Write, WriteGarbage, More
  <2> QED BY <1>1, <2>2
<1>6. sha' \in Seq(Bytes)
  <2>1. secbuf \in Seq(Bytes)
    BY <1>1 DEF Bytes
  <2>2. sha' = sha \/ sha' = sha \o secbuf
    BY DEF Copy, Erase, Write, WriteGarbage, Flushed, More, otaVars
  <2>3. sha \o secbuf \in Seq(Bytes)
    BY <1>1, <2>1
  <2> QED BY <1>1, <2>2, <2>3, Zenon
<1>7. Kept'
  <2>1. \A c \in Clients : Bound(c)' = Bound(c)
    BY <1>2 DEF Bound, postlen
  <2> QED BY <1>1, <1>2, <1>4, <1>5, <1>6, <2>1 DEF Kept, Calls
<1> QED BY <1>3, <1>7 DEF KInv

\* The body is complete, and nothing was read yet.
LEMMA CompleteKInv ==
  ASSUME IInv, KInv, Complete
  PROVE  KInv'
<1>1. /\ pc = "loop" /\ Rest(who) = 0 /\ who \in Clients /\ Kept /\ Bound(who) /\ beg \in Nat
      /\ UNCHANGED <<up, postused, owner, beg, appsize, who, flash, boot, verdicts>>
      /\ hash1' = Sha256(sha) /\ sha' = << >> /\ addr' = beg /\ pc' = "read"
  BY DEF IInv, Typed, Complete, KInv, Kept, Calls, histVars
<1>2. \A c \in Clients : Bound(c)' = Bound(c) /\ Rest(c)' = Rest(c)
  BY <1>1 DEF Bound, Rest, postlen
<1>3. sha' \in Seq(Bytes) /\ sha' \in Seq(Content) /\ Len(sha') = 0
  BY <1>1
<1>4. Kept'
  BY <1>1, <1>2, <1>3 DEF Kept, Calls
<1>5. MIN((addr' - beg') * SEC, appsize') = 0 /\ addr' >= beg'
  <2>1. addr' - beg' = 0 /\ 0 * SEC = 0 /\ appsize' \in Nat
    BY <1>1, OtaConstants DEF Kept
  <2> QED BY <1>1, <2>1 DEF MIN
<1>6. Rest(who)' = 0
  BY <1>1, <1>2
<1>7. ReadBack'
  BY <1>3, <1>5, <1>6 DEF ReadBack
<1> QED BY <1>4, <1>7 DEF KInv

\* A call that ends: nothing moves but the verdict.
LEMMA EndKInv ==
  ASSUME IInv, KInv, EraseFails \/ WriteFails \/ ReadFails \/ Decide
  PROVE  KInv'
<1>1. /\ who \in Clients /\ up[who] # NULL /\ Kept
      /\ UNCHANGED <<up, postused, owner, beg, appsize, flash, boot>>
      /\ \E code \in {202, 400} : Return(code)
  BY DEF IInv, Typed, EraseFails, WriteFails, ReadFails, Decide, FlashFault, KInv, clientVars, otaVars
<1>2. /\ verdicts' \in [Clients -> SUBSET {202, 400}]
      /\ pc' = "idle" /\ addr' = 0
      /\ \A c \in Clients : up[c] = NULL => verdicts'[c] = {}
  BY <1>1, ReturnTypes
<1>3. sha' \in Seq(Bytes)
  <2>1. PAD \in Bytes
    BY DEF Bytes
  <2>2. sha' = sha \/ sha' = Append(sha, PAD)
    BY DEF EraseFails, WriteFails, ReadFails, Decide, FlashFault, otaVars
  <2>3. sha \in Seq(Bytes)
    BY <1>1 DEF Kept
  <2> QED BY <2>1, <2>2, <2>3
<1>4. \A c \in Clients : Bound(c)' = Bound(c)
  BY <1>1 DEF Bound, postlen
<1>5. Kept'
  BY <1>1, <1>2, <1>3, <1>4 DEF Kept, Calls
<1> QED BY <1>2, <1>5 DEF KInv, ReadBack

\* The units of one sector, seen from the partition.
LEMMA SectorInPartition ==
  ASSUME NEW k \in Nat, NEW j \in 1 .. SEC, NEW n
  PROVE  UnitOf(n, k * SEC + j) =
           IF j <= Len(flash[UserAddr(n) + k]) THEN flash[UserAddr(n) + k][j] ELSE STALE
<1>1. SEC \in Nat \ {0} /\ k * SEC \in Nat
  BY OtaConstants
<1>2. (k * SEC + j) - 1 = k * SEC + (j - 1) /\ j - 1 \in Nat /\ j - 1 < SEC
  BY <1>1
<1>3. (k * SEC + (j - 1)) \div SEC = k /\ (k * SEC + (j - 1)) % SEC = j - 1
  BY <1>1, <1>2, DivMod, Zenon
<1>4. (j - 1) + 1 = j
  OBVIOUS
<1> QED BY <1>2, <1>3, <1>4 DEF UnitOf

\* How much of a sector belongs to the application.
LEMMA ReadLenCounts ==
  ASSUME NEW k \in Nat, k = addr - beg, addr \in Nat, beg \in Nat, appsize \in Nat, k * SEC < appsize
  PROVE  /\ ReadLen \in 1 .. SEC
         /\ k * SEC + ReadLen = MIN((addr + 1 - beg) * SEC, appsize)
         /\ MIN(k * SEC, appsize) = k * SEC
<1>1. SEC \in Nat \ {0} /\ k * SEC \in Nat /\ addr + 1 - beg = k + 1 /\ (k + 1) * SEC = k * SEC + SEC
  BY OtaConstants
<1>2. CASE k * SEC + SEC > appsize
  <2> DEFINE r == appsize - k * SEC
  <2>1. r \in Nat /\ r >= 1 /\ r < SEC /\ appsize = k * SEC + r
    BY <1>1, <1>2
  <2> HIDE DEF r
  <2>2. appsize % SEC = r
    BY <1>1, <2>1, DivMod
  <2>3. ReadLen = r
    BY <1>1, <1>2, <2>2 DEF ReadLen
  <2> QED BY <1>1, <1>2, <2>1, <2>3 DEF MIN
<1>3. CASE ~(k * SEC + SEC > appsize)
  <2>1. ReadLen = SEC
    BY <1>1, <1>3 DEF ReadLen
  <2> QED BY <1>1, <1>3, <2>1 DEF MIN
<1> QED BY <1>2, <1>3

\* The units of a sequence that was appended.
LEMMA Appended ==
  ASSUME NEW S, NEW a \in Seq(S), NEW b \in Seq(S)
  PROVE  /\ a \o b \in Seq(S) /\ Len(a \o b) = Len(a) + Len(b)
         /\ \A i \in 1 .. Len(a) : (a \o b)[i] = a[i]
         /\ \A j \in 1 .. Len(b) : (a \o b)[Len(a) + j] = b[j]
         /\ \A i \in 1 .. Len(a \o b) : i \in 1 .. Len(a) \/ \E j \in 1 .. Len(b) : i = Len(a) + j
<1>1. /\ a \o b \in Seq(S) /\ Len(a \o b) = Len(a) + Len(b) /\ Len(a) \in Nat /\ Len(b) \in Nat
      /\ \A i \in 1 .. Len(a) : (a \o b)[i] = a[i]
      /\ \A j \in 1 .. Len(b) : (a \o b)[Len(a) + j] = b[j]
  OBVIOUS
<1>2. \A i \in 1 .. Len(a \o b) : i \in 1 .. Len(a) \/ \E j \in 1 .. Len(b) : i = Len(a) + j
  <2> TAKE i \in 1 .. Len(a \o b)
  <2>1. CASE ~(i \in 1 .. Len(a))
    <3>1. i - Len(a) \in 1 .. Len(b) /\ i = Len(a) + (i - Len(a))
      BY <1>1, <2>1
    <3> QED BY <3>1
  <2> QED BY <2>1
<1> QED BY <1>1, <1>2

\* One more sector is read.
LEMMA ReadKInv ==
  ASSUME IInv, KInv, Read
  PROVE  KInv'
<1>1. /\ pc = "read" /\ InApp /\ who \in Clients /\ Kept /\ Bound(who)
      /\ sha' = sha \o SectorUnits(addr, ReadLen) /\ addr' = addr + 1
      /\ UNCHANGED <<up, postused, owner, beg, appsize, pc, who, flash, boot, verdicts>>
  BY DEF IInv, Typed, Read, KInv, Kept, Calls, clientVars, histVars
<1>2. /\ Rest(who) = 0 /\ addr >= beg /\ sha \in Seq(Content)
      /\ Len(sha) = MIN((addr - beg) * SEC, appsize)
      /\ \A i \in 1 .. Len(sha) : sha[i] = UnitOf(3 - boot, i)
  BY <1>1 DEF KInv, ReadBack
<1>3. addr \in Nat /\ beg \in Nat /\ appsize \in Nat /\ boot \in {1, 2} /\ flash \in [Sectors -> Seq(Content)]
  BY <1>1 DEF Kept, IInv, Typed
<1>4. PICK k \in Nat : k = addr - beg
  BY <1>2, <1>3
<1>5. k * SEC < appsize
  BY <1>1, <1>4 DEF InApp
<1>6. /\ ReadLen \in 1 .. SEC /\ k * SEC + ReadLen = MIN((addr + 1 - beg) * SEC, appsize)
      /\ Len(sha) = k * SEC
  BY <1>2, <1>3, <1>4, <1>5, ReadLenCounts
<1>7. addr \in Sectors /\ addr = UserAddr(3 - boot) + k
  <2>1. SEC \in Nat \ {0} /\ HALF \in Nat /\ HALF >= 6 /\ MaxApp \in Nat
    BY OtaConstants DEF MaxApp
  <2>2. appsize <= MaxApp * SEC
    BY <1>1 DEF Bound
  <2>3. k < MaxApp
    <3>1. k * SEC \in Nat /\ MaxApp * SEC \in Nat
      BY <2>1
    <3>2. k * SEC < MaxApp * SEC
      BY <1>3, <1>5, <2>2, <3>1
    <3> QED BY <2>1, <3>2
  <2>4. beg = UserAddr(3 - boot) /\ addr = beg + k
    BY <1>1, <1>3, <1>4 DEF Bound
  <2>5. addr \in AppArea(3 - boot)
    BY <1>3, <2>1, <2>3, <2>4 DEF AppArea
  <2>6. AppArea(3 - boot) \subseteq Sectors
    BY <1>3, LayoutDisjoint
  <2> QED BY <2>4, <2>5, <2>6
<1> DEFINE part == SectorUnits(addr, ReadLen)
<1>8. part \in Seq(Content) /\ Len(part) = ReadLen
      /\ \A j \in 1 .. ReadLen : part[j] = IF j <= Len(flash[addr]) THEN flash[addr][j] ELSE STALE
  <2>1. ReadLen \in Nat
    BY <1>6, OtaConstants
  <2>2. \A j \in 1 .. ReadLen : (IF j <= Len(flash[addr]) THEN flash[addr][j] ELSE STALE) \in Content
    <3>1. flash[addr] \in Seq(Content)
      BY <1>3, <1>7
    <3> QED BY <2>1, <3>1 DEF Content
  <2> QED BY <2>1, <2>2 DEF SectorUnits
<1>9. \A j \in 1 .. ReadLen : part[j] = UnitOf(3 - boot, k * SEC + j)
  <2>1. \A j \in 1 .. ReadLen : j \in 1 .. SEC
    BY <1>6, OtaConstants
  <2> QED BY <1>7, <1>8, <2>1, SectorInPartition, Zenon
<1> HIDE DEF part
<1>10. sha' = sha \o part
  BY <1>1 DEF part
<1>11. /\ sha' \in Seq(Content) /\ Len(sha') = Len(sha) + Len(part)
       /\ \A i \in 1 .. Len(sha') : sha'[i] = UnitOf(3 - boot, i)
  <2>1. /\ sha \o part \in Seq(Content) /\ Len(sha \o part) = Len(sha) + Len(part)
        /\ \A i \in 1 .. Len(sha) : (sha \o part)[i] = sha[i]
        /\ \A j \in 1 .. Len(part) : (sha \o part)[Len(sha) + j] = part[j]
        /\ \A i \in 1 .. Len(sha \o part) : i \in 1 .. Len(sha) \/ \E j \in 1 .. Len(part) : i = Len(sha) + j
    <3>1. \A a, b \in Seq(Content) :
            /\ a \o b \in Seq(Content) /\ Len(a \o b) = Len(a) + Len(b)
            /\ \A i \in 1 .. Len(a) : (a \o b)[i] = a[i]
            /\ \A j \in 1 .. Len(b) : (a \o b)[Len(a) + j] = b[j]
            /\ \A i \in 1 .. Len(a \o b) : i \in 1 .. Len(a) \/ \E j \in 1 .. Len(b) : i = Len(a) + j
      BY Appended, Zenon
    <3>2. sha \in Seq(Content) /\ part \in Seq(Content)
      BY <1>2, <1>8
    <3> QED BY <3>1, <3>2, Zenon
  <2>2. \A j \in 1 .. Len(part) : part[j] = UnitOf(3 - boot, Len(sha) + j)
    BY <1>6, <1>8, <1>9
  <2>3. \A i \in 1 .. Len(sha \o part) : (sha \o part)[i] = UnitOf(3 - boot, i)
    <3> TAKE i \in 1 .. Len(sha \o part)
    <3>1. CASE i \in 1 .. Len(sha)
      BY <1>2, <2>1, <3>1, Zenon
    <3>2. CASE \E j \in 1 .. Len(part) : i = Len(sha) + j
      BY <2>1, <2>2, <3>2, Zenon
    <3> QED BY <2>1, <3>1, <3>2, Zenon
  <2> QED BY <1>10, <2>1, <2>3
<1>12. Len(sha') = MIN((addr' - beg') * SEC, appsize')
  <2>1. addr' - beg' = addr + 1 - beg /\ appsize' = appsize
    BY <1>1, <1>3
  <2>2. Len(sha') = k * SEC + ReadLen
    BY <1>6, <1>8, <1>11
  <2> QED BY <1>6, <2>1, <2>2, Zenon
<1>13. \A i : UnitOf(3 - boot, i)' = UnitOf(3 - boot, i)
  BY <1>1 DEF UnitOf
<1>14. ReadBack'
  <2>1. Rest(who)' = 0 /\ addr' >= beg'
    BY <1>1, <1>2, <1>3 DEF Rest, postlen
  <2>2. \A i \in 1 .. Len(sha') : sha'[i] = UnitOf(3 - boot, i)'
    BY <1>11, <1>13
  <2> QED BY <1>11, <1>12, <2>1, <2>2 DEF ReadBack
<1>15. Kept'
  <2>1. \A c \in Clients : Bound(c)' = Bound(c)
    BY <1>1 DEF Bound, postlen
  <2>2. sha' \in Seq(Bytes)
    BY <1>11 DEF Bytes
  <2>3. addr' \in Nat
    BY <1>1, <1>3
  <2> QED BY <1>1, <2>1, <2>2, <2>3 DEF Kept, Calls
<1> QED BY <1>14, <1>15 DEF KInv

\* KInv is inductive.
LEMMA KInvStep == IInv /\ KInv /\ [Next]_vars => KInv'
<1> SUFFICES ASSUME IInv, KInv, [Next]_vars PROVE KInv'
  OBVIOUS
<1>1. CASE \E c \in Clients, u \in Uploads, n \in Chunks : Connect(c, u, n)
  BY <1>1, PeersKInv
<1>2. CASE \E c \in Clients, n \in Chunks : Data(c, n)
  BY <1>2, PeersKInv
<1>3. CASE \E c \in Clients : Close(c)
  BY <1>3, PeersKInv
<1>4. CASE Begin \/ Resume
  BY <1>4, EnterKInv
<1>5. CASE Copy \/ Erase \/ Write \/ WriteGarbage \/ More
  BY <1>5, LoopKInv
<1>6. CASE Complete
  BY <1>6, CompleteKInv
<1>7. CASE Read
  BY <1>7, ReadKInv
<1>8. CASE EraseFails \/ WriteFails \/ ReadFails \/ Decide
  BY <1>8, EndKInv
<1>9. CASE ota_reboot \/ PowerLoss
  <2>1. Restart
    BY <1>9 DEF ota_reboot, PowerLoss
  <2>2. sha' \in Seq(Bytes) /\ flash' = flash
    BY <2>1 DEF Restart
  <2>3. Kept'
    BY <2>1, <2>2 DEF Restart, Leave, KInv, Kept, Calls
  <2> QED BY <2>1, <2>3 DEF Restart, Leave, KInv, ReadBack
<1>10. CASE UNCHANGED vars
  <2>1. UNCHANGED <<up, postused, owner, sha, beg, appsize, pc, who, addr, flash, boot, verdicts>>
    BY <1>10 DEF vars, clientVars, otaVars, callVars, locals, histVars
  <2> QED BY <2>1 DEF KInv, Kept, ReadBack, Calls, Bound, Rest, postlen, UnitOf
<1> QED BY <1>1, <1>2, <1>3, <1>4, <1>5, <1>6, <1>7, <1>8, <1>9, <1>10 DEF Next, Handler

\* In every state that uploads, flash failures and power losses can reach, the flash
\* holds sectors of units, and what a call of http_url_ota_push() has read back is what
\* the partition holds.
THEOREM KInvHolds == Spec => [](IInv /\ KInv)
BY InitIInv, InitKInv, IInvStep, KInvStep, PTL DEF Spec

-----------------------------------------------------------------------------
(* What a 202 says.  Nothing about SHA-256 or RSA can be proved here; what  *)
(* the argument needs of them is a hypothesis of the theorems.              *)

\* The signature of the upload u decrypts to the digest of s.
Signs(u, s) == SignatureOf(u.sig, Sha256(s))

\* The signature of an upload is not that of another image of the same length.
OwnSignature ==
  \A u \in Uploads, s \in Seq(Content) : Len(s) = Len(u.img) /\ Signs(u, s) => s = u.img

\* After a 202 the partition holds the image, until another upload starts.
Settled(c) ==
  202 \in verdicts[c] =>
    /\ Rest(c) = 0
    /\ owner = c /\ 3 - boot \notin blind => Holds(3 - boot, up[c].img)

\* And a client that has its 202 writes no more.
Accepted ==
  /\ \A c \in Clients : Settled(c)
  /\ pc \in {"erase", "write"} => 202 \notin verdicts[who]

\* Where hash1 has no NUL and the signature fits hash3, os_strncmp() compares all.
LEMMA ComparedAll ==
  ASSUME Verified, ~CutShort
  PROVE  SameDigest
<1>1. \A b : strncmpEqual(hash1, b) => hash1 = b
  BY DEF strncmpEqual, CutShort
<1>2. hash1 = Sha256(sha) /\ up[who].sig # NoSig /\ hash1 = hash3(up[who].sig)
  BY <1>1 DEF Verified
<1> QED BY <1>2 DEF SameDigest, SignatureOf, CutShort

\* The verdict: what was read back is what was signed.
LEMMA VerifiedSigned ==
  ASSUME IInv, KInv, pc = "read", ~InApp, SameDigest
  PROVE  /\ sha \in Seq(Content) /\ Len(sha) = postlen(who) /\ Signs(up[who], sha)
         /\ Holds(3 - boot, sha)
<1>1. /\ addr >= beg /\ sha \in Seq(Content)
      /\ Len(sha) = MIN((addr - beg) * SEC, appsize)
      /\ \A i \in 1 .. Len(sha) : sha[i] = UnitOf(3 - boot, i)
  BY DEF KInv, ReadBack
<1>2. addr \in Nat /\ beg \in Nat /\ appsize \in Nat /\ appsize = postlen(who)
  BY DEF IInv, Typed, KInv, Kept, Calls, Bound
<1>3. Len(sha) = postlen(who)
  <2>1. (addr - beg) * SEC \in Int /\ ~((addr - beg) * SEC < appsize)
    BY <1>2, OtaConstants DEF InApp
  <2> QED BY <1>1, <1>2, <2>1 DEF MIN
<1>4. Holds(3 - boot, sha)
  BY <1>1, Zenon DEF Holds
<1>5. Signs(up[who], sha)
  BY Zenon DEF SameDigest, Signs
<1> QED BY <1>1, <1>3, <1>4, <1>5

\* With its own signature that is the image of the upload.
LEMMA VerifiedOwn ==
  ASSUME OwnSignature, IInv, KInv, pc = "read", ~InApp, SameDigest
  PROVE  Holds(3 - boot, up[who].img)
<1>1. up[who] \in Uploads
  BY DEF IInv, Typed
<1>2. sha = up[who].img
  BY <1>1, VerifiedSigned, Zenon DEF OwnSignature, postlen
<1> QED BY <1>2, VerifiedSigned

\* A verdict that is not exempt was given for equal digests.
LEMMA DecideExempts ==
  ASSUME Decide, 3 - boot \notin blind', Verified
  PROVE  SameDigest
<1>1. ~(CutShort /\ ~SameDigest)
  BY DEF Decide
<1> QED BY <1>1, ComparedAll

\* A step that leaves the flash and the client alone.
LEMMA SettledFrame ==
  ASSUME NEW c \in Clients, Settled(c), flash' = flash, boot' = boot,
         202 \in verdicts'[c] => 202 \in verdicts[c] /\ up'[c] = up[c] /\ postused'[c] = postused[c],
         owner' = c => owner = c /\ blind' = blind
  PROVE  Settled(c)'
<1> SUFFICES ASSUME 202 \in verdicts'[c]
             PROVE  /\ Rest(c)' = 0
                    /\ owner' = c /\ 3 - boot \notin blind' => Holds(3 - boot, up[c].img)'
  BY DEF Settled
<1>1. /\ 202 \in verdicts[c] /\ Rest(c)' = Rest(c) /\ up'[c] = up[c]
  BY DEF Rest, postlen
<1>2. Rest(c) = 0 /\ (owner = c /\ 3 - boot \notin blind => Holds(3 - boot, up[c].img))
  BY <1>1 DEF Settled
<1>3. Holds(3 - boot, up[c].img)' = Holds(3 - boot, up[c].img)
  BY <1>1 DEF Holds, UnitOf
<1> QED BY <1>1, <1>2, <1>3

\* A step that writes does so for a client that has no 202.
LEMMA SettledWrite ==
  ASSUME NEW c \in Clients, Settled(c), owner = who, 202 \notin verdicts[who],
         UNCHANGED <<up, postused, boot, verdicts, owner>>
  PROVE  Settled(c)'
BY DEF Settled, Rest, postlen

\* Every step keeps: behind a 202 the partition holds the image.
LEMMA AcceptedStep ==
  ASSUME OwnSignature, IInv, KInv, Accepted, [Next]_vars
  PROVE  Accepted'
<1> USE DEF Accepted
<1>1. ASSUME NEW c \in Clients,
             \/ \E u \in Uploads, n \in Chunks : Connect(c, u, n)
             \/ \E n \in Chunks : Data(c, n)
             \/ Close(c)
      PROVE  Accepted'
  <2>1. pc' \in {"idle", "enter"} /\ UNCHANGED <<owner, flash, boot, blind>>
    BY <1>1 DEF Connect, Data, Close, Receive, otaVars, callVars, ackVars
  <2>2. \A d \in Clients : 202 \in verdicts'[d] => /\ 202 \in verdicts[d]
                                                 /\ up'[d] = up[d] /\ postused'[d] = postused[d]
    <3>1. verdicts \in [Clients -> SUBSET {202, 400}] /\ (up[c] = NULL => verdicts[c] = {})
      BY DEF KInv, Kept
    <3>2. up \in [Clients -> Uploads \cup {NULL}] /\ postused \in [Clients -> Nat]
      BY DEF IInv, Typed
    <3>3. CASE \E u \in Uploads, n \in Chunks : Connect(c, u, n)
      <4>1. up[c] = NULL /\ (\E u : up' = [up EXCEPT ![c] = u]) /\ UNCHANGED <<postused, verdicts>>
        BY <3>3 DEF Connect
      <4> QED BY <3>1, <3>2, <4>1
    <3>4. CASE \E n \in Chunks : Data(c, n)
      BY <3>4 DEF Data
    <3>5. CASE Close(c)
      BY <3>1, <3>2, <3>5 DEF Close
    <3> QED BY <1>1, <3>3, <3>4, <3>5
  <2>3. \A d \in Clients : Settled(d)'
    BY <2>1, <2>2, SettledFrame
  <2> QED BY <2>1, <2>3
<1>2. ASSUME pc # "idle", pc' # pc \/ pc = "read", Handler, UNCHANGED <<up, postused, flash, boot, owner, blind>>,
             who' = who \/ pc' = "idle",
             \/ UNCHANGED verdicts
             \/ Return(400),
             pc' \notin {"erase", "write"} \/ (pc = "erase" /\ UNCHANGED verdicts)
      PROVE  Accepted'
  <2>1. \A c \in Clients : 202 \in verdicts'[c] => 202 \in verdicts[c]
    <3>1. who \in Clients /\ up[who] # NULL /\ Kept
      BY <1>2 DEF IInv, Typed, KInv
    <3>2. CASE Return(400)
      BY <3>1, <3>2, ReturnTypes
    <3> QED BY <1>2, <3>2
  <2>2. \A c \in Clients : Settled(c)'
    BY <1>2, <2>1, SettledFrame
  <2> QED BY <1>2, <2>2
<1>3. CASE Begin
  <2>1. who \in Clients /\ up[who] # NULL /\ Kept /\ pc = "enter" /\ postused[who] = 0
    BY <1>3 DEF Begin, IInv, Typed, KInv
  <2>2. /\ UNCHANGED <<up, postused, flash, boot, blind>> /\ owner' = who /\ pc' \in {"loop", "idle"}
        /\ \A c \in Clients : 202 \in verdicts'[c] => 202 \in verdicts[c]
    <3>1. CASE Return(400)
      BY <1>3, <2>1, <3>1, ReturnTypes DEF Begin, Return, Leave, ackVars
    <3>2. CASE ~Return(400)
      BY <1>3, <3>2 DEF Begin, ackVars
    <3> QED BY <3>1, <3>2
  <2>3. \A c \in Clients : c # who => Settled(c)'
    BY <2>2, SettledFrame
  <2>4. ASSUME NEW c \in Clients, c = who PROVE Settled(c)'
    <3> SUFFICES ASSUME 202 \in verdicts'[c]
                 PROVE  Rest(c)' = 0 /\ Holds(3 - boot, up[c].img)'
      BY DEF Settled
    <3>1. Rest(c)' = Rest(c) /\ up'[c] = up[c]
      BY <2>2 DEF postlen, Rest
    <3>2. Rest(c) = 0
      BY <2>2 DEF Settled
    <3>3. Len(up[c].img) = 0
      BY <2>1, <2>4, <3>2, UploadTypes DEF Rest, postlen, IInv, Typed
    <3> QED BY <3>1, <3>2, <3>3 DEF Holds
  <2> QED BY <2>1, <2>2, <2>3, <2>4
<1>4. CASE Resume
  BY <1>2, <1>4 DEF Resume, Return, Leave, Handler, otaVars, locals, ackVars
<1>5. CASE Copy
  <2>1. /\ who \in Clients /\ owner = who /\ Rest(who) > 0 /\ 202 \notin verdicts[who]
        /\ UNCHANGED <<up, owner, flash, boot, blind, who, verdicts>>
        /\ postused \in [Clients -> Nat] /\ \E n : postused' = [postused EXCEPT ![who] = n]
    <3>1. who \in Clients /\ owner = who /\ Rest(who) > 0
      BY <1>5 DEF Copy, IInv, Typed, Progress, Ready, Target
    <3>2. ~(Rest(who) = 0)
      BY <3>1
    <3> QED BY <1>5, <3>1, <3>2 DEF Copy, Settled, histVars, ackVars, locals, IInv, Typed
  <2>2. \A c \in Clients : c # who => Settled(c)'
    BY <2>1, SettledFrame
  <2>3. Settled(who)'
    BY <2>1 DEF Settled
  <2> QED BY <2>1, <2>2, <2>3
<1>6. CASE Erase \/ Write \/ WriteGarbage
  <2>1. /\ owner = who /\ 202 \notin verdicts[who] /\ UNCHANGED <<up, postused, boot, verdicts, owner, who>>
    BY <1>6 DEF Erase, Write, WriteGarbage, Flushed, clientVars, otaVars, histVars, locals, IInv,
                Progress, Target
  <2>2. \A c \in Clients : Settled(c)'
    BY <2>1, SettledWrite
  <2> QED BY <2>1, <2>2
<1>7. CASE EraseFails \/ WriteFails \/ More \/ Complete \/ ReadFails
  BY <1>2, <1>7 DEF EraseFails, WriteFails, More, Complete, ReadFails, FlashFault, Return, Leave,
                    Handler, clientVars, otaVars, histVars, ackVars
<1>8. CASE Read
  BY <1>2, <1>8 DEF Read, Handler, clientVars, histVars, ackVars
<1>9. CASE Decide
  <2>1. /\ who \in Clients /\ up[who] # NULL /\ Kept /\ pc = "read" /\ ~InApp /\ owner = who
        /\ Rest(who) = 0 /\ pc' = "idle" /\ UNCHANGED <<up, postused, owner, flash, boot>>
    BY <1>9 DEF Decide, Return, Leave, IInv, Typed, KInv, Kept, ReadBack, Calls, Bound, clientVars
  <2>2. CASE Verified
    <3>1. Return(202)
      BY <1>9, <2>2 DEF Decide
    <3>2. \A c \in Clients : c # who => verdicts'[c] = verdicts[c]
      BY <2>1, <3>1, ReturnTypes
    <3>3. \A c \in Clients : c # who => Settled(c)'
      BY <2>1, <3>2, SettledFrame
    <3>4. 3 - boot \notin blind' => Holds(3 - boot, up[who].img)
      BY <1>9, <2>1, <2>2, DecideExempts, VerifiedOwn
    <3>5. ASSUME NEW c \in Clients, c = who PROVE Settled(c)'
      <4>1. Rest(c)' = 0
        BY <2>1, <3>5 DEF Rest, postlen
      <4>2. Holds(3 - boot, up[c].img)' = Holds(3 - boot, up[who].img)
        BY <2>1, <3>5 DEF Holds, UnitOf
      <4> QED BY <2>1, <3>4, <4>1, <4>2 DEF Settled
    <3> QED BY <2>1, <3>3, <3>5
  <2>3. CASE ~Verified
    <3>1. Return(400) /\ blind' = blind
      BY <1>9, <2>3 DEF Decide
    <3>2. \A c \in Clients : 202 \in verdicts'[c] => 202 \in verdicts[c]
      BY <2>1, <3>1, ReturnTypes
    <3>3. \A c \in Clients : Settled(c)'
      BY <2>1, <3>1, <3>2, SettledFrame
    <3> QED BY <2>1, <3>3
  <2> QED BY <2>2, <2>3
<1>10. CASE ota_reboot \/ PowerLoss
  <2>1. verdicts' = [c \in Clients |-> {}] /\ pc' = "idle"
    BY <1>10 DEF ota_reboot, PowerLoss, Restart, Leave
  <2> QED BY <2>1 DEF Settled
<1>11. CASE UNCHANGED vars
  <2>1. UNCHANGED <<up, postused, owner, pc, who, flash, boot, blind, verdicts>>
    BY <1>11 DEF vars, clientVars, otaVars, callVars, locals, histVars, ackVars
  <2>2. \A c \in Clients : Settled(c)'
    BY <2>1, SettledFrame
  <2> QED BY <2>1, <2>2
<1> QED BY <1>1, <1>3, <1>4, <1>5, <1>6, <1>7, <1>8, <1>9, <1>10, <1>11 DEF Next, Handler

\* AcceptedIntact: if the signature of an upload is that of no other image of the same
\* length, a 202 for equal digests says that the flash holds what the client uploaded,
\* whatever segments were lost, whatever the flash stored instead, and whatever the
\* client sent behind the body.
THEOREM AcceptedHolds ==
  ASSUME OwnSignature
  PROVE  Spec => []AcceptedIntact
<1>1. Init => Accepted
  BY DEF Init, RamInit, Accepted, Settled
<1>2. IInv /\ KInv /\ Accepted /\ [Next]_vars => Accepted'
  BY AcceptedStep
<1>3. Accepted => AcceptedIntact
  BY DEF AcceptedIntact, Accepted, Settled
<1> QED BY <1>1, <1>2, <1>3, KInvHolds, PTL DEF Spec

-----------------------------------------------------------------------------
(* What is booted.                                                          *)

\* A signature decrypts to the digest of an official image only.
Unforgeable == \A u \in Uploads, s \in Seq(Content) : Signs(u, s) => s \in Official

\* The partition that is running holds an official image, and so does the one that
\* the pending reboot will start.
Running ==
  boot \notin blind => \E img \in Official : Len(img) <= MaxApp * SEC /\ Holds(boot, img)

Waiting ==
  armed /\ 3 - boot \notin blind =>
    \E img \in Official : Len(img) <= MaxApp * SEC /\ Holds(3 - boot, img)

\* Before the reboot a call can only be about a body that is complete.
Calm ==
  armed => /\ pc \notin {"erase", "write"}
           /\ pc = "enter" => postused[who] > 0
           /\ pc = "loop" => Rest(who) = 0
           /\ \A c \in Clients : owner = c /\ postused[c] > 0 => Rest(c) = 0

\* A position below the size of an application lies in a sector of its area.
LEMMA PlaceOfUnit ==
  ASSUME NEW i \in Nat, NEW L \in Nat, i \in 1 .. L, L <= MaxApp * SEC
  PROVE  \E k \in Nat, j \in 1 .. SEC :
           /\ k < MaxApp /\ i = k * SEC + j
           /\ k = (i - 1) \div SEC /\ j = ((i - 1) % SEC) + 1
<1>1. SEC \in Nat \ {0} /\ MaxApp \in Nat /\ MaxApp * SEC \in Nat
  BY OtaConstants DEF MaxApp
<1>2. i - 1 \in Nat /\ i - 1 < MaxApp * SEC
  BY <1>1
<1>3. (i - 1) \div SEC \in Nat /\ (i - 1) \div SEC < MaxApp
  BY <1>1, <1>2, DivLess
<1>4. /\ (i - 1) % SEC \in 0 .. SEC - 1
      /\ i - 1 = ((i - 1) \div SEC) * SEC + ((i - 1) % SEC)
  BY <1>1, <1>2
<1>5. ((i - 1) % SEC) + 1 \in 1 .. SEC /\ i = ((i - 1) \div SEC) * SEC + (((i - 1) % SEC) + 1)
  BY <1>1, <1>2, <1>3, <1>4
<1> QED BY <1>3, <1>5

\* What a partition holds stays while its application area does.
LEMMA UntouchedHolds ==
  ASSUME NEW n \in {1, 2}, NEW img \in Seq(Unit), Len(img) <= MaxApp * SEC, Holds(n, img),
         \A a \in AppArea(n) : flash'[a] = flash[a]
  PROVE  Holds(n, img)'
<1> SUFFICES ASSUME NEW i \in 1 .. Len(img) PROVE UnitOf(n, i)' = img[i]
  BY DEF Holds
<1>1. UnitOf(n, i) = img[i]
  BY DEF Holds
<1>2. PICK k \in Nat, j \in 1 .. SEC : k < MaxApp /\ k = (i - 1) \div SEC /\ j = ((i - 1) % SEC) + 1
  <2>1. i \in Nat /\ Len(img) \in Nat
    OBVIOUS
  <2> QED BY <2>1, PlaceOfUnit
<1>3. UserAddr(n) + k \in AppArea(n)
  BY <1>2, OtaConstants DEF AppArea, UserAddr, USER1, USER2, MaxApp
<1>4. flash'[UserAddr(n) + k] = flash[UserAddr(n) + k]
  BY <1>3
<1> QED BY <1>1, <1>2, <1>4 DEF UnitOf

\* A step of an upload leaves the running application alone.
LEMMA RunningUntouched ==
  ASSUME IInv, NEW img \in Official, Len(img) <= MaxApp * SEC, Holds(boot, img),
         \A a \in Sectors : flash'[a] # flash[a] => a \in AppArea(3 - boot)
  PROVE  Holds(boot, img)' \/ boot' # boot
<1> SUFFICES ASSUME boot' = boot PROVE Holds(boot, img)'
  OBVIOUS
<1>1. boot \in {1, 2} /\ img \in Seq(Unit)
  BY OtaConstants DEF IInv, Typed
<1>2. AppArea(boot) \subseteq Sectors /\ AppArea(boot) \cap AppArea(3 - boot) = {}
  BY <1>1, LayoutDisjoint
<1>3. \A a \in AppArea(boot) : flash'[a] = flash[a]
  BY <1>2
<1>4. \A n \in {1, 2} : n = boot => \A i : UnitOf(n, i)' = UnitOf(boot, i)'
  OBVIOUS
<1>5. PICK n \in {1, 2} : n = boot
  BY <1>1
<1>6. Holds(n, img)'
  BY <1>1, <1>3, <1>5, UntouchedHolds
<1> QED BY <1>5, <1>6

\* The device starts with the factory image in the running partition.
LEMMA FactoryRuns == Init => Running
<1> SUFFICES ASSUME Init PROVE Holds(boot, Factory)
  BY OtaConstants, OtaFactory DEF Running
<1> SUFFICES ASSUME NEW i \in 1 .. Len(Factory) PROVE UnitOf(1, i) = Factory[i]
  BY DEF Init, Holds
<1>1. Factory \in Seq(Unit) /\ Len(Factory) \in Nat /\ Len(Factory) <= MaxApp * SEC /\ i \in Nat
  BY OtaConstants, OtaFactory
<1>2. PICK k \in Nat, j \in 1 .. SEC :
        /\ k < MaxApp /\ i = k * SEC + j /\ k = (i - 1) \div SEC /\ j = ((i - 1) % SEC) + 1
  BY <1>1, PlaceOfUnit
<1>3. SEC \in Nat \ {0} /\ k * SEC \in Nat
  BY OtaConstants
<1>4. USER1 + k \in Sectors /\ USER1 + k - USER1 = k /\ ~(USER1 + k < USER1)
  <2>1. HALF \in Nat /\ HALF >= 6 /\ k < HALF - 5
    BY <1>2, OtaConstants DEF MaxApp
  <2> QED BY <2>1 DEF Sectors, USER1
<1>5. flash[USER1 + k] = SectorOf(Factory, USER1 + k, USER1)
  BY <1>4 DEF Init
<1>6. PICK m \in Nat, L \in Nat : m = k * SEC /\ L = Len(Factory)
  BY <1>1, <1>3
<1>7. PICK e \in Nat : e = MIN(m + SEC, L) /\ m + j <= e /\ e <= L /\ ~(m >= L)
  <2>1. i = m + j /\ i <= L
    <3>1. i = m + j
      BY <1>2, <1>6, Zenon
    <3>2. i <= L
      BY <1>1, <1>6
    <3> QED BY <3>1, <3>2
  <2>2. MIN(m + SEC, L) \in Nat /\ m + j <= MIN(m + SEC, L) /\ MIN(m + SEC, L) <= L
    BY <1>3, <1>6, <2>1 DEF MIN
  <2> QED BY <1>6, <2>1, <2>2
<1>8. SectorOf(Factory, USER1 + k, USER1) = SubSeq(Factory, m + 1, e)
  <2>1. MIN(m + SEC, Len(Factory)) = e /\ ~(m >= Len(Factory))
    BY <1>6, <1>7, Zenon
  <2>2. PICK a \in Nat : a = USER1 + k
    BY DEF USER1
  <2>3. a - USER1 = k /\ ~(a < USER1)
    BY <2>2 DEF USER1
  <2>4. (a - USER1) * SEC = m
    BY <1>6, <2>3, Zenon
  <2>5. SectorOf(Factory, a, USER1) = SubSeq(Factory, m + 1, MIN(m + SEC, Len(Factory)))
    BY <2>1, <2>3, <2>4 DEF SectorOf
  <2> QED BY <2>1, <2>2, <2>5, Zenon
<1>10. i = m + j /\ flash[USER1 + k] = SubSeq(Factory, m + 1, e) /\ e <= Len(Factory)
  BY <1>2, <1>5, <1>6, <1>7, <1>8
<1>11. /\ Len(SubSeq(Factory, m + 1, e)) = e - m
       /\ SubSeq(Factory, m + 1, e)[j] = Factory[m + j]
  BY <1>1, <1>6, <1>7
<1>12. j <= Len(flash[USER1 + k]) /\ flash[USER1 + k][j] = Factory[i]
  BY <1>7, <1>10, <1>11
<1>13. UserAddr(1) = USER1
  BY DEF UserAddr
<1> QED BY <1>2, <1>12, <1>13 DEF UnitOf

\* What the other steps leave alone.
LEMMA OtherSteps ==
  ASSUME [Next]_vars
  PROVE  \/ Decide \/ ota_reboot \/ PowerLoss
         \/ UNCHANGED <<armed, boot, accepted, blind>>
<1>1. CASE \/ \E c \in Clients, u \in Uploads, n \in Chunks : Connect(c, u, n)
           \/ \E c \in Clients, n \in Chunks : Data(c, n)
           \/ \E c \in Clients : Close(c)
  BY <1>1 DEF Connect, Data, Close, otaVars, ackVars
<1>2. CASE Begin \/ Resume \/ Copy \/ Erase \/ EraseFails \/ Write \/ WriteGarbage \/ WriteFails
           \/ More \/ Complete \/ Read \/ ReadFails
  BY <1>2 DEF Begin, Resume, Copy, Erase, EraseFails, Write, WriteGarbage, WriteFails, More, Complete,
              Read, ReadFails, Flushed, FlashFault, otaVars, histVars, ackVars
<1>3. CASE UNCHANGED vars
  BY <1>3 DEF vars, otaVars, histVars, ackVars
<1> QED BY <1>1, <1>2, <1>3 DEF Next, Handler

\* When no upload begins before the reboot, none goes on.
LEMMA CalmStep ==
  ASSUME QuietWindow, IInv, KInv, Calm, [Next]_vars
  PROVE  Calm'
<1>1. CASE ota_reboot \/ PowerLoss
  BY <1>1 DEF ota_reboot, PowerLoss, Restart, Calm
<1>2. CASE Decide
  <2>1. /\ who \in Clients /\ owner = who /\ Rest(who) = 0 /\ pc' = "idle"
        /\ UNCHANGED <<up, postused, owner>>
    BY <1>2 DEF Decide, Return, Leave, IInv, Typed, KInv, Kept, ReadBack, Calls, Bound, clientVars
  <2> QED BY <2>1 DEF Calm, Rest, postlen
<1>3. CASE UNCHANGED <<armed, boot, accepted, blind>>
  <2> SUFFICES ASSUME armed
               PROVE  /\ pc' \notin {"erase", "write"}
                      /\ pc' = "enter" => postused'[who'] > 0
                      /\ pc' = "loop" => Rest(who)' = 0
                      /\ \A c \in Clients : owner' = c /\ postused'[c] > 0 => Rest(c)' = 0
    BY <1>3 DEF Calm
  <2>1. /\ pc \notin {"erase", "write"}
        /\ pc = "enter" => postused[who] > 0
        /\ pc = "loop" => Rest(who) = 0
        /\ \A c \in Clients : owner = c /\ postused[c] > 0 => Rest(c) = 0
    BY DEF Calm
  <2>2. /\ up \in [Clients -> Uploads \cup {NULL}] /\ postused \in [Clients -> Nat]
        /\ pc # "idle" => who \in Clients
    BY DEF IInv, Typed
  <2>3. ASSUME NEW c \in Clients, NEW u \in Uploads, NEW n \in Chunks, Connect(c, u, n) PROVE FALSE
    BY <2>3 DEF Connect
  <2>4. ASSUME NEW c \in Clients, NEW n \in Chunks, Data(c, n) PROVE Calm'
    <3>1. /\ postused[c] > 0 /\ pc = "idle" /\ (pc' = "idle" \/ (pc' = "enter" /\ who' = c))
          /\ UNCHANGED <<up, postused, owner>>
      BY <2>4 DEF Data, Receive, otaVars
    <3> QED BY <2>1, <3>1 DEF Calm, Rest, postlen
  <2>5. ASSUME NEW c \in Clients, Close(c) PROVE Calm'
    <3>1. /\ pc' = "idle" /\ owner' = owner
          /\ \A d \in Clients : d # c => up'[d] = up[d] /\ postused'[d] = postused[d]
          /\ postused'[c] = 0
      BY <2>2, <2>5 DEF Close, otaVars, callVars
    <3> QED BY <2>1, <3>1 DEF Calm, Rest, postlen
  <2>6. ~Begin /\ ~Copy /\ ~Erase /\ ~EraseFails /\ ~Write /\ ~WriteGarbage /\ ~WriteFails
    <3>1. ~(pc = "loop" /\ Rest(who) > 0)
      BY <2>1
    <3>2. ~(pc = "enter" /\ postused[who] = 0)
      BY <2>1
    <3> QED BY <2>1, <3>1, <3>2 DEF Begin, Copy, Erase, EraseFails, Write, WriteGarbage, WriteFails
  <2>7. CASE Resume
    <3>1. /\ UNCHANGED <<up, postused, owner>> /\ pc = "enter" /\ postused[who] > 0
          /\ pc' = "idle" \/ (pc' = "loop" /\ owner = who /\ who' = who)
      BY <2>7 DEF Resume, Return, Leave, otaVars, locals
    <3> QED BY <2>1, <2>2, <3>1 DEF Calm, Rest, postlen
  <2>8. CASE More \/ Complete \/ Read \/ ReadFails
    <3>1. UNCHANGED <<up, postused, owner>> /\ pc' \in {"idle", "read"}
      BY <2>8 DEF More, Complete, Read, ReadFails, FlashFault, Return, Leave, clientVars, otaVars
    <3> QED BY <2>1, <3>1 DEF Calm, Rest, postlen
  <2>9. CASE UNCHANGED vars
    <3>1. UNCHANGED <<up, postused, owner, pc, who>>
      BY <2>9 DEF vars, clientVars, otaVars, callVars, locals
    <3> QED BY <2>1, <3>1 DEF Rest, postlen
  <2>10. CASE Decide \/ ota_reboot \/ PowerLoss
    BY <1>1, <1>2, <1>3, <2>10 DEF Calm
  <2> QED BY <1>3, <2>3, <2>4, <2>5, <2>6, <2>7, <2>8, <2>9, <2>10 DEF Next, Handler, Calm
<1> QED BY <1>1, <1>2, <1>3, OtherSteps

\* And the flash stays as it is.
LEMMA CalmFlash ==
  ASSUME IInv, Calm, armed, [Next]_vars
  PROVE  flash' = flash
BY DEF Calm, Next, Handler, vars, Connect, Data, Close, Begin, Resume, Copy, Erase, EraseFails, Write,
       WriteGarbage, WriteFails, More, Complete, Read, ReadFails, Decide, ota_reboot, PowerLoss, Restart

\* Every step keeps what is running and what the reboot will start.
LEMMA RunningStep ==
  ASSUME Unforgeable, IInv, KInv, Calm, Running, Waiting, [Next]_vars
  PROVE  Running' /\ Waiting'
<1>1. boot \in {1, 2} /\ Confined
  BY StepConfined DEF IInv, Typed
<1>2. ASSUME boot' = boot, boot \notin blind' => boot \notin blind PROVE Running'
  <2> SUFFICES ASSUME boot \notin blind
               PROVE  \E img \in Official : Len(img) <= MaxApp * SEC /\ Holds(boot, img)'
    BY <1>2 DEF Running
  <2>1. PICK img \in Official : Len(img) <= MaxApp * SEC /\ Holds(boot, img)
    BY DEF Running
  <2>2. Holds(boot, img)'
    BY <1>1, <1>2, <2>1, RunningUntouched DEF Confined
  <2> QED BY <2>1, <2>2
<1>3. ASSUME armed' => armed, UNCHANGED <<boot, blind>> PROVE Waiting'
  <2> SUFFICES ASSUME armed, 3 - boot \notin blind
               PROVE  \E img \in Official : Len(img) <= MaxApp * SEC /\ Holds(3 - boot, img)'
    BY <1>3 DEF Waiting
  <2>1. PICK img \in Official : Len(img) <= MaxApp * SEC /\ Holds(3 - boot, img)
    BY DEF Waiting
  <2>2. Holds(3 - boot, img)'
    BY <1>3, <2>1, CalmFlash DEF Holds, UnitOf
  <2> QED BY <2>1, <2>2
<1>4. CASE UNCHANGED <<armed, boot, accepted, blind>>
  BY <1>2, <1>3, <1>4
<1>5. CASE Decide
  <2>1. /\ pc = "read" /\ ~InApp /\ who \in Clients /\ up[who] # NULL /\ UNCHANGED <<flash, boot>>
    BY <1>5 DEF Decide, IInv, Typed
  <2>2. CASE Verified
    <3>1. boot \notin blind' => boot \notin blind
      BY <1>1, <1>5, <2>2 DEF Decide
    <3>2. ASSUME 3 - boot \notin blind'
          PROVE  sha \in Official /\ Len(sha) <= MaxApp * SEC /\ Holds(3 - boot, sha)
      <4>1. /\ sha \in Seq(Content) /\ Len(sha) = postlen(who) /\ Signs(up[who], sha)
            /\ Holds(3 - boot, sha)
        BY <1>5, <2>1, <2>2, <3>2, DecideExempts, VerifiedSigned
      <4>2. up[who] \in Uploads /\ Bound(who)
        BY <2>1 DEF IInv, Typed, KInv, Kept, Calls
      <4>3. sha \in Official
        BY <4>1, <4>2, Zenon DEF Unforgeable
      <4> QED BY <4>1, <4>2, <4>3 DEF Bound
    <3>3. \A s : Holds(3 - boot, s)' <=> Holds(3 - boot, s)
      BY <2>1 DEF Holds, UnitOf
    <3>4. Waiting'
      BY <2>1, <3>2, <3>3 DEF Waiting
    <3> QED BY <1>2, <2>1, <3>1, <3>4
  <2>3. CASE ~Verified
    <3>1. (armed' => armed) /\ UNCHANGED <<boot, blind>>
      BY <1>5, <2>3 DEF Decide
    <3> QED BY <1>2, <1>3, <3>1
  <2> QED BY <2>2, <2>3
<1>6. CASE ota_reboot
  <2>1. armed /\ boot' = 3 - boot /\ flash' = flash /\ armed' = FALSE /\ blind' = blind
    BY <1>6 DEF ota_reboot, Restart
  <2>2. Running'
    <3> SUFFICES ASSUME 3 - boot \notin blind
                 PROVE  \E img \in Official : Len(img) <= MaxApp * SEC /\ Holds(boot, img)'
      BY <2>1 DEF Running
    <3>1. PICK img \in Official : Len(img) <= MaxApp * SEC /\ Holds(3 - boot, img)
      BY <2>1 DEF Waiting
    <3>2. Holds(boot, img)'
      BY <2>1, <3>1 DEF Holds, UnitOf
    <3> QED BY <3>1, <3>2
  <2> QED BY <2>1, <2>2 DEF Waiting
<1>7. CASE PowerLoss
  BY <1>2, <1>7 DEF PowerLoss, Restart, Waiting
<1> QED BY <1>4, <1>5, <1>6, <1>7, OtherSteps

\* RunningOfficial: if signatures cannot be forged and no upload begins between a 202
\* and the reboot, the device runs an official image, through any number of updates,
\* power losses and failed writes, but for images that were accepted for digests that
\* are equal only as far as they are compared.
THEOREM OfficialRuns ==
  ASSUME QuietWindow, Unforgeable
  PROVE  Spec => []RunningOfficial
<1>1. Init => Calm /\ Running /\ Waiting
  BY FactoryRuns DEF Init, RamInit, Calm, Waiting
<1>2. IInv /\ KInv /\ Calm /\ Running /\ Waiting /\ [Next]_vars => Calm' /\ Running' /\ Waiting'
  BY CalmStep, RunningStep
<1>3. Running => RunningOfficial
  BY DEF Running, RunningOfficial
<1> QED BY <1>1, <1>2, <1>3, KInvHolds, PTL DEF Spec

\* Every step keeps: the partition of the pending reboot holds what was accepted.
LEMMA RebootsStep ==
  ASSUME OwnSignature, IInv, KInv, Calm, RebootsAccepted, [Next]_vars
  PROVE  RebootsAccepted'
<1>1. ASSUME UNCHANGED <<armed, boot, accepted, blind>> PROVE RebootsAccepted'
  <2> SUFFICES ASSUME armed, 3 - boot \notin blind PROVE Holds(3 - boot, accepted)'
    BY <1>1 DEF RebootsAccepted
  <2>1. Holds(3 - boot, accepted)
    BY DEF RebootsAccepted
  <2> QED BY <1>1, <2>1, CalmFlash DEF Holds, UnitOf
<1>2. CASE Decide
  <2>1. /\ pc = "read" /\ ~InApp /\ who \in Clients /\ up[who] # NULL /\ UNCHANGED <<flash, boot>>
    BY <1>2 DEF Decide, IInv, Typed
  <2>2. CASE Verified
    <3>1. accepted' = up[who].img
      BY <1>2, <2>2 DEF Decide
    <3>2. 3 - boot \notin blind' => Holds(3 - boot, up[who].img)
      BY <1>2, <2>1, <2>2, DecideExempts, VerifiedOwn
    <3>3. Holds(3 - boot, accepted)' = Holds(3 - boot, up[who].img)
      BY <2>1, <3>1 DEF Holds, UnitOf
    <3> QED BY <2>1, <3>2, <3>3 DEF RebootsAccepted
  <2>3. CASE ~Verified
    <3>1. accepted' = accepted /\ blind' = blind /\ (armed' => armed)
      BY <1>2, <2>3 DEF Decide
    <3>2. Holds(3 - boot, accepted)' = Holds(3 - boot, accepted)
      BY <2>1, <3>1 DEF Holds, UnitOf
    <3> QED BY <2>1, <3>1, <3>2 DEF RebootsAccepted
  <2> QED BY <2>2, <2>3
<1>3. CASE ota_reboot \/ PowerLoss
  BY <1>3 DEF ota_reboot, PowerLoss, Restart, RebootsAccepted
<1> QED BY <1>1, <1>2, <1>3, OtherSteps

\* RebootsAccepted: if the signature of an upload is that of no other image of the same
\* length and no upload begins before the reboot, the reboot starts the image that got
\* the last 202, whatever was sent behind it and answered.
THEOREM RebootIntoAccepted ==
  ASSUME QuietWindow, OwnSignature
  PROVE  Spec => []RebootsAccepted
<1>1. Init => Calm /\ RebootsAccepted
  BY DEF Init, RamInit, Calm, RebootsAccepted
<1>2. IInv /\ KInv /\ Calm /\ RebootsAccepted /\ [Next]_vars => Calm' /\ RebootsAccepted'
  BY CalmStep, RebootsStep
<1> QED BY <1>1, <1>2, KInvHolds, PTL DEF Spec

-----------------------------------------------------------------------------
(* A good upload is accepted.  What the handler has of the body is followed  *)
(* from the segments through the sector buffer to the hash and the flash.   *)

\* b is the part of s that starts behind p and ends at t.
Follows(b, s, p, t) == Len(b) = t - p /\ t <= Len(s) /\ \A j \in 1 .. Len(b) : b[j] = s[p + j]

\* A segment was appended.
LEMMA FollowsMore ==
  ASSUME NEW S, NEW s \in Seq(S), NEW b \in Seq(S), NEW p \in Nat, NEW t \in Nat, NEW n \in Nat,
         Follows(b, s, p, t), t + n <= Len(s)
  PROVE  Follows(b \o SubSeq(s, t + 1, t + n), s, p, t + n)
<1>1. PICK d \in Seq(S) : d = SubSeq(s, t + 1, t + n) /\ Len(d) = n /\ \A j \in 1 .. n : d[j] = s[t + j]
  <2>1. \A i \in t + 1 .. t + n : s[i] \in S
    OBVIOUS
  <2>2. SubSeq(s, t + 1, t + n) \in Seq(S)
    BY <2>1, SubSeqProperties
  <2>3. /\ Len(SubSeq(s, t + 1, t + n)) = n
        /\ \A j \in 1 .. n : SubSeq(s, t + 1, t + n)[j] = s[t + j]
    OBVIOUS
  <2> QED BY <2>2, <2>3
<1>2. Len(b) \in Nat /\ t = p + Len(b) /\ \A j \in 1 .. Len(b) : b[j] = s[p + j]
  BY DEF Follows
<1>3. /\ Len(b \o d) = Len(b) + Len(d)
      /\ \A i \in 1 .. Len(b) : (b \o d)[i] = b[i]
      /\ \A j \in 1 .. Len(d) : (b \o d)[Len(b) + j] = d[j]
      /\ \A i \in 1 .. Len(b \o d) : i \in 1 .. Len(b) \/ \E j \in 1 .. Len(d) : i = Len(b) + j
  <2>1. \A x, y \in Seq(S) :
          /\ x \o y \in Seq(S) /\ Len(x \o y) = Len(x) + Len(y)
          /\ \A i \in 1 .. Len(x) : (x \o y)[i] = x[i]
          /\ \A j \in 1 .. Len(y) : (x \o y)[Len(x) + j] = y[j]
          /\ \A i \in 1 .. Len(x \o y) : i \in 1 .. Len(x) \/ \E j \in 1 .. Len(y) : i = Len(x) + j
    BY Appended, Zenon
  <2> QED BY <2>1, Zenon
<1>4. Len(b \o d) = (t + n) - p
  <2>1. PICK m \in Nat : m = Len(b)
    BY <1>2
  <2>2. Len(b \o d) = m + n
    BY <1>1, <1>3, <2>1, Zenon
  <2>3. m + n = (t + n) - p
    BY <1>2, <2>1
  <2> QED BY <2>2, <2>3, Zenon
<1>5. \A j \in 1 .. Len(d) : p + (Len(b) + j) = t + j
  BY <1>1, <1>2
<1>6. \A i \in 1 .. Len(b \o d) : (b \o d)[i] = s[p + i]
  <2> TAKE i \in 1 .. Len(b \o d)
  <2>1. CASE i \in 1 .. Len(b)
    BY <1>2, <1>3, <2>1, Zenon
  <2>2. ASSUME NEW j \in 1 .. Len(d), i = Len(b) + j PROVE (b \o d)[i] = s[p + i]
    BY <1>1, <1>3, <1>5, <2>2, Zenon
  <2> QED BY <1>3, <2>1, <2>2, Zenon
<1> QED BY <1>1, <1>4, <1>6 DEF Follows

\* The front was taken.
LEMMA FollowsLess ==
  ASSUME NEW S, NEW s \in Seq(S), NEW b \in Seq(S), NEW p \in Nat, NEW t \in Nat, NEW l \in Nat,
         Follows(b, s, p, t), l <= Len(b)
  PROVE  /\ Follows(SubSeq(b, l + 1, Len(b)), s, p + l, t)
         /\ \A j \in 1 .. l : SubSeq(b, 1, l)[j] = s[p + j]
<1>1. Len(b) \in Nat /\ t = p + Len(b) /\ t <= Len(s) /\ \A j \in 1 .. Len(b) : b[j] = s[p + j]
  BY DEF Follows
<1>2. /\ Len(SubSeq(b, l + 1, Len(b))) = Len(b) - l
      /\ \A j \in 1 .. Len(b) - l : SubSeq(b, l + 1, Len(b))[j] = b[l + j]
      /\ \A j \in 1 .. l : SubSeq(b, 1, l)[j] = b[j]
  BY <1>1
<1>3. Len(b) - l = t - (p + l) /\ \A j \in 1 .. Len(b) - l : l + j \in 1 .. Len(b) /\ p + (l + j) = (p + l) + j
  BY <1>1
<1>4. \A j \in 1 .. Len(b) - l : b[l + j] = s[(p + l) + j]
  BY <1>1, <1>3, Zenon
<1>5. \A j \in 1 .. l : b[j] = s[p + j]
  BY <1>1
<1> QED BY <1>1, <1>2, <1>3, <1>4, <1>5 DEF Follows

\* The body comes first in what a peer sends.
LEMMA StreamUnits ==
  ASSUME NEW u \in Uploads
  PROVE  /\ Stream(u) \in Seq(Content) /\ Len(u.img) <= Len(Stream(u))
         /\ \A p \in 1 .. Len(u.img) : Stream(u)[p] = u.img[p]
<1>1. u.img \in Seq(Content) /\ u.trailing \in Nat
  BY UploadTypes DEF Content
<1>2. PICK t \in Seq(Content) : t = [i \in 1 .. u.trailing |-> STALE]
  <2>1. [i \in 1 .. u.trailing |-> STALE] \in Seq(Content)
    BY <1>1 DEF Content
  <2> QED BY <2>1
<1>3. Stream(u) = u.img \o t
  BY <1>2 DEF Stream
<1> QED BY <1>1, <1>3

\* Nothing came across the upload of c.
Clean(c) == up[c] # NULL /\ ~spoiled[c]

Streamed(c) == Follows(buf[c], Stream(up[c]), postused[c], sent[c])

\* What was taken of the body is in the hash and the flash, and in the sector buffer.
Laid(c) ==
  /\ Len(sha) + Len(secbuf) = postused[c]
  /\ \A i \in 1 .. Len(sha) : sha[i] = up[c].img[i] /\ UnitOf(3 - boot, i) = up[c].img[i]
  /\ \A j \in 1 .. Len(secbuf) : secbuf[j] = up[c].img[Len(sha) + j]
  /\ Rest(c) = 0 /\ pc \notin {"erase", "write"} => Len(secbuf) = 0

\* The upload of c can be gone on with.
Sound(c) ==
  /\ Clean(c) => Streamed(c) /\ (postused[c] > 0 => owner = c)
  /\ Clean(c) /\ verdicts[c] = {} /\ postused[c] > 0 /\ pc \in {"idle", "enter"} => Laid(c)

\* The upload that a call is about.
Serving ==
  /\ pc \in {"loop", "erase", "write"} /\ Clean(who) /\ verdicts[who] = {} => Laid(who)
  /\ pc = "read" /\ Clean(who) /\ verdicts[who] = {} =>
       /\ hash1 = Sha256(up[who].img)
       /\ \A i \in 1 .. appsize : UnitOf(3 - boot, i) = up[who].img[i]

\* What GoodAccepted says of one client.
Welcome(c) ==
  /\ up[c] # NULL /\ verdicts[c] # {} /\ ~spoiled[c]
  /\ Acceptable(c) /\ SignatureOf(up[c].sig, Sha256(up[c].img))
  => 202 \in verdicts[c]

GInv ==
  /\ spoiled \in [Clients -> BOOLEAN]
  /\ \A c \in Clients : Sound(c) /\ Welcome(c)
  /\ Serving

\* The invariant contains the property.
LEMMA WelcomeGood == (\A c \in Clients : Welcome(c)) => GoodAccepted
BY DEF Welcome, GoodAccepted, Acceptable, postlen

\* Nothing moves.
LEMMA LaidFrame ==
  ASSUME NEW c \in Clients, Laid(c), UNCHANGED <<sha, secbuf, flash, boot>>,
         up'[c] = up[c], postused'[c] = postused[c],
         pc \in {"erase", "write"} => pc' \in {"erase", "write"}
  PROVE  Laid(c)'
<1>1. \A i : UnitOf(3 - boot, i)' = UnitOf(3 - boot, i)
  BY DEF UnitOf
<1>2. Rest(c)' = Rest(c)
  BY DEF Rest, postlen
<1> QED BY <1>1, <1>2 DEF Laid

\* Nothing of the upload moves.
LEMMA SoundFrame ==
  ASSUME NEW c \in Clients, Sound(c), UNCHANGED <<owner, sha, secbuf, flash, boot>>,
         up'[c] = up[c], postused'[c] = postused[c], sent'[c] = sent[c], buf'[c] = buf[c],
         spoiled[c] => spoiled'[c], verdicts'[c] = {} => verdicts[c] = {},
         pc' \in {"idle", "enter"} => pc \in {"idle", "enter"}
  PROVE  Sound(c)'
<1>1. Clean(c)' => Clean(c)
  BY DEF Clean
<1>2. Streamed(c)' = Streamed(c)
  BY DEF Streamed, Follows
<1>3. Laid(c) /\ pc \in {"idle", "enter"} => Laid(c)'
  BY LaidFrame
<1> QED BY <1>1, <1>2, <1>3 DEF Sound

\* The upload of a client that does not have otastate.
LEMMA SoundForeign ==
  ASSUME NEW c \in Clients, Sound(c), owner # c \/ spoiled'[c] \/ postused'[c] = 0, postused[c] \in Nat,
         up'[c] = up[c], postused'[c] = postused[c], sent'[c] = sent[c], buf'[c] = buf[c],
         spoiled[c] => spoiled'[c]
  PROVE  Sound(c)'
<1>1. Clean(c)' => Clean(c) /\ ~(postused'[c] > 0)
  BY DEF Clean, Sound
<1>2. Streamed(c)' = Streamed(c)
  BY DEF Streamed, Follows
<1> QED BY <1>1, <1>2 DEF Sound

\* No new verdict.
LEMMA WelcomeFrame ==
  ASSUME NEW c \in Clients, Welcome(c), up'[c] = up[c], spoiled[c] => spoiled'[c],
         verdicts'[c] = verdicts[c]
  PROVE  Welcome(c)'
BY DEF Welcome, Acceptable, postlen

\* A step of a call for the client that has otastate, the last one of it included.
LEMMA GoodStep ==
  ASSUME IInv, GInv, pc # "idle", owner = who, UNCHANGED <<up, sent, owner>>,
         spoiled' \in [Clients -> BOOLEAN],
         \A c \in Clients : spoiled[c] => spoiled'[c],
         \A c \in Clients : c # who => /\ postused'[c] = postused[c] /\ buf'[c] = buf[c]
                                       /\ verdicts'[c] = verdicts[c],
         \A c \in Clients : c = who => Sound(c)' /\ Welcome(c)', Serving'
  PROVE  GInv'
<1>1. who \in Clients /\ postused \in [Clients -> Nat]
  BY DEF IInv, Typed
<1>2. ASSUME NEW c \in Clients PROVE Sound(c)' /\ Welcome(c)'
  <2>1. CASE c = who
    BY <2>1
  <2>2. CASE c # who
    <3>1. Sound(c) /\ Welcome(c)
      BY DEF GInv
    <3>2. Sound(c)'
      BY <1>1, <2>2, <3>1, SoundForeign
    <3>3. Welcome(c)'
      BY <2>2, <3>1, WelcomeFrame
    <3> QED BY <3>2, <3>3
  <2> QED BY <2>1, <2>2
<1> QED BY <1>2 DEF GInv

\* A step that the call goes on behind.
LEMMA GoodCall ==
  ASSUME IInv, GInv, pc # "idle", owner = who, UNCHANGED <<up, sent, owner, who>>,
         spoiled' \in [Clients -> BOOLEAN],
         \A c \in Clients : spoiled[c] => spoiled'[c],
         \A c \in Clients : c # who => /\ postused'[c] = postused[c] /\ buf'[c] = buf[c]
                                       /\ verdicts'[c] = verdicts[c],
         Sound(who)', Welcome(who)', Serving'
  PROVE  GInv'
<1>1. ASSUME NEW c \in Clients, c = who PROVE Sound(c)' /\ Welcome(c)'
  <2>1. c = who'
    BY <1>1
  <2> QED BY <2>1
<1> QED BY <1>1, GoodStep

\* A segment that arrives is appended or spoils the upload.
LEMMA ReceiveGood ==
  ASSUME IInv, GInv, NEW c \in Clients, NEW u \in Uploads, NEW n \in Chunks,
         NEW have \in Seq(Content), NEW done \in Nat, NEW p \in Nat, Receive(c, u, n, have, done),
         Follows(have, Stream(u), p, done) \/ spoiled[c]
  PROVE  /\ ~spoiled'[c] => Follows(buf'[c], Stream(u), p, sent'[c])
         /\ spoiled' \in [Clients -> BOOLEAN] /\ (spoiled[c] => spoiled'[c])
         /\ \A d \in Clients : d # c => /\ sent'[d] = sent[d] /\ buf'[d] = buf[d]
                                        /\ spoiled'[d] = spoiled[d]
<1>1. /\ sent \in [Clients -> Nat] /\ buf \in [Clients -> Seq(Content)]
      /\ spoiled \in [Clients -> BOOLEAN] /\ n \in Nat
  BY OtaConstants DEF IInv, Typed, GInv
<1> DEFINE fits == Len(have) + n <= BUF
<1>2. /\ done + n <= Len(Stream(u)) /\ sent' = [sent EXCEPT ![c] = done + n]
      /\ buf' = [buf EXCEPT ![c] = IF fits THEN have \o SubSeq(Stream(u), done + 1, done + n) ELSE have]
      /\ spoiled' = [spoiled EXCEPT ![c] = spoiled[c] \/ ~fits]
  BY DEF Receive
<1>3. fits \in BOOLEAN
  OBVIOUS
<1> HIDE DEF fits
<1>4. ASSUME ~spoiled'[c] PROVE Follows(buf'[c], Stream(u), p, sent'[c])
  <2>1. fits /\ ~spoiled[c]
    BY <1>1, <1>2, <1>3, <1>4
  <2>2. Follows(have \o SubSeq(Stream(u), done + 1, done + n), Stream(u), p, done + n)
    <3>1. Stream(u) \in Seq(Content) /\ Follows(have, Stream(u), p, done)
      BY <2>1, StreamUnits
    <3> QED BY <1>1, <1>2, <3>1, FollowsMore
  <2>3. buf'[c] = have \o SubSeq(Stream(u), done + 1, done + n) /\ sent'[c] = done + n
    BY <1>1, <1>2, <2>1
  <2> QED BY <2>2, <2>3, Zenon
<1>5. /\ spoiled' \in [Clients -> BOOLEAN] /\ (spoiled[c] => spoiled'[c])
      /\ \A d \in Clients : d # c => spoiled'[d] = spoiled[d]
  BY <1>1, <1>2
<1>6. \A d \in Clients : d # c => sent'[d] = sent[d] /\ buf'[d] = buf[d]
  BY <1>1, <1>2
<1> QED BY <1>4, <1>5, <1>6

\* A client connects, sends a segment or goes.
LEMMA GoodPeers ==
  ASSUME IInv, KInv, GInv, NEW c \in Clients,
         \/ \E u \in Uploads, n \in Chunks : Connect(c, u, n)
         \/ \E n \in Chunks : Data(c, n)
         \/ Close(c)
  PROVE  GInv'
<1>1. /\ pc = "idle" /\ pc' \in {"idle", "enter"} /\ UNCHANGED <<owner, sha, secbuf, flash, boot>>
  BY DEF Connect, Data, Close, Receive, otaVars, callVars
<1>2. /\ up \in [Clients -> Uploads \cup {NULL}] /\ postused \in [Clients -> Nat]
      /\ sent \in [Clients -> Nat] /\ buf \in [Clients -> Seq(Content)]
      /\ spoiled \in [Clients -> BOOLEAN] /\ verdicts \in [Clients -> SUBSET {202, 400}]
      /\ (up[c] = NULL => postused[c] = 0 /\ verdicts[c] = {})
      /\ Sound(c) /\ Welcome(c)
  BY DEF IInv, Typed, Progress, KInv, Kept, GInv
<1>3. Serving'
  BY <1>1 DEF Serving
<1>4. ASSUME spoiled' \in [Clients -> BOOLEAN], Sound(c)', Welcome(c)',
             \A d \in Clients : d # c => /\ up'[d] = up[d] /\ postused'[d] = postused[d]
                                         /\ sent'[d] = sent[d] /\ buf'[d] = buf[d]
                                         /\ spoiled'[d] = spoiled[d] /\ verdicts'[d] = verdicts[d]
      PROVE  GInv'
  <2>1. ASSUME NEW d \in Clients, d # c PROVE Sound(d)' /\ Welcome(d)'
    <3>1. Sound(d) /\ Welcome(d)
      BY DEF GInv
    <3>2. Sound(d)'
      BY <1>1, <1>4, <2>1, <3>1, SoundFrame
    <3>3. Welcome(d)'
      BY <1>4, <2>1, <3>1, WelcomeFrame
    <3> QED BY <3>2, <3>3
  <2> QED BY <1>3, <1>4, <2>1 DEF GInv
<1>5. ASSUME NEW u \in Uploads, NEW n \in Chunks, Connect(c, u, n) PROVE GInv'
  <2>1. /\ up[c] = NULL /\ up' = [up EXCEPT ![c] = u] /\ UNCHANGED <<postused, verdicts>>
        /\ Receive(c, u, n, << >>, 0)
    BY <1>5 DEF Connect
  <2>2. Follows(<< >>, Stream(u), 0, 0)
    <3>1. Stream(u) \in Seq(Content)
      BY StreamUnits
    <3> QED BY <3>1 DEF Follows
  <2>3. << >> \in Seq(Content)
    OBVIOUS
  <2>4. /\ ~spoiled'[c] => Follows(buf'[c], Stream(u), 0, sent'[c])
        /\ spoiled' \in [Clients -> BOOLEAN]
        /\ \A d \in Clients : d # c => /\ sent'[d] = sent[d] /\ buf'[d] = buf[d]
                                       /\ spoiled'[d] = spoiled[d]
    BY <2>1, <2>2, <2>3, ReceiveGood
  <2>5. up'[c] = u /\ postused'[c] = 0 /\ verdicts'[c] = {} /\ \A d \in Clients : d # c => up'[d] = up[d]
    BY <1>2, <2>1
  <2>6. Sound(c)' /\ Welcome(c)'
    BY <2>4, <2>5 DEF Sound, Clean, Streamed, Welcome
  <2> QED BY <1>4, <2>1, <2>4, <2>5, <2>6
<1>6. ASSUME NEW n \in Chunks, Data(c, n) PROVE GInv'
  <2>1. /\ up[c] \in Uploads /\ UNCHANGED <<up, postused, verdicts>>
        /\ Receive(c, up[c], n, buf[c], sent[c])
    BY <1>2, <1>6 DEF Data
  <2>2. Follows(buf[c], Stream(up[c]), postused[c], sent[c]) \/ spoiled[c]
    BY <1>2, <2>1, OtaConstants DEF Sound, Clean, Streamed
  <2>3. buf[c] \in Seq(Content) /\ sent[c] \in Nat /\ postused[c] \in Nat
    BY <1>2
  <2>4. /\ ~spoiled'[c] => Follows(buf'[c], Stream(up[c]), postused[c], sent'[c])
        /\ spoiled' \in [Clients -> BOOLEAN] /\ (spoiled[c] => spoiled'[c])
        /\ \A d \in Clients : d # c => /\ sent'[d] = sent[d] /\ buf'[d] = buf[d]
                                       /\ spoiled'[d] = spoiled[d]
    BY <2>1, <2>2, <2>3, ReceiveGood
  <2>5. Laid(c) => Laid(c)'
    BY <1>1, <2>1, LaidFrame
  <2>6. Sound(c)'
    BY <1>1, <1>2, <2>1, <2>4, <2>5 DEF Sound, Clean, Streamed
  <2>7. Welcome(c)'
    BY <1>2, <2>1, <2>4, WelcomeFrame
  <2> QED BY <1>4, <2>1, <2>4, <2>6, <2>7
<1>7. CASE Close(c)
  <2>1. /\ up' = [up EXCEPT ![c] = NULL] /\ sent' = [sent EXCEPT ![c] = 0]
        /\ buf' = [buf EXCEPT ![c] = << >>] /\ postused' = [postused EXCEPT ![c] = 0]
        /\ verdicts' = [verdicts EXCEPT ![c] = {}] /\ spoiled' = [spoiled EXCEPT ![c] = FALSE]
    BY <1>7 DEF Close
  <2>2. up'[c] = NULL /\ spoiled' \in [Clients -> BOOLEAN]
    BY <1>2, <2>1
  <2>3. Sound(c)' /\ Welcome(c)'
    BY <2>2 DEF Sound, Clean, Welcome
  <2>4. \A d \in Clients : d # c => /\ up'[d] = up[d] /\ postused'[d] = postused[d]
                                    /\ sent'[d] = sent[d] /\ buf'[d] = buf[d]
                                    /\ spoiled'[d] = spoiled[d] /\ verdicts'[d] = verdicts[d]
    BY <1>2, <2>1
  <2> QED BY <1>4, <2>2, <2>3, <2>4
<1> QED BY <1>5, <1>6, <1>7

\* http_url_ota_push() is called, for a new upload or one that goes on.
LEMMA GoodEnter ==
  ASSUME IInv, KInv, GInv, Begin \/ Resume
  PROVE  GInv'
<1>1. /\ who \in Clients /\ up[who] # NULL /\ Kept /\ pc = "enter"
      /\ postused \in [Clients -> Nat] /\ spoiled \in [Clients -> BOOLEAN]
      /\ UNCHANGED <<up, sent, buf, postused, flash, boot>>
      /\ \A c \in Clients : Sound(c) /\ Welcome(c)
  BY DEF Begin, Resume, IInv, Typed, KInv, GInv
<1>2. \A c \in Clients : verdicts'[c] = verdicts[c] \/ (c = who /\ verdicts'[c] = verdicts[c] \cup {400})
  <2>1. CASE Return(400)
    <3>1. \A c \in Clients : verdicts'[c] = verdicts[c] \cup (IF c = who THEN {400} ELSE {})
      BY <1>1, <2>1, ReturnTypes
    <3>2. \A c \in Clients : c # who => verdicts'[c] = verdicts[c]
      BY <3>1
    <3> QED BY <3>1, <3>2
  <2> QED BY <2>1 DEF Begin, Resume
<1>3. CASE Begin
  <2>1. /\ postused[who] = 0 /\ owner' = who /\ sha' = << >> /\ (Acceptable(who) => verdicts' = verdicts)
        /\ spoiled' = [c \in Clients |-> spoiled[c] \/ (c # who /\ postused[c] > 0)]
        /\ (pc' = "idle" \/ (pc' = "loop" /\ secbuf' = << >> /\ who' = who))
    BY <1>3 DEF Begin, Return, Leave, NewUpload, Acceptable, locals
  <2>2. /\ spoiled' \in [Clients -> BOOLEAN] /\ \A c \in Clients : spoiled[c] => spoiled'[c]
    BY <1>1, <2>1
  <2>3. ASSUME NEW c \in Clients PROVE Sound(c)'
    <3>1. spoiled'[c] \/ postused'[c] = 0
      <4>1. postused'[c] = 0 \/ (c # who /\ postused[c] > 0)
        BY <1>1, <2>1
      <4>2. c # who /\ postused[c] > 0 => spoiled'[c]
        BY <2>1, Zenon
      <4> QED BY <4>1, <4>2
    <3> QED BY <1>1, <2>2, <3>1, SoundForeign
  <2>4. ASSUME NEW c \in Clients PROVE Welcome(c)'
    <3>1. CASE verdicts'[c] = verdicts[c]
      BY <1>1, <2>2, <3>1, WelcomeFrame
    <3>2. CASE verdicts'[c] # verdicts[c]
      <4>1. c = who /\ ~Acceptable(c)
        BY <1>2, <2>1, <3>2
      <4> QED BY <1>1, <4>1 DEF Welcome, Acceptable, postlen
    <3> QED BY <3>1, <3>2
  <2>5. Serving'
    <3>1. pc' = "loop" => Laid(who)'
      <4> SUFFICES ASSUME pc' = "loop" PROVE Laid(who)'
        OBVIOUS
      <4>1. Len(sha') = 0 /\ Len(secbuf') = 0 /\ postused'[who'] = 0
        BY <1>1, <2>1
      <4> QED BY <4>1 DEF Laid
    <3> QED BY <2>1, <3>1 DEF Serving
  <2> QED BY <2>2, <2>3, <2>4, <2>5 DEF GInv
<1>4. CASE Resume
  <2>1. /\ postused[who] > 0 /\ UNCHANGED <<owner, sha, secbuf, spoiled>>
        /\ (owner # who => pc' = "idle")
        /\ (owner = who => verdicts' = verdicts /\ pc' = "loop" /\ who' = who)
    BY <1>4 DEF Resume, Return, Leave, otaVars, locals
  <2>2. ASSUME NEW c \in Clients PROVE Sound(c)'
    <3>1. verdicts'[c] = {} => verdicts[c] = {}
      BY <1>2
    <3> QED BY <1>1, <2>1, <3>1, SoundFrame
  <2>3. ASSUME NEW c \in Clients PROVE Welcome(c)'
    <3>1. CASE verdicts'[c] = verdicts[c]
      BY <1>1, <2>1, <3>1, WelcomeFrame
    <3>2. CASE verdicts'[c] # verdicts[c]
      <4>1. c = who /\ owner # who
        BY <1>2, <2>1, <3>2
      <4>2. spoiled'[c]
        BY <1>1, <2>1, <4>1 DEF Sound, Clean
      <4> QED BY <4>2 DEF Welcome
    <3> QED BY <3>1, <3>2
  <2>4. Serving'
    <3>1. CASE owner = who
      <4>1. Clean(who)' /\ verdicts'[who'] = {} => Laid(who)
        BY <1>1, <2>1, <3>1 DEF Clean, Sound
      <4>2. ASSUME Laid(who) PROVE Laid(who)'
        <5>1. ASSUME NEW c \in Clients, c = who PROVE Laid(c)'
          BY <1>1, <2>1, <4>2, <5>1, LaidFrame
        <5> QED BY <1>1, <2>1, <3>1, <5>1
      <4> QED BY <2>1, <3>1, <4>1, <4>2 DEF Serving
    <3>2. CASE owner # who
      BY <2>1, <3>2 DEF Serving
    <3> QED BY <3>1, <3>2
  <2> QED BY <1>1, <2>1, <2>2, <2>3, <2>4 DEF GInv
<1> QED BY <1>3, <1>4

\* The chunk that a turn of the loop moves.
LEMMA CopyMoves ==
  ASSUME IInv, Copy
  PROVE  /\ who \in Clients /\ up[who] \in Uploads /\ owner = who /\ Target(who)
         /\ postused[who] \in Nat /\ sent[who] \in Nat /\ postlen(who) \in Nat
         /\ buf[who] \in Seq(Content) /\ secbuf \in Seq(Content)
         /\ \E len \in Nat :
              /\ len <= Len(buf[who]) /\ len <= Rest(who) /\ (len = 0 => Len(secbuf) = SEC)
              /\ secbuf' = secbuf \o SubSeq(buf[who], 1, len)
              /\ buf' = [buf EXCEPT ![who] = SubSeq(buf[who], len + 1, Len(buf[who]))]
              /\ postused' = [postused EXCEPT ![who] = postused[who] + len]
<1>1. /\ who \in Clients /\ up[who] \in Uploads /\ Rest(who) > 0 /\ Len(buf[who]) > 0 /\ Ready(who)
  BY DEF Copy, IInv, Typed, Progress
<1>2. /\ postused[who] \in Nat /\ sent[who] \in Nat /\ buf[who] \in Seq(Content) /\ secbuf \in Seq(Content)
      /\ postlen(who) \in Nat
  BY <1>1, UploadTypes DEF IInv, Typed, postlen
<1>3. Target(who) /\ owner = who /\ Len(secbuf) <= SEC
  BY <1>1 DEF Ready, Target
<1>4. /\ ChunkLen \in Nat /\ ChunkLen <= Len(buf[who]) /\ ChunkLen <= Rest(who)
      /\ (ChunkLen = 0 => Len(secbuf) = SEC)
  <2>1. Len(buf[who]) \in Nat \ {0} /\ Rest(who) \in Nat \ {0} /\ Len(secbuf) \in Nat
    BY <1>1, <1>2 DEF Rest
  <2> QED BY <1>3, <2>1, OtaConstants DEF ChunkLen, MIN
<1>5. /\ secbuf' = secbuf \o SubSeq(buf[who], 1, ChunkLen)
      /\ buf' = [buf EXCEPT ![who] = SubSeq(buf[who], ChunkLen + 1, Len(buf[who]))]
      /\ postused' = [postused EXCEPT ![who] = postused[who] + ChunkLen]
  BY DEF Copy
<1> QED BY <1>1, <1>2, <1>3, <1>4, <1>5, Zenon

\* A turn of the loop: units move from the receive buffer to the sector buffer.
LEMMA GoodCopy ==
  ASSUME IInv, KInv, GInv, Copy
  PROVE  GInv'
<1>1. /\ who \in Clients /\ up[who] \in Uploads /\ owner = who
      /\ postused[who] \in Nat /\ sent[who] \in Nat /\ postlen(who) \in Nat
      /\ buf[who] \in Seq(Content) /\ secbuf \in Seq(Content)
  BY CopyMoves
<1>2. PICK len \in Nat :
        /\ len <= Len(buf[who]) /\ len <= Rest(who)
        /\ secbuf' = secbuf \o SubSeq(buf[who], 1, len)
        /\ buf' = [buf EXCEPT ![who] = SubSeq(buf[who], len + 1, Len(buf[who]))]
        /\ postused' = [postused EXCEPT ![who] = postused[who] + len]
  BY CopyMoves
<1>3. /\ pc = "loop" /\ UNCHANGED <<up, sent, owner, sha, who, flash, boot, verdicts, spoiled>>
      /\ pc' = IF Len(secbuf') = SEC \/ postused'[who] = postlen(who) THEN "erase" ELSE "loop"
      /\ postused \in [Clients -> Nat] /\ buf \in [Clients -> Seq(Content)]
      /\ spoiled \in [Clients -> BOOLEAN] /\ sha \in Seq(Bytes)
  BY DEF Copy, histVars, locals, IInv, Typed, GInv, KInv, Kept
<1>4. postused'[who] = postused[who] + len /\ buf'[who] = SubSeq(buf[who], len + 1, Len(buf[who]))
  BY <1>1, <1>2, <1>3
<1>5. pc' \in {"loop", "erase"}
  BY <1>3
<1>6. ASSUME Clean(who)
      PROVE  /\ Follows(buf'[who], Stream(up[who]), postused'[who], sent[who])
             /\ \A j \in 1 .. len : SubSeq(buf[who], 1, len)[j] = up[who].img[postused[who] + j]
  <2>1. Follows(buf[who], Stream(up[who]), postused[who], sent[who])
    BY <1>1, <1>6 DEF GInv, Sound, Streamed
  <2>2. /\ Stream(up[who]) \in Seq(Content)
        /\ \A q \in 1 .. postlen(who) : Stream(up[who])[q] = up[who].img[q]
    BY <1>1, StreamUnits DEF postlen
  <2>3. /\ Follows(SubSeq(buf[who], len + 1, Len(buf[who])), Stream(up[who]), postused[who] + len, sent[who])
        /\ \A j \in 1 .. len : SubSeq(buf[who], 1, len)[j] = Stream(up[who])[postused[who] + j]
    <3>1. len \in Nat
      OBVIOUS
    <3>2. ASSUME NEW s \in Seq(Content), NEW b \in Seq(Content), NEW p \in Nat, NEW t \in Nat, NEW l \in Nat,
                 Follows(b, s, p, t), l <= Len(b)
          PROVE  /\ Follows(SubSeq(b, l + 1, Len(b)), s, p + l, t)
                 /\ \A j \in 1 .. l : SubSeq(b, 1, l)[j] = s[p + j]
      BY <3>2, FollowsLess
    <3>3. PICK s \in Seq(Content), b \in Seq(Content), p \in Nat, t \in Nat :
            s = Stream(up[who]) /\ b = buf[who] /\ p = postused[who] /\ t = sent[who]
      BY <1>1, <2>2
    <3>4. Follows(b, s, p, t) /\ len <= Len(b)
      BY <1>2, <2>1, <3>3
    <3>5. /\ Follows(SubSeq(b, len + 1, Len(b)), s, p + len, t)
          /\ \A j \in 1 .. len : SubSeq(b, 1, len)[j] = s[p + j]
      BY <3>1, <3>2, <3>4
    <3> QED BY <3>3, <3>5, Zenon
  <2>4. \A j \in 1 .. len : postused[who] + j \in 1 .. postlen(who)
    BY <1>1, <1>2 DEF Rest
  <2> QED BY <1>4, <2>2, <2>3, <2>4, Zenon
<1>7. Clean(who)' = Clean(who)
  BY <1>3 DEF Clean
<1>8. Sound(who)'
  <2>1. Clean(who) => Streamed(who)'
    BY <1>3, <1>6 DEF Streamed
  <2> QED BY <1>1, <1>3, <1>5, <1>7, <2>1 DEF Sound
<1>9. Welcome(who)'
  <2>1. Welcome(who)
    BY <1>1 DEF GInv
  <2> QED BY <1>3, <2>1 DEF Welcome, Acceptable, postlen
<1>10. ASSUME Clean(who), verdicts[who] = {} PROVE Laid(who)'
  <2>1. Laid(who)
    BY <1>3, <1>10 DEF GInv, Serving
  <2>2. PICK part \in Seq(Content) : part = SubSeq(buf[who], 1, len) /\ Len(part) = len
    <3>1. \A i \in 1 .. len : buf[who][i] \in Content
      BY <1>1, <1>2
    <3>2. SubSeq(buf[who], 1, len) \in Seq(Content)
      BY <1>1, <1>2, <3>1, SubSeqProperties
    <3>3. Len(SubSeq(buf[who], 1, len)) = len
      BY <1>1, <1>2
    <3> QED BY <3>2, <3>3
  <2>3. PICK h \in Nat, k \in Nat, q \in Nat : h = Len(sha) /\ k = Len(secbuf) /\ q = postused[who] /\ h + k = q
    <3>1. Len(sha) \in Nat /\ Len(secbuf) \in Nat
      BY <1>1, <1>3
    <3> QED BY <1>1, <2>1, <3>1 DEF Laid
  <2>4. /\ Len(secbuf') = k + len
        /\ \A i \in 1 .. k : secbuf'[i] = secbuf[i]
        /\ \A j \in 1 .. len : secbuf'[k + j] = part[j]
    <3>1. secbuf' = secbuf \o part
      BY <1>2, <2>2
    <3> QED BY <1>1, <2>2, <2>3, <3>1
  <2>5. Len(sha') + Len(secbuf') = postused'[who']
    BY <1>3, <1>4, <2>3, <2>4
  <2>6. \A i \in 1 .. Len(sha') : sha'[i] = up'[who'].img[i] /\ UnitOf(3 - boot, i)' = up'[who'].img[i]
    BY <1>3, <2>1 DEF Laid, UnitOf
  <2>7. \A j \in 1 .. Len(secbuf') : secbuf'[j] = up[who].img[h + j]
    <3> TAKE j \in 1 .. Len(secbuf')
    <3>1. CASE j \in 1 .. k
      BY <2>1, <2>3, <2>4, <3>1 DEF Laid
    <3>2. CASE ~(j \in 1 .. k)
      <4>1. PICK i \in 1 .. len : j = k + i
        <5>1. j - k \in 1 .. len /\ j = k + (j - k)
          BY <2>4, <3>2
        <5> QED BY <5>1
      <4>2. secbuf'[j] = part[i]
        BY <2>4, <4>1
      <4>3. part[i] = up[who].img[q + i]
        BY <1>6, <1>10, <2>2, <2>3
      <4>4. q + i = h + j
        BY <2>3, <4>1
      <4> QED BY <4>2, <4>3, <4>4
    <3> QED BY <3>1, <3>2
  <2>8. Rest(who)' = 0 => pc' = "erase"
    <3>1. Rest(who)' = postlen(who) - postused'[who]
      BY <1>3 DEF Rest, postlen
    <3>2. postused'[who] \in Nat
      BY <1>1, <1>4
    <3>3. Rest(who)' = 0 => postused'[who] = postlen(who)
      BY <1>1, <3>1, <3>2
    <3> QED BY <1>3, <3>3
  <2>9. \A j \in 1 .. Len(secbuf') : secbuf'[j] = up'[who'].img[Len(sha') + j]
    BY <1>3, <2>3, <2>7
  <2> QED BY <2>5, <2>6, <2>8, <2>9 DEF Laid
<1>11. Serving'
  BY <1>3, <1>5, <1>7, <1>10 DEF Serving
<1>12. \A c \in Clients : c # who => postused'[c] = postused[c] /\ buf'[c] = buf[c]
  BY <1>2, <1>3
<1> QED BY <1>1, <1>3, <1>8, <1>9, <1>11, <1>12, GoodCall

\* A flash operation leaves the sectors that were flushed before alone.
LEMMA FlushedBefore ==
  ASSUME IInv, KInv, pc \in {"erase", "write"}, Laid(who), NEW s, flash' = [flash EXCEPT ![cur] = s], boot' = boot
  PROVE  /\ \E k \in Nat : Len(sha) = k * SEC /\ cur = UserAddr(3 - boot) + k
         /\ \A i \in 1 .. Len(sha) : UnitOf(3 - boot, i)' = UnitOf(3 - boot, i)
         /\ cur \in Sectors
<1>1. /\ who \in Clients /\ Target(who) /\ Account(who) /\ beg \in Nat /\ cur \in Nat /\ postused[who] \in Nat
      /\ secbuf \in Seq(Content) /\ sha \in Seq(Bytes) /\ flash \in [Sectors -> Seq(Content)] /\ boot \in {1, 2}
  BY DEF IInv, Typed, Progress, KInv, Kept
<1>2. PICK k \in Nat : k = cur - beg
  BY <1>1 DEF Target
<1>3. cur = beg + k /\ beg = UserAddr(3 - boot) /\ SEC \in Nat \ {0} /\ k * SEC \in Nat
  BY <1>1, <1>2, OtaConstants DEF Target
<1>4. Len(sha) = k * SEC
  <2>1. PICK h \in Nat, b \in Nat : h = Len(sha) /\ b = Len(secbuf)
    BY <1>1
  <2>2. h + b = postused[who] /\ k * SEC + b = postused[who]
    BY <1>2, <2>1, <1>1 DEF Laid, Account
  <2> QED BY <1>3, <2>1, <2>2
<1>5. cur \in Sectors
  <2>1. cur \in AppArea(3 - boot)
    BY TargetInArea
  <2> QED BY <1>1, <2>1, LayoutDisjoint
<1>6. ASSUME NEW i \in 1 .. Len(sha) PROVE UnitOf(3 - boot, i)' = UnitOf(3 - boot, i)
  <2>1. i - 1 \in Nat /\ i - 1 < k * SEC
    BY <1>3, <1>4
  <2>2. PICK q \in Nat : q = (i - 1) \div SEC /\ q < k
    BY <1>3, <2>1, DivLess
  <2>3. UserAddr(3 - boot) + q # cur
    BY <1>1, <1>3, <2>2
  <2>4. flash'[UserAddr(3 - boot) + q] = flash[UserAddr(3 - boot) + q]
    BY <1>1, <2>3
  <2> QED BY <2>2, <2>4 DEF UnitOf
<1> QED BY <1>3, <1>4, <1>5, <1>6

\* spi_flash_erase_sector() of the sector that comes next, behind all that was written.
LEMMA GoodErase ==
  ASSUME IInv, KInv, GInv, Erase
  PROVE  GInv'
<1>1. /\ who \in Clients /\ owner = who /\ pc = "erase" /\ pc' = "write"
      /\ UNCHANGED <<up, sent, buf, postused, owner, sha, secbuf, who, boot, verdicts, spoiled>>
      /\ flash' = [flash EXCEPT ![cur] = << >>] /\ spoiled \in [Clients -> BOOLEAN]
      /\ Sound(who) /\ Welcome(who)
  BY DEF Erase, IInv, Typed, Progress, Target, GInv, clientVars, otaVars, locals, histVars
<1>2. Clean(who)' = Clean(who) /\ Streamed(who)' = Streamed(who)
  BY <1>1 DEF Clean, Streamed, Follows
<1>3. Sound(who)'
  BY <1>1, <1>2 DEF Sound
<1>4. Welcome(who)'
  BY <1>1 DEF Welcome, Acceptable, postlen
<1>5. ASSUME Laid(who) PROVE Laid(who)'
  <2>1. \A i \in 1 .. Len(sha) : UnitOf(3 - boot, i)' = UnitOf(3 - boot, i)
    BY <1>1, <1>5, FlushedBefore
  <2> QED BY <1>1, <1>5, <2>1 DEF Laid
<1>6. Serving'
  BY <1>1, <1>2, <1>5 DEF Serving, GInv
<1> QED BY <1>1, <1>3, <1>4, <1>6, GoodCall

\* The sector buffer goes to the flash and to the hash.
LEMMA GoodWrite ==
  ASSUME IInv, KInv, GInv, Write \/ WriteGarbage
  PROVE  GInv'
<1>1. /\ who \in Clients /\ owner = who /\ pc = "write" /\ pc' = "loop"
      /\ UNCHANGED <<up, sent, buf, postused, owner, who, boot, verdicts>>
      /\ sha' = sha \o secbuf /\ secbuf' = << >> /\ spoiled \in [Clients -> BOOLEAN]
      /\ sha \in Seq(Bytes) /\ secbuf \in Seq(Content) /\ flash \in [Sectors -> Seq(Content)]
      /\ Sound(who) /\ Welcome(who)
  BY DEF Write, WriteGarbage, Flushed, IInv, Typed, Progress, Target, KInv, Kept, GInv, clientVars, locals
<1>2. spoiled' \in [Clients -> BOOLEAN] /\ \A c \in Clients : spoiled[c] => spoiled'[c]
  BY <1>1 DEF Write, WriteGarbage
<1>3. (Clean(who)' => Clean(who)) /\ Streamed(who)' = Streamed(who)
  BY <1>1, <1>2 DEF Clean, Streamed, Follows
<1>4. Sound(who)'
  BY <1>1, <1>3 DEF Sound
<1>5. Welcome(who)'
  BY <1>1, <1>2 DEF Welcome, Acceptable, postlen
<1>6. ASSUME Clean(who)', verdicts'[who'] = {} PROVE Laid(who)'
  <2>1. flash' = [flash EXCEPT ![cur] = secbuf]
    <3>1. CASE WriteGarbage
      <4>1. spoiled'[who']
        BY <1>1, <3>1 DEF WriteGarbage
      <4> QED BY <1>6, <4>1 DEF Clean
    <3> QED BY <3>1 DEF Write
  <2>2. Laid(who)
    BY <1>1, <1>3, <1>6 DEF GInv, Serving
  <2>3. /\ \A i \in 1 .. Len(sha) : UnitOf(3 - boot, i)' = UnitOf(3 - boot, i)
        /\ cur \in Sectors
    BY <1>1, <2>1, <2>2, FlushedBefore
  <2>4. PICK k \in Nat : Len(sha) = k * SEC /\ cur = UserAddr(3 - boot) + k
    BY <1>1, <2>1, <2>2, FlushedBefore
  <2>5. PICK h \in Nat, b \in Nat : h = Len(sha) /\ b = Len(secbuf) /\ b <= SEC
    <3>1. Len(secbuf) \in 1 .. SEC
      BY <1>1 DEF IInv, Progress
    <3> QED BY <1>1, <3>1, OtaConstants
  <2>6. /\ Len(sha') = h + b
        /\ \A i \in 1 .. h : sha'[i] = sha[i]
        /\ \A j \in 1 .. b : sha'[h + j] = secbuf[j]
    <3>1. secbuf \in Seq(Bytes)
      BY <1>1 DEF Bytes
    <3> QED BY <1>1, <2>5, <3>1
  <2>7. \A j \in 1 .. b : UnitOf(3 - boot, h + j)' = secbuf[j]
    <3> TAKE j \in 1 .. b
    <3>1. flash'[UserAddr(3 - boot) + k] = secbuf
      BY <1>1, <2>1, <2>3, <2>4
    <3>2. j \in 1 .. SEC /\ j - 1 \in Nat /\ j - 1 < SEC /\ SEC \in Nat \ {0}
      BY <2>5, OtaConstants
    <3>3. (h + j) - 1 = k * SEC + (j - 1) /\ (j - 1) + 1 = j
      <4>1. k * SEC = h
        BY <2>4, <2>5
      <4> QED BY <4>1
    <3>4. (k * SEC + (j - 1)) \div SEC = k /\ (k * SEC + (j - 1)) % SEC = j - 1
      BY <3>2, DivMod, Zenon
    <3>5. j <= Len(secbuf)
      BY <2>5
    <3> QED BY <1>1, <3>1, <3>3, <3>4, <3>5 DEF UnitOf
  <2>8. ASSUME NEW i \in 1 .. Len(sha')
        PROVE  sha'[i] = up[who].img[i] /\ UnitOf(3 - boot, i)' = up[who].img[i]
    <3>1. CASE i \in 1 .. h
      BY <2>2, <2>3, <2>5, <2>6, <3>1 DEF Laid
    <3>2. CASE ~(i \in 1 .. h)
      <4>1. PICK j \in 1 .. b : i = h + j
        <5>1. i - h \in 1 .. b /\ i = h + (i - h)
          BY <2>6, <3>2
        <5> QED BY <5>1
      <4>2. secbuf[j] = up[who].img[h + j]
        BY <2>2, <2>5, <4>1 DEF Laid
      <4>3. sha'[i] = secbuf[j] /\ UnitOf(3 - boot, i)' = secbuf[j]
        BY <2>6, <2>7, <4>1, Zenon
      <4> QED BY <4>1, <4>2, <4>3
    <3> QED BY <3>1, <3>2
  <2>9. Len(secbuf') = 0
    BY <1>1
  <2>10. Len(sha') + Len(secbuf') = postused'[who']
    <3>1. h + b = postused[who]
      BY <2>2, <2>5 DEF Laid
    <3> QED BY <1>1, <2>6, <2>9, <3>1
  <2> QED BY <1>1, <2>8, <2>9, <2>10 DEF Laid
<1>7. Serving'
  BY <1>1, <1>6 DEF Serving
<1> QED BY <1>1, <1>2, <1>4, <1>5, <1>7, GoodCall

\* An operation of the flash that fails spoils the upload.
LEMMA GoodFault ==
  ASSUME IInv, KInv, GInv, EraseFails \/ WriteFails \/ ReadFails
  PROVE  GInv'
<1>1. /\ who \in Clients /\ up[who] # NULL /\ Kept /\ owner = who /\ pc \in {"erase", "write", "read"} /\ Return(400)
      /\ UNCHANGED <<up, sent, buf, postused, owner>> /\ spoiled' = [spoiled EXCEPT ![who] = TRUE]
      /\ spoiled \in [Clients -> BOOLEAN]
  BY DEF EraseFails, WriteFails, ReadFails, FlashFault, IInv, Typed, KInv, Kept, Bound, Calls, GInv,
         clientVars, otaVars
<1>2. /\ pc' = "idle"
      /\ \A c \in Clients : verdicts'[c] = verdicts[c] \cup (IF c = who THEN {400} ELSE {})
  BY <1>1, ReturnTypes
<1>3. \A c \in Clients : c # who => verdicts'[c] = verdicts[c]
  BY <1>2
<1>4. spoiled' \in [Clients -> BOOLEAN] /\ (\A c \in Clients : spoiled[c] => spoiled'[c])
  BY <1>1
<1>5. ASSUME NEW c \in Clients, c = who PROVE Sound(c)' /\ Welcome(c)'
  <2>1. spoiled'[c]
    BY <1>1, <1>5
  <2> QED BY <2>1 DEF Sound, Clean, Welcome
<1>6. Serving'
  BY <1>2 DEF Serving
<1> QED BY <1>1, <1>2, <1>3, <1>4, <1>5, <1>6, GoodStep

\* The call waits for more, or the body is complete.
LEMMA GoodLoopEnd ==
  ASSUME IInv, KInv, GInv, More \/ Complete
  PROVE  GInv'
<1>1. /\ who \in Clients /\ up[who] \in Uploads /\ owner = who /\ pc = "loop"
      /\ UNCHANGED <<up, sent, buf, postused, owner, secbuf, appsize, flash, boot, verdicts, spoiled>>
      /\ Sound(who) /\ Welcome(who) /\ appsize = postlen(who) /\ spoiled \in [Clients -> BOOLEAN]
      /\ sha \in Seq(Bytes) /\ secbuf \in Seq(Content) /\ postused[who] \in Nat
  BY DEF More, Complete, IInv, Typed, KInv, Kept, Bound, Calls, GInv, otaVars, histVars
<1>2. ASSUME NEW c \in Clients PROVE Clean(c)' = Clean(c) /\ Streamed(c)' = Streamed(c)
  BY <1>1 DEF Clean, Streamed, Follows
<1>3. ASSUME NEW c \in Clients, c = who PROVE Welcome(c)'
  BY <1>1, <1>3 DEF Welcome, Acceptable, postlen
<1>4. Clean(who) /\ verdicts[who] = {} => Laid(who)
  BY <1>1 DEF GInv, Serving
<1>5. CASE More
  <2>1. sha' = sha /\ pc' = "idle"
    BY <1>5 DEF More, Leave, otaVars
  <2>2. ASSUME NEW c \in Clients, c = who PROVE Sound(c)'
    <3>1. Laid(c) => Laid(c)'
      <4> SUFFICES ASSUME Laid(c) PROVE Laid(c)'
        OBVIOUS
      <4> QED BY <1>1, <2>1, LaidFrame
    <3> QED BY <1>1, <1>2, <1>4, <2>2, <3>1 DEF Sound
  <2>3. Serving'
    BY <2>1 DEF Serving
  <2> QED BY <1>1, <1>3, <2>2, <2>3, GoodStep
<1>6. CASE Complete
  <2>1. Rest(who) = 0 /\ hash1' = Sha256(sha) /\ pc' = "read" /\ who' = who
    BY <1>6 DEF Complete
  <2>2. ASSUME NEW c \in Clients, c = who PROVE Sound(c)'
    BY <1>1, <1>2, <2>1, <2>2 DEF Sound
  <2>3. ASSUME Laid(who)
        PROVE  /\ hash1' = Sha256(up[who].img)
               /\ \A i \in 1 .. appsize : UnitOf(3 - boot, i)' = up[who].img[i]
    <3>1. Len(secbuf) = 0
      BY <1>1, <2>1, <2>3 DEF Laid
    <3>2. up[who].img \in Seq(Unit) /\ postlen(who) \in Nat /\ postused[who] = postlen(who)
      <4>1. up[who].img \in Seq(Unit) /\ postlen(who) \in Nat
        BY <1>1, UploadTypes DEF postlen
      <4> QED BY <1>1, <2>1, <4>1 DEF Rest
    <3>3. Len(sha) = postlen(who)
      <4>1. PICK h \in Nat : h = Len(sha)
        BY <1>1
      <4>2. h + 0 = postused[who]
        BY <2>3, <3>1, <4>1 DEF Laid
      <4> QED BY <3>2, <4>1, <4>2
    <3>4. sha = up[who].img
      <4>1. up[who].img \in Seq(Bytes)
        BY <3>2 DEF Bytes, Content
      <4>2. Len(sha) = Len(up[who].img) /\ \A i \in 1 .. Len(sha) : sha[i] = up[who].img[i]
        BY <2>3, <3>3 DEF Laid, postlen
      <4> QED BY <1>1, <4>1, <4>2, SeqEqual
    <3>5. \A i \in 1 .. appsize : UnitOf(3 - boot, i) = up[who].img[i]
      BY <1>1, <2>3, <3>3 DEF Laid
    <3>6. \A i : UnitOf(3 - boot, i)' = UnitOf(3 - boot, i)
      BY <1>1 DEF UnitOf
    <3> QED BY <2>1, <3>4, <3>5, <3>6
  <2>4. Serving'
    BY <1>1, <1>2, <1>4, <2>1, <2>3 DEF Serving, Clean
  <2> QED BY <1>1, <1>3, <2>2, <2>4, GoodStep
<1> QED BY <1>5, <1>6

\* A sector of the application is read back into the second hash.
LEMMA GoodRead ==
  ASSUME IInv, KInv, GInv, Read
  PROVE  GInv'
<1>1. /\ who \in Clients /\ owner = who /\ pc = "read" /\ pc' = "read"
      /\ UNCHANGED <<up, sent, buf, postused, owner, hash1, appsize, who, flash, boot, verdicts, spoiled>>
      /\ Sound(who) /\ Welcome(who) /\ spoiled \in [Clients -> BOOLEAN] /\ Serving
  BY DEF Read, IInv, Typed, KInv, Kept, Bound, Calls, GInv, clientVars, histVars
<1>2. Clean(who)' = Clean(who) /\ Streamed(who)' = Streamed(who)
  BY <1>1 DEF Clean, Streamed, Follows
<1>3. Sound(who)'
  BY <1>1, <1>2 DEF Sound
<1>4. Welcome(who)'
  BY <1>1 DEF Welcome, Acceptable, postlen
<1>5. \A i : UnitOf(3 - boot, i)' = UnitOf(3 - boot, i)
  BY <1>1 DEF UnitOf
<1>6. Serving'
  BY <1>1, <1>2, <1>5 DEF Serving
<1> QED BY <1>1, <1>3, <1>4, <1>6, GoodCall

\* A good upload passes both comparisons.
LEMMA GoodVerified ==
  ASSUME IInv, KInv, GInv, pc = "read", ~InApp, Clean(who), verdicts[who] = {},
         SignatureOf(up[who].sig, Sha256(up[who].img))
  PROVE  Verified
<1>1. /\ who \in Clients /\ up[who] \in Uploads /\ appsize = postlen(who) /\ appsize \in Nat
      /\ addr \in Nat /\ beg \in Nat
  BY DEF IInv, Typed, KInv, Kept, Bound, Calls
<1>2. /\ addr >= beg /\ sha \in Seq(Content) /\ Len(sha) = MIN((addr - beg) * SEC, appsize)
      /\ \A i \in 1 .. Len(sha) : sha[i] = UnitOf(3 - boot, i)
  BY DEF KInv, ReadBack
<1>3. /\ hash1 = Sha256(up[who].img)
      /\ \A i \in 1 .. appsize : UnitOf(3 - boot, i) = up[who].img[i]
  BY DEF GInv, Serving
<1>4. Len(sha) = appsize
  <2>1. (addr - beg) * SEC \in Int /\ ~((addr - beg) * SEC < appsize)
    BY <1>1, OtaConstants DEF InApp
  <2> QED BY <1>1, <1>2, <2>1 DEF MIN
<1>5. sha = up[who].img
  <2>1. up[who].img \in Seq(Content)
    BY <1>1, UploadTypes DEF Content
  <2>2. Len(sha) = Len(up[who].img) /\ \A i \in 1 .. Len(sha) : sha[i] = up[who].img[i]
    BY <1>1, <1>2, <1>3, <1>4 DEF postlen
  <2> QED BY <1>2, <2>1, <2>2, SeqEqual
<1> QED BY <1>3, <1>5, Zenon DEF Verified, SignatureOf, strncmpEqual

\* The verdict: a sound upload has both digests equal, and gets its 202.
LEMMA GoodDecide ==
  ASSUME IInv, KInv, GInv, Decide
  PROVE  GInv'
<1>1. /\ who \in Clients /\ up[who] # NULL /\ Kept /\ owner = who /\ pc = "read" /\ ~InApp
      /\ UNCHANGED <<up, sent, buf, postused, owner, spoiled>> /\ spoiled \in [Clients -> BOOLEAN]
      /\ Sound(who) /\ Welcome(who)
  BY DEF Decide, IInv, Typed, KInv, Kept, Bound, Calls, GInv, clientVars
<1>2. PICK code \in {202, 400} : Return(code) /\ (Verified => code = 202)
  BY DEF Decide
<1>3. /\ pc' = "idle"
      /\ \A c \in Clients : c # who => verdicts'[c] = verdicts[c]
      /\ verdicts'[who] = verdicts[who] \cup {code}
  BY <1>1, <1>2, ReturnTypes
<1>4. ASSUME NEW c \in Clients, c = who PROVE Sound(c)' /\ Welcome(c)'
  <2>1. verdicts'[c] = verdicts[who] \cup {code} /\ verdicts'[c] # {}
    BY <1>3, <1>4
  <2>2. Clean(c)' = Clean(c) /\ Streamed(c)' = Streamed(c)
    BY <1>1 DEF Clean, Streamed, Follows
  <2>3. Sound(c)'
    BY <1>1, <1>4, <2>1, <2>2 DEF Sound
  <2>4. Welcome(c)'
    <3> SUFFICES ASSUME ~spoiled[who], Acceptable(who), SignatureOf(up[who].sig, Sha256(up[who].img))
                 PROVE  202 \in verdicts'[c]
      BY <1>1, <1>4 DEF Welcome, Acceptable, postlen
    <3>1. CASE verdicts[who] = {}
      <4>1. Verified
        BY <1>1, <3>1, GoodVerified DEF Clean
      <4> QED BY <1>2, <2>1, <4>1
    <3>2. CASE verdicts[who] # {}
      BY <1>1, <2>1, <3>2 DEF Welcome
    <3> QED BY <3>1, <3>2
  <2> QED BY <2>3, <2>4
<1>5. Serving'
  BY <1>3 DEF Serving
<1> QED BY <1>1, <1>3, <1>4, <1>5, GoodStep

\* GoodAccepted: an image that fits and comes with its own signature is accepted, for
\* every segmentation and every size of the buffer, unless a segment was dropped, a flash
\* operation failed or another upload took over.
THEOREM GoodUploadsAccepted == Spec => []GoodAccepted
<1>1. Init => GInv
  BY DEF Init, RamInit, GInv, Sound, Clean, Welcome, Serving
<1>2. IInv /\ KInv /\ GInv /\ [Next]_vars => GInv'
  <2> SUFFICES ASSUME IInv, KInv, GInv, [Next]_vars PROVE GInv'
    OBVIOUS
  <2>1. CASE \/ \E c \in Clients, u \in Uploads, n \in Chunks : Connect(c, u, n)
             \/ \E c \in Clients, n \in Chunks : Data(c, n)
             \/ \E c \in Clients : Close(c)
    BY <2>1, GoodPeers
  <2>2. CASE Begin \/ Resume
    BY <2>2, GoodEnter
  <2>3. CASE Copy
    BY <2>3, GoodCopy
  <2>4. CASE Erase
    BY <2>4, GoodErase
  <2>5. CASE Write \/ WriteGarbage
    BY <2>5, GoodWrite
  <2>6. CASE EraseFails \/ WriteFails \/ ReadFails
    BY <2>6, GoodFault
  <2>7. CASE More \/ Complete
    BY <2>7, GoodLoopEnd
  <2>8. CASE Read
    BY <2>8, GoodRead
  <2>9. CASE Decide
    BY <2>9, GoodDecide
  <2>10. CASE ota_reboot \/ PowerLoss
    <3>1. /\ up' = [c \in Clients |-> NULL] /\ spoiled' = [c \in Clients |-> FALSE] /\ pc' = "idle"
      BY <2>10 DEF ota_reboot, PowerLoss, Restart, Leave
    <3> QED BY <3>1 DEF GInv, Sound, Clean, Welcome, Serving
  <2>11. CASE UNCHANGED vars
    <3>1. UNCHANGED <<up, sent, buf, postused, owner, sha, hash1, secbuf, appsize, pc, who, flash, boot,
                      verdicts, spoiled>>
      BY <2>11 DEF vars, clientVars, otaVars, callVars, locals, histVars
    <3>2. \A c \in Clients : Sound(c)' /\ Welcome(c)'
      BY <3>1, SoundFrame, WelcomeFrame DEF GInv
    <3>3. \A i : UnitOf(3 - boot, i)' = UnitOf(3 - boot, i)
      BY <3>1 DEF UnitOf
    <3>4. Clean(who)' = Clean(who) /\ Laid(who)' = Laid(who)
      BY <3>1, <3>3 DEF Clean, Laid, Rest, postlen
    <3>5. Serving'
      BY <3>1, <3>3, <3>4 DEF Serving, GInv
    <3> QED BY <3>1, <3>2, <3>5 DEF GInv
  <2> QED BY <2>1, <2>2, <2>3, <2>4, <2>5, <2>6, <2>7, <2>8, <2>9, <2>10, <2>11 DEF Next, Handler
<1>3. GInv => GoodAccepted
  BY WelcomeGood DEF GInv
<1> QED BY <1>1, <1>2, <1>3, KInvHolds, PTL DEF Spec

-----------------------------------------------------------------------------
(* A call ends.                                                             *)

Ahead == 4 * Rest(who) + appsize + 2

\* The work that is left, place by place.
LEMMA WorkAt ==
  /\ pc = "enter" => Work = 5 * postlen(who) + 6
  /\ pc = "loop"  => Work = Ahead + (IF Len(secbuf) = SEC THEN 3 ELSE 0)
  /\ pc = "erase" => Work = Ahead + 2
  /\ pc = "write" => Work = Ahead + 1
  /\ pc = "read"  => Work = appsize + 1 - (addr - beg)
<1>1. /\ "enter" # "loop" /\ "enter" # "erase" /\ "enter" # "write" /\ "enter" # "read"
      /\ "loop" # "erase" /\ "loop" # "write" /\ "loop" # "read"
      /\ "erase" # "write" /\ "erase" # "read" /\ "write" # "read"
  OBVIOUS
<1> QED BY <1>1, ZenonT(60) DEF Work, Ahead

\* The same in the next state.
LEMMA WorkNext ==
  /\ pc' = "loop"  => Work' = Ahead' + (IF Len(secbuf') = SEC THEN 3 ELSE 0)
  /\ pc' = "erase" => Work' = Ahead' + 2
  /\ pc' = "write" => Work' = Ahead' + 1
  /\ pc' = "read"  => Work' = appsize' + 1 - (addr' - beg')
<1>1. /\ "enter" # "loop" /\ "enter" # "erase" /\ "enter" # "write" /\ "enter" # "read"
      /\ "loop" # "erase" /\ "loop" # "write" /\ "loop" # "read"
      /\ "erase" # "write" /\ "erase" # "read" /\ "write" # "read"
  OBVIOUS
<1> QED BY <1>1, ZenonT(60) DEF Work, Ahead

\* Every step of a call ends it or leaves less work.
LEMMA StepShortens ==
  ASSUME IInv, KInv, Handler, pc' # "idle"
  PROVE  Work' \in 1 .. Work - 1
<1>1. /\ who \in Clients /\ up[who] \in Uploads /\ postlen(who) \in Nat /\ postused[who] \in Nat
      /\ appsize \in Nat /\ beg \in Nat /\ addr \in Nat /\ pc # "idle" /\ SEC \in Nat \ {0}
  BY UploadTypes, OtaConstants DEF Handler, Begin, Resume, Copy, Erase, EraseFails, Write, WriteGarbage,
     WriteFails, More, Complete, Read, ReadFails, Decide, IInv, Typed, KInv, Kept, postlen
<1>2. Rest(who) \in Int
  BY <1>1 DEF Rest
<1>3. pc \in {"loop", "erase", "write"} => Rest(who) \in Nat
  BY <1>1, <1>2 DEF IInv, Progress, Ready, Target, Rest
<1>4. CASE Begin
  <2>1. /\ pc = "enter" /\ pc' = "loop" /\ postused[who] = 0 /\ appsize' = postlen(who)
        /\ secbuf' = << >> /\ UNCHANGED <<up, postused, who>>
    BY <1>4 DEF Begin, Return, Leave, Acceptable, NewUpload, locals
  <2>2. Rest(who)' = postlen(who)
    BY <1>1, <2>1 DEF Rest, postlen
  <2>3. Work = 5 * postlen(who) + 6
    BY <2>1, WorkAt
  <2>4. Work' = 4 * postlen(who) + postlen(who) + 2
    <3>1. Len(secbuf') # SEC
      BY <1>1, <2>1
    <3>2. Ahead' = 4 * postlen(who) + postlen(who) + 2
      BY <2>1, <2>2 DEF Ahead
    <3> QED BY <1>1, <2>1, <3>1, <3>2, WorkNext
  <2> QED BY <1>1, <2>3, <2>4
<1>5. CASE Resume
  <2>1. /\ pc = "enter" /\ pc' = "loop" /\ postused[who] > 0 /\ owner = who /\ up[who] # NULL
        /\ UNCHANGED <<up, postused, who, appsize>>
    BY <1>5 DEF Resume, Return, Leave, otaVars, locals, IInv, Typed, Progress
  <2>2. appsize = postlen(who) /\ postused[who] <= postlen(who)
    BY <1>1, <2>1 DEF KInv, Kept, Bound, IInv, Progress, Ready, Target
  <2>3. Rest(who)' = Rest(who) /\ Rest(who) \in Nat /\ Rest(who) <= postlen(who)
    BY <1>1, <2>1, <2>2 DEF Rest, postlen
  <2>4. Work = 5 * postlen(who) + 6
    BY <2>1, WorkAt
  <2>5. Work' = 4 * Rest(who) + postlen(who) + 2 \/ Work' = 4 * Rest(who) + postlen(who) + 2 + 3
    <3>1. Ahead' = 4 * Rest(who) + postlen(who) + 2
      BY <2>1, <2>2, <2>3 DEF Ahead
    <3> QED BY <1>1, <2>1, <2>3, <3>1, WorkNext
  <2> QED BY <1>1, <2>3, <2>4, <2>5
<1>6. CASE Copy
  <2>1. PICK len \in Nat : /\ len <= Len(buf[who]) /\ len <= Rest(who) /\ (len = 0 => Len(secbuf) = SEC)
                           /\ secbuf' = secbuf \o SubSeq(buf[who], 1, len)
                           /\ postused' = [postused EXCEPT ![who] = postused[who] + len]
    BY <1>6, CopyMoves
  <2>2. /\ pc = "loop" /\ UNCHANGED <<up, who, appsize>>
        /\ (pc' = "erase" \/ (pc' = "loop" /\ Len(secbuf') # SEC))
        /\ postused \in [Clients -> Nat] /\ buf[who] \in Seq(Content) /\ secbuf \in Seq(Content)
    BY <1>1, <1>6 DEF Copy, locals, IInv, Typed
  <2>3. Rest(who)' = Rest(who) - len
    <3>1. postused'[who'] = postused[who] + len
      BY <1>1, <2>1, <2>2
    <3> QED BY <1>1, <2>2, <3>1 DEF Rest, postlen
  <2>4. PICK r \in Nat : r = Rest(who)
    BY <1>3, <2>2
  <2>5. Ahead = 4 * r + appsize + 2 /\ Ahead' = 4 * (r - len) + appsize + 2
    BY <2>2, <2>3, <2>4 DEF Ahead
  <2>6. len = 0 => Len(secbuf') = SEC
    BY <2>1, <2>2
  <2>7. CASE len = 0
    <3>1. Work = Ahead + 3 /\ Work' = Ahead' + 2
      BY <1>1, <2>1, <2>2, <2>5, <2>6, <2>7, WorkAt, WorkNext
    <3> QED BY <1>1, <2>4, <2>5, <2>7, <3>1
  <2>8. CASE len # 0
    <3>1. Work = Ahead \/ Work = Ahead + 3
      BY <1>1, <2>2, <2>4, <2>5, WorkAt
    <3>2. Work' = Ahead' \/ Work' = Ahead' + 2
      <4>1. Ahead' \in Int
        BY <1>1, <2>4, <2>5
      <4> QED BY <2>2, <4>1, WorkNext
    <3>3. PICK x \in Nat, y \in Nat : x = r - len /\ y = appsize /\ len >= 1 /\ r = x + len
      <4>1. len <= r
        BY <2>1, <2>4
      <4>2. r - len \in Nat /\ len >= 1 /\ r = (r - len) + len
        BY <2>8, <4>1
      <4> QED BY <1>1, <4>2
    <3>4. Ahead = 4 * x + 4 * len + y + 2 /\ Ahead' = 4 * x + y + 2
      BY <2>4, <2>5, <3>3
    <3> QED BY <3>1, <3>2, <3>3, <3>4
  <2> QED BY <2>7, <2>8
<1>7. CASE Erase \/ Write \/ WriteGarbage
  <2>1. /\ (pc = "erase" /\ pc' = "write") \/ (pc = "write" /\ pc' = "loop" /\ secbuf' = << >>)
        /\ UNCHANGED <<up, postused, who, appsize>>
    BY <1>7 DEF Erase, Write, WriteGarbage, Flushed, clientVars, otaVars, locals
  <2>2. Ahead' = Ahead /\ Ahead \in Nat /\ Ahead >= 2
    <3>1. Rest(who)' = Rest(who) /\ Rest(who) \in Nat
      BY <1>3, <2>1 DEF Rest, postlen
    <3> QED BY <1>1, <2>1, <3>1 DEF Ahead
  <2>3. (Work = Ahead + 2 /\ Work' = Ahead' + 1) \/ (Work = Ahead + 1 /\ Work' = Ahead')
    <3>1. Len(<< >>) # SEC
      BY <1>1
    <3> QED BY <2>1, <2>2, <3>1, WorkAt, WorkNext
  <2> QED BY <2>2, <2>3
<1>8. CASE Complete
  <2>1. pc = "loop" /\ pc' = "read" /\ Rest(who) = 0 /\ addr' = beg /\ UNCHANGED <<beg, appsize>>
    BY <1>8 DEF Complete
  <2>2. Work = 4 * 0 + appsize + 2 \/ Work = 4 * 0 + appsize + 2 + 3
    BY <1>1, <2>1, WorkAt DEF Ahead
  <2>3. Work' = appsize + 1 - (beg - beg)
    BY <2>1, WorkNext
  <2> QED BY <1>1, <2>2, <2>3
<1>9. CASE Read
  <2>1. pc = "read" /\ pc' = "read" /\ InApp /\ addr' = addr + 1 /\ UNCHANGED <<beg, appsize>>
    BY <1>9 DEF Read
  <2>2. PICK k \in Nat : k = addr - beg
    BY <1>1, <2>1 DEF KInv, ReadBack
  <2>3. k * SEC < appsize
    BY <2>1, <2>2 DEF InApp
  <2>4. k < appsize
    <3>1. k <= k * SEC /\ k * SEC \in Nat
      BY <1>1
    <3> QED BY <1>1, <2>3, <3>1
  <2>5. Work = appsize + 1 - k
    BY <2>1, <2>2, WorkAt
  <2>6. Work' = appsize + 1 - (k + 1)
    <3>1. addr' - beg' = k + 1
      BY <1>1, <2>1, <2>2
    <3> QED BY <2>1, <3>1, WorkNext
  <2> QED BY <1>1, <2>4, <2>5, <2>6
<1> QED BY <1>4, <1>5, <1>6, <1>7, <1>8, <1>9 DEF Handler, EraseFails, WriteFails, More, ReadFails, Decide,
           FlashFault, Return, Leave

\* CallEnds: whatever is uploaded, a call of the handler ends after at most
\* 5 * postlen + 6 flash operations and turns of its loops.
THEOREM CallsEnd == Spec => CallEnds
<1>1. IInv /\ KInv /\ [Next]_vars => [pc # "idle" => pc' = "idle" \/ Work' \in 1 .. Work - 1]_vars
  <2> SUFFICES ASSUME IInv, KInv, Next, pc # "idle", pc' # "idle" PROVE Work' \in 1 .. Work - 1
    OBVIOUS
  <2>1. Handler
    BY DEF Next, Connect, Data, Close, ota_reboot, PowerLoss, Restart, Leave
  <2> QED BY <2>1, StepShortens
<1> QED BY <1>1, KInvHolds, PTL DEF Spec, CallEnds
=============================================================================
