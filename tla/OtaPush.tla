------------------------------ MODULE OtaPush ------------------------------
(***************************************************************************)
(* Over-the-air updates: http_url_ota_push() and ota_reboot() of           *)
(* http/url_ota.c, the flash they write and the partition that is booted.  *)
(*                                                                         *)
(* A call of the handler runs to its end before any other callback, so pc  *)
(* is the place inside the call and callbacks start when pc is "idle";     *)
(* only a power loss can come in between.  One step of pc is one flash     *)
(* operation.  Addresses count sectors and images are sequences of units,  *)
(* SEC of them in a sector; a sector holds the units that were written to  *)
(* it, what lies behind the end of an image is left out.                   *)
(***************************************************************************)
EXTENDS Integers, Sequences

CONSTANTS
  Clients,       \* slots of http_clients that send POST /ota/push
  NULL,
  SEC,           \* SPI_FLASH_SEC_SIZE, in units
  HALF,          \* half of the flash (size_kb/2), in sectors
  SupportedMap,  \* does system_get_flash_size_map() give a supported layout?
  BUF,           \* sizeof(client->buf), in units
  Chunks,        \* sizes of one received segment
  Uploads,       \* what a peer may send: [img, sig, post, trailing]; sig is the
                 \* number the signature decrypts to, as its bytes from the top
  Factory,       \* image the device was flashed with, over the UART
  Official,      \* images that were signed with the private key
  Unit,          \* values of one unit of an image
  STALE,         \* what is read where nothing was written
  PAD,           \* what sha256_done() feeds to the hash
  HASH,          \* sizeof(hash1), in bytes
  Sha256(_),     \* digest of what was fed to the hash, a tuple of HASH bytes
  NoSig,         \* a url without '?', or a signature that does not decode
  BadWrites,     \* may spi_flash_write() report success and store garbage?
  QuietWindow    \* does no upload begin between a 202 and the reboot?

USER1  == 1
USER2  == HALF + 1
MaxApp == HALF - 5                         \* (size_kb/2-20)*1024, in sectors
Sectors == 0 .. 2 * HALF - 1
UserAddr(n) == IF n = 1 THEN USER1 ELSE USER2

ASSUME OtaConstants ==
  /\ NULL \notin Clients /\ NULL \notin Uploads
  /\ SEC \in Nat \ {0} /\ BUF \in Nat \ {0} /\ HASH \in Nat \ {0}
  /\ HALF \in Nat /\ HALF >= 6
  /\ SupportedMap \in BOOLEAN /\ BadWrites \in BOOLEAN /\ QuietWindow \in BOOLEAN
  /\ Chunks \subseteq Nat
  /\ \A u \in Uploads : u.img \in Seq(Unit) /\ u.post \in BOOLEAN /\ u.trailing \in Nat
  /\ Factory \in Official /\ Official \subseteq Seq(Unit)
  /\ STALE \notin Unit /\ PAD \notin Unit

\* The image the device was flashed with fits into its partition.
ASSUME OtaFactory == Len(Factory) <= MaxApp * SEC

VARIABLES
  up,        \* the upload of a client, or NULL when its slot is not in use
  sent,      \* units of the body (and what trails it) the peer has sent
  buf,       \* client->buf
  postused,  \* client->postused
  held,      \* espconn_recv_hold() without espconn_recv_unhold()
  owner,     \* otastate.client
  sha,       \* otastate.sha256: what was fed since sha256_init()
  beg, cur,  \* otastate.newaddr_beg and newaddr_cur
  appsize,   \* otastate.appsize
  secbuf,    \* the secused first units of otastate.secbuf
  armed,     \* otastate.timer is running (and the upgrade flag is FINISH)
  pc,        \* place in http_url_ota_push(); "idle" outside
  who,       \* its client argument
  addr,      \* its local addr
  hash1,     \* otastate.hash1, set and used within one call
  flash,     \* contents of each sector
  boot,      \* partition that is running, 1 or 2
  verdicts,  \* history: status codes sent to the client
  spoiled,   \* history: a fault, a lost segment or another upload came across
  accepted,  \* history: the image of the last upload that got a 202
  blind      \* history: partitions that got one for digests that differ behind a NUL
             \* or behind the end of hash3

clientVars == <<up, sent, buf, postused, held>>
otaVars    == <<owner, sha, beg, cur, appsize, secbuf, armed>>
locals     == <<who, addr, hash1>>
callVars   == <<pc, locals>>
ackVars    == <<accepted, blind>>
histVars   == <<verdicts, spoiled, ackVars>>
vars       == <<clientVars, otaVars, callVars, flash, boot, histVars>>

MIN(a, b) == IF a <= b THEN a ELSE b
postlen(c) == Len(up[c].img)
Rest(c)    == postlen(c) - postused[c]

\* What the peer has to send: the image and, perhaps, some units behind it.
Stream(u) == u.img \o [n \in 1 .. u.trailing |-> STALE]

-----------------------------------------------------------------------------
(* The peers.                                                              *)

RamInit ==
  /\ up       = [c \in Clients |-> NULL]
  /\ sent     = [c \in Clients |-> 0]
  /\ buf      = [c \in Clients |-> << >>]
  /\ postused = [c \in Clients |-> 0]
  /\ held     = [c \in Clients |-> FALSE]
  /\ owner = NULL /\ sha = << >>
  /\ beg = 0 /\ cur = 0 /\ appsize = 0 /\ secbuf = << >> /\ armed = FALSE
  /\ pc = "idle" /\ who = NULL /\ addr = 0 /\ hash1 = << >>
  /\ verdicts = [c \in Clients |-> {}]
  /\ spoiled  = [c \in Clients |-> FALSE]
  /\ accepted = << >>

\* Sector a of a partition that starts at from and holds img.
SectorOf(img, a, from) ==
  LET n == (a - from) * SEC
  IN  IF a < from \/ n >= Len(img) THEN << >> ELSE SubSeq(img, n + 1, MIN(n + SEC, Len(img)))

Init ==
  /\ RamInit
  /\ boot = 1 /\ blind = {}
  /\ flash = [a \in Sectors |-> SectorOf(Factory, a, USER1)]

\* The next segment arrives; http_client_recv_cb drops one that does not fit.
Receive(c, u, n, have, done) ==
  LET data == SubSeq(Stream(u), done + 1, done + n)
      fits == Len(have) + n <= BUF
  IN  /\ done + n <= Len(Stream(u))
      /\ sent' = [sent EXCEPT ![c] = done + n]
      /\ buf' = [buf EXCEPT ![c] = IF fits THEN have \o data ELSE have]
      /\ spoiled' = [spoiled EXCEPT ![c] = @ \/ ~fits]
      /\ IF fits THEN pc' = "enter" /\ who' = c ELSE UNCHANGED <<pc, who>>

\* A peer connects and its header block is complete, perhaps with data behind it.
Connect(c, u, n) ==
  /\ pc = "idle" /\ up[c] = NULL
  /\ ~(QuietWindow /\ armed)
  /\ up' = [up EXCEPT ![c] = u]
  /\ Receive(c, u, n, << >>, 0)
  /\ UNCHANGED <<postused, held, otaVars, addr, hash1, flash, boot, verdicts, ackVars>>

\* More data arrives for a connection that is not held; a client that has its 202
\* may still send what it did not announce.
Data(c, n) ==
  /\ pc = "idle" /\ up[c] # NULL /\ ~held[c] /\ n > 0
  /\ QuietWindow /\ armed => postused[c] > 0
  /\ Receive(c, up[c], n, buf[c], sent[c])
  /\ UNCHANGED <<up, postused, held, otaVars, addr, hash1, flash, boot, verdicts, ackVars>>

\* The connection ends; its slot can be taken by another one.
Close(c) ==
  /\ pc = "idle" /\ up[c] # NULL
  /\ up'       = [up EXCEPT ![c] = NULL]
  /\ sent'     = [sent EXCEPT ![c] = 0]
  /\ buf'      = [buf EXCEPT ![c] = << >>]
  /\ postused' = [postused EXCEPT ![c] = 0]
  /\ held'     = [held EXCEPT ![c] = FALSE]
  /\ verdicts' = [verdicts EXCEPT ![c] = {}]
  /\ spoiled'  = [spoiled EXCEPT ![c] = FALSE]
  /\ UNCHANGED <<otaVars, callVars, flash, boot, ackVars>>

-----------------------------------------------------------------------------
(* http_url_ota_push(client).                                              *)

\* The handler returns.
Leave == pc' = "idle" /\ who' = NULL /\ addr' = 0 /\ hash1' = << >>

\* It sends a response and returns.
Return(code) == Leave /\ verdicts' = [verdicts EXCEPT ![who] = @ \cup {code}]

Acceptable(c) == SupportedMap /\ up[c].post /\ postlen(c) <= MaxApp * SEC

\* The other partition is the target.
NewUpload ==
  /\ beg' = UserAddr(3 - boot) /\ cur' = beg'
  /\ appsize' = postlen(who)
  /\ secbuf' = << >>

\* espconn_recv_hold() and espconn_recv_unhold(): an error is only logged.
Hold   == \E ok \in BOOLEAN : held' = [held EXCEPT ![who] = @ \/ ok]
Unhold == \E ok \in BOOLEAN : held' = [held EXCEPT ![who] = @ /\ ~ok]

\* postused == 0: the upload starts, and takes otastate from whoever had it.
Begin ==
  /\ pc = "enter" /\ postused[who] = 0
  /\ owner' = who
  /\ sha' = << >>
  /\ spoiled' = [c \in Clients |-> spoiled[c] \/ (c # who /\ postused[c] > 0)]
  /\ IF SupportedMap THEN NewUpload ELSE UNCHANGED <<beg, cur, appsize, secbuf>>
  /\ IF Acceptable(who)
     THEN Hold /\ pc' = "loop" /\ UNCHANGED <<locals, verdicts>>
     ELSE Return(400) /\ UNCHANGED held
  /\ UNCHANGED <<up, sent, buf, postused, armed, flash, boot, ackVars>>

\* Mutant: the handler does not look whose upload it is.
Resume_AnyClient ==
  /\ pc = "enter" /\ postused[who] > 0
  /\ Hold
  /\ pc' = "loop"
  /\ UNCHANGED <<up, sent, buf, postused, otaVars, locals, flash, boot, histVars>>

\* postused > 0: the upload goes on, unless another client has taken otastate.
Resume ==
  /\ pc = "enter" /\ postused[who] > 0
  /\ IF owner = who
     THEN Hold /\ pc' = "loop" /\ UNCHANGED <<locals, verdicts>>
     ELSE Return(400) /\ UNCHANGED held
  /\ UNCHANGED <<up, sent, buf, postused, otaVars, flash, boot, spoiled, ackVars>>

ChunkLen == MIN(MIN(Len(buf[who]), Rest(who)), SEC - Len(secbuf))

\* One turn of the loop: fill the sector buffer; full, or at the end of the body,
\* it goes to the flash.  It is full already when a flash operation failed before and
\* the connection was not held: the sector is tried again.
Copy ==
  /\ pc = "loop" /\ Len(buf[who]) > 0 /\ Rest(who) > 0
  /\ secbuf' = secbuf \o SubSeq(buf[who], 1, ChunkLen)
  /\ buf' = [buf EXCEPT ![who] = SubSeq(@, ChunkLen + 1, Len(@))]
  /\ postused' = [postused EXCEPT ![who] = @ + ChunkLen]
  /\ pc' = IF Len(secbuf') = SEC \/ postused'[who] = postlen(who) THEN "erase" ELSE "loop"
  /\ UNCHANGED <<up, sent, held, owner, sha, beg, cur, appsize, armed, locals, flash, boot,
                 histVars>>

\* A flash operation reports an error: 400, and a held connection stays held.
FlashFault ==
  /\ Return(400)
  /\ spoiled' = [spoiled EXCEPT ![who] = TRUE]
  /\ UNCHANGED <<clientVars, otaVars, boot, ackVars>>

\* spi_flash_erase_sector()
Erase ==
  /\ pc = "erase"
  /\ flash' = [flash EXCEPT ![cur] = << >>]
  /\ pc' = "write"
  /\ UNCHANGED <<clientVars, otaVars, locals, boot, histVars>>

EraseFails == pc = "erase" /\ FlashFault /\ UNCHANGED flash

\* The sector is written, hashed, and the next one is filled.
Flushed ==
  /\ sha' = sha \o secbuf
  /\ cur' = cur + 1
  /\ secbuf' = << >>
  /\ pc' = "loop"
  /\ UNCHANGED <<clientVars, owner, beg, appsize, armed, locals, boot, verdicts, ackVars>>

\* spi_flash_write()
Write ==
  /\ pc = "write"
  /\ flash' = [flash EXCEPT ![cur] = secbuf]
  /\ Flushed
  /\ UNCHANGED spoiled

\* spi_flash_write() stores something else.
WriteGarbage ==
  /\ pc = "write" /\ BadWrites
  /\ flash' = [flash EXCEPT ![cur] = [n \in 1 .. Len(secbuf) |-> STALE]]
  /\ Flushed
  /\ spoiled' = [spoiled EXCEPT ![who] = TRUE]

\* Mutant: try again until it works.
WriteFails_Retry ==
  /\ pc = "write" /\ pc' = "erase"
  /\ UNCHANGED <<clientVars, otaVars, locals, flash, boot, histVars>>

WriteFails == pc = "write" /\ FlashFault /\ UNCHANGED flash

\* The loop ends with the body incomplete: return 0 and wait for more.
More ==
  /\ pc = "loop" /\ Rest(who) > 0 /\ Len(buf[who]) = 0
  /\ Unhold
  /\ Leave
  /\ UNCHANGED <<up, sent, buf, postused, otaVars, flash, boot, histVars>>

\* The body is complete: hash1, then read the application back from its start.  (The
\* reads overwrite secbuf, which nothing uses until the next upload resets secused.)
Complete ==
  /\ pc = "loop" /\ Rest(who) = 0
  /\ Unhold
  /\ hash1' = Sha256(sha)
  /\ sha' = << >>
  /\ addr' = beg
  /\ pc' = "read"
  /\ UNCHANGED <<up, sent, buf, postused, owner, beg, cur, appsize, secbuf, armed, who, flash,
                 boot, histVars>>

\* The first n units read from sector a.
SectorUnits(a, n) ==
  [i \in 1 .. n |-> IF i <= Len(flash[a]) THEN flash[a][i] ELSE STALE]

\* Mutant: the last sector is always taken for a partial one.
ReadLen_OffByOne == IF (addr + 1 - beg) * SEC >= appsize THEN appsize % SEC ELSE SEC

\* Units of the sector at addr that belong to the application.
ReadLen == IF (addr + 1 - beg) * SEC > appsize THEN appsize % SEC ELSE SEC

InApp == (addr - beg) * SEC < appsize

\* spi_flash_read()
Read ==
  /\ pc = "read" /\ InApp
  /\ sha' = sha \o SectorUnits(addr, ReadLen)
  /\ addr' = addr + 1
  /\ UNCHANGED <<clientVars, owner, beg, cur, appsize, secbuf, armed, pc, who, hash1, flash,
                 boot, histVars>>

ReadFails == pc = "read" /\ InApp /\ FlashFault /\ UNCHANGED flash

\* os_strncmp(): equal up to the end, or up to a common NUL.
strncmpEqual(a, b) ==
  \/ a = b
  \/ \E n \in DOMAIN a \cap DOMAIN b : a[n] = 0 /\ \A i \in 1 .. n : a[i] = b[i]

\* The decrypted number, with zeroes in front when it is short.  One that is longer
\* runs over the end of hash3, the last member of otastate; its top bytes are compared.
hash3(sig) ==
  LET zeroes == IF Len(sig) < HASH THEN HASH - Len(sig) ELSE 0
  IN  [i \in 1 .. HASH |-> IF i <= zeroes THEN 0 ELSE sig[i - zeroes]]

\* Mutant: what was read back is not compared.
Verified_NoReadback == up[who].sig # NoSig /\ strncmpEqual(hash1, hash3(up[who].sig))

\* Mutant: the signature is not compared.
Verified_NoSignature == strncmpEqual(hash1, Sha256(sha))

\* hash2 of what was read, and hash3 from the signature, match hash1.
Verified ==
  /\ strncmpEqual(hash1, Sha256(sha))
  /\ up[who].sig # NoSig
  /\ strncmpEqual(hash1, hash3(up[who].sig))

\* The signature sig is that of what has the digest h.
SignatureOf(sig, h) == sig # NoSig /\ Len(sig) <= HASH /\ hash3(sig) = h

\* The three digests are equal, and not only as far as they are compared.
SameDigest == hash1 = Sha256(sha) /\ SignatureOf(up[who].sig, hash1)

\* Not all is compared: os_strncmp() stops at a NUL, and hash3 has room for HASH bytes.
CutShort ==
  \/ \E i \in DOMAIN hash1 : hash1[i] = 0
  \/ up[who].sig # NoSig /\ ~(Len(up[who].sig) <= HASH)

\* The verdict; sha256_done() has left its padding in the hash.  A 202 sets the
\* upgrade flag and starts the timer of the reboot.
Decide ==
  /\ pc = "read" /\ ~InApp
  /\ sha' = Append(sha, PAD)
  /\ Return(IF Verified THEN 202 ELSE 400)
  /\ armed' = (armed \/ Verified)
  /\ accepted' = IF Verified THEN up[who].img ELSE accepted
  /\ blind' = IF Verified
              THEN (blind \ {3 - boot}) \cup (IF CutShort /\ ~SameDigest THEN {3 - boot} ELSE {})
              ELSE blind
  /\ UNCHANGED <<clientVars, owner, beg, cur, appsize, secbuf, flash, boot, spoiled>>

-----------------------------------------------------------------------------
(* Restarts.                                                               *)

Restart ==
  /\ up'       = [c \in Clients |-> NULL]
  /\ sent'     = [c \in Clients |-> 0]
  /\ buf'      = [c \in Clients |-> << >>]
  /\ postused' = [c \in Clients |-> 0]
  /\ held'     = [c \in Clients |-> FALSE]
  /\ owner' = NULL /\ sha' = << >>
  /\ beg' = 0 /\ cur' = 0 /\ appsize' = 0 /\ secbuf' = << >> /\ armed' = FALSE
  /\ Leave
  /\ verdicts' = [c \in Clients |-> {}]
  /\ spoiled'  = [c \in Clients |-> FALSE]
  /\ accepted' = << >>
  /\ UNCHANGED <<flash, blind>>

\* The timer of a 202 fires: system_upgrade_reboot() into the other partition.
ota_reboot == pc = "idle" /\ armed /\ boot' = 3 - boot /\ Restart

\* Power loss at any point, or system_restart() of /reset: same partition.
PowerLoss == boot' = boot /\ Restart

Handler ==
  \/ Begin \/ Resume \/ Copy \/ Erase \/ EraseFails \/ Write \/ WriteGarbage \/ WriteFails
  \/ More \/ Complete \/ Read \/ ReadFails \/ Decide

Next ==
  \/ \E c \in Clients, u \in Uploads, n \in Chunks : Connect(c, u, n)
  \/ \E c \in Clients, n \in Chunks : Data(c, n)
  \/ \E c \in Clients : Close(c)
  \/ Handler
  \/ ota_reboot
  \/ PowerLoss

Spec == Init /\ [][Next]_vars

-----------------------------------------------------------------------------
(* Properties.                                                             *)

\* Unit i of what partition n holds.
UnitOf(n, i) ==
  LET s == flash[UserAddr(n) + (i - 1) \div SEC]
      j == ((i - 1) % SEC) + 1
  IN  IF j <= Len(s) THEN s[j] ELSE STALE

Holds(n, img) == \A i \in 1 .. Len(img) : UnitOf(n, i) = img[i]

\* Sectors an application in partition n may use.
AppArea(n) == UserAddr(n) .. UserAddr(n) + MaxApp - 1

\* Whatever the peers send and whatever fails, an upload changes no sector but
\* those of the partition that is not running: the running application, the user
\* params in front of the second partition and the SDK's sectors at the end of the
\* flash stay as they are.
WritesConfined ==
  [][\A a \in Sectors : flash'[a] # flash[a] => a \in AppArea(3 - boot)]_vars

\* "When done it is read from flash and its hash is recalculated to verify the
\* write integrity": after a 202 the flash holds what the client uploaded, until
\* another upload starts.  Exempt is a 202 for different digests, which os_strncmp()
\* takes for equal when they have a NUL at the same place and agree before it.
AcceptedIntact ==
  \A c \in Clients : up[c] # NULL /\ 202 \in verdicts[c] /\ owner = c /\ 3 - boot \notin blind =>
     Holds(3 - boot, up[c].img)

\* "If the signature does not verify with the embedded public key the firmware is
\* rejected": the device runs an image that was signed, or one that was accepted
\* although its digest is not the number its signature decrypts to.  The code accepts
\* such a one when both have a NUL at the same place and agree before it, or when the
\* number is longer than a digest and starts with it.
RunningOfficial == boot \notin blind => \E img \in Official : Holds(boot, img)

\* An upload that is signed and fits is accepted, however it was cut into segments,
\* unless a flash operation failed or another upload took over.
GoodAccepted ==
  \A c \in Clients :
    /\ up[c] # NULL /\ verdicts[c] # {} /\ ~spoiled[c]
    /\ SupportedMap /\ up[c].post /\ Len(up[c].img) <= MaxApp * SEC
    /\ SignatureOf(up[c].sig, Sha256(up[c].img))
    => 202 \in verdicts[c]

\* "the system is rebooted into the new application": what the pending reboot starts
\* is the image that got the last 202, whatever the client sent behind it and was told
\* then (the code answers data behind the body with a 400), whether or not its
\* connection is still there, and whatever failed or was refused before.
RebootsAccepted == armed /\ 3 - boot \notin blind => Holds(3 - boot, accepted)

\* A bound on the flash operations and turns of the loop that a call has left.
Work ==
  LET ahead == 4 * Rest(who) + appsize + 2
  IN  CASE pc = "enter" -> 5 * postlen(who) + 6
        [] pc = "loop"  -> ahead + (IF Len(secbuf) = SEC THEN 3 ELSE 0)
        [] pc = "erase" -> ahead + 2
        [] pc = "write" -> ahead + 1
        [] pc = "read"  -> appsize + 1 - (addr - beg)

\* A call of the handler returns: it feeds the watchdog at every turn, so nothing
\* else would end it.  Every step of a call ends it or leaves less work, and there
\* is some work left as long as it goes on.
CallEnds ==
  [][pc # "idle" => pc' = "idle" \/ Work' \in 1 .. Work - 1]_vars
=============================================================================
