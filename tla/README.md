# A verification project for esp8266-toolbox

TLA+ models of the firmware in this repository, the TLC runs that check them on
small instances, and TLAPS proofs of their main safety properties for every value
of the constants. `PROJECT.json` ties each definition to the lines it models.

The firmware is single-threaded: the SDK calls callbacks (network, timers, posted
tasks) one after the other and never preempts one by another. What is hard is
therefore not data races but *orders*: callbacks of several connections, timers
and power losses in orders nobody tried, state that one callback leaves for the
next, and streams that arrive in pieces.

## 1. Inventory

| Component | State it keeps | Operations | Interacts with |
| --- | --- | --- | --- |
| HTTP connections (`http/init.c`) | `http_clients[4]`, the back pointer `conn->reverse`, `http_task_queue` | accept, receive, disconnect and error callbacks, kill task | SDK (espconn, tasks), request processing |
| HTTP requests (`http/process.c`, `http/private.h`, `http/urls.c`) | one `HttpClient`: state, buffer, url, host, POST counters | `http_process`, the skeleton `HTTP_IGNORE_POSTDATA`, dispatch by url | pages |
| HTTP pages (`http/url_*.c`, `http/utils.c`) | the output buffer; the setup pages keep a timer and what to store | one handler per url | SDK, params, SMTP account, log |
| OTA update (`http/url_ota.c`) | the one `otastate`, two partitions in flash, the upgrade flag | upload handler, delayed reboot | flash, crypto, HTTP |
| SMTP client (`smtp/`) | the one `smtp_state` (state, mail, receive buffer, timer), `smtp_server` | `smtp_send` and a chain of callbacks: DNS, connect, one handler per reply, kill timer | SDK, params, crypto; called by WiFi, uptime, light monitor |
| Uptime (`uptime.c`) | `uptime_high`, `uptime_last` | handler every 20 minutes, `uptime_us` | SMTP client, log, monitor |
| Startup and light monitor (`user_init.c`) | last light level, time of the last mail | start, callback every 30 seconds | uptime, sensor, SMTP client |
| WiFi (`wifi.c`) | none of its own | configuration at start, event callback | SMTP client |
| User params (`param.c`) | three protected sectors, one static buffer | store, retrieve | SMTP client, setup page |
| Logging (`log/`) | ring of characters, a level per subsystem | `log_entry`, raise, lower | all; the logs page reads and cuts the ring |
| Crypto (`crypto/`) | hash states | SHA-256, MD5, base64, big integers, RSA | OTA, SMTP |
| I2C and light sensor (`i2c/`, `drivers/`) | bus levels, the driver's `init` flag | start, stop, bytes, sensor transactions | monitor |
| BearSSL, host scripts, board | - | - | not part of the running firmware |

What is hard to test, component by component (the full list, with lines, is
`hazards` in `PROJECT.json`), and what makes the component correct:

* **HTTP.** Connection structures come from an allocator that reuses addresses, so
  back pointers and queued pointers can be stale; there are four slots and four
  queue entries; connections end in two ways and only one of them releases the
  slot; requests arrive cut anywhere. Correct means: no two connections share a
  slot, no byte is lost or counted twice, nothing is answered early, every
  connection to be killed is closed, no other one is, no slot leaks.
* **OTA.** All uploads share one `otastate`; each of dozens of flash operations
  can fail, or do something else than it reports; power can go at any point; five
  seconds lie between the verdict and the reboot. Correct means: only the idle
  partition is written, what is accepted is in the flash, only signed images run,
  a good image is accepted, what got a 202 is what the reboot starts, the handler
  returns.
* **SMTP.** Three independent callers, one connection; the receive buffer is
  memory treated as a string; replies are lines in segments; the state has to find
  its way back after every failure. Correct means: at most one delivery, no mixed
  mails, client and server in step, the buffer terminated, mails delivered, the
  client ready again.
* **Uptime.** A 32 bit counter that wraps every 71 minutes, read three times by a
  handler during which it goes on. Correct means: no wrap missed or counted twice,
  a mail names the day it is, one mail per day.
* **Account.** The setup page changes the account in place while it reads the
  request, and stores it three seconds later. Correct means: what is stored was
  accepted, what was accepted is stored, a device starts with such an account.
* **Light monitor.** It measures five minutes with a clock that jumps. Correct means:
  a mail for more light and only then, apart by five minutes of true time, and a
  bounded burst when the clock has jumped.
* **Mail as a whole.** Setup page, client and callers share `smtp_server`, which one
  mail reads four times. Correct means: credentials go where they belong, a mail is
  delivered whatever the setup page does later, a restart cures a fault.
* **Log.** A page cuts the log into lines in place, and leaves through a `return`
  inside a macro. Correct means: the page stays inside its buffer, the log survives
  being shown, a page that failed comes when it is asked for again.
* **Light sensor.** A bus driven bit by bit, and restarts that the sensor does not
  notice. Correct means: a reading is what was measured, the bus is free behind a
  transfer, a fault costs one call.
* **Computations.** The parser starts again with every segment, in memory where one
  field runs into the next; hashes are fed in pieces; the big integers work in place.
  Correct means: the result is that of the plain definition, however the data is cut.

## 2. Plan

Done: the modules of section 3 with their properties and runs, and the proofs of
section 5. What is left, in this order:

1. The parser (`HeaderBlock`) as a machine with a step per character instead of a
   recursive operator. `ParserFaithful` could then be proved the way `HashBlocks` is.
2. The table of a light reading after two restarts, see `TableGenuine` in section 5.
3. The quotient of `bigint_div()`, which the firmware never asks for.

## 3. The modules

### HttpServer
One action per SDK callback: `http_server_conn_cb`, `http_client_recv_cb`,
`http_client_disconn_cb`, `http_server_error_cb`, and the task `http_task`.
`http_clients` is the array of structures, `reverse` the back pointers as they lie
in the connections' memory (they survive the end of the connection), `queue` the
task queue. `http_process`, the dispatch and the handlers are operators that give
the set of possible results of a call, since what a handler does beyond the client
structure (log full or not, upload good or not) is a choice here. Bytes are
counted, not stored: a request is the length of its header block, its method, url,
POST length, and whether it is malformed. After a dropped segment the header block
can turn out to be anything. External: `espconn` (a connection is free, open or
closing; `espconn_disconnect` acts on live connections only) and `system_os_post`,
which fails when the queue is full. The SDK may put a new connection at an
address that is still queued for the kill (history `reused`) and may end any
connection by the error callback (history `orphans`, the slots this leaves behind).

The assumption that a header block takes at most half of the buffer is there
because `parseline` is called with a length that is not reduced by what was
already parsed: an incomplete block is searched up to twice its length. Within
half of the buffer the search meets the zeroes of `os_bzero` only.

### OtaPush
`http_url_ota_push` with one step per flash operation: `Begin`/`Resume`, `Copy`
(a turn of the loop over the receive buffer), `Erase`, `Write`, `More`/`Complete`,
`Read`, `Decide`, and the failures. `pc` is the place in the call; other callbacks
only run when it is `"idle"`, a power loss may come at any time. `ota_reboot` is
the timer of a 202. Sectors hold short sequences of units; `Sha256` is an operator from
sequences to tuples of `HASH` bytes; in the runs it is injective, and some of its
digests start with NUL. A signature is the number it decrypts to, as bytes; `hash3` is
what the code makes of it: zeroes in front of a short one, the top bytes of one that
is too long and runs over the end of the array (what it overwrites there is not
modelled). The model has the details that the verdict depends on: a failed flash
operation leaves the connection held, `espconn_recv_hold()` and its counterpart may
fail, which is only logged (`Hold`, `Unhold`), so that more data can come behind a
failure; a call after the verdict finds the padding of `sha256_done` in the hash;
`os_strncmp` stops at a NUL. Histories: `spoiled`, uploads that met a fault or a rival;
`accepted`, the image of the last 202; `blind`, the partitions that got one although
the digests differ, behind a NUL or behind the end of `hash3`.

### MailService and SmtpClient
`MailService` is what the callers may rely on: a mail that was taken on is
delivered at most once, with its own sender and recipient, before the next one is
taken on, or lost. `SmtpClient` has the chain of callbacks of `smtp.c` and the
server. Data is a stream of units: a code with the character behind it, a word of
text, CRLF. `inbuf` is memory: `smtp_send_recv_cb` copies units into it,
`Consume` moves them, and the search for a line (`CrlfAt`) sees whatever lies
there, old data included. The eight reply handlers are instances of `Command`; they
differ in the code they take and the command they send, except
`smtp_send_greet`, which loops, and `smtp_send_challenge`, whose line must decode.
`pc = "reply"` is the inside of a handler, so that the loop has a step per line.
When a line ends behind the received data, the 16 bits of `inbufused` wrap and
`os_memmove` shifts the memory behind `inbuf` over it (`Wild`; what lies there is any
member of `Memory`); nothing but a reset follows. Faults (at
most `MaxFaults`): failed DNS, registration, connect and send calls, lost
connections, resets. `espconn_disconnect(NULL)`, which is what the kill timer does
in all handlers but one, has no effect. The CRAM-MD5 response is the term
`<<"response", challenge>>`: the server takes it if it answers its own challenge. A
text unit stands for text of any length; that the bytes of an old and a new line
happen to align is one of the outcomes the real buffer has, not the only one.

### SmtpAccount
A request of `/smtp/setup` is one action; its query string is the sequence of the
pieces between its `&`. A piece without `=` in the middle becomes the start of the key of
the next pair (`KeyOf`), as `index(key, '=')` passes over the `&`; at the end it ends the
loop. `Filled` is what the loop leaves in `smtp_server`: the last pair of each field in
front of the first one that ends the loop (too long, or no `=` any more).
`Refused` is the form and the 400, which keep what was written, `Accepted` the 202,
which starts the timer. `smtp_param_write` stores whatever `smtp_server` holds by
then, or fails unnoticed; the SDK's save with two copies takes place or not.
`smtp_init` is a restart. The magic number is compared by its first byte, as the
misplaced parenthesis in `param_retrieve` has it. Values are those behind
`url_decode`. A request that is refused while the timer runs does get its fields
stored; `spoilt` marks such an account and the properties exempt it.

### Mailer
`SmtpAccount` and `SmtpClient` (by `INSTANCE`) with the three callers of
`smtp_send()`. `dest` and `cred` are what the client has taken from `smtp_server`, and
when: the host in `smtp_send()`, the port when the address is known, user and
password with the challenge. A server lets in the logins it knows (`Servers`). A
restart is `Reset` of the client and `smtp_init` of the account in one step. `moved`
is history: the account changed between `smtp_send()` and the response. `Mails` is the
set of mails that the callers can ask for.

### Uptime and Monitor
Time passes in ticks; `counter` and `wraps` are the true time, `uptime_handler`,
`Sample` and `Report` the three reads of one call of the handler. `LATE` and `SPAN`
bound how late the timer and how long the handler may be. A mail is a count per
day. `Monitor` adds the callback of the light monitor, which runs between two calls of
the handler and uses the same clock; what it reads from the sensor is any member of
`Readings`.

### Logging
`log_entry()`, the levels and the logs page. A log is the sequence of the offsets at
which its lines end; all sizes are those of the code, so that the run meets the
window of 25 bytes in which the guard of a row lets pass what `HTTP_OUTBUF_APPEND`
refuses. `Torn` is what that `return` leaves: the NUL that stood in for a newline. A
log that was never filled is followed by zeroes; a full one has no NUL, and `Count`
goes on into `logbuf.line`. Entries come from `Messages`, the log at the start is one
message many times (`Scenes`). A request for one of the three pages is itself logged
first, at the level that is valid then (`Request`, `Tune`). `Whole` is how
many lines an entry in front leaves uncut.

### I2cMaster and Tsl2561
`I2cMaster` has the functions of `i2c_master.c` as sequences of settings of the two
wires, and the slave's side of the protocol (external): it sees edges only, and pulls
SDA down by itself. `Tsl2561` runs a transfer as a `script` of these functions, one
setting per step, and `tsl2561_lux()` as a sequence of transfers; the sensor has its
registers and a register pointer. A restart lets go of both wires at any step and
runs `i2c_master_gpio_init()`, which the sensor takes for whatever it was waiting
for. `calc_lux` is the table lookup with the code's integer arithmetic.

### HeaderBlock, WifiSetup, Codecs, Bigint
Computations; all but `Codecs` with recursion, for TLC only.
`HeaderBlock`: `http_process()` up to the end of the headers, on memory in which `url`,
`host` and `buf` lie behind each other, so that the NUL of a field that is exactly
full lands where it does in the code; a method or the key of a header is one symbol, and
`Keyword` is what the code takes it for when it compares prefixes (`GETX` and `G` are
`GET`). `WifiSetup`: the form as a browser sends it, with `+` for a blank, `url_decode()`
with its repeated passes and the entries of its table that matter for the query, the
loop over the query, and the page.
`Codecs`: the block buffer of SHA-256 and MD5 up to the call that mixes a block (a
block is kept in a list instead), with a step for each turn of the copy loop
(`hash_turn`), and base64. `Bigint`: shift, compare, add, subtract,
multiply and remainder as the loops of `bigint.c` leave the bits, and
`rsa_pubkey_decrypt()` on them. `MCFunctions` puts them side by side; they share
no state.

## 4. Runs

| Run | Shows | Bounds |
| --- | --- | --- |
| `http_requests` | `TypeOK`, `SlotOwned`, `BytesAccounted`, `AnswerAfterBody`, `DoomedQueued`, `OnlyErrorsLeak`, `KillsOnlyDoomed`, `DoomedCloses` | two connections compete for one slot and one queue entry; buffer of 4; header blocks of 1 and 2, bodies of 0 to 3, segments of 1 and 3, so that blocks, bodies and the end of the buffer are cut at and inside every boundary; connections end by both callbacks, addresses are reused at any time |
| `http_leak` | violates `NoSlotLeak` | fewer requests, segments of 1 |
| `ota_uploads` | `AcceptedIntact`, `RunningOfficial`, `GoodAccepted`, `RebootsAccepted`, `WritesConfined`, `CallEnds` | two clients; applications of up to two sectors of 2 units; segments of 0 and 3 units, so a sector is filled from parts of several and a segment crosses its end; images that fill a sector in part, the partition exactly, are too large, carry another's signature or more data than announced, in the same segment or another one; a signed and an unsigned image whose digests start with NUL; signatures that decrypt to zero and to more than a digest; every hold may fail |
| `ota_window` | violates `RunningOfficial` | the same when an upload may start after a 202 |
| `smtp_segments` | `BufTerminated`, `InTurn`, `Serves` | two mails and one that is too long, replies cut anywhere, greeting longer than the buffer, refusals, one fault anywhere; two contents of the memory behind `inbuf` |
| `smtp_stuck` | violates `ReadyAgain` | two mails, whole lines, one fault |
| `mailer` | `StoredAccepted`, `BootAccepted`, `CredentialsHome`, `BufTerminated`, `AcceptedStored`, `Delivered`, `ReadyForNext` | two mails, two faults or restarts anywhere, two requests of the setup page out of two full accounts, single, cleared, overlong and repeated fields, a port of 65536, pieces without `=` in the middle and at the end, the bare page; two servers |
| `uptime_clock` | `ClockExact`, `BurstBound`, `MailNamesToday`, `LightMailsApart` | three days; a tick is five minutes, the counter wraps after 14 and a day has 30, so that days and wraps meet at different places; timer and handler up to a tick late; the monitor at any time with readings on both sides of the limit and failures |
| `day_mails` | violates `OncePerDay` | the periods of the code in ticks of 24 seconds (wrap 179, handler 50, day 3600), nothing late, no light monitor |
| `logs` | `OutbufBounded`, `LinesFit`, `LogKept`, `RetryAnswered` | full logs of every line length from 44 to 112, with and without refresh; four logs with one more message or change of a level at any moment |
| `sensor` | `LuxGenuine`, `BusFree`, `Recovers`, `OneWireMoves` | two missing acknowledges and one restart at any setting of the wires; both packages and an unknown one; light in the table and saturated |
| `functions` | `ParserFaithful`, `StationTyped`, `HashBlocks`, `CodesExact` | `url` of 4, `host` of 3 and `buf` of 30 bytes, fields below, at and above these sizes, words that start or continue a keyword, every cut into segments; names and passwords with every character that has a meaning, blanks among them; messages of up to 140 bytes in up to 70 at a time (two blocks and both sides of the place of the length); base64 of up to 4 bytes; numbers of up to two digits, moduli of up to four |

`ota_uploads` assumes that no upload begins or goes on between a 202 and the reboot
(`QuietWindow`); `ota_window` shows why. Data behind a body that is complete is not
excluded. The symmetry of `ota_uploads` is that of the
two clients, which no definition tells apart; all its properties are safety
properties. `MailNamesToday` is checked where the handler cannot be a whole period
late. The runs of `SmtpClient`, `Mailer`, `Monitor` and `Logging` do not check for
deadlock because they end when the mails (`MaxMails`), the requests, the time
(`MaxTime`) or the messages (`left`) are used up, or the device has halted.

The four violations are findings: each contradicts a line of the repository's
`README.md`, quoted in `PROJECT.json`. In short: a connection that is reset keeps its
slot for ever; an upload in the five seconds before a reboot is booted unverified;
after one failure the SMTP client is never ready again; a day can be mailed twice (at
2880 and 2940 minutes), because the day count before a wrap was seen is compared with
the one after, and the handler can see two wraps in the 71 minutes behind midnight.

What a passing property leaves out is said in its comment. These are the places:

* `AcceptedIntact`, `RunningOfficial` and `RebootsAccepted` exempt a partition that was
  accepted on different digests (`blind`): `os_strncmp` takes two for equal that agree up
  to a NUL, so one image in 256 is accepted with a signature of zero, and a number that
  is longer than a digest is compared by its top bytes only.
* Data behind an accepted body makes the handler answer again, with a 400 behind the
  202. `RebootsAccepted` says that the image is booted all the same.
* `OnlyErrorsLeak` exempts slots whose connection ended by the error callback (the case
  of `http_leak`), `KillsOnlyDoomed` connections at an address that was still queued:
  `http_task` closes them in place of the earlier ones.
* `BufTerminated` holds up to the step at which `inbufused` wraps. With whole lines there
  is no such step; a segment that ends inside a line can lead to it.
* `InTurn` and `Serves` do not say that a mail is delivered when a reply comes in two
  segments: it may be completed from old data in `inbuf`, and the mail is lost.
  `Delivered` is therefore about whole lines.
* `LightMailsApart` is about mails between which the clock has not jumped;
  `BurstBound` covers the rest.
* `LinesFit` exempts messages that end with a newline of their own: 51 of them overrun
  `lines[]`.
* `ParserFaithful` exempts fields of exactly the size of their array and headers
  without a value; `StationTyped` texts that read like a code, such as
  `%26`. A blank arrives as `+`, which nothing decodes, so that a network with a blank in
  its name or password cannot be set up; and the page asks for 'max 32 bytes' and 'max 64
  bytes' but takes one less.
* A request of the setup page that is refused while the timer runs gets its fields
  stored; `StoredAccepted` and `BootAccepted` exempt it (`spoilt`).

### Fairness
* `HttpServer`: the SDK runs a posted task (`WF(http_task)`) and completes a close
  that it has begun. Nothing is assumed of peers.
* `SmtpClient`: the network, the server, the CPU inside a handler and an armed
  timer go on, and the watchdog resets a device that has gone astray. Weak fairness
  is enough; nobody is forced to send a mail.
* `Mailer`: the same as one action, `Progress`, and the timer of the setup page
  (`Store`) fires when it is not started again; the number of requests is bounded, so
  it is not started again for ever.
* `Logging`: somebody who wants to see the log asks until it comes; that is what
  `RetryAnswered` is about, and nothing else is fair.
* `OtaPush` needs none: `CallEnds` bounds a call by a measure of the work left.

### Refinement
`Serves` says that `SmtpClient` implements `MailService`: `INSTANCE MailService WITH`
the histories of mails taken on and delivered, and `open`, under which every step of
the dialogue is a step of the service or a stutter.

## 5. Proofs

Every safety property of the runs is proved for all values of the constants, except for
those listed at the end of this section. The assumptions are the `ASSUME`s of the
component's module, which TLC evaluates for the runs, and the hypotheses named here.

`HttpServerProofs` (any number of connections and slots, any buffer, requests and
segmentation, from `HttpConstants`): type correctness, `SlotOwned`,
`BytesAccounted`, `AnswerAfterBody`, `DoomedQueued`, `KillsOnlyDoomed` and `OnlyErrorsLeak`.
The invariant adds to the properties that every
`HttpClient` is consistent (`ClientsOK`: POST data taken is at most what was
announced, and all of it when a POST is in `RESPONSE`), that its parsed fields are
those of the request (`RequestsKept`) and that dead connections have no history.
`ProcessGood` shows for `http_process` and every handler that the result accounts
for the same bytes and does not answer early; the actions then only need slot
bookkeeping. The second invariant, `KillInv`, is about the queue: posts append,
the task takes the head, and a queued open connection is a doomed one or lies at a reused address. The third,
`Owners`, is about the slots: every slot in use is the one that the back pointer of a
live connection names, or that of a connection that ended by the error callback.

`OtaPushProofs` (any clients, uploads, segmentation, sector and flash size, flash
failures, failing holds and power losses, from `OtaConstants` and `OtaFactory`, the image
the device came with fits its partition): `LayoutDisjoint`, that the application areas are
apart from each other, from the user params and from the SDK's sectors, and all
properties of uploads:

* `WritesConfined` is not inductive: that `cur` stays inside the partition needs
  `Account` (sectors flushed and the sector buffer add up to the POST data taken). A
  flash operation that failed leaves the sector in the buffer, and if the connection
  could not be held the next call tries it again; when the body is complete, nothing
  is written any more. `Progress` says exactly this (`Ready`).
* `KInv`: what the verification has read is what the partition holds (`ReadBack`), and
  `otastate` is about the client that is called (`Bound`). Nothing that happens
  between two calls can change the partition without changing the owner.
* `AcceptedIntact` (`Settled`, `Accepted`): at a 202 that is not blind, the digest of what
  arrived, that of what was read back and the signature are the same. To go from
  digests to data, the theorem assumes `OwnSignature`: the signature of an upload is not
  that of another image of the same length. Digests with NUL bytes are not assumed away.
* `RunningOfficial` (`Running`, `Waiting`) under `QuietWindow` and `Unforgeable`: a signature
  decrypts, in full, to the digest of an official image only. `Calm` is what
  `QuietWindow` gives: while the reboot is pending, calls are about complete bodies.
* `RebootsAccepted` under `QuietWindow` and `OwnSignature`, with `Calm` again: a second
  verdict for data behind the body changes neither the partition nor the timer.
* `GoodAccepted` (`GInv`) follows the body of an upload that met no fault and no rival
  from the segments (`Streamed`) through the sector buffer to hash and flash (`Laid`)
  up to the verdict (`Serving`, `Welcome`). Nothing is assumed of the hash.
* `CallEnds`: every step of a call lowers the measure of the work left.

`SmtpClientProofs` (any server, texts, segmentation, buffer size, number of faults and
mails, from `SmtpConstants`, `SmtpWords`, no text is a reply code or CRLF, and `SmtpMail`):
type correctness, `BufTerminated`, `InTurn`, and that `SmtpClient` implements
`MailService` (`Serves`). `Whole` is the invariant of the buffer, in two parts: up to a wrap
of `inbufused`, the buffer is terminated behind its data, a handler runs with data only
(`Busy`), and the data ends with a line if no segment ends inside one (`Lines`), which is
why `os_strstr` then finds no line behind it (`WrapNeedsCut`); behind a wrap only types are
left (`AfterWild`). The invariant for the last two properties is that of the dialogue,
`DInv`, again up to a wrap (`Dialogue`; `Astray` is what is left of it).
`Alone`: the command on its way belongs to the state of the client, and all that
the server said before was read. `Turns`: nothing comes behind the last line
of a reply, wherever segments cut it, and nothing is under way while the client is
ready. `Own`: mail and envelope are those of the last call of `smtp_send()`.

`MailerProofs` first has the account alone (any query strings, requests, restarts and
failed saves): `StoredAccepted` and `BootAccepted`. The invariant adds that what the timer is going
to store was accepted unless a request has touched it (`ToBeStored`), and that a
sector is erased or carries the whole magic number, so that one byte of it tells.

Then the composition (from the assumptions of both components and `MailerConstants`): every
step of `Mailer` is one of `SmtpAccount`, or leaves it alone (`AccountImplemented`), and one of
`SmtpClient`, or leaves that alone (`ClientImplemented`; it needs that the addresses in
`smtp_server` and in the flash come from requests, `AddressesKnown`). So the theorems
about both hold in the composition (`AccountProperties`, `ClientProperties`, and `ClientBuffer`
for `BufTerminated`), where the
setup page changes `smtp_server` while a mail is under way. `CredentialsHome` is about
both: `Follows` says what the client has read of the account in each state, and the
client's own invariant that the states follow each other.

`MonitorProofs` first has the clock alone (any day, any periods with
`PERIOD + LATE + SPAN < W`): `ClockExact`,
`MailNamesToday`, and that a day has two mails at most (`TwiceAtMost`, theorem
`NeverThrice`; `OncePerDay` does not hold, see `day_mails`). The invariant: the last sample was taken `since`
ticks ago in this period of the counter or the one before (`Sampled`), and never longer
ago than timer and handler allow (`Recent`), which is less than a period. For the mail
it also has to be known when the handler was called (`Called`): if the counter wraps
between the second and the third read, the third is earlier than the first and no
mail is sent; otherwise the third is the true time. For `TwiceAtMost`, `MailInv` says
which calls of the handler can still find the end of a day that already had a mail.

Then the monitor (any readings and periods): it leaves the clock alone
(`ClockImplemented`), so that `ClockExact` holds beside it; `LightMailsApart`; and
`BurstBound` if `3 * SPACE < W` and `PERIOD + LATE + SPAN + 2 * SPACE < W` (`Roomy`). In
the code `SPACE` is 5 minutes, `PERIOD` 20 and `W` 71. A mail within five minutes of
another one takes a clock that has jumped in between, and jumps alternate: late at a
wrap, exact again with the handler (`BurstInv`); the next wrap is too far away for a
fourth mail.

`LoggingProofs` (any messages, requests, levels and logs at the start, at the sizes of
the code): `OutbufBounded`, and `LinesFit` for messages that make lines of 37 bytes and
more (`Talkative`). The shortest line of the firmware has more than 40. The
invariant, `Text`: line `j` ends at byte `36 * j` or behind, unless there is an empty line
up to it (`Thick`), and all lines end inside the log, so there are fewer than 100.
Entries in front and a cut at the end keep it.

`Tsl2561Proofs` (any sensors and lights that fit their registers, any number of missing
acknowledges and of restarts at any setting of the wires, from `Tsl2561Constants`):
`BusFree`, `Recovers`, `OneWireMoves`, and that a reading is genuine. The invariant
(`Place`) follows a transfer setting by setting: which function of the master is under
way, how many of its settings are done, and what the sensor has heard by then
(`Writing`, `Checking`, `Reading`, `Acking`, `Stopping`). A byte on the wires is the one
that was meant because the sensor has its first bits (`Top`) at every clock.

* The hard part is a restart. The 28 clocks of `i2c_master_init()` come to a sensor that
  may be anywhere in a byte (`InStep`, `Clocked`). If the last of them is the sensor's
  acknowledge, it holds SDA down and misses the stop (`Stuck`). It then also takes the
  start and the first bytes of the next transfer for data (`Dirty`), and the register
  pointer moves on. `BusFree` is true again behind that transfer, and the driver has
  either seen a missing acknowledge or read some register as `REG_ID`.
* `ReadingsGenuine` holds for any number of restarts: behind the first transfer sensor
  and driver are in step, so the light and the state of the sensor are right.
* `TableGenuine`, the whole of `LuxGenuine`, is for at most one restart. One restart
  leaves the pointer at one of five places (`Dirty`), and the byte that is read there is no
  known id (`Fits`). Two restarts can leave it where another register reads like the
  id of the other package; TLC finds this with `MaxRestarts = 2`.
* `OneWireMoves` needs what lies between two functions: each begins with the wires
  where the one before left them (`Smooth`, `Steady`).

`CodecsProofs` (messages of every length, calls of every size, both orders of the length):
`HashBlocks`, and `Base64Exact`. Before `sha256_done()` the mixed blocks and the buffer
together are the message so far (`Prefix`), and a turn of the loop keeps that. The end is
split at `buflen < 56`, where the length fits in the block, or not. The bytes of the length
are those of the code, 32 bits; the standard's 64 bits are the same below 2^29 bytes.
`Base64Exact` says that decoding gives back what was encoded, for all texts, and that
the encoder needs exactly the room of its result: 24 bits are four times six and three
times eight (`Joined`), and the two tables are inverse to each other.

Only model-checked, and why:

* The liveness properties `DoomedCloses`, `AcceptedStored`, `Delivered`, `ReadyForNext` and
  `RetryAnswered`: fairness is out of the prover's reach.
* `LogKept`: that a page that failed leaves half of the log depends on the length of the
  lines. With the shortest lines that `Talkative` allows it does not hold, so it is
  stated for lines of 44 bytes and more, those of the run.
* `ParserFaithful` and `StationTyped`: the parser and the decoder of a query are recursive
  operators on memory, and what a recursion computes for every input takes an
  induction over data that the prover does not have.
* `CodesExact`: its base64 part is `Base64Exact`; the part on RSA compares the recursive
  operations of `Bigint` with arithmetic, which again takes induction.

## 6. Not modelled

* The mixing of a block in SHA-256 and MD5: 32 bit rotations and sums of given
  constants, straight-line code outside of TLC's integers. `Codecs` has all that is around it.
* The quotient of `bigint_div()`: no caller asks for it. (It is wrong for some
  numbers: `ff / 3` gives 15 hex.)
* The text of the pages, except for the logs page, whose length is the point; the
  buffer bound is the same macro everywhere.
* `wifi_init()`, a sequence of SDK calls at the start without state of its own; what
  the event callback does is `wifi_evt_cb` in `Mailer`, the page is `WifiSetup`.
* Electrical timing of the bus and the board. The `sensor` run has one restart (section 5).
* BearSSL, which lies in the repository, is not linked into the firmware, and is
  most of its lines (about 67000 of 72000); the host's scripts. The map is about
  the firmware's own code, about 4900 lines.
