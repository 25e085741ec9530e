----------------------------- MODULE HttpServer -----------------------------
(***************************************************************************)
(* The HTTP server of http/: the connection callbacks and the kill task of *)
(* http/init.c, the request state machine of http/process.c and the        *)
(* handlers' use of the client structure (HTTP_IGNORE_POSTDATA).           *)
(*                                                                         *)
(* The SDK never preempts a callback, a timer or a task by another one, so *)
(* each callback is one action.  Bytes are counted in units: of a request  *)
(* only the length of its header block and of its body matter here.        *)
(***************************************************************************)
EXTENDS Integers, Sequences

CONSTANTS
  Conns,             \* addresses the SDK's allocator gives to struct espconn
  NULL,
  HTTP_MAX_CLIENTS,  \* length of http_clients and of http_task_queue
  BUF,               \* sizeof(client->buf), in units
  Requests,          \* what a peer may send: [method, url, hdr, postlen, bad]
  Chunks,            \* sizes of one received segment
  MaxGot             \* bound: units a peer sends on one connection

Slots   == 1 .. HTTP_MAX_CLIENTS
Methods == {"GET", "POST"}
Urls    == {"page", "logs", "ota", "overlong"}

Request == [method : Methods, url : Urls, hdr : Nat \ {0}, postlen : Nat, bad : BOOLEAN]

\* parseline() is given a length that is never reduced, so an incomplete header
\* block is searched up to twice its length; within half of the buffer that only
\* meets the zeroes of os_bzero().
ASSUME HttpConstants ==
  /\ HTTP_MAX_CLIENTS \in Nat \ {0}
  /\ BUF \in Nat \ {0}
  /\ Requests \subseteq Request
  /\ \A r \in Requests : 2 * r.hdr <= BUF
  /\ Chunks \subseteq Nat \ {0}
  /\ MaxGot \in Nat
  /\ NULL \notin Conns /\ NULL \notin Slots /\ NULL \notin Urls /\ NULL \notin Requests

VARIABLES
  st,            \* SDK's view of a connection: "free", "open" or "closing"
  reverse,       \* conn->reverse: the slot of the connection, or NULL
  disconcb,      \* is http_client_disconn_cb registered on the connection?
  recvcb,        \* is http_client_recv_cb registered on it?
  http_clients,  \* the array of HttpClient
  queue,         \* http_task_queue: connections named by HTTP_TASK_KILL events
  req,           \* the request the peer of the connection is sending
  got,           \* history: units stored by http_client_recv_cb
  gap,           \* history: a segment was dropped by the overflow check
  answered,      \* history: a response was handed to espconn_send()
  doomed,        \* history: the server decided to kill the connection
  lost,          \* history: system_os_post() failed for the connection
  reused,        \* history: its address was still queued when it was accepted
  orphans        \* history: slots whose connection ended by the error callback

histVars == <<got, gap, answered, doomed, lost, reused, orphans>>
vars     == <<st, reverse, disconcb, recvcb, http_clients, queue, req, histVars>>

-----------------------------------------------------------------------------
(* The client structure and the request state machine.                     *)

Client == [inuse : {0, 1}, conn : Conns \cup {NULL},
           state : {"HEADERS", "POSTDATA", "RESPONSE"},
           method : Methods, url : Urls \cup {NULL},
           bufused : 0 .. BUF, postused : Nat, postlen : Nat]

\* The structure after os_bzero(), with inuse and conn set.
Zeroed(inuse, conn) ==
  [inuse |-> inuse, conn |-> conn, state |-> "HEADERS", method |-> "GET",
   url |-> NULL, bufused |-> 0, postused |-> 0, postlen |-> 0]

MIN(a, b) == IF a <= b THEN a ELSE b

\* What a call leaves behind: the client, whether a response was sent, and the
\* value returned (1: the connection is to be killed).
Result(k, sent, ret) == [client |-> k, sent |-> sent, ret |-> ret]

\* Mutant: the buffer keeps what was taken.
Consume_NoMove(k, len) == [k EXCEPT !.postused = @ + len]

\* len bytes of the POST data are taken out of the buffer.
Consume(k, len) == [k EXCEPT !.postused = @ + len, !.bufused = @ - len]

\* Mutant: the first part of the body counts as all of it.
HTTP_IGNORE_POSTDATA_Eager(k) ==
  IF k.state # "POSTDATA" THEN k
  ELSE [Consume(k, MIN(k.bufused, k.postlen - k.postused)) EXCEPT !.state = "RESPONSE"]

HTTP_IGNORE_POSTDATA(k) ==
  LET k1 == Consume(k, MIN(k.bufused, k.postlen - k.postused))
  IN  IF k.state # "POSTDATA" THEN k
      ELSE IF k1.postused = k1.postlen THEN [k1 EXCEPT !.state = "RESPONSE"] ELSE k1

\* Every page: skip the POST data, then answer and ask for the kill.
PageHandler(k) ==
  LET k1 == HTTP_IGNORE_POSTDATA(k)
  IN  IF k1.state = "POSTDATA" THEN {Result(k1, FALSE, 0)} ELSE {Result(k1, TRUE, 1)}

\* The logs page may overflow the output buffer, and then returns 0 unanswered.
http_url_logs(k) ==
  PageHandler(k) \cup {Result(HTTP_IGNORE_POSTDATA(k), FALSE, 0)}

\* The upload handler leaves the state alone.  It may give up (400) after taking
\* any part of the buffer, and gives its verdict once the body is complete.
http_url_ota_push(k) ==
  LET avail == MIN(k.bufused, k.postlen - k.postused)
  IN  IF k.state = "RESPONSE" THEN {Result(k, TRUE, 1)}
      ELSE {Result(Consume(k, n), TRUE, 1) : n \in 0 .. avail}
           \cup (IF k.postused + avail < k.postlen
                 THEN {Result(Consume(k, avail), FALSE, 0)} ELSE {})

\* Second half of http_process(): look the base url up and call its handler.
Dispatch(k) ==
  CASE k.url = "page"     -> PageHandler(k)
    [] k.url = "logs"     -> http_url_logs(k)
    [] k.url = "ota"      -> http_url_ota_push(k)
    [] k.url = "overlong" -> {Result(k, FALSE, 1)}

\* The header block is complete: keep what it said, move the rest to the front.
Parsed(k, r) ==
  [k EXCEPT !.method = r.method, !.url = r.url,
            !.postlen = r.postlen,
            !.bufused = @ - r.hdr,
            !.state = IF r.method = "GET" THEN "RESPONSE" ELSE "POSTDATA"]

\* The possible results of http_process(client) for a peer that sends r.  After a
\* dropped segment the header block may also look incomplete or malformed.
http_process(k, r, g) ==
  IF k.state # "HEADERS" THEN Dispatch(k)
  ELSE (IF g \/ k.bufused < r.hdr THEN {Result(k, FALSE, 0)} ELSE {})
       \cup (IF g \/ (k.bufused >= r.hdr /\ r.bad) THEN {Result(k, FALSE, 1)} ELSE {})
       \cup (IF k.bufused >= r.hdr /\ ~r.bad THEN Dispatch(Parsed(k, r)) ELSE {})

-----------------------------------------------------------------------------
(* The callbacks and the task.                                             *)

\* http_init(); no connection exists yet.
Init ==
  /\ st           = [c \in Conns |-> "free"]
  /\ reverse      = [c \in Conns |-> NULL]
  /\ disconcb     = [c \in Conns |-> FALSE]
  /\ recvcb       = [c \in Conns |-> FALSE]
  /\ http_clients = [i \in Slots |-> Zeroed(0, NULL)]
  /\ queue        = << >>
  /\ req          = [c \in Conns |-> NULL]
  /\ got          = [c \in Conns |-> 0]
  /\ gap          = [c \in Conns |-> FALSE]
  /\ answered     = [c \in Conns |-> FALSE]
  /\ doomed       = [c \in Conns |-> FALSE]
  /\ lost         = [c \in Conns |-> FALSE]
  /\ reused       = [c \in Conns |-> FALSE]
  /\ orphans      = {}

Queued(c) == \E n \in 1 .. Len(queue) : queue[n] = c

\* system_os_post(HTTP_TASK_PRIO, HTTP_TASK_KILL, conn): fails on a full queue,
\* which the callers only log.
system_os_post(c) ==
  IF Len(queue) < HTTP_MAX_CLIENTS
  THEN queue' = Append(queue, c) /\ lost' = lost
  ELSE queue' = queue /\ lost' = [lost EXCEPT ![c] = TRUE]

FirstFree(i) == http_clients[i].inuse = 0 /\ \A j \in 1 .. i - 1 : http_clients[j].inuse = 1

\* Mutant: the refused connection keeps the back pointer found in its memory.
Refuse_StaleReverse(c) ==
  /\ recvcb'[c] => \A i \in Slots : http_clients[i].inuse = 1
  /\ system_os_post(c)
  /\ doomed' = [doomed EXCEPT ![c] = TRUE]
  /\ UNCHANGED <<reverse, http_clients>>

\* http_server_conn_cb: a registration failed or every slot is taken.
Refuse(c) ==
  /\ recvcb'[c] => \A i \in Slots : http_clients[i].inuse = 1
  /\ reverse' = [reverse EXCEPT ![c] = NULL]
  /\ system_os_post(c)
  /\ doomed' = [doomed EXCEPT ![c] = TRUE]
  /\ UNCHANGED http_clients

\* http_server_conn_cb: the first free slot becomes the connection's.
Assign(c) ==
  \E i \in Slots :
    /\ recvcb'[c]
    /\ FirstFree(i)
    /\ http_clients' = [http_clients EXCEPT ![i] = Zeroed(1, c)]
    /\ reverse' = [reverse EXCEPT ![c] = i]
    /\ UNCHANGED <<queue, doomed, lost>>

\* The SDK accepts a connection and calls http_server_conn_cb; a failed
\* espconn_regist_disconcb() returns before the recv callback is registered.
http_server_conn_cb(c) ==
  /\ st[c] = "free"
  /\ st' = [st EXCEPT ![c] = "open"]
  /\ \E r \in Requests : req' = [req EXCEPT ![c] = r]
  /\ \E ok1, ok2 \in BOOLEAN :
       /\ disconcb' = [disconcb EXCEPT ![c] = ok1]
       /\ recvcb'   = [recvcb EXCEPT ![c] = ok1 /\ ok2]
  /\ reused' = [reused EXCEPT ![c] = Queued(c)]
  /\ Refuse(c) \/ Assign(c)
  /\ UNCHANGED <<got, gap, answered, orphans>>

\* Mutant: off by one.
Fits_OffByOne(k, n) == k.bufused + n <= BUF + 1

Fits(k, n) == k.bufused + n <= BUF

\* Mutant: the overflow is noticed and nobody is told.
Drop_NoPost(c, n) ==
  /\ reverse[c] # NULL => ~Fits(http_clients[reverse[c]], n)
  /\ gap' = [gap EXCEPT ![c] = TRUE]
  /\ doomed' = [doomed EXCEPT ![c] = TRUE]
  /\ UNCHANGED <<http_clients, got, answered, queue, lost>>

\* http_client_recv_cb: no slot, or the segment does not fit; nothing is stored.
Drop(c, n) ==
  /\ reverse[c] # NULL => ~Fits(http_clients[reverse[c]], n)
  /\ gap' = [gap EXCEPT ![c] = TRUE]
  /\ system_os_post(c)
  /\ doomed' = [doomed EXCEPT ![c] = TRUE]
  /\ UNCHANGED <<http_clients, got, answered>>

\* Mutant: the value returned by http_process() is ignored.
KillIf_Always(c, ret) ==
  system_os_post(c) /\ doomed' = [doomed EXCEPT ![c] = @ \/ ret = 1]

KillIf(c, ret) ==
  IF ret = 1
  THEN system_os_post(c) /\ doomed' = [doomed EXCEPT ![c] = TRUE]
  ELSE UNCHANGED <<queue, doomed, lost>>

\* http_client_recv_cb: store the segment, process, kill if asked to.
Store(c, n) ==
  LET i == reverse[c]
  IN  /\ i # NULL
      /\ Fits(http_clients[i], n)
      /\ got' = [got EXCEPT ![c] = @ + n]
      /\ \E o \in http_process([http_clients[i] EXCEPT !.bufused = @ + n], req[c], gap[c]) :
           /\ http_clients' = [http_clients EXCEPT ![i] = o.client]
           /\ answered' = [answered EXCEPT ![c] = @ \/ o.sent]
           /\ KillIf(c, o.ret)
      /\ UNCHANGED gap

http_client_recv_cb(c, n) ==
  /\ st[c] = "open" /\ recvcb[c]
  /\ got[c] + n <= MaxGot
  /\ Drop(c, n) \/ Store(c, n)
  /\ UNCHANGED <<st, disconcb, recvcb, req, reverse, reused, orphans>>

\* The SDK frees the connection; a new history begins at its address.  The back
\* pointer stays in the freed memory until the address is accepted again.
Gone(c) ==
  /\ st'       = [st EXCEPT ![c] = "free"]
  /\ disconcb' = [disconcb EXCEPT ![c] = FALSE]
  /\ recvcb'   = [recvcb EXCEPT ![c] = FALSE]
  /\ req'      = [req EXCEPT ![c] = NULL]
  /\ got'      = [got EXCEPT ![c] = 0]
  /\ gap'      = [gap EXCEPT ![c] = FALSE]
  /\ answered' = [answered EXCEPT ![c] = FALSE]
  /\ doomed'   = [doomed EXCEPT ![c] = FALSE]
  /\ lost'     = [lost EXCEPT ![c] = FALSE]
  /\ reused'   = [reused EXCEPT ![c] = FALSE]

\* Mutant: only a close by the peer releases the slot.
Released_PeerOnly(c) ==
  IF disconcb[c] /\ reverse[c] # NULL /\ st[c] = "open"
  THEN [http_clients EXCEPT ![reverse[c]].inuse = 0] ELSE http_clients

\* http_client_disconn_cb, when it is registered: client->inuse = 0.
Released(c) ==
  IF disconcb[c] /\ reverse[c] # NULL
  THEN [http_clients EXCEPT ![reverse[c]].inuse = 0] ELSE http_clients

\* The connection ends in good order: by the peer, or after espconn_disconnect().
http_client_disconn_cb(c) ==
  /\ st[c] # "free"
  /\ Gone(c)
  /\ http_clients' = Released(c)
  /\ UNCHANGED <<reverse, queue, orphans>>

\* The connection ends by timeout, abort or reset: the SDK calls the error
\* callback instead of the disconnect callback, and it only logs.
http_server_error_cb(c) ==
  /\ st[c] # "free"
  /\ Gone(c)
  /\ orphans' = orphans \cup ({reverse[c]} \ {NULL})
  /\ UNCHANGED <<reverse, http_clients, queue>>

\* Mutant: the task only calls espconn_delete(), and tries again while that fails.
http_task_DeleteOnly ==
  /\ queue # << >>
  /\ queue' = IF st[Head(queue)] = "free" THEN Tail(queue) ELSE queue
  /\ UNCHANGED <<st, disconcb, recvcb, req, reverse, http_clients, histVars>>

\* espconn_disconnect() starts to close a live connection and fails on any other
\* pointer; espconn_delete() fails while the connection is listed.
http_task ==
  /\ queue # << >>
  /\ queue' = Tail(queue)
  /\ st' = IF st[Head(queue)] = "open" THEN [st EXCEPT ![Head(queue)] = "closing"] ELSE st
  /\ UNCHANGED <<disconcb, recvcb, req, reverse, http_clients, histVars>>

Next ==
  \/ \E c \in Conns : http_server_conn_cb(c)
  \/ \E c \in Conns, n \in Chunks : http_client_recv_cb(c, n)
  \/ \E c \in Conns : http_client_disconn_cb(c)
  \/ \E c \in Conns : http_server_error_cb(c)
  \/ http_task

Spec == Init /\ [][Next]_vars

\* The SDK runs a posted task event eventually, and completes a close it started.
Fairness ==
  /\ WF_vars(http_task)
  /\ \A c \in Conns : WF_vars(st[c] = "closing" /\ http_client_disconn_cb(c))

FairSpec == Spec /\ Fairness

-----------------------------------------------------------------------------
(* Properties.                                                             *)

\* Type correctness; in particular bufused never exceeds the buffer.
TypeOK ==
  /\ st \in [Conns -> {"free", "open", "closing"}]
  /\ reverse \in [Conns -> Slots \cup {NULL}]
  /\ disconcb \in [Conns -> BOOLEAN]
  /\ recvcb \in [Conns -> BOOLEAN]
  /\ http_clients \in [Slots -> Client]
  /\ queue \in Seq(Conns) /\ Len(queue) <= HTTP_MAX_CLIENTS
  /\ req \in [Conns -> Requests \cup {NULL}]
  /\ got \in [Conns -> Nat]
  /\ gap \in [Conns -> BOOLEAN]
  /\ answered \in [Conns -> BOOLEAN]
  /\ doomed \in [Conns -> BOOLEAN]
  /\ lost \in [Conns -> BOOLEAN]
  /\ reused \in [Conns -> BOOLEAN]
  /\ orphans \subseteq Slots

Live(c) == st[c] # "free"

\* The back pointer of a live connection names a slot that is in use and points
\* back, so no two live connections are ever served from one HttpClient, whatever
\* order accepts, closes, errors and kills happen in (http_server_conn_cb,
\* http_client_disconn_cb).
SlotOwned ==
  \A c \in Conns : Live(c) /\ reverse[c] # NULL =>
     /\ http_clients[reverse[c]].inuse = 1
     /\ http_clients[reverse[c]].conn = c

\* No unit is lost or counted twice between the segments, the buffer, the header
\* block and the POST data (the memmoves of http_process and HTTP_IGNORE_POSTDATA).
BytesAccounted ==
  \A c \in Conns : Live(c) /\ reverse[c] # NULL =>
     LET k == http_clients[reverse[c]]
     IN  got[c] = k.bufused + (IF k.state = "HEADERS" THEN 0 ELSE req[c].hdr + k.postused)

\* A page is answered only when the header block and the announced POST data have
\* arrived in full, however they were cut into segments.
AnswerAfterBody ==
  \A c \in Conns : Live(c) /\ answered[c] /\ req[c].url # "ota" =>
     got[c] >= req[c].hdr + (IF req[c].method = "POST" THEN req[c].postlen ELSE 0)

\* A connection the server decided to kill stays queued for http_task until it is
\* being closed, unless system_os_post() failed for it.
DoomedQueued ==
  \A c \in Conns : st[c] = "open" /\ doomed[c] /\ ~lost[c] => Queued(c)

HasOwner(i) == \E c \in Conns : Live(c) /\ reverse[c] = i

\* "A simple HTTP server framework that support multiple simulatenous clients": a slot
\* in use belongs to a live connection, so the others are there for further clients.
NoSlotLeak == \A i \in Slots : http_clients[i].inuse = 1 => HasOwner(i)

\* Slots leak in one way only: a slot in use belongs to a live connection, or to one
\* that ended by the error callback; the disconnect callback returns it in every order
\* of accepts, kills and closes, also when callbacks could not be registered and posts
\* to the kill queue failed.
OnlyErrorsLeak == \A i \in Slots : http_clients[i].inuse = 1 => HasOwner(i) \/ i \in orphans

\* http_task closes no connection but those the server decided to kill, and those that
\* the SDK put at an address whose earlier connection was still queued.
KillsOnlyDoomed ==
  [][\A c \in Conns : st[c] = "open" /\ st'[c] = "closing" => doomed[c] \/ reused[c]]_vars

\* A connection the server decided to kill is closed in the end, unless
\* system_os_post() failed for it.
DoomedCloses ==
  \A c \in Conns : (doomed[c] /\ Live(c) /\ ~lost[c]) ~> (~Live(c) \/ lost[c])
=============================================================================
