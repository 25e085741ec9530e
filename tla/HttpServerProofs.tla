-------------------------- MODULE HttpServerProofs --------------------------
(***************************************************************************)
(* Safety of the HTTP server for every number of connections and slots,    *)
(* every buffer size, every set of requests and every segmentation.        *)
(***************************************************************************)
EXTENDS HttpServer, TLAPS

\* What holds of one HttpClient between two calls of http_process().
ClientOK(k) ==
  /\ k.postused <= k.postlen
  /\ k.state = "HEADERS" => k.postused = 0
  /\ k.state # "HEADERS" => k.url # NULL
  /\ k.state = "RESPONSE" /\ k.method = "POST" => k.postused = k.postlen

\* Units of the connection's stream that the structure accounts for.
Total(k, r) == k.bufused + (IF k.state = "HEADERS" THEN 0 ELSE r.hdr + k.postused)

\* The parsed fields are those of the request.
ParsedFrom(k, r) ==
  k.state # "HEADERS" => k.method = r.method /\ k.url = r.url /\ k.postlen = r.postlen

\* What a handler may do to the client it is given.
GoodResult(o, k, r) ==
  /\ o.client \in Client /\ ClientOK(o.client) /\ ParsedFrom(o.client, r)
  /\ o.client.inuse = k.inuse /\ o.client.conn = k.conn
  /\ o.client.state # "HEADERS" => o.client.url = r.url
  /\ o.sent \in BOOLEAN /\ o.ret \in {0, 1}
  /\ Total(o.client, r) = Total(k, r)
  /\ o.sent /\ r.url # "ota" => o.client.state = "RESPONSE"

\* Taking at most the rest of the body out of the buffer touches two fields.
LEMMA ConsumeFields ==
  ASSUME NEW k \in Client, NEW len \in Nat,
         len <= k.bufused, len <= k.postlen - k.postused
  PROVE  LET k1 == Consume(k, len)
         IN  /\ k1 \in Client /\ k1.state = k.state /\ k1.url = k.url
             /\ k1.method = k.method /\ k1.postlen = k.postlen
             /\ k1.inuse = k.inuse /\ k1.conn = k.conn
             /\ k1.postused = k.postused + len /\ k1.bufused = k.bufused - len
<1> DEFINE k1 == Consume(k, len)
<1>1. k1 = [k EXCEPT !.postused = k.postused + len, !.bufused = k.bufused - len]
  BY DEF Consume
<1>2. k.postused + len \in Nat /\ k.bufused - len \in 0 .. BUF
  BY HttpConstants DEF Client
<1> HIDE DEF k1
<1>3. /\ k1.state = k.state /\ k1.url = k.url /\ k1.method = k.method
      /\ k1.postlen = k.postlen /\ k1.inuse = k.inuse /\ k1.conn = k.conn
      /\ k1.postused = k.postused + len /\ k1.bufused = k.bufused - len
  BY <1>1 DEF Client
<1>4. k1 \in Client
  BY <1>1, <1>2 DEF Client
<1> QED BY <1>3, <1>4 DEF k1

\* What can still be taken: no more than the buffer holds and the body lacks.
LEMMA AvailBound ==
  ASSUME NEW k \in Client, ClientOK(k)
  PROVE  LET n == MIN(k.bufused, k.postlen - k.postused)
         IN  /\ n \in Nat /\ n <= k.bufused /\ n <= k.postlen - k.postused
             /\ n = k.bufused \/ k.postused + n = k.postlen
BY DEF Client, ClientOK, MIN

\* HTTP_IGNORE_POSTDATA keeps the account and stops exactly at the end of the body.
LEMMA IgnoreKeeps ==
  ASSUME NEW k \in Client, ClientOK(k), k.state # "HEADERS",
         NEW r \in Requests, ParsedFrom(k, r)
  PROVE  LET k1 == HTTP_IGNORE_POSTDATA(k)
         IN  /\ k1 \in Client /\ ClientOK(k1) /\ ParsedFrom(k1, r)
             /\ k1.inuse = k.inuse /\ k1.conn = k.conn
             /\ k1.state \in {"POSTDATA", "RESPONSE"}
             /\ Total(k1, r) = Total(k, r)
<1> DEFINE len == MIN(k.bufused, k.postlen - k.postused)
           c1 == Consume(k, len)
<1>1. /\ len \in Nat /\ len <= k.bufused /\ len <= k.postlen - k.postused
  BY AvailBound
<1>2. r \in Request
  BY HttpConstants
<1> HIDE DEF len
<1>4. /\ c1 \in Client /\ c1.state = k.state /\ c1.url = k.url /\ c1.method = k.method
      /\ c1.postused = k.postused + len /\ c1.bufused = k.bufused - len
      /\ c1.postlen = k.postlen /\ c1.inuse = k.inuse /\ c1.conn = k.conn
  BY <1>1, ConsumeFields
<1> HIDE DEF c1
<1>5. CASE k.state # "POSTDATA"
  <2>1. HTTP_IGNORE_POSTDATA(k) = k
    BY <1>5 DEF HTTP_IGNORE_POSTDATA
  <2> QED BY <2>1, <1>5 DEF Client
<1>6. CASE k.state = "POSTDATA" /\ c1.postused = c1.postlen
  <2> DEFINE k1 == [c1 EXCEPT !.state = "RESPONSE"]
  <2>1. HTTP_IGNORE_POSTDATA(k) = k1
    BY <1>6 DEF HTTP_IGNORE_POSTDATA, c1, len
  <2>2. /\ k1 \in Client /\ k1.state = "RESPONSE" /\ k1.url = k.url /\ k1.method = k.method
        /\ k1.postused = k.postused + len /\ k1.bufused = k.bufused - len
        /\ k1.postlen = k.postlen /\ k1.inuse = k.inuse /\ k1.conn = k.conn
    BY <1>4 DEF Client
  <2> HIDE DEF k1
  <2> QED BY <2>1, <2>2, <1>1, <1>2, <1>4, <1>6 DEF ClientOK, ParsedFrom, Total, Client, Request
<1>7. CASE k.state = "POSTDATA" /\ c1.postused # c1.postlen
  <2>1. HTTP_IGNORE_POSTDATA(k) = c1
    BY <1>7 DEF HTTP_IGNORE_POSTDATA, c1, len
  <2> QED BY <2>1, <1>1, <1>2, <1>4, <1>7 DEF ClientOK, ParsedFrom, Total, Client, Request
<1> QED BY <1>5, <1>6, <1>7

\* The two kinds of answer: kept silent, or sent.
LEMMA ResultKinds ==
  ASSUME NEW k, NEW o, NEW ret \in {0, 1},
         o = Result(k, FALSE, ret) \/ o = Result(k, TRUE, ret)
  PROVE  /\ o.client = k /\ o.sent \in BOOLEAN /\ o.ret \in {0, 1}
         /\ o = Result(k, FALSE, ret) => ~o.sent
<1>1. CASE o = Result(k, FALSE, ret)
  <2>1. o.client = k /\ o.sent = FALSE /\ o.ret = ret
    BY <1>1, Zenon DEF Result
  <2> QED BY <2>1
<1>2. CASE o = Result(k, TRUE, ret)
  <2>1. o.client = k /\ o.sent = TRUE /\ o.ret = ret
    BY <1>2, Zenon DEF Result
  <2>2. o # Result(k, FALSE, ret)
    <3> SUFFICES ASSUME o = Result(k, FALSE, ret) PROVE FALSE OBVIOUS
    <3>1. o.sent = FALSE
      BY Zenon DEF Result
    <3> QED BY <2>1, <3>1
  <2> QED BY <2>1, <2>2
<1> QED BY <1>1, <1>2

\* Every handler of http_urls leaves a good result.
LEMMA DispatchGood ==
  ASSUME NEW k \in Client, ClientOK(k), k.state # "HEADERS",
         NEW r \in Requests, ParsedFrom(k, r),
         NEW o \in Dispatch(k)
  PROVE  GoodResult(o, k, r)
<1>1. r \in Request /\ k.url = r.url /\ k.url \in Urls
  BY HttpConstants DEF ParsedFrom, Request
<1> DEFINE k1 == HTTP_IGNORE_POSTDATA(k)
<1>2. /\ k1 \in Client /\ ClientOK(k1) /\ ParsedFrom(k1, r)
      /\ k1.inuse = k.inuse /\ k1.conn = k.conn
      /\ k1.state \in {"POSTDATA", "RESPONSE"}
      /\ Total(k1, r) = Total(k, r)
  BY IgnoreKeeps
<1> HIDE DEF k1
<1>3. ASSUME NEW q \in PageHandler(k) \cup {Result(k1, FALSE, 0)}
      PROVE  GoodResult(q, k, r)
  <2>1. \/ q = Result(k1, FALSE, 0)
        \/ q = Result(k1, TRUE, 1) /\ k1.state = "RESPONSE"
    BY <1>2 DEF PageHandler, k1
  <2>2. /\ q.client = k1 /\ q.sent \in BOOLEAN /\ q.ret \in {0, 1}
        /\ q.sent => k1.state = "RESPONSE"
    <3>1. CASE q = Result(k1, FALSE, 0)
      BY <3>1, ResultKinds
    <3>2. CASE q = Result(k1, TRUE, 1) /\ k1.state = "RESPONSE"
      BY <3>2, ResultKinds
    <3> QED BY <2>1, <3>1, <3>2
  <2> QED BY <2>2, <1>2 DEF GoodResult, ParsedFrom
<1>4. CASE k.url \in {"page", "logs"}
  <2>1. o \in PageHandler(k) \cup {Result(k1, FALSE, 0)}
    BY <1>4 DEF Dispatch, http_url_logs, k1
  <2> QED BY <2>1, <1>3
<1>5. CASE k.url = "overlong"
  <2>1. o = Result(k, FALSE, 1)
    BY <1>5 DEF Dispatch
  <2> QED BY <2>1, <1>1 DEF GoodResult, Result
<1>6. CASE k.url = "ota"
  <2>1. o \in http_url_ota_push(k)
    BY <1>6 DEF Dispatch
  <2>2. CASE k.state = "RESPONSE"
    <3>1. o = Result(k, TRUE, 1)
      BY <2>1, <2>2, Zenon DEF http_url_ota_push
    <3>2. o.client = k /\ o.sent \in BOOLEAN /\ o.ret \in {0, 1}
      BY <3>1, ResultKinds
    <3> QED BY <3>2, <1>1, <1>6 DEF GoodResult
  <2>3. CASE k.state # "RESPONSE"
    <3>1. PICK n \in Nat : /\ n <= k.bufused /\ n <= k.postlen - k.postused
                           /\ o.client = Consume(k, n)
                           /\ o.sent \in BOOLEAN /\ o.ret \in {0, 1}
      <4> DEFINE avail == MIN(k.bufused, k.postlen - k.postused)
      <4>1. avail \in Nat /\ avail <= k.bufused /\ avail <= k.postlen - k.postused
        BY AvailBound
      <4>2. \E n \in 0 .. avail : o = Result(Consume(k, n), TRUE, 1) \/ o = Result(Consume(k, n), FALSE, 0)
        <5>1. avail \in 0 .. avail
          BY <4>1
        <5>2. o \in {Result(Consume(k, n), TRUE, 1) : n \in 0 .. avail} \cup {Result(Consume(k, avail), FALSE, 0)}
          BY <2>1, <2>3, Zenon DEF http_url_ota_push
        <5> HIDE DEF avail
        <5> QED BY <5>1, <5>2, Zenon
      <4> HIDE DEF avail
      <4>3. PICK n \in 0 .. avail : o = Result(Consume(k, n), TRUE, 1) \/ o = Result(Consume(k, n), FALSE, 0)
        BY <4>2
      <4>4. n \in Nat /\ n <= k.bufused /\ n <= k.postlen - k.postused
        BY <4>1 DEF Client
      <4>5. o.client = Consume(k, n) /\ o.sent \in BOOLEAN /\ o.ret \in {0, 1}
        BY <4>3, ResultKinds
      <4> QED BY <4>4, <4>5
    <3> DEFINE c1 == Consume(k, n)
    <3>2. /\ c1 \in Client /\ c1.state = k.state /\ c1.url = k.url /\ c1.method = k.method
          /\ c1.postused = k.postused + n /\ c1.bufused = k.bufused - n
          /\ c1.postlen = k.postlen /\ c1.inuse = k.inuse /\ c1.conn = k.conn
      BY <3>1, ConsumeFields
    <3> HIDE DEF c1
    <3>3. o.client = c1
      BY <3>1 DEF c1
    <3>4. k.state = "POSTDATA"
      BY <2>3 DEF Client
    <3>5. ClientOK(c1) /\ ParsedFrom(c1, r)
      BY <3>1, <3>2, <3>4 DEF ClientOK, ParsedFrom, Client
    <3>6. Total(c1, r) = Total(k, r)
      BY <3>1, <3>2, <3>4, <1>1 DEF Total, Client, Request
    <3> QED BY <3>1, <3>2, <3>3, <3>5, <3>6, <1>1, <1>6 DEF GoodResult
  <2> QED BY <2>2, <2>3
<1> QED BY <1>1, <1>4, <1>5, <1>6 DEF Urls

\* http_process() keeps the structure consistent and the units accounted for.
LEMMA ProcessGood ==
  ASSUME NEW k \in Client, ClientOK(k), NEW r \in Requests, ParsedFrom(k, r),
         NEW g \in BOOLEAN, NEW o \in http_process(k, r, g)
  PROVE  GoodResult(o, k, r)
<1>1. r \in Request
  BY HttpConstants
<1>2. CASE k.state # "HEADERS"
  BY <1>2, DispatchGood DEF http_process
<1>3. CASE k.state = "HEADERS" /\ \E ret \in {0, 1} : o = Result(k, FALSE, ret)
  BY <1>3 DEF GoodResult, Result
<1>4. CASE k.state = "HEADERS" /\ k.bufused >= r.hdr /\ o \in Dispatch(Parsed(k, r))
  <2> DEFINE k1 == Parsed(k, r)
  <2>1. /\ k1.method = r.method /\ k1.url = r.url /\ k1.postlen = r.postlen
        /\ k1.bufused = k.bufused - r.hdr /\ k1.postused = k.postused
        /\ k1.state = (IF r.method = "GET" THEN "RESPONSE" ELSE "POSTDATA")
        /\ k1.inuse = k.inuse /\ k1.conn = k.conn
    BY DEF Parsed, Client
  <2>2. k.bufused - r.hdr \in 0 .. BUF
    BY <1>1, <1>4, HttpConstants DEF Client, Request
  <2>3. k1 \in Client
    BY <1>1, <2>2 DEF Parsed, Client, Request
  <2> HIDE DEF k1
  <2>4. r.url \in Urls /\ r.url # NULL
    BY <1>1, HttpConstants DEF Request, Urls
  <2>5. ClientOK(k1) /\ ParsedFrom(k1, r) /\ k1.state # "HEADERS"
    BY <1>1, <1>4, <2>1, <2>4 DEF ClientOK, ParsedFrom, Client, Request, Methods
  <2>6. Total(k1, r) = Total(k, r)
    BY <1>1, <1>4, <2>1, <2>2 DEF Total, Client, ClientOK, Request
  <2>7. GoodResult(o, k1, r)
    BY <1>4, <2>3, <2>5, DispatchGood DEF k1
  <2> QED BY <2>1, <2>6, <2>7 DEF GoodResult
<1> QED BY <1>2, <1>3, <1>4 DEF http_process

-----------------------------------------------------------------------------
\* A live connection has a request; a dead one has no history.
Histories ==
  \A c \in Conns : /\ Live(c) => req[c] \in Requests
                   /\ ~Live(c) => got[c] = 0 /\ answered[c] = FALSE

\* Every structure is consistent, also those of connections long gone.
ClientsOK == \A i \in Slots : ClientOK(http_clients[i])

RequestsKept ==
  \A c \in Conns : Live(c) /\ reverse[c] # NULL => ParsedFrom(http_clients[reverse[c]], req[c])

IInv ==
  /\ TypeOK /\ Histories /\ ClientsOK
  /\ SlotOwned /\ RequestsKept /\ BytesAccounted /\ AnswerAfterBody

\* A zeroed structure is consistent.
LEMMA ZeroedOK ==
  ASSUME NEW n \in {0, 1}, NEW c \in Conns \cup {NULL}
  PROVE  /\ Zeroed(n, c) \in Client /\ ClientOK(Zeroed(n, c))
         /\ Zeroed(n, c).inuse = n /\ Zeroed(n, c).conn = c
         /\ Zeroed(n, c).state = "HEADERS" /\ Zeroed(n, c).bufused = 0
BY HttpConstants DEF Zeroed, Client, ClientOK, Methods

\* http_init() establishes the invariant.
LEMMA InitIInv == Init => IInv
<1> SUFFICES ASSUME Init PROVE IInv
  OBVIOUS
<1>1. http_clients \in [Slots -> Client] /\ ClientsOK
  BY ZeroedOK DEF Init, ClientsOK
<1>2. queue \in Seq(Conns) /\ Len(queue) <= HTTP_MAX_CLIENTS
  BY HttpConstants DEF Init
<1>3. TypeOK
  BY <1>1, <1>2 DEF Init, TypeOK
<1>4. Histories
  BY DEF Init, Histories, Live
<1>5. \A c \in Conns : ~Live(c)
  BY DEF Init, Live
<1> QED BY <1>1, <1>3, <1>4, <1>5 DEF IInv, SlotOwned, RequestsKept, BytesAccounted, AnswerAfterBody

\* system_os_post() keeps the queue within its length.
LEMMA PostType ==
  ASSUME TypeOK, NEW c \in Conns, system_os_post(c)
  PROVE  /\ queue' \in Seq(Conns) /\ Len(queue') <= HTTP_MAX_CLIENTS
         /\ lost' \in [Conns -> BOOLEAN]
<1>1. CASE Len(queue) < HTTP_MAX_CLIENTS
  <2>1. queue' = Append(queue, c) /\ lost' = lost
    BY <1>1 DEF system_os_post
  <2>2. queue \in Seq(Conns)
    BY DEF TypeOK
  <2>3. queue' \in Seq(Conns) /\ Len(queue') = Len(queue) + 1
    BY <2>1, <2>2
  <2> QED BY <1>1, <2>1, <2>2, <2>3, HttpConstants DEF TypeOK
<1>2. CASE ~(Len(queue) < HTTP_MAX_CLIENTS)
  BY <1>2 DEF TypeOK, system_os_post
<1> QED BY <1>1, <1>2

\* Accepting a connection keeps the invariant.
LEMMA ConnectKeeps ==
  ASSUME IInv, NEW c \in Conns, http_server_conn_cb(c)
  PROVE  IInv'
<1> USE DEF IInv
<1>1. /\ ~Live(c) /\ st' = [st EXCEPT ![c] = "open"]
      /\ UNCHANGED <<got, gap, answered, orphans>>
  BY DEF http_server_conn_cb, Live
<1>2. /\ disconcb' \in [Conns -> BOOLEAN] /\ recvcb' \in [Conns -> BOOLEAN]
      /\ reused' \in [Conns -> BOOLEAN]
  BY DEF http_server_conn_cb, TypeOK, Queued
<1>3. PICK r \in Requests : req' = [req EXCEPT ![c] = r]
  BY DEF http_server_conn_cb
<1>4. CASE Refuse(c)
  <2>1. TypeOK'
    BY <1>1, <1>2, <1>3, <1>4, PostType DEF TypeOK, Refuse
  <2> QED BY <1>1, <1>3, <1>4, <2>1 DEF Refuse, TypeOK, Live, Histories, ClientsOK,
            SlotOwned, RequestsKept, BytesAccounted, AnswerAfterBody
<1>5. CASE Assign(c)
  <2>1. PICK i \in Slots : /\ http_clients[i].inuse = 0
                           /\ http_clients' = [http_clients EXCEPT ![i] = Zeroed(1, c)]
                           /\ reverse' = [reverse EXCEPT ![c] = i]
                           /\ UNCHANGED <<queue, doomed, lost>>
    BY <1>5 DEF Assign, FirstFree
  <2>2. TypeOK'
    BY <1>1, <1>2, <1>3, <2>1, ZeroedOK DEF TypeOK
  <2>3. Histories' /\ ClientsOK'
    BY <1>1, <1>3, <2>1, ZeroedOK DEF TypeOK, Live, Histories, ClientsOK
  <2>4. \A d \in Conns : d # c /\ Live(d)' /\ reverse'[d] # NULL =>
           /\ Live(d) /\ reverse'[d] = reverse[d] /\ req'[d] = req[d]
           /\ reverse[d] # i /\ http_clients'[reverse[d]] = http_clients[reverse[d]]
    BY <1>1, <1>3, <2>1 DEF TypeOK, Live, SlotOwned
  <2>5. /\ reverse'[c] = i /\ http_clients'[i] = Zeroed(1, c) /\ got'[c] = 0
        /\ answered'[c] = FALSE
    BY <1>1, <2>1 DEF TypeOK, Histories
  <2>6. SlotOwned' /\ RequestsKept' /\ BytesAccounted'
    BY <1>1, <2>4, <2>5, ZeroedOK DEF SlotOwned, RequestsKept, BytesAccounted, ParsedFrom
  <2>7. AnswerAfterBody'
    BY <1>1, <1>3, <2>5 DEF TypeOK, Live, AnswerAfterBody
  <2> QED BY <2>2, <2>3, <2>6, <2>7
<1> QED BY <1>4, <1>5 DEF http_server_conn_cb

\* A step that changes neither the owner of a slot nor whether it is in use.
SameOwners ==
  \A i \in Slots : /\ http_clients'[i].inuse = http_clients[i].inuse
                   /\ http_clients'[i].conn = http_clients[i].conn

\* Receiving a segment keeps the invariant and the owners of the slots.
LEMMA ReceiveKeeps ==
  ASSUME IInv, NEW c \in Conns, NEW n \in Chunks, http_client_recv_cb(c, n)
  PROVE  IInv' /\ SameOwners
<1> USE DEF IInv
<1>1. /\ st[c] = "open" /\ UNCHANGED <<st, disconcb, recvcb, req, reverse, reused, orphans>>
  BY DEF http_client_recv_cb
<1>2. CASE Drop(c, n)
  <2>1. TypeOK'
    BY <1>1, <1>2, PostType DEF TypeOK, Drop
  <2> QED BY <1>1, <1>2, <2>1 DEF Drop, Live, Histories, ClientsOK,
            SlotOwned, RequestsKept, BytesAccounted, AnswerAfterBody, SameOwners
<1>3. CASE Store(c, n)
  <2> DEFINE i == reverse[c]
             k == [http_clients[i] EXCEPT !.bufused = @ + n]
  <2>1. /\ i \in Slots /\ http_clients[i] \in Client /\ ClientOK(http_clients[i])
        /\ http_clients[i].bufused + n <= BUF /\ n \in Nat
        /\ Live(c) /\ req[c] \in Requests
    BY <1>1, <1>3, HttpConstants DEF Store, Fits, TypeOK, ClientsOK, Live, Histories
  <2>2. http_clients[i].bufused + n \in 0 .. BUF
    BY <2>1, HttpConstants DEF Client
  <2>3. /\ k \in Client /\ k.state = http_clients[i].state /\ k.url = http_clients[i].url
        /\ k.method = http_clients[i].method /\ k.postlen = http_clients[i].postlen
        /\ k.postused = http_clients[i].postused
        /\ k.inuse = http_clients[i].inuse /\ k.conn = http_clients[i].conn
        /\ k.bufused = http_clients[i].bufused + n
    BY <2>1, <2>2 DEF Client
  <2>4. ClientOK(k) /\ ParsedFrom(k, req[c])
    BY <2>1, <2>3, HttpConstants DEF ClientOK, ParsedFrom, RequestsKept
  <2>5. Total(k, req[c]) = got[c] + n
    <3>1. Total(http_clients[i], req[c]) = got[c]
      BY <2>1, HttpConstants DEF BytesAccounted, Total
    <3> QED BY <3>1, <2>1, <2>3, HttpConstants DEF Total, Client, Request
  <2> HIDE DEF k
  <2>6. PICK o \in http_process(k, req[c], gap[c]) :
           /\ http_clients' = [http_clients EXCEPT ![i] = o.client]
           /\ answered' = [answered EXCEPT ![c] = @ \/ o.sent]
           /\ KillIf(c, o.ret)
    BY <1>3 DEF Store, k
  <2>7. GoodResult(o, k, req[c])
    BY <2>1, <2>3, <2>4, ProcessGood DEF TypeOK
  <2>8. got' = [got EXCEPT ![c] = got[c] + n] /\ gap' = gap
    BY <1>3 DEF Store
  <2>9. TypeOK'
    <3>1. /\ queue' \in Seq(Conns) /\ Len(queue') <= HTTP_MAX_CLIENTS
          /\ lost' \in [Conns -> BOOLEAN] /\ doomed' \in [Conns -> BOOLEAN]
      BY <2>6, PostType DEF KillIf, TypeOK
    <3>2. answered' \in [Conns -> BOOLEAN]
      BY <2>6, <2>7 DEF TypeOK, GoodResult
    <3>3. http_clients' \in [Slots -> Client]
      BY <2>1, <2>6, <2>7 DEF TypeOK, GoodResult
    <3>4. got' \in [Conns -> Nat] /\ gap' \in [Conns -> BOOLEAN]
      BY <2>1, <2>8 DEF TypeOK
    <3> QED BY <1>1, <3>1, <3>2, <3>3, <3>4 DEF TypeOK
  <2>10. Histories' /\ ClientsOK'
    BY <1>1, <2>1, <2>6, <2>7, <2>8 DEF TypeOK, Live, Histories, ClientsOK, GoodResult
  <2>11. \A d \in Conns : d # c /\ Live(d) /\ reverse[d] # NULL =>
            /\ http_clients'[reverse[d]] = http_clients[reverse[d]]
            /\ got'[d] = got[d]
    <3>1. \A d \in Conns : d # c /\ Live(d) /\ reverse[d] # NULL => reverse[d] \in Slots /\ reverse[d] # i
      BY <2>1, HttpConstants DEF TypeOK, SlotOwned
    <3> QED BY <2>1, <2>6, <2>8, <3>1 DEF TypeOK
  <2>12. http_clients'[i] = o.client /\ got'[c] = got[c] + n
    BY <2>1, <2>6, <2>8 DEF TypeOK
  <2>13. SlotOwned' /\ RequestsKept'
    BY <1>1, <2>1, <2>3, <2>7, <2>11, <2>12 DEF SlotOwned, RequestsKept, GoodResult, Live
  <2>14. BytesAccounted'
    BY <1>1, <2>1, <2>5, <2>7, <2>11, <2>12 DEF BytesAccounted, GoodResult, Total, Live
  <2>15. AnswerAfterBody'
    <3> SUFFICES ASSUME NEW d \in Conns, Live(d)', answered'[d], req'[d].url # "ota"
                 PROVE  got'[d] >= req[d].hdr + (IF req[d].method = "POST" THEN req[d].postlen ELSE 0)
      BY <1>1 DEF AnswerAfterBody
    <3>1. req[d] \in Request /\ got[d] \in Nat
      BY <1>1, HttpConstants DEF Histories, Live, TypeOK
    <3>2. CASE answered[d]
      <4>1. got[d] >= req[d].hdr + (IF req[d].method = "POST" THEN req[d].postlen ELSE 0)
        BY <1>1, <3>2 DEF AnswerAfterBody, Live
      <4>2. got'[d] >= got[d] /\ got'[d] \in Nat
        BY <2>1, <2>8, <3>1 DEF TypeOK
      <4> QED BY <3>1, <4>1, <4>2 DEF Request
    <3>3. CASE ~answered[d]
      <4>1. d = c /\ o.sent
        BY <2>6, <3>3 DEF TypeOK
      <4>2. o.client.state = "RESPONSE" /\ req[c].url # "ota"
        BY <1>1, <2>7, <4>1 DEF GoodResult
      <4>3. o.client \in Client /\ ClientOK(o.client) /\ ParsedFrom(o.client, req[c])
        BY <2>7 DEF GoodResult
      <4>4. got'[c] = o.client.bufused + (req[c].hdr + o.client.postused)
        BY <2>5, <2>7, <2>12, <4>2 DEF GoodResult, Total
      <4> QED BY <3>1, <4>1, <4>2, <4>3, <4>4 DEF ClientOK, ParsedFrom, Client, Request, Methods
    <3> QED BY <3>2, <3>3
  <2>16. SameOwners
    BY <2>1, <2>3, <2>6, <2>7, <2>12 DEF SameOwners, TypeOK, GoodResult
  <2> QED BY <2>9, <2>10, <2>13, <2>14, <2>15, <2>16
<1> QED BY <1>2, <1>3 DEF http_client_recv_cb

\* A connection that goes away disturbs no other one, whatever happens to its slot.
LEMMA GoneKeeps ==
  ASSUME IInv, NEW c \in Conns, Live(c), Gone(c), UNCHANGED <<reverse, queue>>,
         http_clients' = Released(c) \/ http_clients' = http_clients,
         orphans' \subseteq Slots
  PROVE  IInv'
<1> USE DEF IInv
<1>1. /\ http_clients' \in [Slots -> Client] /\ ClientsOK'
      /\ \A d \in Conns : d # c /\ Live(d) /\ reverse[d] # NULL =>
            http_clients'[reverse[d]] = http_clients[reverse[d]]
  <2>1. CASE http_clients' = http_clients
    BY <2>1 DEF TypeOK, ClientsOK
  <2>2. CASE http_clients' # http_clients
    <3> DEFINE i == reverse[c]
               k == [http_clients[i] EXCEPT !.inuse = 0]
    <3>1. i \in Slots /\ http_clients' = [http_clients EXCEPT ![i] = k]
      BY <2>2 DEF Released, TypeOK
    <3>2. http_clients[i] \in Client /\ ClientOK(http_clients[i])
      BY <3>1 DEF TypeOK, ClientsOK
    <3>3. k \in Client /\ ClientOK(k)
      BY <3>2 DEF Client, ClientOK
    <3> HIDE DEF k
    <3>4. \A d \in Conns : d # c /\ Live(d) /\ reverse[d] # NULL => reverse[d] # i
      BY <3>1 DEF SlotOwned, TypeOK
    <3>5. http_clients' \in [Slots -> Client] /\ ClientsOK'
      BY <3>1, <3>3 DEF TypeOK, ClientsOK
    <3> QED BY <3>1, <3>4, <3>5 DEF TypeOK
  <2> QED BY <2>1, <2>2
<1>2. TypeOK'
  BY <1>1 DEF TypeOK, Gone
<1>3. \A d \in Conns : /\ d = c => ~Live(d)'
                       /\ d # c => /\ Live(d)' = Live(d) /\ req'[d] = req[d]
                                   /\ got'[d] = got[d] /\ answered'[d] = answered[d]
  BY DEF TypeOK, Gone, Live
<1>4. Histories'
  BY <1>3 DEF Histories, TypeOK, Gone
<1>5. SlotOwned' /\ RequestsKept' /\ BytesAccounted' /\ AnswerAfterBody'
  BY <1>1, <1>3 DEF SlotOwned, RequestsKept, BytesAccounted, AnswerAfterBody
<1> QED BY <1>1, <1>2, <1>4, <1>5

\* A kill changes nothing but the state of the connection it names.
LEMMA TaskKeeps ==
  ASSUME IInv, http_task
  PROVE  IInv'
<1> USE DEF IInv
<1>1. queue \in Seq(Conns) /\ queue # << >> /\ Head(queue) \in Conns
  BY DEF TypeOK, http_task
<1>2. queue' \in Seq(Conns) /\ Len(queue') <= HTTP_MAX_CLIENTS
  BY <1>1, HttpConstants DEF TypeOK, http_task
<1>3. st' \in [Conns -> {"free", "open", "closing"}] /\ \A c \in Conns : Live(c)' = Live(c)
  BY <1>1 DEF TypeOK, http_task, Live
<1> QED BY <1>2, <1>3 DEF http_task, histVars, TypeOK, Histories, ClientsOK, SlotOwned,
           RequestsKept, BytesAccounted, AnswerAfterBody

\* IInv is an inductive invariant of the server.
THEOREM IInvHolds == Spec => []IInv
<1>1. IInv /\ [Next]_vars => IInv'
  <2> SUFFICES ASSUME IInv, [Next]_vars PROVE IInv'
    OBVIOUS
  <2>1. ASSUME NEW c \in Conns, http_server_conn_cb(c) PROVE IInv'
    BY <2>1, ConnectKeeps
  <2>2. ASSUME NEW c \in Conns, NEW n \in Chunks, http_client_recv_cb(c, n) PROVE IInv'
    BY <2>2, ReceiveKeeps
  <2>3. ASSUME NEW c \in Conns, http_client_disconn_cb(c) PROVE IInv'
    BY <2>3, GoneKeeps DEF http_client_disconn_cb, Live, IInv, TypeOK
  <2>4. ASSUME NEW c \in Conns, http_server_error_cb(c) PROVE IInv'
    <3>1. orphans' \subseteq Slots
      BY <2>4 DEF http_server_error_cb, IInv, TypeOK
    <3> QED BY <2>4, <3>1, GoneKeeps DEF http_server_error_cb, Live
  <2>5. CASE http_task
    BY <2>5, TaskKeeps
  <2>6. CASE UNCHANGED vars
    BY <2>6 DEF vars, histVars, IInv, TypeOK, Histories, ClientsOK, SlotOwned, Live,
           RequestsKept, BytesAccounted, AnswerAfterBody
  <2> QED BY <2>1, <2>2, <2>3, <2>4, <2>5, <2>6 DEF Next
<1> QED BY <1>1, InitIInv, PTL DEF Spec

\* TypeOK: for every buffer size, bufused never passes the end of the buffer and
\* the kill queue never passes its length.
THEOREM TypeCorrect == Spec => []TypeOK
BY IInvHolds, PTL DEF IInv

\* SlotOwned: no two live connections are served from one HttpClient.
THEOREM SlotsOwned == Spec => []SlotOwned
BY IInvHolds, PTL DEF IInv

\* BytesAccounted: no received unit is lost or used twice.
THEOREM AllBytesAccounted == Spec => []BytesAccounted
BY IInvHolds, PTL DEF IInv

\* AnswerAfterBody: a page is answered only after the whole request arrived.
THEOREM AnswersAfterBody == Spec => []AnswerAfterBody
BY IInvHolds, PTL DEF IInv

-----------------------------------------------------------------------------
(* The kill queue.                                                         *)

\* A dead connection carries no decision to kill it.
FreshDoom == \A c \in Conns : ~Live(c) => doomed[c] = FALSE /\ lost[c] = FALSE

\* A queued open connection was doomed, or is new at a queued address.
QueuedDoomed == \A c \in Conns : st[c] = "open" /\ Queued(c) => doomed[c] \/ reused[c]

KillInv == TypeOK /\ FreshDoom /\ DoomedQueued /\ QueuedDoomed

\* A post queues the connection or marks its loss, and concerns no other one.
LEMMA PostQueues ==
  ASSUME TypeOK, NEW c \in Conns, system_os_post(c)
  PROVE  /\ Queued(c)' \/ lost'[c]
         /\ \A d \in Conns : Queued(d) => Queued(d)'
         /\ \A d \in Conns : d # c => (Queued(d)' => Queued(d)) /\ lost'[d] = lost[d]
         /\ lost[c] => lost'[c]
<1>0. queue \in Seq(Conns)
  BY DEF TypeOK
<1>1. CASE Len(queue) < HTTP_MAX_CLIENTS
  <2>1. queue' = Append(queue, c) /\ lost' = lost
    BY <1>1 DEF system_os_post
  <2>2. /\ Len(queue') = Len(queue) + 1 /\ queue'[Len(queue) + 1] = c
        /\ \A n \in 1 .. Len(queue) : queue'[n] = queue[n]
    BY <1>0, <2>1
  <2>3. Len(queue) \in Nat
    BY <1>0
  <2>4. Queued(c)'
    BY <2>2, <2>3 DEF Queued
  <2>5. \A d \in Conns : Queued(d) => Queued(d)'
    BY <2>2, <2>3 DEF Queued
  <2>6. \A d \in Conns : d # c => (Queued(d)' => Queued(d))
    BY <2>2, <2>3 DEF Queued
  <2> QED BY <2>1, <2>4, <2>5, <2>6
<1>2. CASE ~(Len(queue) < HTTP_MAX_CLIENTS)
  <2>1. queue' = queue /\ lost' = [lost EXCEPT ![c] = TRUE]
    BY <1>2 DEF system_os_post
  <2> QED BY <2>1 DEF Queued, TypeOK
<1> QED BY <1>1, <1>2

\* Running one event takes one entry off the queue.
LEMMA TaskDequeues ==
  ASSUME TypeOK, http_task
  PROVE  /\ Head(queue) \in Conns /\ Queued(Head(queue))
         /\ \A d \in Conns : Queued(d)' => Queued(d)
         /\ \A d \in Conns : d # Head(queue) /\ Queued(d) => Queued(d)'
<1>1. queue \in Seq(Conns) /\ queue # << >> /\ queue' = Tail(queue)
  BY DEF TypeOK, http_task
<1>2. /\ Len(queue) \in Nat \ {0} /\ Head(queue) = queue[1] /\ queue[1] \in Conns
      /\ Len(queue') = Len(queue) - 1
      /\ \A n \in 1 .. Len(queue) - 1 : queue'[n] = queue[n + 1]
  BY <1>1
<1>3. Queued(Head(queue))
  BY <1>2 DEF Queued
<1>4. \A d \in Conns : Queued(d)' => Queued(d)
  <2> SUFFICES ASSUME NEW d \in Conns, NEW n \in 1 .. Len(queue'), queue'[n] = d
               PROVE  Queued(d)
    BY DEF Queued
  <2>1. n + 1 \in 1 .. Len(queue) /\ queue[n + 1] = d
    BY <1>2
  <2> QED BY <2>1 DEF Queued
<1>5. \A d \in Conns : d # Head(queue) /\ Queued(d) => Queued(d)'
  <2> SUFFICES ASSUME NEW d \in Conns, d # Head(queue), NEW n \in 1 .. Len(queue), queue[n] = d
               PROVE  Queued(d)'
    BY DEF Queued
  <2>1. n - 1 \in 1 .. Len(queue') /\ queue'[n - 1] = d
    BY <1>2
  <2> QED BY <2>1 DEF Queued
<1> QED BY <1>2, <1>3, <1>4, <1>5

\* Every decision to kill is followed by a post, in every callback.
LEMMA KillInvStep ==
  ASSUME KillInv, TypeOK', [Next]_vars
  PROVE  KillInv'
<1> USE DEF KillInv
<1>1. ASSUME NEW c \in Conns, http_server_conn_cb(c) PROVE KillInv'
  <2>1. /\ st[c] = "free" /\ st' = [st EXCEPT ![c] = "open"]
        /\ reused' = [reused EXCEPT ![c] = Queued(c)]
    BY <1>1 DEF http_server_conn_cb
  <2>2. CASE Refuse(c)
    BY <2>1, <2>2, PostQueues DEF Refuse, TypeOK, FreshDoom, DoomedQueued, QueuedDoomed, Live
  <2>3. CASE Assign(c)
    <3>1. UNCHANGED <<queue, doomed, lost>>
      BY <2>3 DEF Assign
    <3>2. \A d \in Conns : Queued(d)' = Queued(d)
      BY <3>1 DEF Queued
    <3> QED BY <2>1, <3>1, <3>2 DEF TypeOK, FreshDoom, DoomedQueued, QueuedDoomed, Live
  <2> QED BY <1>1, <2>2, <2>3 DEF http_server_conn_cb
<1>2. ASSUME NEW c \in Conns, NEW n \in Chunks, http_client_recv_cb(c, n) PROVE KillInv'
  <2>1. st[c] = "open" /\ st' = st /\ reused' = reused
    BY <1>2 DEF http_client_recv_cb
  <2>2. CASE system_os_post(c) /\ doomed' = [doomed EXCEPT ![c] = TRUE]
    <3>1. FreshDoom'
      BY <2>1, <2>2, PostQueues DEF TypeOK, FreshDoom, Live
    <3>2. DoomedQueued'
      BY <2>1, <2>2, PostQueues DEF TypeOK, DoomedQueued
    <3>3. QueuedDoomed'
      BY <2>1, <2>2, PostQueues DEF TypeOK, QueuedDoomed
    <3> QED BY <3>1, <3>2, <3>3
  <2>3. CASE UNCHANGED <<queue, doomed, lost>>
    BY <2>1, <2>3 DEF TypeOK, FreshDoom, DoomedQueued, QueuedDoomed, Live, Queued
  <2> QED BY <1>2, <2>2, <2>3 DEF http_client_recv_cb, Drop, Store, KillIf
<1>3. ASSUME NEW c \in Conns, Gone(c), queue' = queue PROVE KillInv'
  BY <1>3 DEF Gone, TypeOK, FreshDoom, DoomedQueued, QueuedDoomed, Live, Queued
<1>4. CASE http_task
  BY <1>4, TaskDequeues DEF http_task, histVars, TypeOK, FreshDoom, DoomedQueued, QueuedDoomed, Live
<1>5. CASE UNCHANGED vars
  BY <1>5 DEF vars, histVars, FreshDoom, DoomedQueued, QueuedDoomed, Live, Queued
<1> QED BY <1>1, <1>2, <1>3, <1>4, <1>5 DEF Next, http_client_disconn_cb, http_server_error_cb

\* The queue of http_task in step with the connections, in every reachable state.
LEMMA KillInvHolds == Spec => []KillInv
<1>1. Init => KillInv
  <2> SUFFICES ASSUME Init PROVE KillInv
    OBVIOUS
  <2>1. TypeOK
    BY InitIInv DEF IInv
  <2>2. \A c \in Conns : st[c] = "free" /\ doomed[c] = FALSE /\ lost[c] = FALSE
    BY DEF Init
  <2> QED BY <2>1, <2>2 DEF KillInv, FreshDoom, DoomedQueued, QueuedDoomed
<1>2. KillInv /\ TypeOK' /\ [Next]_vars => KillInv'
  BY KillInvStep
<1> QED BY <1>1, <1>2, TypeCorrect, PTL DEF Spec

\* DoomedQueued: a connection the server decided to kill stays queued until it is
\* being closed, unless its post failed.
THEOREM DoomedStaysQueued == Spec => []DoomedQueued
BY KillInvHolds, PTL DEF KillInv

\* KillsOnlyDoomed: http_task closes only the connections the server decided to kill,
\* and those the SDK put at an address that was still queued.
THEOREM KillsAreMeant == Spec => KillsOnlyDoomed
<1>1. KillInv /\ [Next]_vars =>
        [\A c \in Conns : st[c] = "open" /\ st'[c] = "closing" => doomed[c] \/ reused[c]]_vars
  <2> SUFFICES ASSUME KillInv, [Next]_vars, NEW c \in Conns, st[c] = "open", st'[c] = "closing"
               PROVE  doomed[c] \/ reused[c]
    OBVIOUS
  <2>1. http_task
    BY DEF KillInv, TypeOK, Next, vars, http_server_conn_cb, http_client_recv_cb,
           http_client_disconn_cb, http_server_error_cb, Gone
  <2>2. c = Head(queue)
    BY <2>1, TaskDequeues DEF KillInv, TypeOK, http_task
  <2> QED BY <2>1, <2>2, TaskDequeues DEF KillInv, QueuedDoomed
<1> QED BY <1>1, KillInvHolds, PTL DEF Spec, KillsOnlyDoomed
-----------------------------------------------------------------------------
(* Slots do not leak.                                                      *)

\* A slot in use names the connection that owns it, and the disconnect callback that
\* will release it is registered on that connection.
Owned(i) ==
  LET c == http_clients[i].conn
  IN  c \in Conns /\ Live(c) /\ reverse[c] = i /\ disconcb[c]

Owners == \A i \in Slots : http_clients[i].inuse = 1 => Owned(i) \/ i \in orphans

\* No step but an abnormal end takes the owner of a slot away without the slot.
LEMMA OwnersStep ==
  ASSUME IInv, Owners, [Next]_vars
  PROVE  Owners'
<1>0. TypeOK /\ SlotOwned
  BY DEF IInv
<1>1. ASSUME NEW c \in Conns, http_server_conn_cb(c) PROVE Owners'
  <2>1. st[c] = "free" /\ st' = [st EXCEPT ![c] = "open"] /\ orphans' = orphans
    BY <1>1 DEF http_server_conn_cb
  <2>2. PICK ok1 \in BOOLEAN, ok2 \in BOOLEAN :
          disconcb' = [disconcb EXCEPT ![c] = ok1] /\ recvcb' = [recvcb EXCEPT ![c] = ok1 /\ ok2]
    BY <1>1 DEF http_server_conn_cb
  <2>3. CASE Refuse(c)
    BY <1>0, <2>1, <2>2, <2>3 DEF Refuse, Owners, Owned, Live, TypeOK
  <2>4. CASE Assign(c)
    <3>1. PICK i \in Slots : /\ recvcb'[c] /\ http_clients[i].inuse = 0
                             /\ http_clients' = [http_clients EXCEPT ![i] = Zeroed(1, c)]
                             /\ reverse' = [reverse EXCEPT ![c] = i]
      BY <2>4 DEF Assign, FirstFree
    <3>2. disconcb'[c]
      BY <1>0, <2>2, <3>1 DEF TypeOK
    <3>3. Owned(i)'
      BY <1>0, <2>1, <3>1, <3>2, ZeroedOK DEF Owned, Live, TypeOK
    <3>4. \A j \in Slots : j # i /\ http_clients'[j].inuse = 1 => Owned(j)' \/ j \in orphans'
      BY <1>0, <2>1, <2>2, <3>1 DEF Owners, Owned, Live, TypeOK
    <3> QED BY <3>3, <3>4 DEF Owners
  <2> QED BY <1>1, <2>3, <2>4 DEF http_server_conn_cb
<1>2. ASSUME NEW c \in Conns, NEW n \in Chunks, http_client_recv_cb(c, n) PROVE Owners'
  <2>1. UNCHANGED <<st, disconcb, reverse, orphans>>
    BY <1>2 DEF http_client_recv_cb
  <2>2. SameOwners
    BY <1>2, ReceiveKeeps
  <2> QED BY <2>1, <2>2 DEF Owners, Owned, Live, SameOwners
<1>3. ASSUME NEW c \in Conns, http_client_disconn_cb(c) PROVE Owners'
  <2>1. /\ Live(c) /\ st' = [st EXCEPT ![c] = "free"] /\ reverse' = reverse
        /\ disconcb' = [disconcb EXCEPT ![c] = FALSE] /\ http_clients' = Released(c)
        /\ orphans' = orphans
    BY <1>3 DEF http_client_disconn_cb, Gone, Live
  <2> SUFFICES ASSUME NEW i \in Slots, http_clients'[i].inuse = 1, i \notin orphans
               PROVE  Owned(i)'
    BY <2>1 DEF Owners
  <2>2. http_clients[i].inuse = 1 /\ http_clients'[i] = http_clients[i]
    <3>1. CASE http_clients' = http_clients
      BY <3>1
    <3>2. CASE http_clients' # http_clients
      <4>1. reverse[c] \in Slots /\ http_clients' = [http_clients EXCEPT ![reverse[c]].inuse = 0]
        BY <1>0, <2>1, <3>2 DEF Released, TypeOK
      <4>2. http_clients'[reverse[c]].inuse = 0
        BY <1>0, <4>1 DEF TypeOK, Client
      <4> QED BY <1>0, <4>1, <4>2 DEF TypeOK
    <3> QED BY <3>1, <3>2
  <2>3. Owned(i)
    BY <2>2 DEF Owners
  <2>4. http_clients[i].conn # c
    <3> SUFFICES ASSUME http_clients[i].conn = c PROVE FALSE
      OBVIOUS
    <3>1. disconcb[c] /\ reverse[c] = i /\ i # NULL
      BY <2>3, HttpConstants DEF Owned
    <3>2. http_clients' = [http_clients EXCEPT ![i].inuse = 0]
      BY <2>1, <3>1 DEF Released
    <3>3. http_clients'[i].inuse = 0
      BY <1>0, <3>2 DEF TypeOK, Client
    <3> QED BY <3>3
  <2> QED BY <1>0, <2>1, <2>2, <2>3, <2>4 DEF Owned, Live, TypeOK
<1>4. ASSUME NEW c \in Conns, http_server_error_cb(c) PROVE Owners'
  <2>1. /\ Live(c) /\ st' = [st EXCEPT ![c] = "free"] /\ UNCHANGED <<reverse, http_clients>>
        /\ disconcb' = [disconcb EXCEPT ![c] = FALSE]
        /\ orphans' = orphans \cup ({reverse[c]} \ {NULL})
    BY <1>4 DEF http_server_error_cb, Gone, Live
  <2> SUFFICES ASSUME NEW i \in Slots, http_clients[i].inuse = 1, i \notin orphans'
               PROVE  Owned(i)'
    BY <2>1 DEF Owners
  <2>2. Owned(i) /\ reverse[c] # i
    BY <2>1, HttpConstants DEF Owners
  <2> QED BY <1>0, <2>1, <2>2 DEF Owned, Live, TypeOK
<1>5. CASE http_task
  <2>1. Head(queue) \in Conns /\ UNCHANGED <<disconcb, reverse, http_clients, orphans>>
    BY <1>0, <1>5, TaskDequeues DEF http_task, histVars
  <2>2. \A c \in Conns : Live(c)' = Live(c)
    BY <1>0, <1>5, <2>1 DEF TypeOK, http_task, Live
  <2> QED BY <2>1, <2>2 DEF Owners, Owned
<1>6. CASE UNCHANGED vars
  BY <1>6 DEF vars, histVars, Owners, Owned, Live
<1> QED BY <1>1, <1>2, <1>3, <1>4, <1>5, <1>6 DEF Next

\* OnlyErrorsLeak: a slot in use belongs to a live connection or to one that ended by
\* the error callback, for every number of slots, also when callbacks could not be
\* registered and posts to the kill queue failed.
THEOREM SlotsReturned == Spec => []OnlyErrorsLeak
<1>1. Init => Owners
  BY ZeroedOK DEF Init, Owners
<1>2. IInv /\ Owners /\ [Next]_vars => Owners'
  BY OwnersStep
<1>3. Owners => OnlyErrorsLeak
  BY DEF Owners, Owned, OnlyErrorsLeak, HasOwner
<1> QED BY <1>1, <1>2, <1>3, IInvHolds, PTL DEF Spec
=============================================================================
