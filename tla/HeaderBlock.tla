---------------------------- MODULE HeaderBlock ----------------------------
(***************************************************************************)
(* How http/process.c takes a header block apart: every time a segment     *)
(* arrives it starts again at the first byte of client->buf.               *)
(*                                                                         *)
(* url, host and buf lie behind each other in HttpClient, and mem is these *)
(* bytes.  A method and the key of a header are one symbol each.           *)
(***************************************************************************)
EXTENDS Integers, Sequences

CONSTANTS
  UrlLen, HostLen, BufLen,  \* sizes of url, host and buf
  Requests                  \* what is sent: [method, url, headers, body]

ASSUME HeaderBlockConstants == {UrlLen, HostLen, BufLen} \subseteq Nat \ {0}

VARIABLES
  request,    \* the request, and how many of its bytes have arrived
  arrived,
  mem, bufused,
  method, postlen,
  verdict     \* "more", "kill" or "parsed"

headerVars == <<request, arrived, mem, bufused, method, postlen, verdict>>

Null   == -1
Host   == UrlLen
Buf    == UrlLen + HostLen
Size   == UrlLen + HostLen + BufLen
Zeroed == [a \in 0 .. Size - 1 |-> "nul"]

\* Behind buf there are the counters of HttpClient, which hold no blank.
At(mm, a) == IF a < Size THEN mm[a] ELSE "nul"

Blank(mm, a) == At(mm, a) \in {"sp", "cr", "lf"}

Least(S) == CHOOSE i \in S : \A j \in S : i <= j

\* A C string.
Text(mm, a) ==
  [i \in 1 .. Least({j \in a .. Size : At(mm, j) = "nul"}) - a |-> mm[a + i - 1]]

-----------------------------------------------------------------------------

parseline(mm, buf, len) ==
  LET ends == {i \in 1 .. len - 1 : At(mm, buf + i - 1) = "cr" /\ At(mm, buf + i) = "lf"}
  IN  IF ends = {} THEN Null ELSE buf + Least(ends) + 1

\* The token, and what is behind it.  The first loop of the code also looks at buf[len]; if
\* the token starts there, the second one runs up to the next blank, wherever it is.
parsetoken(mm, buf, len) ==
  LET starts == {i \in 0 .. len : ~Blank(mm, buf + i)}
      start  == Least(starts)
      ends   == {i \in start + 1 .. Size : Blank(mm, buf + i) \/ i = len \/ i = Size}
  IN  IF starts = {} THEN [token |-> Null, next |-> Null]
      ELSE [token |-> buf + start, next |-> buf + Least(ends)]

\* Mutant: room for one more.
TooLong_OffByOne(n, size) == n > size + 1

TooLong(n, size) == n > size

\* os_strncmp() over the shorter of token and keyword: a token that starts with the keyword,
\* or is a start of it, is taken for it.
Keyword(c) ==
  IF c \in {"G", "GETX"} THEN "GET"
  ELSE IF c \in {"P", "POSTX"} THEN "POST"
  ELSE IF c \in {"H", "Host:x"} THEN "Host:"
  ELSE IF c = "C" THEN "Content-Length:" ELSE c

\* os_memcpy() and the NUL.
CopyString(mm, to, from, n) ==
  [a \in DOMAIN mm |-> IF a \in to .. to + n - 1 THEN At(mm, from + a - to)
                       ELSE IF a = to + n THEN "nul" ELSE mm[a]]

\* The numbers that occur are digits; any other text is 0.
atoi(c) == IF c = "1" THEN 1 ELSE IF c = "2" THEN 2 ELSE 0

-----------------------------------------------------------------------------
(* What http_process() has at hand: mem, the place that is looked at, the  *)
(* method, postlen and a verdict.                                          *)

RECURSIVE Lines(_, _)

\* The header line at p.at.  bufused is never reduced by the lines that are done: the code
\* subtracts after it has moved buf.
Header(p, len, nextline) ==
  LET t == parsetoken(p.mem, p.at, nextline - p.at)
      v == parsetoken(p.mem, t.next, nextline - t.next)
      n == v.next - v.token
  IN  IF t.token = Null THEN [p EXCEPT !.verdict = "kill"]
      ELSE IF Keyword(At(p.mem, t.token)) = "Host:"
      THEN IF v.token = Null \/ TooLong(n, HostLen) THEN [p EXCEPT !.verdict = "kill"]
           ELSE Lines([p EXCEPT !.mem = CopyString(p.mem, Host, v.token, n), !.at = nextline], len)
      ELSE IF Keyword(At(p.mem, t.token)) = "Content-Length:"
      THEN IF v.token = Null THEN [p EXCEPT !.verdict = "kill"]
           ELSE Lines([p EXCEPT !.postlen = atoi(At(p.mem, v.token)), !.at = nextline], len)
      ELSE Lines([p EXCEPT !.at = nextline], len)

Lines(p, len) ==
  IF len >= 2 /\ At(p.mem, p.at) = "cr" /\ At(p.mem, p.at + 1) = "lf"
  THEN [p EXCEPT !.verdict = "parsed", !.at = @ + 2]
  ELSE LET nextline == parseline(p.mem, p.at, len)
       IN  IF nextline = Null THEN p ELSE Header(p, len, nextline)

\* The request line and the rest.
http_process(p, len) ==
  LET nextline == parseline(p.mem, Buf, len)
      t == parsetoken(p.mem, Buf, nextline - Buf)
      u == parsetoken(p.mem, t.next, nextline - t.next)
      n == u.next - u.token
  IN  IF nextline = Null THEN p
      ELSE IF t.token = Null \/ Keyword(At(p.mem, t.token)) \notin {"GET", "POST"}
              \/ u.token = Null \/ TooLong(n, UrlLen)
      THEN [p EXCEPT !.verdict = "kill"]
      ELSE Lines([p EXCEPT !.mem = CopyString(p.mem, 0, u.token, n), !.at = nextline,
                           !.method = Keyword(At(p.mem, t.token))], len)

\* os_memmove() of what is behind the headers.
Moved(mm, at, n) ==
  [a \in DOMAIN mm |-> IF a \in Buf .. Buf + n - 1 THEN At(mm, at + a - Buf) ELSE mm[a]]

-----------------------------------------------------------------------------
(* The other side.                                                         *)

Repeat(c, n) == [i \in 1 .. n |-> c]

RECURSIVE Concat(_)

Concat(ss) == IF ss = << >> THEN << >> ELSE Head(ss) \o Concat(Tail(ss))

\* The bytes of a request; headers is a sequence of <<key, value>>.
Bytes(r) ==
  <<r.method, "sp">> \o r.url \o <<"sp", "HTTP/1.1", "cr", "lf">>
  \o Concat([i \in DOMAIN r.headers |-> <<r.headers[i][1], "sp">> \o r.headers[i][2] \o <<"cr", "lf">>])
  \o <<"cr", "lf">> \o r.body

HeaderInit ==
  /\ request \in Requests /\ arrived = 0
  /\ mem = Zeroed /\ bufused = 0 /\ method = "GET" /\ postlen = 0 /\ verdict = "more"

\* The next n bytes arrive.
http_client_recv_cb(n) ==
  /\ verdict = "more" /\ arrived + n <= Len(Bytes(request))
  /\ arrived' = arrived + n
  /\ IF bufused + n > BufLen
     THEN verdict' = "kill" /\ UNCHANGED <<mem, bufused, method, postlen>>
     ELSE \E mm \in {[a \in DOMAIN mem |-> IF a \in Buf + bufused .. Buf + bufused + n - 1
                                           THEN Bytes(request)[arrived + 1 + a - Buf - bufused] ELSE mem[a]]} :
          \E p \in {http_process([mem |-> mm, at |-> Buf, method |-> method, postlen |-> postlen,
                                  verdict |-> "more"], bufused + n)} :
            /\ verdict' = p.verdict /\ method' = p.method /\ postlen' = p.postlen
            /\ bufused' = IF p.verdict = "parsed" THEN bufused + n - (p.at - Buf) ELSE bufused + n
            /\ mem' = IF p.verdict = "parsed" THEN Moved(p.mem, p.at, bufused') ELSE p.mem
  /\ UNCHANGED request

\* The slot is given to the next connection, zeroed.
NextConnection ==
  /\ verdict # "more" \/ arrived = Len(Bytes(request))
  /\ request' \in Requests /\ arrived' = 0
  /\ mem' = Zeroed /\ bufused' = 0 /\ method' = "GET" /\ postlen' = 0 /\ verdict' = "more"

HeaderNext ==
  \/ \E n \in 1 .. BufLen + 1 : http_client_recv_cb(n)
  \/ NextConnection

-----------------------------------------------------------------------------
(* What a request says, as far as the code tells its words apart.          *)

Values(r, key) == SelectSeq(r.headers, LAMBDA h : Keyword(h[1]) = key)

LastValue(r, key, default) ==
  LET vs == Values(r, key) IN IF vs = << >> THEN default ELSE vs[Len(vs)][2]

\* Does every field fit with its NUL, and has every header a value?
Plain(r) ==
  /\ Len(r.url) < UrlLen
  /\ \A i \in DOMAIN r.headers :
       /\ r.headers[i][2] # << >>
       /\ Keyword(r.headers[i][1]) = "Host:" => Len(r.headers[i][2]) < HostLen

\* Is there one that does not even fit without it, or a method that is not known?
Bad(r) ==
  \/ Keyword(r.method) \notin {"GET", "POST"} \/ Len(r.url) > UrlLen
  \/ \E i \in DOMAIN r.headers : Keyword(r.headers[i][1]) = "Host:" /\ Len(r.headers[i][2]) > HostLen

\* However a request is cut into segments, http_process() finds in it what it says: the method,
\* the url, the last host and length, and behind them the bytes of the body that have arrived.
\* It waits as long as the block is not complete, and a request with a field that is too long
\* is never parsed.  Words count as the keyword that they start, or that they start with:
\* "GETX" and "G" are a GET.  Two cases are left out: the NUL of a field of exactly the size of its
\* array lands in the next one, and for a header without a value parsetoken() takes the next
\* line's first token.
ParserFaithful ==
  LET r    == request
      body == arrived - (Len(Bytes(r)) - Len(r.body))
  IN  /\ Bad(r) => verdict # "parsed"
      /\ ~Bad(r) /\ Plain(r) /\ verdict = "kill" => Len(Bytes(r)) > BufLen
      /\ ~Bad(r) /\ Plain(r) /\ verdict # "kill" =>
           /\ (verdict = "parsed") <=> (body >= 0)
           /\ verdict = "parsed" =>
                /\ method = Keyword(r.method) /\ Text(mem, 0) = r.url
                /\ Text(mem, Host) = LastValue(r, "Host:", << >>)
                /\ postlen = atoi(LastValue(r, "Content-Length:", <<"0">>)[1])
                /\ bufused = body
                /\ \A i \in 1 .. body : mem[Buf + i - 1] = r.body[i]
=============================================================================
