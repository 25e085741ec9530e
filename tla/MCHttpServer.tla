---------------------------- MODULE MCHttpServer ----------------------------
(* HttpServer on small instances. *)
EXTENDS HttpServer

CONSTANTS c1, c2

Req(m, u, h, p, b) == [method |-> m, url |-> u, hdr |-> h, postlen |-> p, bad |-> b]

\* One request of each kind; a header block of 2 units can be cut in two.
MCRequests ==
  { Req("POST", "page", 2, 2, FALSE), Req("GET", "logs", 1, 0, FALSE),
    Req("POST", "ota", 1, 3, FALSE), Req("GET", "overlong", 1, 0, FALSE),
    Req("GET", "page", 2, 0, TRUE) }

FewRequests == { Req("POST", "page", 1, 1, FALSE) }
=============================================================================
