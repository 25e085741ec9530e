------------------------------ MODULE MCMailer ------------------------------
(* Mailer with two servers, and requests of the setup page that change an   *)
(* account as a whole or in part.                                           *)
EXTENDS Mailer

Pair(k, v) == [key |-> k, val |-> v, eq |-> TRUE]
Piece(k)   == [key |-> k, val |-> "", eq |-> FALSE]

\* All six fields.
Account(v, port) ==
  << Pair("to", v), Pair("from", v), Pair("pass", v), Pair("user", v), Pair("port", port),
     Pair("host", v) >>

MCTooLong == {"x...x"}

MCServers == { [host |-> v, port |-> 25, user |-> v, pass |-> v] : v \in {"a", "b"} }

\* Accounts in one request and in two; a field that is cleared, too long or cut off;
\* a port that does not fit; a field that is set twice; the bare page; pieces without
\* '=' in the middle and at the end.
MCQueries ==
  { Account("a", 25), Account("b", 25),
    << >>, <<Pair("host", "b")>>, <<Pair("host", "")>>,
    <<Pair("user", "b"), Pair("pass", "x...x")>>, <<Pair("to", "b"), Piece("host")>>,
    <<Pair("port", 65536)>>, <<Pair("from", ""), Pair("other", "x...x"), Pair("from", "b")>>,
    <<Piece("user"), Piece("other"), Pair("host", "b"), Piece("other"), Pair("to", "a")>> }

\* What may lie behind inbuf.
MCMemory     == {[i \in 0 .. BUF - 1 |-> x] : x \in {"nul", "text"}}

MCWords      == {"text", "Y2hhbA=="}
MCReplies    == {<<"text">>}
MCEhloLines  == {<<"250-", "crlf">>}
MCChallenges == {<<"Y2hhbA==">>}
MCBase64     == {"Y2hhbA=="}
=============================================================================
