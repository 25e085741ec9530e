---------------------------- MODULE MCSmtpClient ----------------------------
(* SmtpClient on small instances: two mails, short and longer replies.      *)
EXTENDS SmtpClient

MCMail == {<<"a", "b", "online", "">>, <<"c", "d", "day 1", "">>, <<"a", TooLong, "lux", "">>}

\* What may lie behind inbuf.
MCMemory == {[i \in 0 .. BUF - 1 |-> x] : x \in {NUL, "text"}}

MCWords == {"text", "Y2hhbA==", "bm9uY2U="}
MCTexts == {<< >>, <<"text">>}
MCEhloLines == {<< >>, <<"250-", "text", CRLF, "250-", CRLF>>}
Good334 == {<<"Y2hhbA==">>, <<"bm9uY2U=">>}
MCChallenges == Good334 \cup {<<"text">>, << >>}
MCBase64 == {"Y2hhbA==", "bm9uY2U="}
=============================================================================
