---------------------------- MODULE MailService ----------------------------
(***************************************************************************)
(* What smtp_send() promises its callers: a mail that was taken on reaches *)
(* the server at most once, with its own sender and recipient, and before  *)
(* the next one is taken on; it may also be lost.                          *)
(***************************************************************************)
EXTENDS Naturals, Sequences

CONSTANT Mail   \* tuples <<from, to, subj, body>>

VARIABLES
  asked,  \* mails taken on
  got,    \* what the server took on: envelope and message
  open    \* may the last mail of asked still be delivered?

mvars == <<asked, got, open>>

Init == asked = << >> /\ got = << >> /\ open = FALSE

Ask(m) == ~open /\ asked' = Append(asked, m) /\ open' = TRUE /\ UNCHANGED got

Deliver ==
  /\ open
  /\ LET m == asked[Len(asked)]
     IN  got' = Append(got, [env |-> <<m[1], m[2]>>, msg |-> m])
  /\ open' = FALSE /\ UNCHANGED asked

Lose == open /\ open' = FALSE /\ UNCHANGED <<asked, got>>

Next == (\E m \in Mail : Ask(m)) \/ Deliver \/ Lose

Spec == Init /\ [][Next]_mvars
=============================================================================
