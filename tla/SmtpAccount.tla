---------------------------- MODULE SmtpAccount ----------------------------
(***************************************************************************)
(* The SMTP account: the setup page that changes it (http/url_smtp.c), the *)
(* user params that keep it (param.c) and the start that reads it back     *)
(* (smtp_init).                                                            *)
(*                                                                         *)
(* The page writes each pair of its query string to smtp_server at once,   *)
(* whatever comes of the rest, and a timer stores smtp_server three        *)
(* seconds after a 202.  A query string is the sequence of the pieces      *)
(* between its '&', each a key with a value as url_decode() leaves it, or  *)
(* with no '=' in it.  Keys are compared by prefix: key is the field that  *)
(* the text starts with, or no field.                                      *)
(***************************************************************************)
EXTENDS Integers, Sequences

CONSTANTS
  Queries,       \* query strings: sequences of [key, val, eq]
  TooLong,       \* values that do not fit their field
  JUNK,          \* what an erased sector looks like in a field
  SupportedMap,  \* does system_get_flash_size_map() give a supported layout?
  MaxQueries     \* requests of the page

Texts   == {"host", "user", "pass", "from", "to"}
Fields  == Texts \cup {"port"}
MAGIC   == <<202, 254, 186, 190>>

VARIABLES
  smtp_server,  \* the account in RAM
  armed,        \* smtp_param_timer is running
  sector,       \* what system_param_load() reads: [magic, val]
  queries,      \* requests so far
  accepted,     \* history: accounts that were answered 202
  pending,      \* history: the account of the last 202, while nothing came across
  touched,      \* history: a request without 202 changed it while the timer ran
  spoilt,       \* history: such an account was stored
  fresh         \* history: no request since the start

histVars == <<accepted, pending, touched, spoilt, fresh>>
vars     == <<smtp_server, armed, sector, queries, histVars>>

\* os_bzero(&smtp_server)
Empty == [f \in Fields |-> IF f = "port" THEN 0 ELSE ""]

\* The test of the page for an account that is fit to be stored.
Complete(a) == a["port"] # 0 /\ \A f \in Texts : a[f] # ""

ASSUME AccountConstants ==
  /\ MaxQueries \in Nat /\ SupportedMap \in BOOLEAN
  /\ JUNK # ""

ASSUME AccountQueries == \A q \in Queries : Len(q) \in Nat

-----------------------------------------------------------------------------
(* The user params.                                                        *)

\* Mutant: the magic number is not compared.
param_retrieve_NoMagic == SupportedMap

\* Does the sector hold a value?  One byte is compared: the parenthesis of
\* "os_memcmp(param_buf, PARAM_MAGIC, sizeof(PARAM_MAGIC) != 0)" is misplaced.
param_retrieve == SupportedMap /\ sector.magic[1] = MAGIC[1]

\* The SDK keeps two copies, so a save takes place or leaves the old value.
param_store(a) ==
  /\ SupportedMap
  /\ sector' = [magic |-> MAGIC, val |-> a]

Init ==
  /\ smtp_server = Empty
  /\ armed = FALSE
  /\ sector = [magic |-> <<255, 255, 255, 255>>, val |-> [f \in Fields |-> JUNK]]
  /\ queries = 0
  /\ accepted = {} /\ pending = {} /\ touched = FALSE /\ spoilt = FALSE /\ fresh = TRUE

-----------------------------------------------------------------------------
(* The page.                                                               *)

\* index(key, '=') passes over an '&': pieces without '=' are the start of the key of
\* the pair behind them.
KeyOf(q, n) ==
  q[CHOOSE m \in 1 .. n : /\ \A i \in m .. n - 1 : ~q[i].eq
                          /\ m > 1 => q[m - 1].eq].key

\* The loop ends: there is no '=' any more, or the value does not fit.
Stops(q, n) ==
  \/ \A i \in n .. Len(q) : ~q[i].eq
  \/ q[n].eq /\ KeyOf(q, n) \in Texts /\ q[n].val \in TooLong

Stopped(q) == \E n \in 1 .. Len(q) : Stops(q, n)

\* Pair n is written: nothing up to it stops the loop.
Written(q, n) == q[n].eq /\ \A i \in 1 .. n : ~Stops(q, i)

\* The pairs for field f that are written; the last one counts.
Pairs(q, f) == {n \in 1 .. Len(q) : Written(q, n) /\ KeyOf(q, n) = f}
Last(S)     == CHOOSE n \in S : \A i \in S : i <= n

\* smtp_server behind the loop; the port is a uint16_t.
Filled(q) ==
  [f \in Fields |->
     IF Pairs(q, f) = {} THEN smtp_server[f]
     ELSE IF f = "port" THEN q[Last(Pairs(q, f))].val % 65536
     ELSE q[Last(Pairs(q, f))].val]

\* The form is shown again when there is nothing after '?'.
Accepts(q) == q # << >> /\ ~Stopped(q) /\ Complete(Filled(q))

\* The account is no longer the one of the 202.
Disturb ==
  IF smtp_server' = smtp_server THEN UNCHANGED <<touched, pending>>
  ELSE touched' = armed /\ pending' = {}

\* Mutant: all that could be read is stored.
Refused_Armed(q) ==
  /\ queries < MaxQueries /\ ~Accepts(q)
  /\ queries' = queries + 1
  /\ smtp_server' = Filled(q)
  /\ armed' = TRUE
  /\ Disturb /\ fresh' = FALSE
  /\ UNCHANGED <<sector, accepted, spoilt>>

\* The form or a 400: what was written to smtp_server stays.
Refused(q) ==
  /\ queries < MaxQueries /\ ~Accepts(q)
  /\ queries' = queries + 1
  /\ smtp_server' = Filled(q)
  /\ Disturb /\ fresh' = FALSE
  /\ UNCHANGED <<armed, sector, accepted, spoilt>>

\* Mutant: the timer is not started.
Accepted_NotArmed(q) ==
  /\ queries < MaxQueries /\ Accepts(q)
  /\ queries' = queries + 1
  /\ smtp_server' = Filled(q)
  /\ accepted' = accepted \cup {smtp_server'} /\ pending' = {smtp_server'}
  /\ touched' = FALSE /\ fresh' = FALSE
  /\ UNCHANGED <<armed, sector, spoilt>>

\* 202, and the timer starts again.
Accepted(q) ==
  /\ queries < MaxQueries /\ Accepts(q)
  /\ queries' = queries + 1
  /\ smtp_server' = Filled(q)
  /\ armed' = TRUE
  /\ accepted' = accepted \cup {smtp_server'} /\ pending' = {smtp_server'}
  /\ touched' = FALSE /\ fresh' = FALSE
  /\ UNCHANGED <<sector, spoilt>>

http_url_smtp_setup(q) == Refused(q) \/ Accepted(q)

\* The timer fires.  A save that fails is only logged.
smtp_param_write ==
  /\ armed /\ armed' = FALSE
  /\ \/ param_store(smtp_server) /\ spoilt' = touched /\ UNCHANGED pending
     \/ pending' = {} /\ UNCHANGED <<sector, spoilt>>
  /\ touched' = FALSE
  /\ UNCHANGED <<smtp_server, queries, accepted, fresh>>

\* A restart; reading the params may fail.
smtp_init ==
  /\ \/ param_retrieve /\ smtp_server' = sector.val
     \/ smtp_server' = Empty
  /\ armed' = FALSE
  /\ pending' = {} /\ touched' = FALSE /\ fresh' = TRUE
  /\ UNCHANGED <<sector, queries, accepted, spoilt>>

Next ==
  \/ \E q \in Queries : http_url_smtp_setup(q)
  \/ smtp_param_write
  \/ smtp_init

Spec == Init /\ [][Next]_vars

-----------------------------------------------------------------------------
(* Properties.                                                             *)

\* What the params hold was answered 202 and is complete: an account that could only
\* be read in part, or a request that failed after some of its fields were written,
\* does not reach the flash, unless it came in the three seconds before a store.
StoredAccepted ==
  sector.magic = MAGIC /\ ~spoilt => sector.val \in accepted /\ Complete(sector.val)

\* A device that starts has no account or one that was answered 202 before, over any
\* number of requests, restarts and failed saves.
BootAccepted ==
  fresh /\ ~spoilt => smtp_server = Empty \/ smtp_server \in accepted

\* "The account information are stored in flash": an account that was answered 202
\* gets there, unless another request, a restart or a failed save comes across.
AcceptedStored == (pending # {}) ~> (pending = {} \/ sector.val \in pending)
=============================================================================
