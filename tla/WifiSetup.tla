----------------------------- MODULE WifiSetup -----------------------------
(***************************************************************************)
(* The page /wifi/setup (http/url_wifi.c) and url_decode() of http/utils.c.*)
(* The browser sends the form with the fields encoded; a text is a         *)
(* sequence of characters, without the NUL at its end.                     *)
(***************************************************************************)
EXTENDS Integers, Sequences

CONSTANTS
  SsidLen, PassLen,  \* sizes of conf.ssid and conf.password
  Typed              \* what is typed in a field

ASSUME WifiSetupConstants == {SsidLen, PassLen} \subseteq Nat \ {0}

VARIABLES
  typed,    \* the last form that was sent: <<ssid, password>>
  station,  \* the configuration of the station, <<ssid, password>>
  answer    \* to the last form: "202", "form" or "fail"

wifiVars == <<typed, station, answer>>

\* The entries of map[] for the characters of the model, in their order.
map ==
  << << <<"%", "2", "0">>, " ">>, << <<"%", "2", "5">>, "%">>, << <<"%", "2", "6">>, "&">>,
     << <<"%", "2", "B">>, "+">>, << <<"%", "3", "D">>, "=">> >>

\* Where t occurs in s first: strstr(), and index() for one character.  0 is NULL.
strstr(s, t) ==
  LET at == {i \in 1 .. Len(s) - Len(t) + 1 : SubSeq(s, i, i + Len(t) - 1) = t}
  IN  IF at = {} THEN 0 ELSE CHOOSE i \in at : \A j \in at : i <= j

index(s, c) == strstr(s, <<c>>)

Behind(s, i) == SubSeq(s, i + 1, Len(s))

\* One pass over map[]: the first occurrence of each code is replaced.
RECURSIVE Pass(_, _)

Pass(s, k) ==
  IF k > Len(map) THEN s
  ELSE LET p == strstr(s, map[k][1])
       IN  Pass(IF p = 0 THEN s ELSE SubSeq(s, 1, p - 1) \o <<map[k][2]>> \o Behind(s, p + 2), k + 1)

RECURSIVE url_decode(_)

url_decode(s) == LET t == Pass(s, 1) IN IF t = s THEN s ELSE url_decode(t)

-----------------------------------------------------------------------------
(* The loop over the query: conf so far, and how it ends.                  *)

\* Mutant: the value is taken as it came.
Value_Raw(s) == s

Value(s) == url_decode(s)

RECURSIVE Pairs(_, _)

Pairs(conf, key) ==
  LET eq   == index(key, "=")
      rest == Behind(key, eq)
      amp  == index(rest, "&")
      val  == Value(IF amp = 0 THEN rest ELSE SubSeq(rest, 1, amp - 1))
      name == SubSeq(key, 1, 1)
      full == \/ name = <<"ssid">> /\ Len(val) >= SsidLen
              \/ name = <<"pass">> /\ Len(val) >= PassLen
      new  == IF name = <<"ssid">> THEN <<val, conf[2]>>
              ELSE IF name = <<"pass">> THEN <<conf[1], val>> ELSE conf
  IN  IF eq = 0 THEN [end |-> "form", conf |-> conf]
      ELSE IF full THEN [end |-> "fail", conf |-> conf]
      ELSE IF amp # 0 THEN Pairs(new, Behind(rest, amp))
      ELSE [end |-> IF << >> \in {new[1], new[2]} THEN "form" ELSE "202", conf |-> new]

\* With and without wifi_station_set_config() failing.
http_url_wifi_setup(url) ==
  \E q \in {IF index(url, "?") = 0 THEN [end |-> "form", conf |-> station]
            ELSE Pairs(<< << >>, << >> >>, Behind(url, index(url, "?")))} :
  \E ok \in BOOLEAN :
    /\ answer' = IF q.end = "202" /\ ~ok THEN "fail" ELSE q.end
    /\ station' = IF q.end = "202" /\ ok THEN q.conf ELSE station

-----------------------------------------------------------------------------
(* The browser.                                                            *)

\* A form with the method "get" is sent with "+" for a blank.
Encoded(c) ==
  LET ks == {k \in DOMAIN map : map[k][2] = c}
  IN  IF c = " " THEN <<"+">> ELSE IF ks = {} THEN <<c>> ELSE map[CHOOSE k \in ks : TRUE][1]

RECURSIVE Encode(_)

Encode(s) == IF s = << >> THEN << >> ELSE Encoded(Head(s)) \o Encode(Tail(s))

Query(form) ==
  <<"/", "?", "ssid", "=">> \o Encode(form[1]) \o <<"&", "pass", "=">> \o Encode(form[2])

WifiInit == typed = << << >>, << >> >> /\ station = << << >>, << >> >> /\ answer = "form"

WifiNext ==
  \/ \E form \in Typed \X Typed : typed' = form /\ http_url_wifi_setup(Query(form))
  \/ http_url_wifi_setup(<<"/">>) /\ UNCHANGED typed

-----------------------------------------------------------------------------

\* Does it hold a text that reads like a code?
Ambiguous(s) == \E k \in DOMAIN map : strstr(s, map[k][1]) # 0

\* url_decode() does not know the "+" of a form.
Arrives(s) == [i \in DOMAIN s |-> IF s[i] = " " THEN "+" ELSE s[i]]

\* When the page answers 202, the station has what was typed, both fields whole and with their
\* NUL, the separators of the query, the percent sign and the plus sign included, but with a
\* "+" where a blank was typed: a network with a blank in its name or password cannot be set
\* up.  Not so for a text that reads like a code, "%26": url_decode() goes on with what it has
\* decoded.  The page asks for "max" SsidLen and PassLen bytes; it takes one byte less.
StationTyped ==
  answer = "202" /\ ~Ambiguous(typed[1]) /\ ~Ambiguous(typed[2]) =>
    /\ station = <<Arrives(typed[1]), Arrives(typed[2])>>
    /\ Len(typed[1]) \in 1 .. SsidLen - 1 /\ Len(typed[2]) \in 1 .. PassLen - 1
=============================================================================
