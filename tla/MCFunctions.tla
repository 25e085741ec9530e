---------------------------- MODULE MCFunctions ----------------------------
(***************************************************************************)
(* The parts of the firmware that compute: the parser, the query of a      *)
(* page, the hashes, base64 and the numbers.  They share nothing, so a     *)
(* behaviour exercises one of them.                                        *)
(***************************************************************************)
EXTENDS HeaderBlock, WifiSetup, Codecs, Bigint

VARIABLES
  part,    \* which one
  input    \* of base64: [dec, room]; of the decryption: [cipher, exp, mod]

\* Fields shorter than, as long as and longer than their arrays, headers without a value, in
\* each place and twice; a method that is not known, longer and shorter words for a
\* known one; a text in the body that ends like a line.
Value1 == {<<"Host:", Repeat("h", n)>> : n \in 0 .. 4} \cup
          {<<"Content-Length:", <<"2">> >>, <<"Content-Length:", << >> >>, <<"Accept:", <<"x", "sp", "x">> >>,
           <<"H", <<"h">> >>, <<"Host:x", << >> >>, <<"C", <<"2">> >>}
Three(n, k) == << <<"Host:", Repeat("h", n)>>, <<"Content-Length:", <<"1">> >>, <<"Host:", Repeat("g", k)>> >>
MCHeaders  == {<< >>} \cup {<<h>> : h \in Value1} \cup {Three(n, k) : n \in 1 .. 3, k \in {1, 2}}
MCRequests ==
  {[method |-> "POST", url |-> Repeat("u", n), headers |-> h, body |-> <<"b", "cr">>] :
     n \in {1, 3, 4, 5}, h \in MCHeaders}
  \cup {[method |-> name, url |-> <<"u", "u">>, headers |-> << >>, body |-> << >>] :
        name \in {"GET", "GETX", "G", "P", "POSTX", "PUT"}}

\* Texts with each character that has a meaning in a query, also ones that read like a code.
MCTyped ==
  {<< >>, <<"%", "&", " ">>, <<"2", "=", "%", "+">>, <<"%", "2", "6">>, Repeat(" ", PassLen - 1),
   Repeat("a", PassLen), Repeat("&", SsidLen)}

\* Bytes with all bits clear, all set and some of both.
MCPlain == UNION {[1 .. n -> {0, 255, 77}] : n \in 0 .. 4}

\* One and two digits, with zeros in front, and two moduli that are too long for the array.
MCOne == {<<d>> : d \in {0, 1, 2, 5, 11, 15}}
MCTwo == {<<a, b>> : a \in {0, 1, 7, 15}, b \in {0, 1, 6, 15}}
MCInputs ==
  [dec : MCPlain, room : {0, 3, 4, 7, 8}]
  \cup [cipher : MCOne \cup MCTwo, exp : {<<0>>, <<1>>, <<3>>, <<7>>, <<1, 1>>},
        mod : MCOne \cup MCTwo \cup {<<7, 15, 15>>, <<8, 0, 0, 1>>}]

Request0 == [method |-> "GET", url |-> <<"u", "u">>, headers |-> << >>, body |-> << >>]
Input0   == [dec |-> << >>, room |-> 0]

Init ==
  /\ part \in {"headers", "wifi", "hash", "numbers"}
  /\ HeaderInit /\ WifiInit /\ HashInit /\ input = Input0
  /\ part = "headers" \/ request = Request0
  /\ part = "hash" \/ order = "big"

Headers == part = "headers" /\ HeaderNext /\ UNCHANGED <<wifiVars, hashVars, input, part>>
Wifi    == part = "wifi" /\ WifiNext /\ UNCHANGED <<headerVars, hashVars, input, part>>
Hash    == part = "hash" /\ HashNext /\ UNCHANGED <<headerVars, wifiVars, input, part>>
Numbers == part = "numbers" /\ input = Input0 /\ input' \in MCInputs /\ UNCHANGED <<headerVars, wifiVars, hashVars, part>>
Again   == part = "numbers" /\ input # Input0 /\ input' = Input0 /\ UNCHANGED <<headerVars, wifiVars, hashVars, part>>

Next == Headers \/ Wifi \/ Hash \/ Numbers \/ Again

Spec == Init /\ [][Next]_<<headerVars, wifiVars, hashVars, input, part>>

\* base64 and the numbers of the signature are what they stand for: b64_decode() undoes
\* b64_encode(), and rsa_pubkey_decrypt() is the power of the cipher or an error.
CodesExact ==
  IF "dec" \in DOMAIN input THEN RoundTrip(input.dec, input.room)
  ELSE Decrypts(input.cipher, input.exp, input.mod)
=============================================================================
