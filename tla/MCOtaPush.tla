----------------------------- MODULE MCOtaPush -----------------------------
(* OtaPush on small instances: sectors of 2 units, applications of up to 2. *)
EXTENDS OtaPush, SequencesExt

CONSTANTS k1, k2

MCClients == {k1, k2}
Sym       == Permutations(MCClients)

\* An injective digest of two bytes: a first one that is NUL for some inputs, and the
\* number of the input.
Number(s) ==
  FoldLeft(LAMBDA n, x : 5 * n + (CASE x = STALE -> 3 [] x = PAD -> 4 [] OTHER -> x), 1, s)
Digest(s) == LET n == Number(s) IN <<n % 3, n>>

\* What the signature of s decrypts to: a number has no zeroes in front.
Signature(s) == IF Digest(s)[1] = 0 THEN <<Digest(s)[2]>> ELSE Digest(s)

\* Segments hold three units, so they cross the end of a sector.
One  == <<1, 2, 2>>     \* one sector and a part of another; its digest starts with NUL
Full == <<1, 2, 1, 1>>  \* all that fits
Nul  == <<1, 1, 1>>     \* not signed; its digest starts with NUL
Odd  == <<1, 2, 1>>     \* not signed

MCOfficial == {One, Full}

Send(img, sig, trailing) == [img |-> img, sig |-> sig, post |-> TRUE, trailing |-> trailing]

\* Images that are signed, and one with the signature of another; more data behind
\* the body than it announced, in the same segment and in another one.
Rivals ==
  { Send(One, Signature(One), 3), Send(Full, Signature(Full), 2), Send(Odd, Signature(One), 0) }

\* One that is too large, one whose signature decrypts to zero, and one whose signature
\* decrypts to more than its digest.
MCUploads ==
  Rivals \cup { Send(<<1, 1, 1, 1, 1>>, NoSig, 1), Send(Nul, << >>, 0),
                Send(Odd, Digest(Odd) \o <<5>>, 0) }

\* The digests that the uploads are chosen for.
ASSUME Digest(One)[1] = 0 /\ Digest(Nul)[1] = 0 /\ Digest(Full)[1] # 0 /\ Digest(Odd)[1] # 0
=============================================================================
