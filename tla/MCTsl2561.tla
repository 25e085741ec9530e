----------------------------- MODULE MCTsl2561 -----------------------------
(* Tsl2561 with a sensor of each package, one that is none, and two lights. *)
EXTENDS Tsl2561

MCIds   == {16 + 4, 80, 48}
MCLight == {<<20821, 5457>>, <<65535, 65535>>}
=============================================================================
