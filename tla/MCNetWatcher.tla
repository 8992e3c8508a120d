---------------------------- MODULE MCNetWatcher ----------------------------
(* A small instance of NetWatcher: a limit of one byte per tick on what is *)
(* sent, none on what is received; counters modulo 5.                      *)
EXTENDS NetWatcher, TLC

CONSTANTS s1

TwoDirs    == {"sent", "recv"}
SentOnly   == ("sent" :> 1) @@ ("recv" :> 0)
QuietOrThree == {("sent" :> 0) @@ ("recv" :> 1), ("sent" :> 3) @@ ("recv" :> 1)}
=============================================================================
