---------------------------- MODULE MCLifecycle -----------------------------
(* Small instances of Lifecycle: two rounds of the cleaner; and one round  *)
(* with the collecting loop and overloads, with two servers of either      *)
(* kind, and with an SSH server without ln4.                               *)
EXTENDS Lifecycle, TLC

CONSTANTS c1, c3, s1, s2, s3, t1, t2

Comes == (c1 :> s1) @@ (c3 :> s3)
Tried == {{"reloader"}, {"collector", t1}, {t1, t2}, {s1, s2}, {s3}}
Rounds == [o \in Tried |-> IF "reloader" \in o THEN 2 ELSE 1]
=============================================================================
