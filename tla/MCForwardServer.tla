--------------------------- MODULE MCForwardServer ---------------------------
(* Small instances of ForwardServer.  c1 and c2 share a remote address, so *)
(* that a duplicate registration can happen; the crossed server serves     *)
(* both families, and dials only one of its two targets through a proxy.   *)
EXTENDS ForwardServer, TLC

CONSTANTS c1, c2, c3, a1, a2

Crossed4 == [support |-> Families, dest |-> {"tcp4"}, cross |-> TRUE,
             srcProxy |-> {"tcp4"}, destProxy |-> {"tcp4"}]
Only6    == [support |-> Families, dest |-> {"tcp6"}, cross |-> FALSE,
             srcProxy |-> {}, destProxy |-> {}]

CrossedConfigs == {Crossed4}
Only6Configs   == {Only6}

TwoAddr   == (c1 :> a1) @@ (c2 :> a1)
ThreeAddr == (c1 :> a1) @@ (c2 :> a1) @@ (c3 :> a2)
Alike     == Permutations({c1, c2})
Via66     == (c1 :> "tcp6") @@ (c2 :> "tcp6")
Via446    == (c1 :> "tcp4") @@ (c2 :> "tcp4") @@ (c3 :> "tcp6")
=============================================================================
