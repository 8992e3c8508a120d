----------------------------- MODULE MCSshServer -----------------------------
(* A small instance of SshServer: one tcp4 listener, two connections with  *)
(* one remote address.                                                     *)
EXTENDS SshServer, TLC

CONSTANTS c1, c2, a1

Proxy4 == [support |-> {"tcp4"}, dest |-> {"tcp4"}, cross |-> FALSE,
           srcProxy |-> {"tcp4"}, destProxy |-> {"tcp4"}]

ProxyConfig == {Proxy4}
OneAddr     == (c1 :> a1) @@ (c2 :> a1)
OneListener == (c1 :> "tcp4") @@ (c2 :> "tcp4")
=============================================================================
