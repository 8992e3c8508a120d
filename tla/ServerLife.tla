----------------------------- MODULE ServerLife -----------------------------
(***************************************************************************)
(* The life of a forwarding server as the group that owns it sees it:      *)
(* Start and Stop of src/tcpserver/server.go without goroutines, listeners *)
(* or connections.  ForwardServer implements it, and so does every server  *)
(* of TcpGroup: the group's model assumes no more of its servers than      *)
(* their own model keeps.                                                  *)
(***************************************************************************)

VARIABLES
    families,     \* the address families the server is to listen at
    life,         \* where it is between NewTcpServer and its last listener
    draining      \* whether its Stop waits for connections

vars == <<families, life, draining>>

Become(from, to) == /\ life = from
                    /\ life' = to
                    /\ UNCHANGED families

Init ==
    /\ families \in (SUBSET {"tcp4", "tcp6"}) \ {{}}
    /\ life = "made"
    /\ draining = FALSE

Serve == Become("made", "serving") /\ UNCHANGED draining
Fail  == Become("made", "failed") /\ UNCHANGED draining

(* The listener of tcp4 is open already when that of tcp6 fails.           *)
Leak ==
    /\ families = {"tcp4", "tcp6"}
    /\ Become("made", "leaking")
    /\ UNCHANGED draining

(* Stop declines a server that does not serve, or not on tcp4.             *)
Halt ==
    /\ "tcp4" \in families
    /\ Become("serving", "halting")
    /\ draining' = TRUE

Drained == draining /\ draining' = FALSE /\ UNCHANGED <<families, life>>

(* The last listener closes, whether Stop has returned or not.             *)
Release == Become("halting", "halted") /\ UNCHANGED draining

(* The garbage collector closes what nobody refers to any more.            *)
Collect == Become("leaking", "failed") /\ UNCHANGED draining

Next == Serve \/ Fail \/ Leak \/ Halt \/ Drained \/ Release \/ Collect

Spec == Init /\ [][Next]_vars
=============================================================================
