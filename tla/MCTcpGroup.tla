----------------------------- MODULE MCTcpGroup -----------------------------
(* Small instances of TcpGroup; the worker goroutines are interchangeable. *)
EXTENDS TcpGroup, TLC
CONSTANTS p1, w1, w2

(* A forward listens on IPv4 and IPv6: its Start can fail halfway.         *)
AllBoth == [p \in Ports |-> {"tcp4", "tcp6"}]

(* Recovers holds as soon as main is on its way out: look no further.      *)
NoShutdown == lastStop = "none"

(* A third start is followed until it runs into a stop.                    *)
ThirdStartAlone == round = 3 => ~overlapped

WorkerSymmetry == Permutations(Workers)
=============================================================================
