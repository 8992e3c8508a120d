--------------------------- MODULE ServerContract ---------------------------
(***************************************************************************)
(* What one forwarding server (src/tcpserver/server.go, and its SSH twin)  *)
(* promises, without its goroutines: which client connections may enter,   *)
(* what may become of them, and what asking the server to stop does to its *)
(* listeners.  ForwardServer refines this specification.                   *)
(***************************************************************************)

CONSTANTS
    Families,     \* the address families, one listener each
    Conns,        \* the client connections
    Via,          \* Via[c] : the listener connection c arrives at
    RemoteAddr    \* RemoteAddr[c] : the remote address of connection c

VARIABLES
    port,         \* port[f]   : what listener f still does
    client        \* client[c] : what became of connection c

vars == <<port, client>>

(* "last": bound, may let one more connection in; "shut": bound, lets none *)
PortState   == {"down", "open", "last", "shut", "released"}
ClientState == {"away", "waiting", "inside", "served", "gone", "lost"}

Bound(f) == port[f] \in {"open", "last", "shut"}

TypeOK ==
    /\ port \in [Families -> PortState]
    /\ client \in [Conns -> ClientState]

Init ==
    /\ port = [f \in Families |-> "down"]
    /\ client = [c \in Conns |-> "away"]

Become(c, s) == client' = [client EXCEPT ![c] = s]

-----------------------------------------------------------------------------
Bind(f) ==
    /\ port[f] = "down"
    /\ port' = [port EXCEPT ![f] = "open"]
    /\ UNCHANGED client

Connect(c) ==
    /\ client[c] = "away"
    /\ Bound(Via[c])
    /\ Become(c, "waiting")
    /\ UNCHANGED port

(* A listener in its "last" phase lets this connection in and no other.    *)
Enter(c) ==
    /\ client[c] = "waiting"
    /\ port[Via[c]] \in {"open", "last"}
    /\ Become(c, "inside")
    /\ port' = IF port[Via[c]] = "last" THEN [port EXCEPT ![Via[c]] = "shut"]
                                        ELSE port

Refuse(c) == client[c] = "inside" /\ Become(c, "gone")   /\ UNCHANGED port
Serve(c)  == client[c] = "inside" /\ Become(c, "served") /\ UNCHANGED port
Finish(c) == client[c] = "served" /\ Become(c, "gone")   /\ UNCHANGED port

(* A connection is abandoned, its sockets left open, only when another one *)
(* with the same remote address is being served.                           *)
Lose(c) ==
    /\ client[c] = "served"
    /\ \E d \in Conns \ {c} :
          client[d] = "served" /\ RemoteAddr[d] = RemoteAddr[c]
    /\ Become(c, "lost")
    /\ UNCHANGED port

(* The stop request reaches both listeners at once; one that is blocked    *)
(* waiting for a connection still takes the next one.                      *)
Drain ==
    /\ \E f \in Families : port[f] = "open"
    /\ \E blocked \in SUBSET Families :
          port' = [f \in Families |->
                     IF port[f] # "open" THEN port[f]
                     ELSE IF f \in blocked THEN "last" ELSE "shut"]
    /\ UNCHANGED client

GiveUp(f) ==
    /\ port[f] = "last"
    /\ port' = [port EXCEPT ![f] = "shut"]
    /\ UNCHANGED client

Release(f) ==
    /\ port[f] = "shut"
    /\ port' = [port EXCEPT ![f] = "released"]
    /\ client' = [c \in Conns |->
                    IF Via[c] = f /\ client[c] = "waiting" THEN "gone"
                                                           ELSE client[c]]

Next ==
    \/ Drain
    \/ \E f \in Families : Bind(f) \/ GiveUp(f) \/ Release(f)
    \/ \E c \in Conns :
          \/ Connect(c) \/ Enter(c) \/ Refuse(c) \/ Serve(c)
          \/ Finish(c) \/ Lose(c)

Spec == Init /\ [][Next]_vars
=============================================================================
