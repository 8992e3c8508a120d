---------------------------- MODULE ForwardServer ----------------------------
(***************************************************************************)
(* One forwarding server: src/tcpserver/server.go.  Its goroutines are the *)
(* caller of Start, one accept loop per listener, one forward per          *)
(* connection handed over, the caller of Stop and the goroutine Stop       *)
(* leaves behind to close what is still connected after 10 seconds.  The   *)
(* kernel's listen queue, the clients and the targets are the environment. *)
(***************************************************************************)
EXTENDS Naturals, FiniteSets

CONSTANTS
    Conns,        \* client connections, each used once
    NoConn,       \* the nil connection
    Addrs,        \* remote addresses: the keys of allconn
    RemoteAddr,   \* RemoteAddr[c]: what conn.RemoteAddr() says of c
    Via,          \* Via[c]: the family of the listener c arrives at
    Configs       \* the forward configurations and machines considered

Families == {"tcp4", "tcp6"}

(* support: what ipcheck found; dest: the resolved targets, one at least   *)
(* and only of supported families; cross: serve the other family too.      *)
ForwardConfig ==
    {k \in [support   : SUBSET Families,
            dest      : (SUBSET Families) \ {{}},
            cross     : BOOLEAN,
            srcProxy  : SUBSET Families,
            destProxy : SUBSET Families] :
        /\ k.dest \subseteq k.support
        /\ k.cross => k.support = Families /\ k.dest # Families}

ASSUME ConstantsAssumption ==
    /\ NoConn \notin Conns
    /\ RemoteAddr \in [Conns -> Addrs]
    /\ Via \in [Conns -> Families]
    /\ Configs \subseteq ForwardConfig

VARIABLES
    config,       \* the configuration this server was made with
    status,       \* TcpServer.status
    starter,      \* where the caller of Start is
    ln,           \* ln[f]: the listener fields ln4 and ln6
    stopchan,     \* whether stopchan has been closed
    loop,         \* loop[f]: where the accept loop of f is
    cur,          \* cur[f]: the connection that loop has in hand
    sock,         \* sock[c]: the client side socket
    target,       \* target[c]: the socket dialled for c
    fwd,          \* fwd[c]: where the forward goroutine of c is
    allconn,      \* allconn[a]: the connection registered under address a
    stopper,      \* where the caller of Stop is
    killer,       \* where the goroutine Stop spawned is
    late,         \* history: the connections registered after the sweep
    lastcall      \* history: lastcall[f] connections accepted once stopchan closed

netVars  == <<sock, target>>
loopVars == <<loop, cur, lastcall>>
fwdVars  == <<fwd, allconn, late>>
stopVars == <<stopper, killer, stopchan>>
vars == <<config, status, starter, ln, netVars, loopVars, fwdVars, stopVars>>

-----------------------------------------------------------------------------
(*                      What the configuration decides                     *)

Other(f) == CHOOSE g \in Families : g # f

Listens(f) == /\ f \in config.support
              /\ f \in config.dest \/ (config.cross /\ Other(f) \in config.dest)

(* Only a listener that is not crossed understands the PROXY protocol.     *)
Proxied(f)    == f \in config.dest /\ f \in config.srcProxy
SendsHeader(f) == f \in config.dest /\ f \in config.destProxy

(* Two live connections share a remote address only if a PROXY header      *)
(* supplied one of them.                                                   *)
AddrFree(c) ==
    \A d \in Conns :
        sock[d] \in {"queued", "open"} /\ RemoteAddr[d] = RemoteAddr[c]
            => Proxied(Via[c]) \/ Proxied(Via[d])

-----------------------------------------------------------------------------
(*                               Start                                     *)

InitMarks ==
    /\ late = {}
    /\ lastcall = [f \in Families |-> 0]

Init ==
    /\ config \in Configs
    /\ status = "Ready"
    /\ starter = "tcp4"
    /\ ln = [f \in Families |-> "nil"]
    /\ stopchan = FALSE
    /\ loop = [f \in Families |-> "off"]
    /\ cur = [f \in Families |-> NoConn]
    /\ sock = [c \in Conns |-> "none"]
    /\ target = [c \in Conns |-> "none"]
    /\ fwd = [c \in Conns |-> "none"]
    /\ allconn = [a \in Addrs |-> NoConn]
    /\ stopper = "idle"
    /\ killer = "none"
    /\ InitMarks

(* One step of the caller of Start.                                        *)
StartMove(from, to) ==
    /\ starter = from
    /\ starter' = to
    /\ UNCHANGED <<config, netVars, cur, lastcall, fwdVars, stopVars>>

Listen(f) ==
    /\ StartMove(f, IF f = "tcp4" THEN "tcp6" ELSE "launch")
    /\ ln' = IF Listens(f) THEN [ln EXCEPT ![f] = "open"] ELSE ln
    /\ UNCHANGED <<status, loop>>

(* Start returns the error; a listener it opened before stays open.        *)
ListenFails(f) ==
    /\ Listens(f)
    /\ StartMove(f, "failed")
    /\ UNCHANGED <<status, ln, loop>>

(* "no listen address" cannot come up: there is a target to listen for.    *)
Launch ==
    /\ \E f \in Families : ln[f] = "open"
    /\ StartMove("launch", "run")
    /\ loop' = [f \in Families |-> IF ln[f] = "open" THEN "select" ELSE "off"]
    /\ UNCHANGED <<status, ln>>

SetRunning ==
    /\ StartMove("run", "started")
    /\ status = "Ready"
    /\ status' = "Running"
    /\ UNCHANGED <<ln, loop>>

-----------------------------------------------------------------------------
(*                       The kernel's listen queue                         *)

Arrive(c) ==
    /\ sock[c] = "none"
    /\ ln[Via[c]] = "open"
    /\ AddrFree(c)
    /\ sock' = [sock EXCEPT ![c] = "queued"]
    /\ UNCHANGED <<config, status, starter, ln, target, loopVars, fwdVars, stopVars>>

-----------------------------------------------------------------------------
(*                          The accept loops                               *)

(* One step of the accept loop of f.                                       *)
LoopMove(f, from, to) ==
    /\ loop[f] = from
    /\ loop' = [loop EXCEPT ![f] = to]
    /\ UNCHANGED <<config, status, starter, allconn, late, stopVars>>

Close(c, s) == [s EXCEPT ![c] = IF @ = "open" THEN "closed" ELSE @]

(* Slip: the loop forgets to look at stopchan.                             *)
LoopSelectNoStop(f) ==
    LoopMove(f, "select", "accept") /\ UNCHANGED <<ln, cur, lastcall, netVars, fwd>>

(* for { select { case <-stopchan: break; default: } ... accept }          *)
LoopSelect(f) ==
    /\ LoopMove(f, "select", IF stopchan THEN "exit" ELSE "accept")
    /\ UNCHANGED <<ln, cur, lastcall, netVars, fwd>>

Accept(f, c) ==
    /\ Via[c] = f
    /\ sock[c] = "queued"
    /\ LoopMove(f, "accept", "check")
    /\ cur' = [cur EXCEPT ![f] = c]
    /\ sock' = [sock EXCEPT ![c] = "open"]
    /\ lastcall' = [lastcall EXCEPT ![f] = IF stopchan THEN @ + 1 ELSE @]
    /\ UNCHANGED <<ln, target, fwd>>

(* Slip: an error of Accept ends the loop.                                 *)
AcceptErrorBreaks(f) ==
    LoopMove(f, "accept", "exit") /\ UNCHANGED <<ln, cur, lastcall, netVars, fwd>>

AcceptError(f) ==
    LoopMove(f, "accept", "select") /\ UNCHANGED <<ln, cur, lastcall, netVars, fwd>>

(* Slips: accept lacks the deferred close of target, or that of conn.      *)
DropCurKeepsTarget(f) ==
    /\ sock' = Close(cur[f], sock)
    /\ cur' = [cur EXCEPT ![f] = NoConn]
    /\ UNCHANGED <<ln, lastcall, target, fwd>>

DropCurKeepsConn(f) ==
    /\ target' = Close(cur[f], target)
    /\ cur' = [cur EXCEPT ![f] = NoConn]
    /\ UNCHANGED <<ln, lastcall, sock, fwd>>

(* accept returns early: its deferred calls close what it still holds.     *)
DropCur(f) ==
    /\ sock' = Close(cur[f], sock)
    /\ target' = Close(cur[f], target)
    /\ cur' = [cur EXCEPT ![f] = NoConn]
    /\ UNCHANGED <<ln, lastcall, fwd>>

(* The gate is shut, the address does not resolve or is not allowed.       *)
Deny(f) == LoopMove(f, "check", "select") /\ DropCur(f)

Admit(f) ==
    LoopMove(f, "check", "dial") /\ UNCHANGED <<ln, cur, lastcall, netVars, fwd>>

DialFails(f) == LoopMove(f, "dial", "select") /\ DropCur(f)

Dial(f) ==
    /\ LoopMove(f, "dial", "header")
    /\ target' = [target EXCEPT ![cur[f]] = "open"]
    /\ UNCHANGED <<ln, cur, lastcall, sock, fwd>>

HeaderFails(f) == SendsHeader(f) /\ LoopMove(f, "header", "select") /\ DropCur(f)

(* conn and target are set to nil, so the deferred calls close neither.    *)
HandOver(f) ==
    /\ LoopMove(f, "header", "select")
    /\ fwd' = [fwd EXCEPT ![cur[f]] = "spawned"]
    /\ cur' = [cur EXCEPT ![f] = NoConn]
    /\ UNCHANGED <<ln, lastcall, netVars>>

(* Slips: the loop of tcp6 closes ln4; the loop ends without closing.      *)
LoopExitClosesFour(f) ==
    /\ LoopMove(f, "exit", "off")
    /\ ln' = [ln EXCEPT !["tcp4"] = "closed"]
    /\ UNCHANGED <<cur, lastcall, netVars, fwd>>

LoopExitKeepsOpen(f) ==
    LoopMove(f, "exit", "off") /\ UNCHANGED <<ln, cur, lastcall, netVars, fwd>>

(* The kernel resets what is still queued at a listener that is closed.    *)
LoopExit(f) ==
    /\ LoopMove(f, "exit", "off")
    /\ ln' = [ln EXCEPT ![f] = "closed"]
    /\ sock' = [c \in Conns |-> IF Via[c] = f /\ sock[c] = "queued"
                                THEN "closed" ELSE sock[c]]
    /\ UNCHANGED <<cur, lastcall, target, fwd>>

-----------------------------------------------------------------------------
(*                               forward                                   *)

(* One step of the forward goroutine of c.                                 *)
FwdMove(c, from, to) ==
    /\ fwd[c] = from
    /\ fwd' = [fwd EXCEPT ![c] = to]
    /\ UNCHANGED <<config, status, starter, ln, loopVars, stopVars>>

(* swg.Add(1) is the goroutine's own first step, not its creator's.        *)
FwdAdd(c) == FwdMove(c, "spawned", "added") /\ UNCHANGED <<netVars, allconn, late>>

Registers(c) ==
    /\ FwdMove(c, "added", "copying")
    /\ allconn' = [allconn EXCEPT ![RemoteAddr[c]] = c]
    /\ late' = IF killer \in {"clear", "done"} THEN late \cup {c} ELSE late
    /\ UNCHANGED netVars

(* Slip: Store where the code has LoadOrStore.                             *)
FwdRegisterOverwrites(c) == Registers(c)

FwdRegister(c) == allconn[RemoteAddr[c]] = NoConn /\ Registers(c)

(* "is already connected": forward returns without closing conn or target. *)
FwdDuplicate(c) ==
    /\ allconn[RemoteAddr[c]] # NoConn
    /\ FwdMove(c, "added", "lost")
    /\ UNCHANGED <<netVars, allconn, late>>

(* One io.Copy returns: the client or the target has ended its stream.     *)
PeerEnds(c) ==
    /\ FwdMove(c, "copying", "closing") \/ FwdMove(c, "stalled", "closing")
    /\ UNCHANGED <<netVars, allconn, late>>

(* The target takes no more bytes and sends none: one io.Copy blocks in    *)
(* target.Write, the other in target.Read, and neither looks at conn.      *)
Stalls(c) == FwdMove(c, "copying", "stalled") /\ UNCHANGED <<netVars, allconn, late>>

(* The target takes bytes again.  If conn is closed by then io.Copy meets  *)
(* that in its next Read and ends, as in PeerEnds.                         *)
StallEnds(c) ==
    /\ sock[c] = "open"
    /\ FwdMove(c, "stalled", "copying")
    /\ UNCHANGED <<netVars, allconn, late>>

(* io.Copy fails on a connection that the sweep has closed, unless it is   *)
(* the target that it waits for.                                           *)
CopyCut(c) ==
    /\ sock[c] = "closed"
    /\ FwdMove(c, "copying", "closing")
    /\ UNCHANGED <<netVars, allconn, late>>

(* The deferred calls, last first: close target and conn, wait for both    *)
(* io.Copy, Delete(remoteAddr), swg.Done.                                  *)
FwdClose(c) ==
    /\ FwdMove(c, "closing", "deleting")
    /\ sock' = Close(c, sock)
    /\ target' = Close(c, target)
    /\ UNCHANGED <<allconn, late>>

(* Delete names the address, whoever is registered under it by now.        *)
FwdDelete(c) ==
    /\ FwdMove(c, "deleting", "leaving")
    /\ allconn' = [allconn EXCEPT ![RemoteAddr[c]] = NoConn]
    /\ UNCHANGED <<netVars, late>>

FwdDone(c) == FwdMove(c, "leaving", "done") /\ UNCHANGED <<netVars, allconn, late>>

Registered == {c \in Conns : fwd[c] \in {"copying", "stalled", "closing", "deleting"}}

(* The forwards the counter of swg stands for.                             *)
Counted == Registered \cup {c \in Conns : fwd[c] \in {"added", "leaving"}}

-----------------------------------------------------------------------------
(*                                 Stop                                    *)

(* One step of the caller of Stop.                                         *)
StopMove(from, to) ==
    /\ stopper \in from
    /\ stopper' = to
    /\ UNCHANGED <<config, starter, ln, netVars, loopVars, fwdVars>>

StopDeclined ==
    /\ ln["tcp4"] # "open" \/ status # "Running"
    /\ StopMove({"idle"}, "declined")
    /\ UNCHANGED <<status, killer, stopchan>>

(* Slip: the group's constant StatusWaitStop, from the same const block.   *)
StopBeginsWaitStop ==
    /\ ln["tcp4"] = "open"
    /\ status = "Running"
    /\ status' = "WaitStop"
    /\ StopMove({"idle", "declined"}, "close")
    /\ UNCHANGED <<killer, stopchan>>

StopBegins ==
    /\ ln["tcp4"] = "open"
    /\ status = "Running"
    /\ status' = "Stopping"
    /\ StopMove({"idle", "declined"}, "close")
    /\ UNCHANGED <<killer, stopchan>>

(* close(stopchan): the listeners stay open until their loops look at it.  *)
StopCloses ==
    /\ StopMove({"close"}, "sleep")
    /\ stopchan' = TRUE
    /\ UNCHANGED <<status, killer>>

StopSpawnsKiller ==
    /\ StopMove({"sleep"}, "wait")
    /\ killer' = "sweep"
    /\ UNCHANGED <<status, stopchan>>

StopReturns ==
    /\ Counted = {}
    /\ StopMove({"wait"}, "returned")
    /\ status' = "Finished"
    /\ UNCHANGED <<killer, stopchan>>

KillerMove(from, to) ==
    /\ killer = from
    /\ killer' = to
    /\ UNCHANGED <<config, status, starter, ln, target, loopVars, fwd, late,
                   stopper, stopchan>>

(* Slips: the callback of Range ends it after the first connection; the    *)
(* callback closes nothing.                                                *)
KillerSweepsOne ==
    /\ KillerMove("sweep", "clear")
    /\ \E a \in Addrs : sock' = [c \in Conns |-> IF allconn[a] = c
                                                THEN "closed" ELSE sock[c]]
    /\ UNCHANGED allconn

KillerSweepsNone == KillerMove("sweep", "clear") /\ UNCHANGED <<sock, allconn>>

(* Range closes the client side of every connection registered; a forward  *)
(* notices by itself, when it reads from it or writes to it.  Clear comes  *)
(* later: another may register in between.                                 *)
KillerSweeps ==
    /\ KillerMove("sweep", "clear")
    /\ sock' = [c \in Conns |-> IF \E a \in Addrs : allconn[a] = c
                                THEN "closed" ELSE sock[c]]
    /\ UNCHANGED allconn

KillerClears ==
    /\ KillerMove("clear", "done")
    /\ allconn' = [a \in Addrs |-> NoConn]
    /\ UNCHANGED sock

-----------------------------------------------------------------------------
Start == Launch \/ SetRunning
            \/ \E f \in Families : Listen(f) \/ ListenFails(f)

LoopStep(f) ==
    \/ LoopSelect(f) \/ AcceptError(f) \/ Deny(f) \/ Admit(f)
    \/ DialFails(f) \/ Dial(f) \/ HeaderFails(f) \/ HandOver(f) \/ LoopExit(f)
    \/ \E c \in Conns : Accept(f, c)

FwdStep(c) ==
    \/ FwdAdd(c) \/ FwdRegister(c) \/ FwdDuplicate(c) \/ CopyCut(c)
    \/ FwdClose(c) \/ FwdDelete(c) \/ FwdDone(c)

Killer == KillerSweeps \/ KillerClears

Stop == StopDeclined \/ StopBegins \/ StopCloses \/ StopSpawnsKiller \/ StopReturns

Environment == \E c \in Conns : Arrive(c) \/ PeerEnds(c) \/ Stalls(c) \/ StallEnds(c)

Next ==
    \/ Start
    \/ \E f \in Families : LoopStep(f)
    \/ \E c \in Conns : FwdStep(c)
    \/ Killer
    \/ Stop
    \/ Environment

Spec == Init /\ [][Next]_vars

(* The Go scheduler runs every goroutine that can go on.  A loop in Accept *)
(* goes on only when a connection is queued, and its errors are transient: *)
(* they do not keep a queued connection out for ever.  Nobody has to call  *)
(* Stop, to connect or to hang up, and no target to take what is sent.     *)
LoopGoesOn(f) == LoopSelect(f) \/ Deny(f) \/ Admit(f) \/ DialFails(f) \/ Dial(f)
                   \/ HandOver(f) \/ LoopExit(f) \/ \E c \in Conns : Accept(f, c)
StopGoesOn == StopCloses \/ StopSpawnsKiller \/ StopReturns

Fairness ==
    /\ WF_vars(Start)
    /\ \A f \in Families : /\ WF_vars(LoopGoesOn(f))
                            /\ SF_vars(\E c \in Conns : Accept(f, c))
    /\ \A c \in Conns : WF_vars(FwdStep(c))
    /\ WF_vars(Killer)
    /\ WF_vars(StopGoesOn)

FairSpec == Spec /\ Fairness

-----------------------------------------------------------------------------
(*                              Properties                                 *)

(* Every variable keeps the shape the code gives it (struct TcpServer).    *)
TypeOK ==
    /\ config \in ForwardConfig
    /\ status \in {"Ready", "Running", "Stopping", "Finished"}
    /\ starter \in {"tcp4", "tcp6", "launch", "run", "started", "failed"}
    /\ ln \in [Families -> {"nil", "open", "closed"}]
    /\ stopchan \in BOOLEAN
    /\ loop \in [Families -> {"off", "select", "accept", "check", "dial",
                              "header", "exit"}]
    /\ cur \in [Families -> Conns \cup {NoConn}]
    /\ sock \in [Conns -> {"none", "queued", "open", "closed"}]
    /\ target \in [Conns -> {"none", "open", "closed"}]
    /\ fwd \in [Conns -> {"none", "spawned", "added", "copying", "stalled",
                          "closing", "deleting", "leaving", "done", "lost"}]
    /\ allconn \in [Addrs -> Conns \cup {NoConn}]
    /\ stopper \in {"idle", "declined", "close", "sleep", "wait", "returned"}
    /\ killer \in {"none", "sweep", "clear", "done"}
    /\ late \subseteq Conns
    /\ lastcall \in [Families -> Nat]

(* A loop closes what it drops and hands over the rest (accept's deferred  *)
(* calls, 380-413, against conn = nil, 424-427): an open socket has        *)
(* exactly one owner, an accept loop or a forward that has not finished;   *)
(* only a forward refused as a duplicate leaves sockets behind.            *)
Owner(c, f) == cur[f] = c
SocketsOwned ==
    \A c \in Conns :
        /\ sock[c] = "open" \/ target[c] = "open" =>
              \/ \E f \in Families : Owner(c, f)
              \/ fwd[c] \notin {"none", "leaving", "done"}
        /\ (\E f \in Families : Owner(c, f)) => fwd[c] = "none"

(* Delete(remoteAddr) at 277 and Clear at 248 do not look at the value.    *)
(* Until the sweep the registry is nevertheless exact: every forward that  *)
(* copies is registered, so the sweep of Stop will find it.                *)
RegistryExact ==
    killer \in {"none", "sweep"} =>
        /\ \A c \in Registered : allconn[RemoteAddr[c]] = c
        /\ \A a \in Addrs : allconn[a] # NoConn => allconn[a] \in Registered

(* What still copies on an open client socket after the sweep (239-248)    *)
(* registered after it: nothing that was there survives, whatever Delete   *)
(* and Clear did to the map in between.                                    *)
SweepMissesOnlyLate ==
    killer \in {"clear", "done"} =>
        \A c \in Registered : sock[c] = "open" => c \in late

(* close(stopchan) does not wake a loop blocked in Accept (167-175), but   *)
(* each listener then takes at most one connection more.                   *)
OneLastCall == \A f \in Families : lastcall[f] <= 1

(* A listener is closed only by Stop: connection after connection, refused *)
(* dials, duplicate addresses and errors of Accept never end a loop.       *)
ListenersStayOpen ==
    [][\A f \in Families : (ln[f] = "open" /\ ln'[f] # "open")
          => status \in {"Stopping", "Finished"}]_vars

(* Once asked to stop, a listener is closed as soon as one more connection *)
(* reaches it.                                                             *)
ReleasedByNextConnection ==
    \A f \in Families :
        (stopchan /\ \E c \in Conns : Via[c] = f /\ sock[c] = "queued")
            ~> (ln[f] # "open")

(* Stop returns (swg.Wait at 251) unless one connection holds it for ever: *)
(* one that slipped past the sweep and goes on, or one whose target has    *)
(* stalled, which the sweep (239-247), closing the client side only, does  *)
(* not wake.  One that copies and was there at the sweep does not hold it. *)
StopReturnsUnlessHeld ==
    <>(stopper = "wait") =>
        \/ <>(stopper = "returned")
        \/ \E c \in Conns :
              <>[](fwd[c] = "stalled" \/ (c \in late /\ fwd[c] = "copying"))

(* Whoever connects to a server that did start is dealt with: no accepted  *)
(* or queued connection is forgotten.                                      *)
EveryClientServed ==
    \A c \in Conns :
        (sock[c] = "queued" /\ starter = "started")
            ~> (sock[c] = "closed" \/ fwd[c] \in {"copying", "lost"})

(* A running server that is asked to stop does stop: Stop declines only    *)
(* one that is not running.                                                *)
StopNeverDeclinesRunning ==
    [][(stopper = "idle" /\ stopper' = "declined") => status # "Running"]_vars

-----------------------------------------------------------------------------
(*            The server keeps the promises of ServerContract              *)

PortOf(f) ==
    CASE ln[f] = "nil"    -> "down"
      [] ln[f] = "closed" -> "released"
      [] OTHER            -> IF ~stopchan THEN "open"
                             ELSE IF loop[f] = "accept" THEN "last" ELSE "shut"

ClientOf(c) ==
    IF fwd[c] = "lost" THEN "lost"
    ELSE IF fwd[c] \in {"leaving", "done"} THEN "gone"
    ELSE IF fwd[c] # "none" THEN "served"
    ELSE IF sock[c] = "none" THEN "away"
    ELSE IF sock[c] = "queued" THEN "waiting"
    ELSE IF sock[c] = "open" THEN "inside" ELSE "gone"

Contract == INSTANCE ServerContract WITH
                port   <- [f \in Families |-> PortOf(f)],
                client <- [c \in Conns |-> ClientOf(c)]

(* Every behaviour of the server, goroutines and all, is one the contract  *)
(* allows.                                                                 *)
ContractSpec == Contract!Spec

-----------------------------------------------------------------------------
(*             The server lives the life the group counts on               *)

HoldsListener == \E f \in Families : ln[f] = "open"
LifeOf ==
    IF starter = "failed" THEN IF HoldsListener THEN "leaking" ELSE "failed"
    ELSE IF starter # "started" THEN "made"
    ELSE IF stopper \in {"idle", "declined"} THEN "serving"
    ELSE IF HoldsListener THEN "halting" ELSE "halted"

Life == INSTANCE ServerLife WITH
            families <- {f \in Families : Listens(f)},
            life     <- LifeOf,
            draining <- stopper \in {"close", "sleep", "wait"}

(* Seen by its group a server only ever does what TcpGroup lets it do.     *)
LifeSpec == Life!Spec
=============================================================================
