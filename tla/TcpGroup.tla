------------------------------- MODULE TcpGroup -------------------------------
(***************************************************************************)
(* The group of forwarding servers: src/tcpserver/group.go, as main        *)
(* (src/mainfunc/huanspringboard/v1.go) and the network watcher drive it.  *)
(* A server is what ForwardServer says it is, seen from outside            *)
(* (ServerLife): it binds its port or not, serves, and after Stop keeps    *)
(* its port until one more connection arrives at each of its listeners.    *)
(* Nobody but the group's own servers takes a port.                        *)
(***************************************************************************)
EXTENDS Naturals, FiniteSets

CONSTANTS
    Ports,        \* the configured source ports, no two forwards alike
    Families,     \* Families[p]: the address families port p is listened at
    Workers,      \* goroutines the consumer starts: bound on those alive
    MaxRounds,    \* bound on the runs of StartAllServers
    MaxOver,      \* bound on the overload notifications
    MaxPending    \* the notices buffer (15 in AddNotice), per kind

ASSUME ConstantsAssumption ==
    /\ "main" \notin Workers
    /\ Families \in [Ports -> (SUBSET {"tcp4", "tcp6"}) \ {{}}]
    /\ MaxRounds \in Nat \ {0}
    /\ MaxOver \in Nat
    /\ MaxPending \in Nat \ {0}

Threads == Workers \cup {"main"}
Servers == Ports \X (1 .. MaxRounds)     \* <<port, run of StartAllServers>>

VARIABLES
    status,       \* TcpServerGroup.status
    servers,      \* servers[p]: the run whose server the map holds, 0 if none
    round,        \* how many times StartAllServers has got past its guard
    srv,          \* srv[i]: the life of server i
    stops,        \* stops[i]: the goroutine that calls i.Stop
    pc,           \* pc[t]: where main and the consumer's goroutines are
    todo,         \* todo[t]: the forwards StartAllServers has still to start
    mine,         \* mine[t]: the run of StartAllServers t performs
    batch,        \* batch[t]: the servers t has had stopped
    consumer,     \* where the loop of processIfaceNotify is
    gate,         \* acceptStatus
    stopSince,    \* stopAcceptTime: nil, "recent", or past the limit ("old")
    inbox,        \* ifaceNotify: how many of each kind are waiting
    sent,         \* overload notifications sent so far
    watching,     \* the watcher still sends; FALSE once it closed ifaceNotify
    ifaceStop,    \* whether ifaceNotifyStopchan has been closed
    overlapped,   \* history: a start has run into a stop
    lastStop      \* history: how main's deferred Stop found the group

groupVars  == <<status, servers, round>>
srvVars    == <<srv, stops>>
taskVars   == <<todo, mine, batch>>
watchVars  == <<inbox, sent, watching>>
gateVars   == <<gate, stopSince>>
vars == <<groupVars, srvVars, pc, taskVars, watchVars, gateVars, consumer,
          ifaceStop, overlapped, lastStop>>

Starting(t) == pc[t] \in {"store", "bind"}
Stopping(t) == pc[t] \in {"range", "clear"}

(* Who holds a listener of the port: a failed Start may have left one open.*)
BoundSrv(i) == srv[i] \in {"serving", "halting", "leaking"}

Init ==
    /\ status = "Ready"
    /\ servers = [p \in Ports |-> 0]
    /\ round = 0
    /\ srv = [i \in Servers |-> "none"]
    /\ stops = [i \in Servers |-> "none"]
    /\ pc = [t \in Threads |-> IF t = "main" THEN "boot" ELSE "idle"]
    /\ todo = [t \in Threads |-> {}]
    /\ mine = [t \in Threads |-> 0]
    /\ batch = [t \in Threads |-> {}]
    /\ consumer = "off"
    /\ gate = TRUE
    /\ stopSince = "nil"
    /\ inbox = [k \in {"over", "calm"} |-> 0]
    /\ sent = 0
    /\ watching = TRUE
    /\ ifaceStop = FALSE
    /\ overlapped = FALSE
    /\ lastStop = "none"

-----------------------------------------------------------------------------
(*                One step of main or of a worker goroutine                *)

(* Entering a start while another thread is in a stop, or the other way    *)
(* round, is what overlapped records.                                      *)
Move(t, from, to) ==
    /\ pc[t] = from
    /\ pc' = [pc EXCEPT ![t] = to]
    /\ overlapped' = (overlapped \/ \E u, v \in Threads :
                         /\ pc'[u] \in {"store", "bind"}
                         /\ pc'[v] \in {"range", "clear"})
    /\ UNCHANGED <<watchVars, gateVars>>

(* Where StartAllServers and StopAllServers return to.                     *)
AfterStart(t) == IF t = "main" THEN "up" ELSE "idle"
AfterStop(t)  == IF t = "main" THEN "endCAS" ELSE "idle"

(* A compare-and-swap of status: on to ok, or elsewhere with no change.    *)
Swap(t, at, old, new, ok, otherwise) ==
    IF status = old THEN Move(t, at, ok) /\ status' = new
                    ELSE Move(t, at, otherwise) /\ UNCHANGED status

OnlyStatus == UNCHANGED <<servers, round, srvVars, taskVars, consumer, ifaceStop,
                          lastStop>>

-----------------------------------------------------------------------------
(*                          StartAllServers                                *)

(* StartAllServers takes the status first and starts the servers then.     *)
StartCAS(t) ==
    /\ status = "WaitStart" => round < MaxRounds
    /\ Swap(t, "startCAS", "WaitStart", "Running", "store", AfterStart(t))
    /\ IF status = "WaitStart"
       THEN /\ round' = round + 1
            /\ todo' = [todo EXCEPT ![t] = Ports]
            /\ mine' = [mine EXCEPT ![t] = round + 1]
       ELSE UNCHANGED <<round, todo, mine>>
    /\ UNCHANGED <<servers, srvVars, batch, consumer, ifaceStop, lastStop>>

(* LoadOrStore: a server already in the map stays, and the new one is      *)
(* started all the same.                                                   *)
Store(t, p) ==
    /\ p \in todo[t]
    /\ Move(t, "store", "bind")
    /\ servers' = [servers EXCEPT ![p] = IF @ = 0 THEN mine[t] ELSE @]
    /\ srv' = [srv EXCEPT ![<<p, mine[t]>>] = "made"]
    /\ UNCHANGED <<status, round, stops, taskVars, consumer, ifaceStop, lastStop>>

(* Start opens the listener of tcp4 before that of tcp6.  When only the    *)
(* latter is still held, by a server that stops, the former stays open.    *)
FailsAs(p) ==
    {"failed"} \cup {s \in {"leaking"} :
        /\ Families[p] = {"tcp4", "tcp6"}
        /\ \A n \in 1 .. MaxRounds : srv[<<p, n>>] \notin {"serving", "leaking"}}

(* server.Start fails while an earlier server of the port still listens;   *)
(* the error is logged and the loop goes on.                               *)
BindNext(t, p) ==
    /\ p \in todo[t]
    /\ srv[<<p, mine[t]>>] = "made"
    /\ Move(t, "bind", IF todo[t] = {p} THEN AfterStart(t) ELSE "store")
    /\ todo' = [todo EXCEPT ![t] = @ \ {p}]
    /\ \E s \in IF \E n \in 1 .. MaxRounds : BoundSrv(<<p, n>>)
               THEN FailsAs(p) ELSE {"serving"} :
          srv' = [srv EXCEPT ![<<p, mine[t]>>] = s]
    /\ mine' = IF todo[t] = {p} THEN [mine EXCEPT ![t] = 0] ELSE mine
    /\ UNCHANGED <<groupVars, stops, batch, consumer, ifaceStop, lastStop>>

-----------------------------------------------------------------------------
(*                           StopAllServers                                *)

StopCAS(t) ==
    /\ Swap(t, "stopCAS", "Running", "WaitStop", "range", AfterStop(t))
    /\ OnlyStatus

RangeOver(t, found) ==
    /\ Move(t, "range", "clear")
    /\ batch' = [batch EXCEPT ![t] = found]
    /\ stops' = [i \in Servers |-> IF i \in found /\ stops[i] # "draining"
                                   THEN "spawned" ELSE stops[i]]
    /\ UNCHANGED <<groupVars, srv, todo, mine, consumer, ifaceStop, lastStop>>

(* Slips: the keys of the map are taken for servers; Clear comes first.    *)
RangeKeys(t) == RangeOver(t, {<<p, servers[p]>> : p \in Ports})
RangeAfterClear(t) == RangeOver(t, {})

(* One goroutine per server found; none of them has run yet.               *)
RangeServers(t) == RangeOver(t, {<<p, servers[p]>> : p \in {q \in Ports : servers[q] # 0}})

Clear(t) ==
    /\ Move(t, "clear", "wait")
    /\ servers' = [p \in Ports |-> 0]
    /\ UNCHANGED <<status, round, srvVars, taskVars, consumer, ifaceStop, lastStop>>

(* wg.Add is in the goroutines: Wait does not wait for one that has not    *)
(* begun.                                                                  *)
WaitReturns(t) ==
    /\ \A i \in batch[t] : stops[i] # "draining"
    /\ Move(t, "wait", "stopFin")
    /\ UNCHANGED <<groupVars, srvVars, taskVars, consumer, ifaceStop, lastStop>>

StopFin(t) ==
    /\ Swap(t, "stopFin", "Stopping", "Finished", AfterStop(t), AfterStop(t))
    /\ batch' = [batch EXCEPT ![t] = {}]
    /\ UNCHANGED <<servers, round, srvVars, todo, mine, consumer, ifaceStop, lastStop>>

SrvFrame == UNCHANGED <<groupVars, pc, taskVars, watchVars, gateVars, consumer,
                        ifaceStop, overlapped, lastStop>>

(* The guard of server.Stop looks at ln4 only.                             *)
HeedsStop(p) == "tcp4" \in Families[p]
Stoppable(i) == srv[i] = "serving" /\ HeedsStop(i[1])

(* The goroutine calls server.Stop, which declines any other server.       *)
ServerStop(i) ==
    /\ stops[i] = "spawned"
    /\ stops' = [stops EXCEPT ![i] = IF Stoppable(i) THEN "draining" ELSE "done"]
    /\ srv' = [srv EXCEPT ![i] = IF Stoppable(i) THEN "halting" ELSE @]
    /\ SrvFrame

ServerStopReturns(i) ==
    /\ stops[i] = "draining"
    /\ stops' = [stops EXCEPT ![i] = "done"]
    /\ UNCHANGED srv /\ SrvFrame

(* One more connection reaches a stopped server's last listener and frees  *)
(* the port.                                                               *)
ListenerReleased(i) ==
    /\ srv[i] = "halting"
    /\ srv' = [srv EXCEPT ![i] = "halted"]
    /\ UNCHANGED stops /\ SrvFrame

(* A listener left open goes with the server that nobody refers to: the    *)
(* collector's finalizer closes it.                                        *)
Collected(i) ==
    /\ srv[i] = "leaking"
    /\ servers[i[1]] # i[2]
    /\ stops[i] # "spawned"
    /\ srv' = [srv EXCEPT ![i] = "failed"]
    /\ UNCHANGED stops /\ SrvFrame

-----------------------------------------------------------------------------
(*                                 main                                    *)

(* Start: the consumer first, then StartAllServers.                        *)
Boot ==
    /\ status = "Ready"
    /\ Move("main", "boot", "startCAS")
    /\ status' = "WaitStart"
    /\ consumer' = "recv"
    /\ UNCHANGED <<servers, round, srvVars, taskVars, ifaceStop, lastStop>>

(* The signal: netWatcher.Stop and the early tcpser.Stop run side by side. *)
Signal ==
    /\ Move("main", "up", "stopCAS")
    /\ lastStop' = "early"
    /\ UNCHANGED <<groupVars, srvVars, taskVars, consumer, ifaceStop>>

(* netWatcher.Stop closes ifaceNotify; what is in the buffer stays in it.  *)
CloseNotify ==
    /\ watching
    /\ lastStop # "none"
    /\ watching' = FALSE
    /\ UNCHANGED <<groupVars, srvVars, pc, taskVars, inbox, sent, gateVars,
                   consumer, ifaceStop, overlapped, lastStop>>

EndsAt == IF lastStop = "early" THEN "between" ELSE "exited"

(* Slip: the wrong expected status.                                        *)
EndCASWrong ==
    /\ Swap("main", "endCAS", "Stopping", "Stopping", "close", EndsAt)
    /\ OnlyStatus

EndCAS ==
    /\ Swap("main", "endCAS", "WaitStop", "Stopping", "close", EndsAt)
    /\ OnlyStatus

CloseStopchan ==
    /\ Move("main", "close", "finCAS")
    /\ ifaceStop' = TRUE
    /\ UNCHANGED <<groupVars, srvVars, taskVars, consumer, lastStop>>

FinCAS ==
    /\ Swap("main", "finCAS", "Stopping", "Finished", EndsAt, EndsAt)
    /\ OnlyStatus

(* main waits for all it stopped, netWatcher too; then the deferred Stop.  *)
(* lastStop records whether anything could still restart the group.        *)
DeferredStop ==
    /\ ~watching
    /\ Move("main", "between", "stopCAS")
    /\ lastStop' = IF /\ consumer = "done"
                      /\ \A w \in Workers : pc[w] \notin {"restartCAS", "startCAS"}
                   THEN "calm" ELSE "contested"
    /\ UNCHANGED <<groupVars, srvVars, taskVars, consumer, ifaceStop>>

-----------------------------------------------------------------------------
(*                The goroutines the consumer starts                       *)

(* The message goes out before the servers are stopped.                    *)
SendStopAccept(w) ==
    /\ Move(w, "announce", "stopCAS")
    /\ UNCHANGED <<groupVars, srvVars, taskVars, consumer, ifaceStop, lastStop>>

(* Slip: a Store of the status in place of the compare-and-swap.           *)
RestartStores(w) ==
    /\ Move(w, "restartCAS", "startCAS")
    /\ status' = "WaitStart"
    /\ OnlyStatus

RestartCAS(w) ==
    /\ Swap(w, "restartCAS", "WaitStop", "WaitStart", "startCAS", "idle")
    /\ OnlyStatus

-----------------------------------------------------------------------------
(*                         processIfaceNotify                              *)

RestUnchanged == UNCHANGED <<groupVars, srvVars, taskVars, ifaceStop, lastStop>>

(* Every notification travels in a goroutine of its own: the order is lost.*)
Take(k) ==
    /\ consumer = "recv"
    /\ inbox[k] > 0
    /\ inbox' = [inbox EXCEPT ![k] = @ - 1]
    /\ UNCHANGED <<sent, watching>>

(* A worker is what a go statement starts.                                 *)
Spawn(at) ==
    \E w \in Workers : pc[w] = "idle" /\ pc' = [pc EXCEPT ![w] = at]

Overdue == stopSince = "old" /\ status = "Running"

Overloaded ==
    /\ Take("over")
    /\ gate' = FALSE
    /\ stopSince' = IF stopSince = "nil" THEN "recent" ELSE stopSince
    /\ IF Overdue THEN Spawn("announce") /\ consumer' = "sleep"
                  ELSE UNCHANGED <<pc, consumer>>
    /\ UNCHANGED overlapped
    /\ RestUnchanged

(* time.Sleep(1 * time.Second)                                             *)
Wake ==
    /\ consumer = "sleep"
    /\ consumer' = "recv"
    /\ UNCHANGED <<pc, watchVars, gateVars, overlapped>>
    /\ RestUnchanged

(* Slip: the status a restart never finds.                                 *)
CalmedWrong ==
    /\ Take("calm")
    /\ consumer' = "reopen"
    /\ IF status = "Stopping" THEN Spawn("restartCAS") ELSE UNCHANGED pc
    /\ UNCHANGED <<gateVars, overlapped>>
    /\ RestUnchanged

(* IsOK over the full span: restart a group that is down, then reopen.     *)
Calmed ==
    /\ Take("calm")
    /\ consumer' = "reopen"
    /\ IF status = "WaitStop" THEN Spawn("restartCAS") ELSE UNCHANGED pc
    /\ UNCHANGED <<gateVars, overlapped>>
    /\ RestUnchanged

(* Slip: stopAcceptTime is not reset.                                      *)
ReopenKeepsTime ==
    /\ consumer = "reopen"
    /\ consumer' = "recv"
    /\ gate' = TRUE
    /\ UNCHANGED <<stopSince, pc, watchVars, overlapped>>
    /\ RestUnchanged

Reopen ==
    /\ consumer = "reopen"
    /\ consumer' = "recv"
    /\ stopSince' = "nil"
    /\ gate' = TRUE
    /\ UNCHANGED <<pc, watchVars, overlapped>>
    /\ RestUnchanged

ConsumerEnds ==
    /\ consumer = "recv"
    /\ ifaceStop \/ (~watching /\ \A k \in DOMAIN inbox : inbox[k] = 0)
    /\ consumer' = "done"
    /\ UNCHANGED <<pc, watchVars, gateVars, overlapped>>
    /\ RestUnchanged

-----------------------------------------------------------------------------
(*                     The network watcher and time                        *)

EnvUnchanged == UNCHANGED <<groupVars, srvVars, pc, taskVars, consumer, gate,
                            ifaceStop, overlapped, lastStop>>

(* Only what the consumer does not skip: the span is long enough, and a    *)
(* good notification compares with the real last record.                   *)
Send(k) ==
    /\ watching
    /\ inbox[k] < MaxPending
    /\ k = "over" => sent < MaxOver
    /\ inbox' = [inbox EXCEPT ![k] = @ + 1]
    /\ sent' = IF k = "over" THEN sent + 1 ELSE sent
    /\ UNCHANGED <<watching, stopSince>>
    /\ EnvUnchanged

TimePasses ==
    /\ stopSince = "recent"
    /\ stopSince' = "old"
    /\ UNCHANGED watchVars
    /\ EnvUnchanged

-----------------------------------------------------------------------------
Group(t) ==
    \/ StartCAS(t) \/ StopCAS(t) \/ RangeServers(t) \/ Clear(t)
    \/ WaitReturns(t) \/ StopFin(t)
    \/ \E p \in Ports : Store(t, p) \/ BindNext(t, p)

Main == Boot \/ EndCAS \/ CloseStopchan \/ FinCAS \/ DeferredStop \/ Group("main")

Worker(w) == SendStopAccept(w) \/ RestartCAS(w) \/ Group(w)

Consumer == Overloaded \/ Wake \/ Calmed \/ Reopen \/ ConsumerEnds

ServerStops(i) == ServerStop(i) \/ ServerStopReturns(i)

(* The process ends with main.                                             *)
Next ==
    /\ pc["main"] # "exited"
    /\ \/ Main \/ Signal \/ CloseNotify \/ Consumer
       \/ \E w \in Workers : Worker(w)
       \/ \E i \in Servers : ServerStops(i) \/ ListenerReleased(i) \/ Collected(i)
       \/ \E k \in {"over", "calm"} : Send(k)
       \/ TimePasses

Spec == Init /\ [][Next]_vars

Alive(A) == pc["main"] # "exited" /\ A

(* The scheduler runs every goroutine; the watcher goes on reporting a     *)
(* calm network.  A server's Stop begins, but it need never return: a      *)
(* connection may hold it (ForwardServer says which).                      *)
Fairness ==
    /\ WF_vars(Alive(Main))
    /\ WF_vars(Alive(Consumer))
    /\ WF_vars(Alive(CloseNotify))
    /\ WF_vars(Alive(Send("calm")))
    /\ \A w \in Workers : WF_vars(Alive(Worker(w)))
    /\ \A i \in Servers : WF_vars(Alive(ServerStop(i)))

FairSpec == Spec /\ Fairness

-----------------------------------------------------------------------------
(*                              Properties                                 *)

(* Every variable keeps its shape: the fields of TcpServerGroup, the       *)
(* places its goroutines can be in, and the histories.                     *)
Shapes ==
    /\ status \in {"Ready", "WaitStart", "Running", "WaitStop", "Stopping", "Finished"}
    /\ servers \in [Ports -> 0 .. MaxRounds]
    /\ round \in 0 .. MaxRounds
    /\ srv \in [Servers -> {"none", "made", "failed", "leaking", "serving", "halting", "halted"}]
    /\ stops \in [Servers -> {"none", "spawned", "draining", "done"}]
    /\ pc \in [Threads -> {"boot", "up", "idle", "announce", "restartCAS", "startCAS",
                           "store", "bind", "stopCAS", "range", "clear", "wait",
                           "stopFin", "endCAS", "close", "finCAS", "between", "exited"}]
    /\ todo \in [Threads -> SUBSET Ports]
    /\ mine \in [Threads -> 0 .. MaxRounds]
    /\ batch \in [Threads -> SUBSET Servers]
    /\ consumer \in {"off", "recv", "sleep", "reopen", "done"}
    /\ stopSince \in {"nil", "recent", "old"}
    /\ inbox \in [{"over", "calm"} -> 0 .. MaxPending]
    /\ sent \in 0 .. MaxOver
    /\ lastStop \in {"none", "early", "calm", "contested"}

Flags == /\ gate \in BOOLEAN /\ watching \in BOOLEAN
         /\ ifaceStop \in BOOLEAN /\ overlapped \in BOOLEAN

TypeOK == Shapes /\ Flags

(* The gate is shut exactly while the overload clock runs (185-190 against *)
(* 218-219), whatever the restarts in between: it is never left shut with  *)
(* the clock reset, nor open with an old time that the next overload would *)
(* take for a long one.                                                    *)
GateMatchesClock == gate <=> stopSince = "nil"

(* Range and Clear (118-143) are two steps and a restart can come between. *)
(* Unless a start has run into a stop, no server is out of reach: one that *)
(* serves is in the map or has its Stop on the way -- but for those on     *)
(* IPv6 only, whose Stop declines and leaves them serving, off the map.    *)
ServersReachable ==
    ~overlapped =>
        \A p \in Ports, n \in 1 .. MaxRounds :
            srv[<<p, n>>] = "serving" =>
                \/ servers[p] = n \/ stops[<<p, n>>] = "spawned"
                \/ ~HeedsStop(p)

(* At most one run of StartAllServers is under way unless one has run into *)
(* a stop: the CAS at 67 alone does not exclude a second one.              *)
OneStarter ==
    ~overlapped => \A t, u \in Threads : Starting(t) /\ Starting(u) => t = u

(* Overloads come to an end: then the gate stays open and the group runs,  *)
(* even if a goroutine spawned during the overload stops it late (193-197),*)
(* unless main is on its way out.                                          *)
Recovers == <>(lastStop # "none") \/ <>[](gate /\ status = "Running")

(* The deferred Stop is a backstop (v1.go:157, 188): if nothing can restart*)
(* the group when it begins, main leaves it Finished, whatever the early   *)
(* Stop ran into.                                                          *)
BackstopFinishes ==
    pc["main"] = "exited" /\ lastStop = "calm" => status = "Finished"

(* "TCP ServerGroup All Server Stop Finished": when StopAllServers is done *)
(* waiting, every Stop it asked for has returned.                          *)
StopFinishedMeansStopped ==
    [][\A t \in Threads : pc[t] = "wait" /\ pc'[t] # "wait"
          => \A i \in batch[t] : stops[i] = "done"]_vars

(* The message that the TCP service is restored goes out when the gate     *)
(* reopens (240).  Once the restarted group is running and nothing is      *)
(* under way any more, every port is served.                               *)
Settled == /\ \A t \in Threads : pc[t] \in {"up", "idle"}
           /\ \A i \in Servers : stops[i] \in {"none", "done"}
RestoredMeansServed ==
    (round > 1 /\ gate /\ consumer = "recv" /\ status = "Running" /\ Settled)
        => \A p \in Ports : \E n \in 1 .. MaxRounds : srv[<<p, n>>] = "serving"

-----------------------------------------------------------------------------
(*        Each server of the group is one that ForwardServer can be        *)

Life(i) == INSTANCE ServerLife WITH
               families <- Families[i[1]],
               life     <- IF srv[i] = "none" THEN "made" ELSE srv[i],
               draining <- stops[i] = "draining"
=============================================================================
