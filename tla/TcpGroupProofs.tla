---------------------------- MODULE TcpGroupProofs ----------------------------
(***************************************************************************)
(* Proofs about TcpGroup, for any set of ports and of worker goroutines    *)
(* and any bound on the rounds, the overloads and the pending notices.     *)
(***************************************************************************)
EXTENDS TcpGroup, TLAPS

(* Rounds are numbered as they begin, and a number not reached yet has no  *)
(* server.                                                                 *)
Rounds ==
    /\ \A t \in Threads : /\ mine[t] <= round
                          /\ Starting(t) => mine[t] # 0
    /\ \A i \in Servers : i[2] > round => srv[i] = "none"

(* What the compare-and-swaps do guarantee, as long as no start has run    *)
(* into a stop: a start finds the map empty and fills it alone.            *)
Alone ==
    /\ \A t, u \in Threads : ~(Starting(t) /\ Stopping(u))
    /\ \A t, u \in Threads : Starting(t) /\ Starting(u) => t = u
    /\ \A t \in Threads : Starting(t) => status = "Running"
    /\ \A t \in Threads : Stopping(t) => status \notin {"Ready", "Running"}

MapEmptied ==
    status # "Running" /\ (\A t \in Threads : ~Stopping(t)) => \A p \in Ports : servers[p] = 0

(* A port still to be started has no server of this run, in the map or out *)
(* of it; the one being started is in both.                                *)
Untouched(t, p) == servers[p] = 0 /\ srv[<<p, mine[t]>>] = "none"
InWork(t, p)    == servers[p] = mine[t] /\ srv[<<p, mine[t]>>] = "made"
MapFilling ==
    \A t \in Threads :
        /\ pc[t] = "store" => \A p \in todo[t] : Untouched(t, p)
        /\ pc[t] = "bind" => \E p \in todo[t] :
              InWork(t, p) /\ \A q \in todo[t] \ {p} : Untouched(t, q)

(* A server in service is in the map or its Stop is about to begin, or it  *)
(* is one whose Stop declines; one whose Stop has begun serves no more.    *)
Reach ==
    /\ \A i \in Servers : stops[i] = "draining" => srv[i] \in {"halting", "halted"}
    /\ \A i \in Servers : srv[i] = "serving" /\ HeedsStop(i[1]) =>
          servers[i[1]] = i[2] \/ stops[i] = "spawned"
    /\ \A t \in Threads : pc[t] = "clear" =>
          \A i \in Servers : srv[i] = "serving" /\ HeedsStop(i[1]) => stops[i] = "spawned"

MapInv == Rounds /\ (~overlapped => Alone /\ MapEmptied /\ MapFilling /\ Reach)

(* Where main is when the status says that only main can go on, and what   *)
(* it leaves behind once nothing can restart the group any more.           *)
StatusInv ==
    /\ status = "Ready" <=> pc["main"] = "boot"
    /\ status = "WaitStart" => \E t \in Threads : pc[t] = "startCAS"
    /\ status = "Stopping" => pc["main"] \in {"close", "finCAS"}

CalmInv ==
    lastStop = "calm" =>
        /\ consumer = "done"
        /\ \A w \in Workers : pc[w] \notin {"restartCAS", "startCAS"}
        /\ pc["main"] \in {"stopCAS", "range", "clear", "wait", "stopFin", "endCAS",
                           "close", "finCAS", "exited"}
        /\ pc["main"] \in {"range", "clear", "wait", "stopFin", "endCAS"}
              => status \in {"WaitStop", "Finished"}
        /\ pc["main"] \in {"close", "finCAS"} => status \in {"Stopping", "Finished"}
        /\ pc["main"] = "exited" => status = "Finished"

(* What the goroutines of a stop, the clients and the collector do to a    *)
(* server.                                                                 *)
ServerMoves(i) ==
    ServerStop(i) \/ ServerStopReturns(i) \/ ListenerReleased(i) \/ Collected(i)

(* What one step may be, action by action: the shape every proof follows.  *)
LEMMA Steps ==
    ASSUME Next
    PROVE  \/ \E t \in Threads : StartCAS(t) \/ StopCAS(t) \/ StopFin(t)
           \/ \E t \in Threads : \E p \in Ports : Store(t, p) \/ BindNext(t, p)
           \/ \E t \in Threads : RangeServers(t) \/ Clear(t) \/ WaitReturns(t)
           \/ \E i \in Servers : ServerMoves(i)
           \/ Boot \/ Signal \/ EndCAS \/ CloseStopchan \/ FinCAS \/ DeferredStop
           \/ \E w \in Workers : SendStopAccept(w) \/ RestartCAS(w)
           \/ Overloaded \/ Calmed \/ Wake \/ Reopen \/ ConsumerEnds
           \/ CloseNotify \/ TimePasses \/ \E k \in {"over", "calm"} : Send(k)
  BY DEF Next, Main, Worker, Group, Consumer, ServerStops, ServerMoves, Threads

(* How each of these moves the server it is about; it touches nothing else.*)
StopTaken(i)  == srv[i] = "serving" /\ HeedsStop(i[1]) /\ stops[i] = "spawned"
                     /\ srv'[i] = "halting" /\ stops'[i] = "draining"
StopIdle(i)   == stops[i] = "spawned" /\ (srv[i] = "serving" => ~HeedsStop(i[1]))
                     /\ srv'[i] = srv[i] /\ stops'[i] = "done"
StopOver(i)   == stops[i] = "draining" /\ srv'[i] = srv[i] /\ stops'[i] = "done"
Released(i)   == srv[i] = "halting" /\ srv'[i] = "halted" /\ stops'[i] = stops[i]
Swept(i)      == srv[i] = "leaking" /\ srv'[i] = "failed" /\ stops'[i] = stops[i]

LEMMA ServerMoveIs ==
    ASSUME Shapes, NEW i \in Servers, ServerMoves(i)
    PROVE  /\ UNCHANGED <<groupVars, pc, taskVars, watchVars, gateVars, consumer,
                          ifaceStop, overlapped, lastStop>>
           /\ \A j \in Servers : j # i => srv'[j] = srv[j] /\ stops'[j] = stops[j]
           /\ StopTaken(i) \/ StopIdle(i) \/ StopOver(i) \/ Released(i) \/ Swept(i)
           /\ srv' \in [Servers -> {"none", "made", "failed", "leaking", "serving",
                                     "halting", "halted"}]
           /\ stops' \in [Servers -> {"none", "spawned", "draining", "done"}]
<1> USE DEF Shapes, SrvFrame
<1>1. CASE ServerStop(i)
  BY <1>1 DEF ServerStop, Stoppable, StopTaken, StopIdle
<1>2. CASE ServerStopReturns(i)
  BY <1>2 DEF ServerStopReturns, StopOver
<1>3. CASE ListenerReleased(i)
  BY <1>3 DEF ListenerReleased, Released
<1>4. CASE Collected(i)
  BY <1>4 DEF Collected, Swept
<1> QED
  BY <1>1, <1>2, <1>3, <1>4 DEF ServerMoves

(* What comes of a server's Start.                                         *)
LEMMA BindIs ==
    ASSUME NEW t, NEW p, BindNext(t, p)
    PROVE  \E s \in {"failed", "leaking", "serving"} :
              /\ srv' = [srv EXCEPT ![<<p, mine[t]>>] = s]
              /\ s # "serving" => \E n \in 1 .. MaxRounds : BoundSrv(<<p, n>>)
              /\ s = "serving" => \A n \in 1 .. MaxRounds : ~BoundSrv(<<p, n>>)
              /\ s = "leaking" => Families[p] = {"tcp4", "tcp6"}
  BY DEF BindNext, FailsAs

(* Every variable keeps the shape that struct TcpServerGroup gives it.     *)
LEMMA ShapesStep ==
    ASSUME Shapes, [Next]_vars
    PROVE  Shapes'
<1> USE ConstantsAssumption DEF Shapes
<1>1. CASE UNCHANGED vars
  BY <1>1 DEF vars, groupVars, srvVars, taskVars, watchVars, gateVars
<1>2. CASE \E t \in Threads : StartCAS(t) \/ StopCAS(t) \/ StopFin(t)
  BY <1>2 DEF StartCAS, StopCAS, StopFin, Swap, Move, OnlyStatus, AfterStart, AfterStop,
              srvVars, taskVars, watchVars, gateVars
<1>3. ASSUME NEW t \in Threads, NEW p \in Ports, Store(t, p) \/ BindNext(t, p)
      PROVE  Shapes'
  <2>1. CASE Store(t, p)
    BY <2>1 DEF Store, Move, groupVars, taskVars, watchVars, gateVars
  <2>2. CASE BindNext(t, p)
    <3>1. srv' \in [Servers -> {"none", "made", "failed", "leaking", "serving",
                                "halting", "halted"}]
      BY <2>2, BindIs
    <3> QED
      BY <2>2, <3>1 DEF BindNext, Move, AfterStart, groupVars, watchVars, gateVars
  <2> QED
    BY <1>3, <2>1, <2>2
<1>4. CASE \E t \in Threads : RangeServers(t) \/ Clear(t) \/ WaitReturns(t)
  <2>1. CASE \E t \in Threads : Clear(t) \/ WaitReturns(t)
    BY <2>1 DEF Clear, WaitReturns, Move, groupVars, srvVars, taskVars, watchVars, gateVars
  <2>2. ASSUME NEW t \in Threads, RangeServers(t)
        PROVE  Shapes'
    <3> DEFINE found == {<<p, servers[p]>> : p \in {q \in Ports : servers[q] # 0}}
    <3>1. found \subseteq Servers
      BY DEF Servers
    <3>2. RangeOver(t, found)
      BY <2>2 DEF RangeServers
    <3> QED
      BY <3>1, <3>2 DEF RangeOver, Move, groupVars, watchVars, gateVars
  <2> QED
    BY <1>4, <2>1, <2>2
<1>5. CASE \E i \in Servers : ServerMoves(i)
  BY <1>5, ServerMoveIs DEF groupVars, taskVars, watchVars, gateVars
<1>6. CASE Boot \/ Signal \/ EndCAS \/ CloseStopchan \/ FinCAS \/ DeferredStop
  BY <1>6 DEF Boot, Signal, EndCAS, CloseStopchan, FinCAS, DeferredStop, Swap, Move,
              OnlyStatus, EndsAt, groupVars, srvVars, taskVars, watchVars, gateVars
<1>7. CASE \E w \in Workers : SendStopAccept(w) \/ RestartCAS(w)
  BY <1>7 DEF SendStopAccept, RestartCAS, Swap, Move, OnlyStatus, groupVars, srvVars,
              taskVars, watchVars, gateVars
<1>8. CASE Overloaded \/ Calmed
  BY <1>8 DEF Overloaded, Calmed, Take, Spawn, RestUnchanged, groupVars, srvVars, taskVars,
              gateVars
<1>9. CASE Wake \/ Reopen \/ ConsumerEnds
  BY <1>9 DEF Wake, Reopen, ConsumerEnds, RestUnchanged, groupVars, srvVars, taskVars,
              watchVars, gateVars
<1>10. CASE CloseNotify \/ TimePasses \/ \E k \in {"over", "calm"} : Send(k)
  BY <1>10 DEF CloseNotify, TimePasses, Send, EnvUnchanged, groupVars, srvVars, taskVars,
               watchVars, gateVars
<1> QED
  BY Steps, <1>1, <1>2, <1>3, <1>4, <1>5, <1>6, <1>7, <1>8, <1>9, <1>10

(* The four flags stay Booleans.                                           *)
LEMMA FlagsStep ==
    ASSUME Flags, [Next]_vars
    PROVE  Flags'
<1> USE DEF Flags
<1>1. CASE UNCHANGED vars
  BY <1>1 DEF vars, groupVars, srvVars, taskVars, watchVars, gateVars
<1>2. CASE \E t \in Threads : StartCAS(t) \/ StopCAS(t) \/ StopFin(t)
  BY <1>2 DEF StartCAS, StopCAS, StopFin, Swap, Move, OnlyStatus, AfterStart, AfterStop,
              srvVars, taskVars, watchVars, gateVars
<1>3. ASSUME NEW t \in Threads, NEW p \in Ports, Store(t, p) \/ BindNext(t, p)
      PROVE  Flags'
  BY <1>3 DEF Store, BindNext, Move, AfterStart, groupVars, taskVars, watchVars, gateVars
<1>4. CASE \E t \in Threads : RangeServers(t) \/ Clear(t) \/ WaitReturns(t)
  BY <1>4 DEF RangeServers, RangeOver, Clear, WaitReturns, Move, groupVars, srvVars,
              taskVars, watchVars, gateVars
<1>5. CASE \E i \in Servers : ServerMoves(i)
  BY <1>5 DEF ServerMoves, ServerStop, ServerStopReturns, ListenerReleased, Collected,
              SrvFrame, groupVars, taskVars, watchVars, gateVars
<1>6. CASE Boot \/ Signal \/ EndCAS \/ CloseStopchan \/ FinCAS \/ DeferredStop
  BY <1>6 DEF Boot, Signal, EndCAS, CloseStopchan, FinCAS, DeferredStop, Swap, Move,
              OnlyStatus, EndsAt, groupVars, srvVars, taskVars, watchVars, gateVars
<1>7. CASE \E w \in Workers : SendStopAccept(w) \/ RestartCAS(w)
  BY <1>7 DEF SendStopAccept, RestartCAS, Swap, Move, OnlyStatus, groupVars, srvVars,
              taskVars, watchVars, gateVars
<1>8. CASE Overloaded \/ Calmed
  BY <1>8 DEF Overloaded, Calmed, Take, Spawn, RestUnchanged, groupVars, srvVars, taskVars,
              gateVars
<1>9. CASE Wake \/ Reopen \/ ConsumerEnds
  BY <1>9 DEF Wake, Reopen, ConsumerEnds, RestUnchanged, groupVars, srvVars, taskVars,
              watchVars, gateVars
<1>10. CASE CloseNotify \/ TimePasses \/ \E k \in {"over", "calm"} : Send(k)
  BY <1>10 DEF CloseNotify, TimePasses, Send, EnvUnchanged, groupVars, srvVars, taskVars,
               watchVars, gateVars
<1> QED
  BY Steps, <1>1, <1>2, <1>3, <1>4, <1>5, <1>6, <1>7, <1>8, <1>9, <1>10

(* Only the consumer and the clock touch the gate and the clock.           *)
LEMMA GateStep ==
    ASSUME GateMatchesClock, [Next]_vars
    PROVE  GateMatchesClock'
<1> USE DEF GateMatchesClock
<1>1. CASE UNCHANGED gateVars
  BY <1>1 DEF gateVars
<1>2. CASE UNCHANGED vars
  BY <1>2 DEF vars, gateVars
<1>3. CASE \E t \in Threads : StartCAS(t) \/ StopCAS(t) \/ StopFin(t)
  BY <1>1, <1>3 DEF StartCAS, StopCAS, StopFin, Swap, Move
<1>4. CASE \E t \in Threads : \/ RangeServers(t) \/ Clear(t) \/ WaitReturns(t)
                              \/ \E p \in Ports : Store(t, p) \/ BindNext(t, p)
  BY <1>1, <1>4 DEF Store, BindNext, RangeServers, RangeOver, Clear, WaitReturns, Move
<1>5. CASE \E i \in Servers : ServerMoves(i)
  BY <1>1, <1>5 DEF ServerMoves, ServerStop, ServerStopReturns, ListenerReleased, Collected,
                    SrvFrame
<1>6. CASE Boot \/ Signal \/ EndCAS \/ CloseStopchan \/ FinCAS \/ DeferredStop
  BY <1>1, <1>6 DEF Boot, Signal, EndCAS, CloseStopchan, FinCAS, DeferredStop, Swap, Move
<1>7. CASE \E w \in Workers : SendStopAccept(w) \/ RestartCAS(w)
  BY <1>1, <1>7 DEF SendStopAccept, RestartCAS, Swap, Move
<1>8. CASE Overloaded \/ Calmed \/ Wake \/ Reopen \/ ConsumerEnds
  BY <1>8 DEF Overloaded, Calmed, Wake, Reopen, ConsumerEnds, gateVars
<1>9. CASE CloseNotify \/ TimePasses \/ \E k \in {"over", "calm"} : Send(k)
  BY <1>9 DEF CloseNotify, TimePasses, Send, EnvUnchanged, gateVars
<1> QED
  BY Steps, <1>2, <1>3, <1>4, <1>5, <1>6, <1>7, <1>8, <1>9

(* That a start has run into a stop is never forgotten.                    *)
LEMMA OverlapStays ==
    ASSUME Flags, overlapped, [Next]_vars
    PROVE  overlapped'
<1>1. CASE UNCHANGED vars
  BY <1>1 DEF vars
<1>2. CASE \E t \in Threads : StartCAS(t) \/ StopCAS(t) \/ StopFin(t)
  BY <1>2 DEF StartCAS, StopCAS, StopFin, Swap, Move
<1>3. CASE \E t \in Threads : \/ RangeServers(t) \/ Clear(t) \/ WaitReturns(t)
                              \/ \E p \in Ports : Store(t, p) \/ BindNext(t, p)
  BY <1>3 DEF Store, BindNext, RangeServers, RangeOver, Clear, WaitReturns, Move
<1>4. CASE \E i \in Servers : ServerMoves(i)
  BY <1>4 DEF ServerMoves, ServerStop, ServerStopReturns, ListenerReleased, Collected,
              SrvFrame
<1>5. CASE Boot \/ Signal \/ EndCAS \/ CloseStopchan \/ FinCAS \/ DeferredStop
  BY <1>5 DEF Boot, Signal, EndCAS, CloseStopchan, FinCAS, DeferredStop, Swap, Move
<1>6. CASE \E w \in Workers : SendStopAccept(w) \/ RestartCAS(w)
  BY <1>6 DEF SendStopAccept, RestartCAS, Swap, Move
<1>7. CASE Overloaded \/ Calmed \/ Wake \/ Reopen \/ ConsumerEnds
  BY <1>7 DEF Overloaded, Calmed, Wake, Reopen, ConsumerEnds
<1>8. CASE CloseNotify \/ TimePasses \/ \E k \in {"over", "calm"} : Send(k)
  BY <1>8 DEF CloseNotify, TimePasses, Send, EnvUnchanged
<1> QED
  BY Steps, <1>1, <1>2, <1>3, <1>4, <1>5, <1>6, <1>7, <1>8

(* StartCAS alone takes a round, and its own.                              *)
LEMMA RoundsStep ==
    ASSUME Shapes, Rounds, [Next]_vars
    PROVE  Rounds'
<1> USE ConstantsAssumption DEF Shapes, Rounds, Threads, Servers, Starting
<1>1. CASE UNCHANGED vars
  BY <1>1 DEF vars, groupVars, srvVars, taskVars
<1>2. ASSUME NEW t \in Threads, StartCAS(t)
      PROVE  Rounds'
  BY <1>2 DEF StartCAS, Swap, Move, AfterStart, srvVars
<1>3. ASSUME NEW t \in Threads, StopCAS(t) \/ StopFin(t)
      PROVE  Rounds'
  BY <1>3 DEF StopCAS, StopFin, Swap, Move, OnlyStatus, AfterStop, srvVars, taskVars
<1>4. ASSUME NEW t \in Threads, NEW p \in Ports, Store(t, p)
      PROVE  Rounds'
  <2>1. mine[t] <= round /\ mine' = mine /\ round' = round
    BY <1>4 DEF Store, taskVars
  <2>2. \A i \in Servers : i[2] > round => srv'[i] = srv[i]
    <3> SUFFICES ASSUME NEW q \in Ports, NEW n \in 1 .. MaxRounds, n > round
                 PROVE  srv'[<<q, n>>] = srv[<<q, n>>]
      OBVIOUS
    <3>1. n # mine[t]
      BY <2>1
    <3> QED
      BY <1>4, <3>1 DEF Store
  <2>3. \A u \in Threads : Starting(u)' => Starting(u)
    BY <1>4 DEF Store, Move
  <2> QED
    BY <2>1, <2>2, <2>3
<1>5. ASSUME NEW t \in Threads, NEW p \in Ports, BindNext(t, p)
      PROVE  Rounds'
  <2>1. mine[t] <= round /\ round' = round
    BY <1>5 DEF BindNext, groupVars
  <2>2. \A i \in Servers : i[2] > round => srv'[i] = srv[i]
    <3> SUFFICES ASSUME NEW q \in Ports, NEW n \in 1 .. MaxRounds, n > round
                 PROVE  srv'[<<q, n>>] = srv[<<q, n>>]
      OBVIOUS
    <3>1. n # mine[t]
      BY <2>1
    <3> QED
      BY <1>5, <3>1 DEF BindNext
  <2>3. \A u \in Threads : Starting(u)' => Starting(u) /\ mine'[u] = mine[u]
    BY <1>5 DEF BindNext, Move, AfterStart
  <2>4. \A u \in Threads : mine'[u] <= round
    BY <1>5 DEF BindNext
  <2> QED
    BY <2>1, <2>2, <2>3, <2>4
<1>6. ASSUME NEW t \in Threads, RangeServers(t)
      PROVE  Rounds'
  BY <1>6 DEF RangeServers, RangeOver, Move, groupVars
<1>7. ASSUME NEW t \in Threads, Clear(t) \/ WaitReturns(t)
      PROVE  Rounds'
  BY <1>7 DEF Clear, WaitReturns, Move, groupVars, srvVars, taskVars
<1>8. ASSUME NEW i \in Servers, ServerMoves(i)
      PROVE  Rounds'
  BY <1>8, ServerMoveIs DEF groupVars, taskVars, StopTaken, StopIdle, StopOver, Released,
                            Swept
<1>9. CASE Boot \/ Signal \/ EndCAS \/ CloseStopchan \/ FinCAS \/ DeferredStop
  BY <1>9 DEF Boot, Signal, EndCAS, CloseStopchan, FinCAS, DeferredStop, Swap, Move,
              OnlyStatus, EndsAt, groupVars, srvVars, taskVars
<1>10. CASE \E w \in Workers : SendStopAccept(w) \/ RestartCAS(w)
  BY <1>10 DEF SendStopAccept, RestartCAS, Swap, Move, OnlyStatus, groupVars, srvVars,
               taskVars
<1>11. CASE Overloaded \/ Calmed
  BY <1>11 DEF Overloaded, Calmed, Take, Spawn, RestUnchanged, groupVars, srvVars, taskVars
<1>12. CASE Wake \/ Reopen \/ ConsumerEnds
  BY <1>12 DEF Wake, Reopen, ConsumerEnds, RestUnchanged, groupVars, srvVars, taskVars
<1>13. CASE CloseNotify \/ TimePasses \/ \E k \in {"over", "calm"} : Send(k)
  BY <1>13 DEF CloseNotify, TimePasses, Send, EnvUnchanged, groupVars, srvVars, taskVars
<1> QED
  BY Steps, <1>1, <1>2, <1>3, <1>4, <1>5, <1>6, <1>7, <1>8, <1>9, <1>10, <1>11, <1>12, <1>13

(* A start and a stop side by side would have been noted.                  *)
LEMMA NoClash ==
    ASSUME NEW t, NEW from, NEW to, Move(t, from, to), ~overlapped'
    PROVE  \A u, v \in Threads : ~(Starting(u)' /\ Stopping(v)')
  BY DEF Move, Starting, Stopping

(* A compare-and-swap that succeeds shows that nobody else has begun.      *)
LEMMA AloneStep ==
    ASSUME Shapes, Flags, ~overlapped, ~overlapped', Alone, [Next]_vars
    PROVE  Alone'
<1> USE ConstantsAssumption DEF Shapes, Flags, Alone, Threads, Starting, Stopping
<1>1. CASE UNCHANGED vars
  BY <1>1 DEF vars, groupVars, srvVars, taskVars
<1>2. ASSUME NEW t \in Threads, StartCAS(t)
      PROVE  Alone'
  <2>1. CASE status = "WaitStart"
    <3>1. Move(t, "startCAS", "store") /\ status' = "Running"
      BY <1>2, <2>1 DEF StartCAS, Swap
    <3>2. /\ pc'[t] = "store"
          /\ \A u \in Threads \ {t} : pc'[u] = pc[u] /\ pc[u] \notin {"store", "bind"}
      BY <2>1, <3>1 DEF Move
    <3>3. \A u, v \in Threads : ~(Starting(u)' /\ Stopping(v)')
      BY <3>1, NoClash
    <3> QED
      BY <3>1, <3>2, <3>3
  <2>2. CASE status # "WaitStart"
    BY <1>2, <2>2 DEF StartCAS, Swap, Move, AfterStart
  <2> QED
    BY <2>1, <2>2
<1>3. ASSUME NEW t \in Threads, StopCAS(t) \/ StopFin(t)
      PROVE  Alone'
  <2>1. CASE StopCAS(t) /\ status = "Running"
    <3>1. Move(t, "stopCAS", "range") /\ status' = "WaitStop"
      BY <2>1 DEF StopCAS, Swap
    <3>2. /\ pc'[t] = "range"
          /\ \A u \in Threads \ {t} : pc'[u] = pc[u]
      BY <3>1 DEF Move
    <3>3. \A u, v \in Threads : ~(Starting(u)' /\ Stopping(v)')
      BY <3>1, NoClash
    <3> QED
      BY <3>1, <3>2, <3>3
  <2>2. CASE StopFin(t) \/ (StopCAS(t) /\ status # "Running")
    BY <2>2 DEF StopCAS, StopFin, Swap, Move, AfterStop
  <2> QED
    BY <1>3, <2>1, <2>2
<1>4. ASSUME NEW t \in Threads, NEW p \in Ports, Store(t, p)
      PROVE  Alone'
  BY <1>4 DEF Store, Move, taskVars
<1>5. ASSUME NEW t \in Threads, NEW p \in Ports, BindNext(t, p)
      PROVE  Alone'
  BY <1>5 DEF BindNext, Move, AfterStart, groupVars
<1>6. ASSUME NEW t \in Threads, RangeServers(t)
      PROVE  Alone'
  BY <1>6 DEF RangeServers, RangeOver, Move, groupVars
<1>7. ASSUME NEW t \in Threads, Clear(t) \/ WaitReturns(t)
      PROVE  Alone'
  BY <1>7 DEF Clear, WaitReturns, Move, groupVars, srvVars, taskVars
<1>8. ASSUME NEW i \in Servers, ServerMoves(i)
      PROVE  Alone'
  BY <1>8 DEF ServerMoves, ServerStop, ServerStopReturns, ListenerReleased, Collected,
              SrvFrame, groupVars, taskVars
<1>9. CASE Boot \/ Signal \/ EndCAS \/ CloseStopchan \/ FinCAS \/ DeferredStop
  BY <1>9 DEF Boot, Signal, EndCAS, CloseStopchan, FinCAS, DeferredStop, Swap, Move,
              OnlyStatus, EndsAt, groupVars, srvVars, taskVars
<1>10. CASE \E w \in Workers : SendStopAccept(w) \/ RestartCAS(w)
  BY <1>10 DEF SendStopAccept, RestartCAS, Swap, Move, OnlyStatus, groupVars, srvVars,
               taskVars
<1>11. CASE Overloaded \/ Calmed
  BY <1>11 DEF Overloaded, Calmed, Take, Spawn, RestUnchanged, groupVars, srvVars, taskVars
<1>12. CASE Wake \/ Reopen \/ ConsumerEnds
  BY <1>12 DEF Wake, Reopen, ConsumerEnds, RestUnchanged, groupVars, srvVars, taskVars
<1>13. CASE CloseNotify \/ TimePasses \/ \E k \in {"over", "calm"} : Send(k)
  BY <1>13 DEF CloseNotify, TimePasses, Send, EnvUnchanged, groupVars, srvVars, taskVars
<1> QED
  BY Steps, <1>1, <1>2, <1>3, <1>4, <1>5, <1>6, <1>7, <1>8, <1>9, <1>10, <1>11, <1>12, <1>13

(* Only Clear ends a stop, and only a start fills the map.                 *)
LEMMA EmptiedStep ==
    ASSUME Shapes, ~overlapped, ~overlapped', Alone, Alone', MapEmptied, [Next]_vars
    PROVE  MapEmptied'
<1> USE ConstantsAssumption DEF Shapes, Alone, MapEmptied, Threads, Starting, Stopping
<1>1. CASE UNCHANGED vars
  BY <1>1 DEF vars, groupVars, srvVars, taskVars
<1>2. ASSUME NEW t \in Threads, StartCAS(t)
      PROVE  MapEmptied'
  BY <1>2 DEF StartCAS, Swap, Move, AfterStart, srvVars
<1>3. ASSUME NEW t \in Threads, StopCAS(t) \/ StopFin(t)
      PROVE  MapEmptied'
  BY <1>3 DEF StopCAS, StopFin, Swap, Move, OnlyStatus, AfterStop, srvVars, taskVars
<1>4. ASSUME NEW t \in Threads, NEW p \in Ports, Store(t, p)
      PROVE  MapEmptied'
  BY <1>4 DEF Store, Move, taskVars
<1>5. ASSUME NEW t \in Threads, NEW p \in Ports, BindNext(t, p)
      PROVE  MapEmptied'
  BY <1>5 DEF BindNext, Move, AfterStart, groupVars
<1>6. ASSUME NEW t \in Threads, RangeServers(t)
      PROVE  MapEmptied'
  BY <1>6 DEF RangeServers, RangeOver, Move, groupVars
<1>7. ASSUME NEW t \in Threads, Clear(t) \/ WaitReturns(t)
      PROVE  MapEmptied'
  BY <1>7 DEF Clear, WaitReturns, Move, groupVars, srvVars, taskVars
<1>8. ASSUME NEW i \in Servers, ServerMoves(i)
      PROVE  MapEmptied'
  BY <1>8 DEF ServerMoves, ServerStop, ServerStopReturns, ListenerReleased, Collected,
              SrvFrame, groupVars, taskVars
<1>9. CASE Boot \/ Signal \/ EndCAS \/ CloseStopchan \/ FinCAS \/ DeferredStop
  BY <1>9 DEF Boot, Signal, EndCAS, CloseStopchan, FinCAS, DeferredStop, Swap, Move,
              OnlyStatus, EndsAt, groupVars, srvVars, taskVars
<1>10. CASE \E w \in Workers : SendStopAccept(w) \/ RestartCAS(w)
  BY <1>10 DEF SendStopAccept, RestartCAS, Swap, Move, OnlyStatus, groupVars, srvVars,
               taskVars
<1>11. CASE Overloaded \/ Calmed
  BY <1>11 DEF Overloaded, Calmed, Take, Spawn, RestUnchanged, groupVars, srvVars, taskVars
<1>12. CASE Wake \/ Reopen \/ ConsumerEnds
  BY <1>12 DEF Wake, Reopen, ConsumerEnds, RestUnchanged, groupVars, srvVars, taskVars
<1>13. CASE CloseNotify \/ TimePasses \/ \E k \in {"over", "calm"} : Send(k)
  BY <1>13 DEF CloseNotify, TimePasses, Send, EnvUnchanged, groupVars, srvVars, taskVars
<1> QED
  BY Steps, <1>1, <1>2, <1>3, <1>4, <1>5, <1>6, <1>7, <1>8, <1>9, <1>10, <1>11, <1>12, <1>13

MadeStays == \A i \in Servers : srv[i] \in {"none", "made"} => srv'[i] = srv[i]

(* Nothing else concerns the ports a start has still to see to.            *)
LEMMA FillingFrame ==
    ASSUME Shapes, MapFilling, UNCHANGED <<servers, todo, mine>>, MadeStays,
           \A t \in Threads : pc'[t] \in {"store", "bind"} =>
               pc'[t] = pc[t] /\ mine[t] \in 1 .. MaxRounds
    PROVE  MapFilling'
<1> SUFFICES ASSUME NEW t \in Threads
             PROVE  /\ pc'[t] = "store" => \A p \in todo'[t] : Untouched(t, p)'
                    /\ pc'[t] = "bind" => \E p \in todo'[t] :
                          InWork(t, p)' /\ \A q \in todo'[t] \ {p} : Untouched(t, q)'
  BY DEF MapFilling
<1>1. todo[t] \subseteq Ports
  BY DEF Shapes
<1>2. pc'[t] \in {"store", "bind"} => \A p \in todo[t] : Untouched(t, p) => Untouched(t, p)'
  BY <1>1 DEF Untouched, MadeStays, Servers
<1>3. pc'[t] \in {"store", "bind"} => \A p \in todo[t] : InWork(t, p) => InWork(t, p)'
  BY <1>1 DEF InWork, MadeStays, Servers
<1> QED
  BY <1>2, <1>3 DEF MapFilling

(* A start works through its ports one by one, alone.                      *)
LEMMA FillingStep ==
    ASSUME Shapes, Rounds, ~overlapped, Alone, Alone', MapEmptied, MapFilling, [Next]_vars
    PROVE  MapFilling'
<1>0. \A t \in Threads : Starting(t) => mine[t] \in 1 .. MaxRounds
  BY DEF Shapes, Rounds
<1> DEFINE Frame == /\ UNCHANGED <<servers, todo, mine>>
                    /\ MadeStays
                    /\ \A t \in Threads : pc'[t] \in {"store", "bind"} => pc'[t] = pc[t]
<1>1. Frame => MapFilling'
  BY <1>0, FillingFrame DEF Starting
<1>2. ASSUME NEW t \in Threads, StartCAS(t)
      PROVE  MapFilling'
  <2>1. CASE status # "WaitStart"
    <3>1. Frame
      BY <1>2, <2>1 DEF StartCAS, Swap, Move, AfterStart, srvVars, MadeStays, Shapes
    <3> QED
      BY <1>1, <3>1
  <2>2. CASE status = "WaitStart"
    <3>1. \A u \in Threads : pc'[u] \in {"store", "bind"} => u = t
      BY <1>2, <2>2 DEF StartCAS, Swap, Move, Alone, Starting, Shapes
    <3>2. pc'[t] = "store" /\ mine'[t] = round + 1 /\ todo'[t] = Ports
      BY <1>2, <2>2 DEF StartCAS, Swap, Move, Shapes
    <3>3. \A u \in Threads : ~Stopping(u)
      <4>1. \A u \in Threads : ~Stopping(u)'
        BY <3>2 DEF Alone, Starting
      <4> QED
        BY <1>2, <2>2, <4>1 DEF StartCAS, Swap, Move, Stopping, Shapes
    <3>4. \A p \in Ports : servers'[p] = 0
      BY <1>2, <2>2, <3>3 DEF StartCAS, MapEmptied
    <3>5. round + 1 \in 1 .. MaxRounds /\ round + 1 > round
      BY <1>2, <2>2, ConstantsAssumption DEF StartCAS, Shapes
    <3>6. \A p \in Ports : srv'[<<p, round + 1>>] = "none"
      BY <1>2, <3>5 DEF StartCAS, srvVars, Rounds, Servers
    <3>7. \A p \in Ports : Untouched(t, p)'
      BY <3>2, <3>4, <3>6 DEF Untouched
    <3> QED
      BY <3>1, <3>2, <3>7 DEF MapFilling
  <2> QED
    BY <2>1, <2>2
<1>3. ASSUME NEW t \in Threads, NEW p \in Ports, Store(t, p)
      PROVE  MapFilling'
  <2>1. \A u \in Threads : pc'[u] \in {"store", "bind"} => u = t
    BY <1>3 DEF Store, Move, Alone, Starting, Shapes
  <2>2. pc[t] = "store" /\ pc'[t] = "bind" /\ UNCHANGED <<mine, todo>> /\ p \in todo[t]
    BY <1>3 DEF Store, Move, taskVars, Shapes
  <2>3. mine[t] \in 1 .. MaxRounds /\ todo[t] \subseteq Ports
    BY <1>0, <2>2 DEF Starting, Shapes
  <2>4. /\ servers'[p] = mine[t]
        /\ \A q \in todo[t] \ {p} : servers'[q] = servers[q]
    BY <1>3, <2>2, <2>3 DEF Store, MapFilling, Untouched, Shapes
  <2>5. /\ srv'[<<p, mine[t]>>] = "made"
        /\ \A q \in todo[t] \ {p} : srv'[<<q, mine[t]>>] = srv[<<q, mine[t]>>]
    BY <1>3, <2>3 DEF Store, Shapes, Servers
  <2>6. InWork(t, p)' /\ \A q \in todo[t] \ {p} : Untouched(t, q)'
    BY <2>2, <2>4, <2>5 DEF InWork, Untouched, MapFilling
  <2> QED
    BY <2>1, <2>2, <2>6 DEF MapFilling
<1>4. ASSUME NEW t \in Threads, NEW p \in Ports, BindNext(t, p)
      PROVE  MapFilling'
  <2>1. \A u \in Threads : pc'[u] \in {"store", "bind"} => u = t
    BY <1>4 DEF BindNext, Move, Alone, Starting, Shapes
  <2>2. pc[t] = "bind" /\ p \in todo[t] /\ srv[<<p, mine[t]>>] = "made"
    BY <1>4 DEF BindNext, Move
  <2>3. \A q \in todo[t] \ {p} : Untouched(t, q)
    BY <2>2 DEF MapFilling, Untouched
  <2>4. pc'[t] # "bind" /\ todo'[t] = todo[t] \ {p} /\ servers' = servers
    BY <1>4 DEF BindNext, Move, AfterStart, groupVars, Shapes
  <2>5. ASSUME pc'[t] = "store", NEW q \in todo[t] \ {p}
        PROVE  Untouched(t, q)'
    <3>1. mine' = mine
      BY <1>4, <2>5 DEF BindNext, Move, AfterStart, Shapes
    <3>2. q \in Ports /\ mine[t] \in 1 .. MaxRounds
      BY <1>0, <2>2 DEF Starting, Shapes
    <3>3. srv'[<<q, mine[t]>>] = srv[<<q, mine[t]>>]
      BY <1>4, <3>2 DEF BindNext, Shapes, Servers
    <3> QED
      BY <2>3, <2>4, <3>1, <3>3 DEF Untouched
  <2> QED
    BY <2>1, <2>4, <2>5 DEF MapFilling
<1>5. ASSUME NEW t \in Threads, StopCAS(t) \/ StopFin(t)
      PROVE  Frame
  BY <1>5 DEF StopCAS, StopFin, Swap, Move, OnlyStatus, AfterStop, srvVars, taskVars,
              MadeStays, Shapes
<1>6. ASSUME NEW t \in Threads, RangeServers(t) \/ WaitReturns(t)
      PROVE  Frame
  BY <1>6 DEF RangeServers, RangeOver, WaitReturns, Move, groupVars, srvVars, taskVars,
              MadeStays, Shapes
<1>7. ASSUME NEW t \in Threads, Clear(t)
      PROVE  MapFilling'
  BY <1>7 DEF Clear, Move, Alone, Starting, Stopping, MapFilling, Shapes
<1>8. ASSUME NEW i \in Servers, ServerMoves(i)
      PROVE  Frame
  BY <1>8, ServerMoveIs DEF groupVars, taskVars, MadeStays, StopTaken, StopIdle, StopOver,
                            Released, Swept
<1>9. CASE Boot \/ Signal \/ EndCAS \/ CloseStopchan \/ FinCAS \/ DeferredStop
  <2>1. Frame
    BY <1>9 DEF Boot, Signal, EndCAS, CloseStopchan, FinCAS, DeferredStop, Swap, Move,
                EndsAt, OnlyStatus, groupVars, srvVars, taskVars, MadeStays, Shapes
  <2> QED
    BY <1>1, <2>1
<1>10. CASE \E w \in Workers : SendStopAccept(w) \/ RestartCAS(w)
  <2>1. Frame
    BY <1>10 DEF SendStopAccept, RestartCAS, Swap, Move, OnlyStatus, groupVars, srvVars,
                 taskVars, MadeStays, Shapes
  <2> QED
    BY <1>1, <2>1
<1>11. CASE Overloaded \/ Calmed \/ Wake \/ Reopen \/ ConsumerEnds
  <2>1. Frame
    BY <1>11 DEF Overloaded, Calmed, Wake, Reopen, ConsumerEnds, Take, Spawn,
                 RestUnchanged, groupVars, srvVars, taskVars, MadeStays, Shapes
  <2> QED
    BY <1>1, <2>1
<1>12. CASE UNCHANGED vars \/ CloseNotify \/ TimePasses \/ \E k \in {"over", "calm"} : Send(k)
  <2>1. Frame
    BY <1>12 DEF vars, CloseNotify, TimePasses, Send, EnvUnchanged, groupVars, srvVars,
                 taskVars, MadeStays
  <2> QED
    BY <1>1, <2>1
<1> QED
  BY Steps, <1>1, <1>2, <1>3, <1>4, <1>5, <1>6, <1>7, <1>8, <1>9, <1>10, <1>11, <1>12

(* What serves stays in the map until its Stop is on the way.              *)
LEMMA ReachStep ==
    ASSUME Shapes, Rounds, ~overlapped, ~overlapped', Alone, Alone', MapFilling, Reach,
           [Next]_vars
    PROVE  Reach'
<1> USE ConstantsAssumption DEF Shapes, Rounds, Alone, MapFilling, Untouched, InWork,
                                Reach, Threads, Servers, Starting, Stopping
<1>1. CASE UNCHANGED vars
  BY <1>1 DEF vars, groupVars, srvVars, taskVars
<1>2. ASSUME NEW t \in Threads, StartCAS(t)
      PROVE  Reach'
  BY <1>2 DEF StartCAS, Swap, Move, AfterStart, srvVars
<1>3. ASSUME NEW t \in Threads, StopCAS(t) \/ StopFin(t)
      PROVE  Reach'
  BY <1>3 DEF StopCAS, StopFin, Swap, Move, OnlyStatus, AfterStop, srvVars, taskVars
<1>4. ASSUME NEW t \in Threads, NEW p \in Ports, Store(t, p)
      PROVE  Reach'
  BY <1>4 DEF Store, Move, taskVars
<1>5. ASSUME NEW t \in Threads, NEW p \in Ports, BindNext(t, p)
      PROVE  Reach'
  <2>1. pc[t] = "bind" /\ srv[<<p, mine[t]>>] = "made" /\ UNCHANGED <<servers, stops>>
    BY <1>5 DEF BindNext, Move, groupVars
  <2>2. servers[p] = mine[t]
    BY <1>5, <2>1 DEF BindNext
  <2>3. \A i \in Servers : i # <<p, mine[t]>> => srv'[i] = srv[i]
    BY <1>5 DEF BindNext
  <2>4. \A u \in Threads : pc'[u] # "clear"
    BY <1>5, <2>1 DEF BindNext, Move, AfterStart
  <2> QED
    BY <2>1, <2>2, <2>3, <2>4
<1>6. ASSUME NEW t \in Threads, RangeServers(t)
      PROVE  Reach'
  BY <1>6 DEF RangeServers, RangeOver, Move, groupVars
<1>7. ASSUME NEW t \in Threads, Clear(t) \/ WaitReturns(t)
      PROVE  Reach'
  BY <1>7 DEF Clear, WaitReturns, Move, groupVars, srvVars, taskVars
<1>8. ASSUME NEW i \in Servers, ServerMoves(i)
      PROVE  Reach'
  <2>1. UNCHANGED <<servers, pc>>
    BY <1>8, ServerMoveIs DEF groupVars
  <2>2. \A j \in Servers : j # i => srv'[j] = srv[j] /\ stops'[j] = stops[j]
    BY <1>8, ServerMoveIs
  <2>3. stops'[i] = "draining" => srv'[i] \in {"halting", "halted"}
    BY <1>8, ServerMoveIs DEF StopTaken, StopIdle, StopOver, Released, Swept
  <2>4. srv'[i] = "serving" /\ HeedsStop(i[1]) => srv[i] = "serving" /\ stops'[i] = stops[i]
    BY <1>8, ServerMoveIs DEF StopTaken, StopIdle, StopOver, Released, Swept
  <2> QED
    BY <2>1, <2>2, <2>3, <2>4
<1>9. CASE Boot \/ Signal \/ EndCAS \/ CloseStopchan \/ FinCAS \/ DeferredStop
  BY <1>9 DEF Boot, Signal, EndCAS, CloseStopchan, FinCAS, DeferredStop, Swap, Move,
              OnlyStatus, EndsAt, groupVars, srvVars, taskVars
<1>10. CASE \E w \in Workers : SendStopAccept(w) \/ RestartCAS(w)
  BY <1>10 DEF SendStopAccept, RestartCAS, Swap, Move, OnlyStatus, groupVars, srvVars,
               taskVars
<1>11. CASE Overloaded \/ Calmed
  BY <1>11 DEF Overloaded, Calmed, Take, Spawn, RestUnchanged, groupVars, srvVars, taskVars
<1>12. CASE Wake \/ Reopen \/ ConsumerEnds
  BY <1>12 DEF Wake, Reopen, ConsumerEnds, RestUnchanged, groupVars, srvVars, taskVars
<1>13. CASE CloseNotify \/ TimePasses \/ \E k \in {"over", "calm"} : Send(k)
  BY <1>13 DEF CloseNotify, TimePasses, Send, EnvUnchanged, groupVars, srvVars, taskVars
<1> QED
  BY Steps, <1>1, <1>2, <1>3, <1>4, <1>5, <1>6, <1>7, <1>8, <1>9, <1>10, <1>11, <1>12, <1>13

(* Ready, WaitStart and Stopping are states somebody is bound to leave.    *)
LEMMA StatusStep ==
    ASSUME Shapes, StatusInv, [Next]_vars
    PROVE  StatusInv'
<1> USE ConstantsAssumption DEF Shapes, StatusInv, Threads
<1>1. CASE UNCHANGED vars
  BY <1>1 DEF vars, groupVars, srvVars, taskVars
<1>2. ASSUME NEW t \in Threads, StartCAS(t)
      PROVE  StatusInv'
  BY <1>2 DEF StartCAS, Swap, Move, AfterStart, srvVars
<1>3. ASSUME NEW t \in Threads, StopCAS(t) \/ StopFin(t)
      PROVE  StatusInv'
  BY <1>3 DEF StopCAS, StopFin, Swap, Move, OnlyStatus, AfterStop, srvVars, taskVars
<1>4. ASSUME NEW t \in Threads, NEW p \in Ports, Store(t, p)
      PROVE  StatusInv'
  BY <1>4 DEF Store, Move, taskVars
<1>5. ASSUME NEW t \in Threads, NEW p \in Ports, BindNext(t, p)
      PROVE  StatusInv'
  BY <1>5 DEF BindNext, Move, AfterStart, groupVars
<1>6. ASSUME NEW t \in Threads, RangeServers(t)
      PROVE  StatusInv'
  BY <1>6 DEF RangeServers, RangeOver, Move, groupVars
<1>7. ASSUME NEW t \in Threads, Clear(t) \/ WaitReturns(t)
      PROVE  StatusInv'
  BY <1>7 DEF Clear, WaitReturns, Move, groupVars, srvVars, taskVars
<1>8. ASSUME NEW i \in Servers, ServerMoves(i)
      PROVE  StatusInv'
  BY <1>8 DEF ServerMoves, ServerStop, ServerStopReturns, ListenerReleased, Collected,
              SrvFrame, groupVars, taskVars
<1>9. CASE Boot \/ Signal \/ EndCAS \/ CloseStopchan \/ FinCAS \/ DeferredStop
  BY <1>9 DEF Boot, Signal, EndCAS, CloseStopchan, FinCAS, DeferredStop, Swap, Move,
              OnlyStatus, EndsAt, groupVars, srvVars, taskVars
<1>10. CASE \E w \in Workers : SendStopAccept(w) \/ RestartCAS(w)
  BY <1>10 DEF SendStopAccept, RestartCAS, Swap, Move, OnlyStatus, groupVars, srvVars,
               taskVars
<1>11. CASE Overloaded \/ Calmed
  BY <1>11 DEF Overloaded, Calmed, Take, Spawn, RestUnchanged, groupVars, srvVars, taskVars
<1>12. CASE Wake \/ Reopen \/ ConsumerEnds
  BY <1>12 DEF Wake, Reopen, ConsumerEnds, RestUnchanged, groupVars, srvVars, taskVars
<1>13. CASE CloseNotify \/ TimePasses \/ \E k \in {"over", "calm"} : Send(k)
  BY <1>13 DEF CloseNotify, TimePasses, Send, EnvUnchanged, groupVars, srvVars, taskVars
<1> QED
  BY Steps, <1>1, <1>2, <1>3, <1>4, <1>5, <1>6, <1>7, <1>8, <1>9, <1>10, <1>11, <1>12, <1>13

(* With the consumer gone nobody restarts the group.                       *)
LEMMA CalmStep ==
    ASSUME Shapes, StatusInv, CalmInv, [Next]_vars
    PROVE  CalmInv'
<1> USE ConstantsAssumption DEF Shapes, StatusInv, CalmInv, Threads
<1>1. CASE UNCHANGED vars
  BY <1>1 DEF vars, groupVars, srvVars, taskVars
<1>2. ASSUME NEW t \in Threads, StartCAS(t)
      PROVE  CalmInv'
  BY <1>2 DEF StartCAS, Swap, Move, AfterStart, srvVars
<1>3. ASSUME NEW t \in Threads, StopCAS(t) \/ StopFin(t)
      PROVE  CalmInv'
  BY <1>3 DEF StopCAS, StopFin, Swap, Move, OnlyStatus, AfterStop, srvVars, taskVars
<1>4. ASSUME NEW t \in Threads, NEW p \in Ports, Store(t, p)
      PROVE  CalmInv'
  BY <1>4 DEF Store, Move, taskVars
<1>5. ASSUME NEW t \in Threads, NEW p \in Ports, BindNext(t, p)
      PROVE  CalmInv'
  BY <1>5 DEF BindNext, Move, AfterStart, groupVars
<1>6. ASSUME NEW t \in Threads, RangeServers(t)
      PROVE  CalmInv'
  BY <1>6 DEF RangeServers, RangeOver, Move, groupVars
<1>7. ASSUME NEW t \in Threads, Clear(t) \/ WaitReturns(t)
      PROVE  CalmInv'
  BY <1>7 DEF Clear, WaitReturns, Move, groupVars, srvVars, taskVars
<1>8. ASSUME NEW i \in Servers, ServerMoves(i)
      PROVE  CalmInv'
  BY <1>8 DEF ServerMoves, ServerStop, ServerStopReturns, ListenerReleased, Collected,
              SrvFrame, groupVars, taskVars
<1>9. CASE Boot \/ Signal \/ EndCAS \/ CloseStopchan \/ FinCAS \/ DeferredStop
  BY <1>9 DEF Boot, Signal, EndCAS, CloseStopchan, FinCAS, DeferredStop, Swap, Move,
              OnlyStatus, EndsAt, groupVars, srvVars, taskVars
<1>10. CASE \E w \in Workers : SendStopAccept(w) \/ RestartCAS(w)
  BY <1>10 DEF SendStopAccept, RestartCAS, Swap, Move, OnlyStatus, groupVars, srvVars,
               taskVars
<1>11. CASE Overloaded \/ Calmed
  BY <1>11 DEF Overloaded, Calmed, Take, Spawn, RestUnchanged, groupVars, srvVars, taskVars
<1>12. CASE Wake \/ Reopen \/ ConsumerEnds
  BY <1>12 DEF Wake, Reopen, ConsumerEnds, RestUnchanged, groupVars, srvVars, taskVars
<1>13. CASE CloseNotify \/ TimePasses \/ \E k \in {"over", "calm"} : Send(k)
  BY <1>13 DEF CloseNotify, TimePasses, Send, EnvUnchanged, groupVars, srvVars, taskVars
<1> QED
  BY Steps, <1>1, <1>2, <1>3, <1>4, <1>5, <1>6, <1>7, <1>8, <1>9, <1>10, <1>11, <1>12, <1>13

-----------------------------------------------------------------------------
(* Every variable keeps the shape that struct TcpServerGroup gives it.     *)
THEOREM TypeCorrect == Spec => []TypeOK
<1>1. Init => Shapes
  BY ConstantsAssumption DEF Init, Shapes
<1>2. Init => Flags
  BY DEF Init, Flags
<1>3. TypeOK /\ [Next]_vars => TypeOK'
  BY ShapesStep, FlagsStep DEF TypeOK
<1> QED
  BY <1>1, <1>2, <1>3, PTL DEF Spec, TypeOK

(* The gate is shut exactly while the overload clock runs.                 *)
THEOREM GateMatches == Spec => []GateMatchesClock
<1>1. Init => GateMatchesClock
  BY DEF Init, GateMatchesClock
<1>2. GateMatchesClock /\ [Next]_vars => GateMatchesClock'
  BY GateStep
<1> QED
  BY <1>1, <1>2, PTL DEF Spec
(* What the map holds, and what the status says of main, holds throughout. *)
THEOREM Inductive == Spec => [](TypeOK /\ MapInv /\ StatusInv /\ CalmInv)
<1>1. Init => MapInv
  BY ConstantsAssumption DEF Init, MapInv, Rounds, Alone, MapEmptied, MapFilling, Reach,
                             Starting, Stopping, Threads
<1>2. Init => StatusInv /\ CalmInv
  BY ConstantsAssumption DEF Init, StatusInv, CalmInv, Threads
<1>3. TypeOK /\ MapInv /\ [Next]_vars => MapInv'
  <2> SUFFICES ASSUME TypeOK, MapInv, [Next]_vars, ~overlapped'
               PROVE  Alone' /\ MapEmptied' /\ MapFilling' /\ Reach'
    BY RoundsStep DEF MapInv, TypeOK
  <2>1. ~overlapped
    BY OverlapStays DEF TypeOK
  <2>2. Alone'
    BY <2>1, AloneStep DEF MapInv, TypeOK
  <2>3. MapEmptied' /\ MapFilling' /\ Reach'
    BY <2>1, <2>2, EmptiedStep, FillingStep, ReachStep DEF MapInv, TypeOK
  <2> QED
    BY <2>2, <2>3
<1>4. TypeOK /\ StatusInv /\ CalmInv /\ [Next]_vars => StatusInv' /\ CalmInv'
  BY StatusStep, CalmStep DEF TypeOK
<1> QED
  BY <1>1, <1>2, <1>3, <1>4, TypeCorrect, PTL DEF Spec

(* Only one run of StartAllServers is under way, unless one met a stop.    *)
THEOREM OneStarterHolds == Spec => []OneStarter
<1>1. MapInv => OneStarter
  BY DEF MapInv, Alone, OneStarter
<1> QED
  BY <1>1, Inductive, PTL

(* No server is out of reach of the next stop, unless one met a start.     *)
THEOREM AllReachable == Spec => []ServersReachable
<1>1. TypeOK /\ MapInv => ServersReachable
  BY DEF TypeOK, Shapes, MapInv, Reach, ServersReachable, Servers
<1> QED
  BY <1>1, Inductive, PTL

(* The deferred Stop leaves a group that nothing can restart Finished.     *)
THEOREM Backstop == Spec => []BackstopFinishes
<1>1. CalmInv => BackstopFinishes
  BY DEF CalmInv, BackstopFinishes
<1> QED
  BY <1>1, Inductive, PTL
-----------------------------------------------------------------------------
(*        What "All Server Stop Finished" and "restored" are worth         *)

(* The servers a stop has picked have been asked: their goroutines exist.  *)
Asked == \A t \in Threads : \A i \in batch[t] : stops[i] # "none"

(* A goroutine that calls Stop is never forgotten.                         *)
LEMMA AskedStep ==
    ASSUME Shapes, Asked, [Next]_vars
    PROVE  Asked'
<1> USE DEF Shapes, Asked
<1>1. CASE UNCHANGED vars
  BY <1>1 DEF vars, srvVars, taskVars
<1>2. CASE \E t \in Threads : StartCAS(t) \/ StopCAS(t)
  BY <1>2 DEF StartCAS, StopCAS, Swap, Move, OnlyStatus, srvVars, taskVars
<1>3. CASE \E t \in Threads : StopFin(t)
  BY <1>3 DEF StopFin, srvVars
<1>4. CASE \E t \in Threads : \E p \in Ports : Store(t, p) \/ BindNext(t, p)
  BY <1>4 DEF Store, BindNext, taskVars
<1>5. ASSUME NEW t \in Threads, RangeServers(t)
      PROVE  Asked'
  <2> DEFINE found == {<<p, servers[p]>> : p \in {q \in Ports : servers[q] # 0}}
  <2>1. found \subseteq Servers
    BY DEF Servers
  <2>2. RangeOver(t, found)
    BY <1>5 DEF RangeServers
  <2> HIDE DEF found
  <2>3. \A i \in Servers : stops[i] # "none" => stops'[i] # "none"
    BY <2>2 DEF RangeOver
  <2>4. \A i \in found : stops'[i] # "none"
    BY <2>1, <2>2 DEF RangeOver
  <2>5. batch' = [batch EXCEPT ![t] = found]
    BY <2>2 DEF RangeOver
  <2> QED
    BY <2>3, <2>4, <2>5
<1>6. CASE \E t \in Threads : Clear(t) \/ WaitReturns(t)
  BY <1>6 DEF Clear, WaitReturns, srvVars, taskVars
<1>7. CASE \E i \in Servers : ServerMoves(i)
  BY <1>7 DEF ServerMoves, ServerStop, ServerStopReturns, ListenerReleased, Collected,
              SrvFrame, taskVars
<1>8. CASE Boot \/ Signal \/ EndCAS \/ CloseStopchan \/ FinCAS \/ DeferredStop
  BY <1>8 DEF Boot, Signal, EndCAS, CloseStopchan, FinCAS, DeferredStop, OnlyStatus,
              srvVars, taskVars
<1>9. CASE \E w \in Workers : SendStopAccept(w) \/ RestartCAS(w)
  BY <1>9 DEF SendStopAccept, RestartCAS, OnlyStatus, srvVars, taskVars
<1>10. CASE Overloaded \/ Calmed \/ Wake \/ Reopen \/ ConsumerEnds
  BY <1>10 DEF Overloaded, Calmed, Wake, Reopen, ConsumerEnds, RestUnchanged, srvVars,
               taskVars
<1>11. CASE CloseNotify \/ TimePasses \/ \E k \in {"over", "calm"} : Send(k)
  BY <1>11 DEF CloseNotify, TimePasses, Send, EnvUnchanged, srvVars, taskVars
<1> QED
  BY Steps, <1>1, <1>2, <1>3, <1>4, <1>5, <1>6, <1>7, <1>8, <1>9, <1>10, <1>11

(* StopAllServers can be done waiting before every Stop it asked for has   *)
(* returned (StopFinishedMeansStopped fails), but only because a goroutine *)
(* has not begun: wg.Add is its own first step.  None is left in the       *)
(* middle of Stop.                                                         *)
WaitMissesOnlyUnbegun ==
    [][\A t \in Threads : pc[t] = "wait" /\ pc'[t] # "wait"
          => \A i \in batch[t] : stops[i] \in {"spawned", "done"}]_vars

(* Only WaitReturns ends a wait, so that it sees what its guard has seen.  *)
LEMMA WaitStep ==
    ASSUME Shapes, [Next]_vars, NEW t \in Threads, pc[t] = "wait", pc'[t] # "wait"
    PROVE  WaitReturns(t)
<1> USE DEF Shapes
<1>1. ~UNCHANGED vars
  BY DEF vars
<1>2. ~\E u \in Threads : StartCAS(u) \/ StopCAS(u) \/ StopFin(u)
  BY DEF StartCAS, StopCAS, StopFin, Swap, Move
<1>3. ~\E u \in Threads : \E p \in Ports : Store(u, p) \/ BindNext(u, p)
  BY DEF Store, BindNext, Move
<1>4. ~\E u \in Threads : RangeServers(u) \/ Clear(u)
  BY DEF RangeServers, RangeOver, Clear, Move
<1>5. ~\E i \in Servers : ServerMoves(i)
  BY DEF ServerMoves, ServerStop, ServerStopReturns, ListenerReleased, Collected, SrvFrame
<1>6. ~(Boot \/ Signal \/ EndCAS \/ CloseStopchan \/ FinCAS \/ DeferredStop)
  BY DEF Boot, Signal, EndCAS, CloseStopchan, FinCAS, DeferredStop, Swap, Move
<1>7. ~\E w \in Workers : SendStopAccept(w) \/ RestartCAS(w)
  BY DEF SendStopAccept, RestartCAS, Swap, Move
<1>8. ~(Overloaded \/ Calmed \/ Wake \/ Reopen \/ ConsumerEnds)
  BY DEF Overloaded, Calmed, Wake, Reopen, ConsumerEnds, Spawn
<1>9. ~(CloseNotify \/ TimePasses \/ \E k \in {"over", "calm"} : Send(k))
  BY DEF CloseNotify, TimePasses, Send, EnvUnchanged
<1>10. \A u \in Threads \ {t} : ~WaitReturns(u)
  BY DEF WaitReturns, Move
<1> QED
  BY Steps, <1>1, <1>2, <1>3, <1>4, <1>5, <1>6, <1>7, <1>8, <1>9, <1>10

(* Done waiting, a stop has left behind at most goroutines yet to begin.   *)
THEOREM OnlyUnbegun == Spec => WaitMissesOnlyUnbegun
<1>1. Init => Asked
  BY DEF Init, Asked
<1>2. Shapes /\ Asked /\ [Next]_vars => Asked'
  BY AskedStep
<1>3. Shapes /\ Asked /\ [Next]_vars =>
        [\A t \in Threads : pc[t] = "wait" /\ pc'[t] # "wait"
            => \A i \in batch[t] : stops[i] \in {"spawned", "done"}]_vars
  <2> SUFFICES ASSUME Shapes, Asked, [Next]_vars,
                      NEW t \in Threads, pc[t] = "wait", pc'[t] # "wait",
                      NEW i \in batch[t]
               PROVE  stops[i] \in {"spawned", "done"}
    OBVIOUS
  <2>1. stops[i] # "draining"
    BY WaitStep DEF WaitReturns
  <2> QED
    BY <2>1 DEF Asked, Shapes
<1>4. TypeOK => Shapes
  BY DEF TypeOK
<1> QED
  BY <1>1, <1>2, <1>3, <1>4, TypeCorrect, PTL DEF Spec, WaitMissesOnlyUnbegun

-----------------------------------------------------------------------------
(* What the map and the servers say of each other as long as no start has  *)
(* run into a stop.  A Stop is asked of a server that was made, and only   *)
(* one that was asked stops.                                               *)
Stopped ==
    \A i \in Servers : /\ stops[i] # "none" => srv[i] # "none"
                       /\ srv[i] \in {"halting", "halted"} => stops[i] # "none"

(* Every port of a running group is in the map, or about to be.            *)
Filled ==
    /\ \A t \in Threads : Starting(t) => mine[t] = round
    /\ status = "Running" =>
          \A p \in Ports : servers[p] # 0 \/ \E t \in Threads : Starting(t) /\ p \in todo[t]

(* What is in the map has been made, and nobody has asked it to stop since *)
(* the last Clear; only a start in the middle of its loop has one unbound. *)
Placed ==
    /\ \A p \in Ports : servers[p] # 0 => srv[<<p, servers[p]>>] # "none"
    /\ \A p \in Ports, n \in 1 .. MaxRounds : srv[<<p, n>>] = "made" =>
          \E t \in Threads : pc[t] = "bind" /\ p \in todo[t] /\ mine[t] = n
    /\ \/ \E t \in Threads : pc[t] = "clear"
       \/ \A p \in Ports : servers[p] # 0 => stops[<<p, servers[p]>>] = "none"

(* Every server ever made is in the map or has been asked to stop.         *)
Known ==
    /\ \A i \in Servers : srv[i] # "none" => servers[i[1]] = i[2] \/ stops[i] # "none"
    /\ \A t \in Threads : pc[t] = "clear" =>
          \A i \in Servers : srv[i] # "none" => stops[i] # "none"

(* A server that could not bind found an earlier one of its port, one that *)
(* had listened and had been asked to stop; or else a listener that a      *)
(* failed one had left open, which goes back to such a server.             *)
Unbound(i) == srv[i] \in {"failed", "leaking"}
Blocks(p, m) == srv[<<p, m>>] \in {"serving", "halting", "halted"} /\ stops[<<p, m>>] # "none"
Blocked ==
    \A p \in Ports, n \in 1 .. MaxRounds : Unbound(<<p, n>>) =>
        \E m \in 1 .. MaxRounds : m < n /\ Blocks(p, m)

PlaceInv == Stopped /\ Filled /\ Placed /\ Known /\ Blocked

(* A step that concerns neither the map nor a server nor a start.          *)
Quiet ==
    /\ UNCHANGED <<servers, round, srv, stops, todo, mine>>
    /\ \A t \in Threads : \A at \in {"store", "bind", "clear"} : pc'[t] = at <=> pc[t] = at
    /\ status' = "Running" => status = "Running"

(* The steps that do concern them.                                         *)
LEMMA QuietSteps ==
    ASSUME Shapes, [Next]_vars
    PROVE  \/ Quiet
           \/ \E t \in Threads : StartCAS(t) /\ status = "WaitStart"
           \/ \E t \in Threads : \E p \in Ports : Store(t, p) \/ BindNext(t, p)
           \/ \E t \in Threads : RangeServers(t) \/ Clear(t)
           \/ \E i \in Servers : ServerMoves(i)
<1> USE DEF Shapes, Quiet
<1>1. CASE UNCHANGED vars
  BY <1>1 DEF vars, groupVars, srvVars, taskVars
<1>2. ASSUME NEW t \in Threads, StartCAS(t), status # "WaitStart"
      PROVE  Quiet
  BY <1>2 DEF StartCAS, Swap, Move, AfterStart, srvVars
<1>3. ASSUME NEW t \in Threads, StopCAS(t) \/ StopFin(t) \/ WaitReturns(t)
      PROVE  Quiet
  BY <1>3 DEF StopCAS, StopFin, WaitReturns, Swap, Move, OnlyStatus, AfterStop, groupVars,
              srvVars, taskVars
<1>4. CASE Boot \/ Signal \/ EndCAS \/ CloseStopchan \/ FinCAS \/ DeferredStop
  BY <1>4 DEF Boot, Signal, EndCAS, CloseStopchan, FinCAS, DeferredStop, Swap, Move,
              OnlyStatus, EndsAt, groupVars, srvVars, taskVars
<1>5. CASE \E w \in Workers : SendStopAccept(w) \/ RestartCAS(w)
  BY <1>5 DEF SendStopAccept, RestartCAS, Swap, Move, OnlyStatus, groupVars, srvVars,
              taskVars
<1>6. CASE Overloaded \/ Calmed \/ Wake \/ Reopen \/ ConsumerEnds
  BY <1>6 DEF Overloaded, Calmed, Wake, Reopen, ConsumerEnds, Spawn, RestUnchanged,
              groupVars, srvVars, taskVars
<1>7. CASE CloseNotify \/ TimePasses \/ \E k \in {"over", "calm"} : Send(k)
  BY <1>7 DEF CloseNotify, TimePasses, Send, EnvUnchanged, groupVars, srvVars, taskVars
<1> QED
  BY Steps, <1>1, <1>2, <1>3, <1>4, <1>5, <1>6, <1>7

(* A quiet step changes nothing these invariants speak of.                 *)
LEMMA QuietKeeps ==
    ASSUME Shapes, PlaceInv, Quiet
    PROVE  PlaceInv'
<1>1. \A t \in Threads : Starting(t)' <=> Starting(t)
  BY DEF Quiet, Starting
<1>2. Stopped' /\ Blocked'
  BY DEF PlaceInv, Stopped, Blocked, Unbound, Blocks, Quiet
<1>3. Filled'
  BY <1>1 DEF PlaceInv, Filled, Quiet
<1>4. Placed'
  BY DEF PlaceInv, Placed, Quiet
<1>5. Known'
  BY DEF PlaceInv, Known, Quiet
<1> QED
  BY <1>2, <1>3, <1>4, <1>5 DEF PlaceInv

(* A start that begins takes a round nobody has used, with an empty map.   *)
LEMMA BeginKeeps ==
    ASSUME Shapes, Rounds, Alone, Alone', MapEmptied, PlaceInv,
           NEW t \in Threads, StartCAS(t), status = "WaitStart"
    PROVE  PlaceInv'
<1>1. /\ pc[t] = "startCAS" /\ pc' = [pc EXCEPT ![t] = "store"]
      /\ status' = "Running" /\ UNCHANGED <<servers, srv, stops>>
      /\ round' = round + 1
      /\ todo' = [todo EXCEPT ![t] = Ports]
      /\ mine' = [mine EXCEPT ![t] = round + 1]
  BY DEF StartCAS, Swap, Move, srvVars
<1>2. \A u \in Threads : ~Starting(u)
  BY DEF Alone
<1>3. pc'[t] = "store" /\ todo'[t] = Ports /\ mine'[t] = round'
  BY <1>1 DEF Shapes
<1>4. \A u \in Threads : Starting(u)' => u = t
  BY <1>1, <1>2 DEF Starting, Shapes
<1>5. Starting(t)'
  BY <1>3 DEF Starting
<1>6. Filled'
  BY <1>3, <1>4, <1>5 DEF Filled
<1>7. Stopped' /\ Blocked'
  BY <1>1 DEF PlaceInv, Stopped, Blocked, Unbound, Blocks
<1>8. \A u \in Threads : pc'[u] = "clear" <=> pc[u] = "clear"
  BY <1>1 DEF Shapes
<1>9. \A p \in Ports, n \in 1 .. MaxRounds : srv[<<p, n>>] # "made"
  BY <1>2 DEF PlaceInv, Placed, Starting
<1>10. Placed'
  BY <1>1, <1>8, <1>9 DEF PlaceInv, Placed
<1>11. Known'
  BY <1>1, <1>8 DEF PlaceInv, Known
<1> QED
  BY <1>6, <1>7, <1>10, <1>11 DEF PlaceInv

(* LoadOrStore puts the new server in the place nobody holds.              *)
LEMMA StoreKeeps ==
    ASSUME Shapes, Rounds, Alone, MapFilling, PlaceInv,
           NEW t \in Threads, NEW p \in Ports, Store(t, p)
    PROVE  PlaceInv'
<1> DEFINE n == mine[t]
<1>1. /\ p \in todo[t] /\ pc[t] = "store" /\ pc' = [pc EXCEPT ![t] = "bind"]
      /\ servers' = [servers EXCEPT ![p] = IF @ = 0 THEN n ELSE @]
      /\ srv' = [srv EXCEPT ![<<p, n>>] = "made"]
      /\ UNCHANGED <<status, round, stops, todo, mine>>
  BY DEF Store, Move, taskVars
<1>2. Starting(t) /\ n \in 1 .. MaxRounds /\ <<p, n>> \in Servers
  BY <1>1 DEF Starting, Rounds, Shapes, Servers
<1>3. servers[p] = 0 /\ srv[<<p, n>>] = "none" /\ stops[<<p, n>>] = "none"
  BY <1>1, <1>2 DEF MapFilling, Untouched, PlaceInv, Stopped, Shapes
<1>4. /\ servers'[p] = n /\ srv'[<<p, n>>] = "made"
      /\ \A q \in Ports \ {p} : servers'[q] = servers[q]
      /\ \A i \in Servers \ {<<p, n>>} : srv'[i] = srv[i]
  BY <1>1, <1>2, <1>3 DEF Shapes
<1>5. \A u \in Threads : /\ Starting(u)' <=> Starting(u)
                         /\ pc'[u] = "clear" <=> pc[u] = "clear"
                         /\ pc[u] = "bind" => pc'[u] = "bind"
  BY <1>1 DEF Starting, Shapes
<1> HIDE DEF n
<1>6. Stopped'
  BY <1>1, <1>3, <1>4 DEF PlaceInv, Stopped
<1>7. Filled'
  <2>1. \A q \in Ports : servers[q] # 0 => servers'[q] # 0
    BY <1>2, <1>4
  <2> QED
    BY <1>1, <1>5, <2>1 DEF PlaceInv, Filled
<1>8. Placed'
  <2>1. ASSUME NEW q \in Ports, servers'[q] # 0
        PROVE  /\ srv'[<<q, servers'[q]>>] # "none"
               /\ (\A u \in Threads : pc[u] # "clear") => stops[<<q, servers'[q]>>] = "none"
    <3>1. CASE q = p
      BY <1>3, <1>4, <3>1
    <3>2. CASE q # p
      <4>1. servers'[q] = servers[q] /\ <<q, servers[q]>> \in Servers \ {<<p, n>>}
        BY <1>4, <2>1, <3>2 DEF Servers, Shapes
      <4> QED
        BY <1>4, <2>1, <4>1 DEF PlaceInv, Placed
    <3> QED
      BY <3>1, <3>2
  <2>2. ASSUME NEW q \in Ports, NEW m \in 1 .. MaxRounds, srv'[<<q, m>>] = "made"
        PROVE  \E u \in Threads : pc'[u] = "bind" /\ q \in todo'[u] /\ mine'[u] = m
    <3>1. CASE <<q, m>> = <<p, n>>
      BY <1>1, <3>1 DEF Shapes, n
    <3>2. CASE <<q, m>> # <<p, n>>
      <4>1. srv[<<q, m>>] = "made"
        BY <1>4, <2>2, <3>2 DEF Servers
      <4> QED
        BY <1>1, <1>5, <4>1 DEF PlaceInv, Placed
    <3> QED
      BY <3>1, <3>2
  <2>3. \/ \E u \in Threads : pc'[u] = "clear"
        \/ \A q \in Ports : servers'[q] # 0 => stops'[<<q, servers'[q]>>] = "none"
    BY <1>1, <1>5, <2>1
  <2> QED
    BY <2>1, <2>2, <2>3 DEF Placed
<1>9. Blocked'
  <2> SUFFICES ASSUME NEW q \in Ports, NEW k \in 1 .. MaxRounds, Unbound(<<q, k>>)'
               PROVE  \E m \in 1 .. MaxRounds : m < k /\ Blocks(q, m)'
    BY DEF Blocked
  <2>1. Unbound(<<q, k>>)
    BY <1>4 DEF Unbound, Servers
  <2>2. PICK m \in 1 .. MaxRounds : m < k /\ Blocks(q, m)
    BY <2>1 DEF PlaceInv, Blocked
  <2>3. <<q, m>> \in Servers \ {<<p, n>>}
    BY <1>3, <2>2 DEF Blocks, Servers
  <2>4. Blocks(q, m)'
    BY <1>1, <1>4, <2>2, <2>3 DEF Blocks
  <2> QED
    BY <2>2, <2>4
<1>10. Known'
  <2>1. ASSUME NEW i \in Servers, srv'[i] # "none"
        PROVE  servers'[i[1]] = i[2] \/ stops'[i] # "none"
    <3>1. CASE i = <<p, n>>
      BY <1>4, <3>1
    <3>2. CASE i # <<p, n>>
      <4>1. servers[i[1]] = i[2] \/ stops[i] # "none"
        BY <1>4, <2>1, <3>2 DEF PlaceInv, Known
      <4>2. i[1] \in Ports /\ i[2] # 0
        BY DEF Servers
      <4> QED
        BY <1>1, <1>3, <1>4, <4>1, <4>2
    <3> QED
      BY <3>1, <3>2
  <2>2. \A u \in Threads : pc'[u] # "clear"
    BY <1>2, <1>5 DEF Alone, Stopping
  <2> QED
    BY <2>1, <2>2 DEF Known
<1> QED
  BY <1>6, <1>7, <1>8, <1>9, <1>10 DEF PlaceInv

(* A server binds, or another one of its port is in the way; what is bound *)
(* and not this server's is an earlier one, on its way out.                *)
LEMMA BindKeeps ==
    ASSUME Shapes, Rounds, Alone, MapFilling, Reach, PlaceInv,
           NEW t \in Threads, NEW p \in Ports, BindNext(t, p)
    PROVE  PlaceInv'
<1> DEFINE n == mine[t]
<1>0. PICK s \in {"failed", "leaking", "serving"} :
              /\ srv' = [srv EXCEPT ![<<p, n>>] = s]
              /\ s # "serving" => \E m \in 1 .. MaxRounds : BoundSrv(<<p, m>>)
  BY BindIs
<1>1. /\ p \in todo[t] /\ pc[t] = "bind" /\ srv[<<p, n>>] = "made"
      /\ pc' = [pc EXCEPT ![t] = IF todo[t] = {p} THEN AfterStart(t) ELSE "store"]
      /\ todo' = [todo EXCEPT ![t] = @ \ {p}]
      /\ UNCHANGED <<status, servers, round, stops>>
      /\ mine' = IF todo[t] = {p} THEN [mine EXCEPT ![t] = 0] ELSE mine
  BY DEF BindNext, Move, groupVars
<1>2. Starting(t) /\ n \in 1 .. MaxRounds /\ <<p, n>> \in Servers
  BY <1>1 DEF Starting, Rounds, Shapes, Servers
<1>3. InWork(t, p) /\ \A q \in todo[t] \ {p} : Untouched(t, q)
  BY <1>1 DEF MapFilling, Untouched
<1>4. servers[p] = n /\ n = round
  BY <1>2, <1>3 DEF InWork, PlaceInv, Filled
<1>5. /\ srv'[<<p, n>>] = s
      /\ \A i \in Servers \ {<<p, n>>} : srv'[i] = srv[i]
  BY <1>0, <1>2 DEF Shapes
<1>6. \A u \in Threads : /\ Starting(u)' => u = t
                         /\ pc'[u] = "clear" <=> pc[u] = "clear"
                         /\ pc[u] = "bind" => u = t
  BY <1>1, <1>2 DEF Starting, Shapes, Alone, AfterStart
<1>7. Starting(t)' => mine'[t] = n /\ todo'[t] = todo[t] \ {p}
  BY <1>1 DEF Starting, Shapes, AfterStart
<1>8. todo[t] # {p} => Starting(t)'
  BY <1>1 DEF Starting, Shapes
<1> HIDE DEF n
<1>9. Stopped'
  <2>1. stops[<<p, n>>] # "none" => srv'[<<p, n>>] # "none"
    BY <1>5
  <2>2. srv'[<<p, n>>] \notin {"halting", "halted"}
    BY <1>5
  <2> QED
    BY <1>1, <1>5, <2>1, <2>2 DEF PlaceInv, Stopped
<1>10. Filled'
  <2>1. ASSUME status = "Running", NEW q \in Ports
        PROVE  servers[q] # 0 \/ (Starting(t)' /\ q \in todo'[t])
    <3>1. CASE q = p
      BY <1>2, <1>4, <3>1
    <3>2. CASE q # p
      <4>1. servers[q] # 0 \/ q \in todo[t]
        BY <1>2, <2>1 DEF PlaceInv, Filled, Alone
      <4> QED
        BY <1>7, <1>8, <3>2, <4>1
    <3> QED
      BY <3>1, <3>2
  <2> QED
    BY <1>1, <1>4, <1>6, <1>7, <2>1 DEF Filled
<1>11. Placed'
  <2>1. ASSUME NEW q \in Ports, servers[q] # 0
        PROVE  srv'[<<q, servers[q]>>] # "none"
    <3>1. <<q, servers[q]>> \in Servers
      BY <2>1 DEF Servers, Shapes
    <3> QED
      BY <1>5, <2>1, <3>1 DEF PlaceInv, Placed
  <2>2. ASSUME NEW q \in Ports, NEW m \in 1 .. MaxRounds
        PROVE  srv'[<<q, m>>] # "made"
    <3>1. CASE <<q, m>> = <<p, n>>
      BY <1>5, <3>1
    <3>2. CASE <<q, m>> # <<p, n>>
      <4>1. SUFFICES ASSUME srv[<<q, m>>] = "made" PROVE FALSE
        BY <1>5, <3>2 DEF Servers
      <4>2. q \in todo[t] /\ m = n
        BY <1>6, <4>1 DEF PlaceInv, Placed, n
      <4>3. q # p
        BY <3>2, <4>2
      <4> QED
        BY <1>3, <4>1, <4>2, <4>3 DEF Untouched, n
    <3> QED
      BY <3>1, <3>2
  <2> QED
    BY <1>1, <1>6, <2>1, <2>2 DEF PlaceInv, Placed
<1>12. Blocked'
  <2> SUFFICES ASSUME NEW q \in Ports, NEW k \in 1 .. MaxRounds, Unbound(<<q, k>>)'
               PROVE  \E m \in 1 .. MaxRounds : m < k /\ Blocks(q, m)'
    BY DEF Blocked
  <2>1. \A m \in 1 .. MaxRounds : Blocks(q, m) => Blocks(q, m)'
    BY <1>1, <1>5 DEF Blocks, Servers
  <2>2. CASE <<q, k>> # <<p, n>>
    <3>1. Unbound(<<q, k>>)
      BY <1>5, <2>2 DEF Unbound, Servers
    <3> QED
      BY <2>1, <3>1 DEF PlaceInv, Blocked
  <2>3. CASE <<q, k>> = <<p, n>>
    <3>1. PICK m \in 1 .. MaxRounds : BoundSrv(<<p, m>>)
      BY <1>0, <1>5, <2>3 DEF Unbound
    <3>2. m # n
      BY <1>1, <3>1 DEF BoundSrv, n
    <3>3. <<p, m>> \in Servers
      BY DEF Servers
    <3>4. ~(m > round)
      BY <3>1, <3>3 DEF Rounds, BoundSrv
    <3>5. m < n
      BY <1>2, <1>4, <3>2, <3>4 DEF Shapes
    <3>6. stops[<<p, m>>] # "none"
      BY <1>4, <3>1, <3>2, <3>3 DEF BoundSrv, PlaceInv, Known
    <3>7. CASE srv[<<p, m>>] # "leaking"
      <4>1. Blocks(p, m)
        BY <3>1, <3>6, <3>7 DEF Blocks, BoundSrv
      <4> QED
        BY <2>1, <2>3, <3>5, <4>1
    <3>8. CASE srv[<<p, m>>] = "leaking"
      <4>1. PICK h \in 1 .. MaxRounds : h < m /\ Blocks(p, h)
        BY <3>8 DEF PlaceInv, Blocked, Unbound
      <4>2. h < n
        BY <1>2, <3>5, <4>1
      <4> QED
        BY <2>1, <2>3, <4>1, <4>2
    <3> QED
      BY <3>7, <3>8
  <2> QED
    BY <2>2, <2>3
<1>13. Known'
  <2>1. \A i \in Servers : srv'[i] # "none" => srv[i] # "none"
    BY <1>1, <1>5
  <2> QED
    BY <1>1, <1>6, <2>1 DEF PlaceInv, Known
<1> QED
  BY <1>9, <1>10, <1>11, <1>12, <1>13 DEF PlaceInv

(* A stop asks what is in the map, then empties it.                        *)
LEMMA RangeKeeps ==
    ASSUME Shapes, PlaceInv, NEW t \in Threads, RangeServers(t)
    PROVE  PlaceInv'
<1> DEFINE found == {<<p, servers[p]>> : p \in {q \in Ports : servers[q] # 0}}
<1>1. RangeOver(t, found)
  BY DEF RangeServers
<1>2. \A i \in found : i \in Servers /\ srv[i] # "none"
  BY DEF Servers, Shapes, PlaceInv, Placed
<1> HIDE DEF found
<1>3. /\ UNCHANGED <<status, servers, round, srv, todo, mine>>
      /\ pc[t] = "range" /\ pc' = [pc EXCEPT ![t] = "clear"]
      /\ \A i \in Servers : stops'[i] # stops[i] => i \in found /\ stops'[i] = "spawned"
  BY <1>1 DEF RangeOver, Move, groupVars
<1>4. \A i \in Servers : stops[i] # "none" => stops'[i] # "none"
  BY <1>3
<1>5. \A u \in Threads : /\ Starting(u)' <=> Starting(u)
                         /\ pc[u] = "bind" => pc'[u] = "bind"
  BY <1>3 DEF Starting, Shapes
<1>6. Stopped'
  BY <1>2, <1>3, <1>4 DEF PlaceInv, Stopped
<1>7. Filled'
  BY <1>3, <1>5 DEF PlaceInv, Filled
<1>8. Placed'
  <2>1. pc'[t] = "clear"
    BY <1>3 DEF Shapes
  <2> QED
    BY <1>3, <1>5, <2>1 DEF PlaceInv, Placed
<1>9. Blocked'
  BY <1>3, <1>4 DEF PlaceInv, Blocked, Unbound, Blocks, Servers
<1>10. Known'
  <2>1. ASSUME NEW i \in Servers, srv[i] # "none"
        PROVE  stops'[i] # "none"
    <3>1. CASE stops[i] # "none"
      BY <1>4, <3>1
    <3>2. CASE servers[i[1]] = i[2]
      <4>1. i \in found
        BY <3>2 DEF found, Servers
      <4> QED
        BY <1>1, <4>1 DEF RangeOver
    <3> QED
      BY <2>1, <3>1, <3>2 DEF PlaceInv, Known
  <2> QED
    BY <1>3, <2>1 DEF Known
<1> QED
  BY <1>6, <1>7, <1>8, <1>9, <1>10 DEF PlaceInv

LEMMA ClearKeeps ==
    ASSUME Shapes, Alone, PlaceInv, NEW t \in Threads, Clear(t)
    PROVE  PlaceInv'
<1>1. /\ UNCHANGED <<status, round, srv, stops, todo, mine>>
      /\ pc[t] = "clear" /\ pc' = [pc EXCEPT ![t] = "wait"]
      /\ servers' = [p \in Ports |-> 0]
  BY DEF Clear, Move, srvVars, taskVars
<1>2. status # "Running"
  BY <1>1 DEF Alone, Stopping
<1>3. \A u \in Threads : /\ Starting(u)' <=> Starting(u)
                         /\ pc[u] = "bind" => pc'[u] = "bind"
  BY <1>1 DEF Starting, Shapes
<1>4. Stopped' /\ Blocked'
  BY <1>1 DEF PlaceInv, Stopped, Blocked, Unbound, Blocks
<1>5. Filled'
  BY <1>1, <1>2, <1>3 DEF PlaceInv, Filled
<1>6. Placed'
  BY <1>1, <1>3 DEF PlaceInv, Placed
<1>7. Known'
  BY <1>1 DEF PlaceInv, Known
<1> QED
  BY <1>4, <1>5, <1>6, <1>7 DEF PlaceInv

(* The goroutines that call Stop, and the listeners going, change nothing  *)
(* of it: only who was asked to stop does.                                 *)
LEMMA ServersKeep ==
    ASSUME Shapes, Reach, PlaceInv, NEW i \in Servers, ServerMoves(i)
    PROVE  PlaceInv'
<1> USE DEF StopTaken, StopIdle, StopOver, Released, Swept
<1>1. UNCHANGED <<status, servers, round, pc, todo, mine>>
  BY ServerMoveIs DEF groupVars, taskVars
<1>2. \A j \in Servers : stops'[j] # "none" <=> stops[j] # "none"
  BY ServerMoveIs
<1>3. \A j \in Servers :
         \/ srv'[j] = srv[j]
         \/ srv'[j] = "halting" /\ srv[j] = "serving" /\ stops[j] # "none"
         \/ srv'[j] = "halted" /\ srv[j] = "halting"
         \/ srv'[j] = "failed" /\ srv[j] = "leaking"
  BY ServerMoveIs
<1>4. Stopped'
  BY <1>2, <1>3 DEF PlaceInv, Stopped
<1>5. Filled'
  BY <1>1 DEF PlaceInv, Filled, Starting
<1>6. Placed'
  <2>1. ASSUME NEW p \in Ports, servers[p] # 0
        PROVE  /\ srv'[<<p, servers[p]>>] # "none"
               /\ stops[<<p, servers[p]>>] = "none" => stops'[<<p, servers[p]>>] = "none"
    <3>1. <<p, servers[p]>> \in Servers
      BY <2>1 DEF Servers, Shapes
    <3>2. srv[<<p, servers[p]>>] # "none"
      BY <2>1 DEF PlaceInv, Placed
    <3> QED
      BY <1>2, <1>3, <3>1, <3>2
  <2>2. \A p \in Ports, n \in 1 .. MaxRounds :
           srv'[<<p, n>>] = "made" => srv[<<p, n>>] = "made"
    BY <1>3 DEF Servers
  <2> QED
    BY <1>1, <2>1, <2>2 DEF PlaceInv, Placed
<1>7. Blocked'
  <2> SUFFICES ASSUME NEW q \in Ports, NEW k \in 1 .. MaxRounds, Unbound(<<q, k>>)'
               PROVE  \E m \in 1 .. MaxRounds : m < k /\ Blocks(q, m)'
    BY DEF Blocked
  <2>1. Unbound(<<q, k>>)
    BY <1>3 DEF Unbound, Servers
  <2>2. \A m \in 1 .. MaxRounds : Blocks(q, m) => Blocks(q, m)'
    BY <1>2, <1>3 DEF Blocks, Servers
  <2> QED
    BY <2>1, <2>2 DEF PlaceInv, Blocked
<1>8. Known'
  BY <1>1, <1>2, <1>3 DEF PlaceInv, Known
<1> QED
  BY <1>4, <1>5, <1>6, <1>7, <1>8 DEF PlaceInv

(* Until a start runs into a stop every step keeps all of it.              *)
LEMMA PlaceStep ==
    ASSUME Shapes, Rounds, Alone, Alone', MapEmptied, MapFilling, Reach, PlaceInv,
           [Next]_vars
    PROVE  PlaceInv'
  BY QuietSteps, QuietKeeps, BeginKeeps, StoreKeeps, BindKeeps, RangeKeeps, ClearKeeps,
     ServersKeep

(* The restored message can go out with a port unserved                    *)
(* (RestoredMeansServed fails).  As long as no start has run into a stop,  *)
(* a settled running group has a server in the map for every port, and     *)
(* where nobody serves the port there is one reason: that server could not *)
(* bind, and behind it is an earlier server of the port, long since        *)
(* stopped and its Stop returned, that still had a listener.               *)
HeldByOld(p, n) ==
    /\ Unbound(<<p, n>>)
    /\ \E m \in 1 .. MaxRounds : /\ m < n
                                 /\ srv[<<p, m>>] \in {"halting", "halted"}
                                 /\ stops[<<p, m>>] = "done"
OnlyOldListenersBlock ==
    ~overlapped /\ status = "Running" /\ Settled =>
        \A p \in Ports :
            /\ servers[p] # 0
            /\ \/ \E n \in 1 .. MaxRounds : srv[<<p, n>>] = "serving"
               \/ HeldByOld(p, servers[p])

LEMMA OnlyOldListeners ==
    ASSUME Shapes, Reach, PlaceInv
    PROVE  OnlyOldListenersBlock
<1> SUFFICES ASSUME status = "Running", Settled, NEW p \in Ports
             PROVE  /\ servers[p] # 0
                    /\ \/ \E n \in 1 .. MaxRounds : srv[<<p, n>>] = "serving"
                       \/ HeldByOld(p, servers[p])
  BY DEF OnlyOldListenersBlock
<1>1. \A t \in Threads : ~Starting(t) /\ pc[t] \notin {"bind", "clear"}
  BY DEF Settled, Starting
<1>2. servers[p] # 0
  BY <1>1 DEF PlaceInv, Filled
<1> DEFINE n == servers[p]
<1>3. n \in 1 .. MaxRounds /\ <<p, n>> \in Servers
  BY <1>2 DEF Shapes, Servers
<1>4. srv[<<p, n>>] \notin {"none", "made"} /\ stops[<<p, n>>] = "none"
  BY <1>1, <1>2, <1>3 DEF PlaceInv, Placed
<1>5. srv[<<p, n>>] = "serving" \/ Unbound(<<p, n>>)
  BY <1>3, <1>4 DEF PlaceInv, Stopped, Shapes, Unbound
<1>6. ASSUME Unbound(<<p, n>>)
      PROVE  HeldByOld(p, n) \/ \E m \in 1 .. MaxRounds : srv[<<p, m>>] = "serving"
  <2>1. PICK m \in 1 .. MaxRounds : m < n /\ Blocks(p, m)
    BY <1>3, <1>6 DEF PlaceInv, Blocked
  <2>2. <<p, m>> \in Servers
    BY DEF Servers
  <2>3. stops[<<p, m>>] = "done"
    BY <2>1, <2>2 DEF Blocks, Settled
  <2> QED
    BY <1>6, <2>1, <2>3 DEF Blocks, HeldByOld
<1> QED
  BY <1>2, <1>3, <1>5, <1>6

(* Without an overlap, what a restart leaves unserved is what a stopped    *)
(* server still held.                                                      *)
THEOREM OnlyOldListenersDo == Spec => []OnlyOldListenersBlock
<1> DEFINE Base == TypeOK /\ MapInv /\ StatusInv /\ CalmInv
           Inv  == ~overlapped => PlaceInv
<1>1. Init => Inv
  BY DEF Init, PlaceInv, Stopped, Filled, Placed, Known, Blocked, Unbound, Starting,
         Servers
<1>2. Base /\ Base' /\ Inv /\ [Next]_vars => Inv'
  <2> SUFFICES ASSUME Base, Base', Inv, [Next]_vars, ~overlapped'
               PROVE  PlaceInv'
    OBVIOUS
  <2>1. ~overlapped
    BY OverlapStays DEF TypeOK
  <2> QED
    BY <2>1, PlaceStep DEF MapInv, TypeOK
<1>3. Base /\ Inv => OnlyOldListenersBlock
  <2> SUFFICES ASSUME Base, Inv, ~overlapped
               PROVE  OnlyOldListenersBlock
    BY DEF OnlyOldListenersBlock
  <2> QED
    BY OnlyOldListeners DEF MapInv, TypeOK
<1>4. Spec => []Base
  BY Inductive
<1> QED
  BY <1>1, <1>2, <1>3, <1>4, PTL DEF Spec

-----------------------------------------------------------------------------
(*                  Every server lives the life of ServerLife              *)

(* Even where starts and stops run into each other, each start has a round *)
(* of its own and takes each of its ports once.                            *)
Own ==
    \A t, u \in Threads : Starting(t) /\ Starting(u) /\ mine[t] = mine[u] => t = u
Fresh ==
    \A t \in Threads :
        /\ pc[t] = "store" => \A p \in todo[t] : srv[<<p, mine[t]>>] = "none"
        /\ pc[t] = "bind" => \E p \in todo[t] :
              \A q \in todo[t] \ {p} : srv[<<q, mine[t]>>] = "none"

(* What leaves the starts, and the servers yet to be made, as they are.    *)
LEMMA OwnFrame ==
    ASSUME Shapes, Rounds, Own, Fresh, UNCHANGED <<todo, mine>>,
           \A t \in Threads : \A at \in {"store", "bind"} : pc'[t] = at <=> pc[t] = at,
           \A i \in Servers : srv[i] = "none" => srv'[i] = "none"
    PROVE  Own' /\ Fresh'
<1>1. \A t \in Threads : Starting(t)' <=> Starting(t)
  BY DEF Starting
<1>2. Own'
  BY <1>1 DEF Own
<1>3. \A t \in Threads : Starting(t) => \A p \in todo[t] : <<p, mine[t]>> \in Servers
  BY DEF Rounds, Shapes, Servers
<1>4. \A t \in Threads : Starting(t) => \A p \in todo[t] :
          srv[<<p, mine[t]>>] = "none" => srv'[<<p, mine[t]>>] = "none"
  BY <1>3
<1>5. Fresh'
  BY <1>4 DEF Fresh, Starting
<1> QED
  BY <1>2, <1>5

LEMMA OwnStep ==
    ASSUME Shapes, Rounds, Own, Fresh, [Next]_vars
    PROVE  Own' /\ Fresh'
<1>1. CASE Quiet
  BY <1>1, OwnFrame DEF Quiet
<1>2. ASSUME NEW t \in Threads, StartCAS(t), status = "WaitStart"
      PROVE  Own' /\ Fresh'
  <2>1. /\ pc' = [pc EXCEPT ![t] = "store"] /\ pc[t] = "startCAS"
        /\ todo' = [todo EXCEPT ![t] = Ports]
        /\ mine' = [mine EXCEPT ![t] = round + 1]
        /\ UNCHANGED srv /\ round < MaxRounds
    BY <1>2 DEF StartCAS, Swap, Move, srvVars
  <2>2. \A u \in Threads \ {t} : /\ pc'[u] = pc[u] /\ todo'[u] = todo[u]
                                 /\ mine'[u] = mine[u] /\ mine[u] <= round
    BY <2>1 DEF Rounds, Shapes
  <2>3. pc'[t] = "store" /\ todo'[t] = Ports /\ mine'[t] = round + 1
    BY <2>1 DEF Shapes
  <2>4. round \in Nat /\ \A u \in Threads : mine[u] \in Nat
    BY ConstantsAssumption DEF Shapes
  <2>5. \A u \in Threads \ {t} : mine'[u] # mine'[t]
    BY <2>2, <2>3, <2>4
  <2>6. Own'
    BY <2>2, <2>5 DEF Own, Starting
  <2>7. \A p \in Ports : <<p, round + 1>> \in Servers /\ round + 1 > round
    BY <2>1, <2>4, ConstantsAssumption DEF Servers
  <2>8. \A p \in Ports : srv[<<p, round + 1>>] = "none"
    BY <2>7 DEF Rounds
  <2>9. Fresh'
    BY <2>1, <2>2, <2>3, <2>8 DEF Fresh
  <2> QED
    BY <2>6, <2>9
<1>3. ASSUME NEW t \in Threads, NEW p \in Ports, Store(t, p) \/ BindNext(t, p)
      PROVE  Own' /\ Fresh'
  <2> DEFINE n == mine[t]
  <2>1. /\ Starting(t) /\ p \in todo[t] /\ n \in 1 .. MaxRounds
        /\ \A u \in Threads \ {t} : /\ pc'[u] = pc[u] /\ todo'[u] = todo[u]
                                    /\ mine'[u] = mine[u]
        /\ Starting(t)' => mine'[t] = n
    BY <1>3 DEF Store, BindNext, Move, Starting, AfterStart, taskVars, Rounds, Shapes
  <2>2. \A u \in Threads \ {t} : Starting(u)' <=> Starting(u)
    BY <2>1 DEF Starting
  <2>3. Own'
    BY <2>1, <2>2 DEF Own
  <2>4. \A i \in Servers : i # <<p, n>> => srv'[i] = srv[i]
    BY <1>3, BindIs DEF Store, Shapes
  <2>5. ASSUME NEW u \in Threads, Starting(u), NEW q \in todo[u], <<q, mine[u]>> # <<p, n>>
        PROVE  srv'[<<q, mine[u]>>] = srv[<<q, mine[u]>>]
    <3>1. <<q, mine[u]>> \in Servers
      BY <2>5 DEF Rounds, Shapes, Servers
    <3> QED
      BY <2>4, <2>5, <3>1
  <2>6. ASSUME NEW u \in Threads \ {t}
        PROVE  /\ pc'[u] = "store" => \A q \in todo'[u] : srv'[<<q, mine'[u]>>] = "none"
               /\ pc'[u] = "bind" => \E r \in todo'[u] :
                     \A q \in todo'[u] \ {r} : srv'[<<q, mine'[u]>>] = "none"
    <3>1. CASE ~Starting(u)
      BY <2>1, <3>1 DEF Starting
    <3>2. CASE Starting(u)
      <4>1. mine[u] # n
        BY <2>1, <3>2 DEF Own
      <4>2. \A q \in todo[u] : srv'[<<q, mine[u]>>] = srv[<<q, mine[u]>>]
        BY <2>5, <3>2, <4>1
      <4> QED
        BY <2>1, <4>2 DEF Fresh
    <3> QED
      BY <3>1, <3>2
  <2>7. /\ pc'[t] = "store" => \A q \in todo'[t] : srv'[<<q, mine'[t]>>] = "none"
        /\ pc'[t] = "bind" => \E r \in todo'[t] :
              \A q \in todo'[t] \ {r} : srv'[<<q, mine'[t]>>] = "none"
    <3>1. CASE Store(t, p)
      <4>1. pc[t] = "store" /\ pc'[t] = "bind" /\ todo' = todo /\ mine' = mine
        BY <3>1 DEF Store, Move, taskVars, Shapes
      <4>2. \A q \in todo[t] \ {p} : srv'[<<q, n>>] = "none"
        BY <2>1, <2>5, <4>1 DEF Fresh
      <4> QED
        BY <2>1, <4>1, <4>2
    <3>2. CASE BindNext(t, p)
      <4>1. /\ pc[t] = "bind" /\ srv[<<p, n>>] = "made" /\ todo'[t] = todo[t] \ {p}
            /\ pc'[t] # "bind"
            /\ pc'[t] = "store" => mine'[t] = n
        BY <3>2 DEF BindNext, Move, AfterStart, Shapes
      <4>2. \A q \in todo[t] \ {p} : srv[<<q, n>>] = "none"
        BY <2>1, <4>1 DEF Fresh
      <4>3. \A q \in todo[t] \ {p} : srv'[<<q, n>>] = "none"
        BY <2>1, <2>5, <4>2
      <4> QED
        BY <4>1, <4>3
    <3> QED
      BY <1>3, <3>1, <3>2
  <2>8. Fresh'
    BY <2>6, <2>7 DEF Fresh
  <2> QED
    BY <2>3, <2>8
<1>4. ASSUME NEW t \in Threads, RangeServers(t) \/ Clear(t)
      PROVE  Own' /\ Fresh'
  <2>1. UNCHANGED <<srv, todo, mine>>
    BY <1>4 DEF RangeServers, RangeOver, Clear, srvVars, taskVars
  <2>2. \A u \in Threads : \A at \in {"store", "bind"} : pc'[u] = at <=> pc[u] = at
    BY <1>4 DEF RangeServers, RangeOver, Clear, Move, Shapes
  <2> QED
    BY <2>1, <2>2, OwnFrame
<1>5. ASSUME NEW i \in Servers, ServerMoves(i)
      PROVE  Own' /\ Fresh'
  <2>1. UNCHANGED <<pc, todo, mine>>
    BY <1>5, ServerMoveIs DEF taskVars
  <2>2. \A j \in Servers : srv[j] = "none" => srv'[j] = "none"
    BY <1>5, ServerMoveIs DEF StopTaken, StopIdle, StopOver, Released, Swept
  <2> QED
    BY <2>1, <2>2, OwnFrame
<1> QED
  BY QuietSteps, <1>1, <1>2, <1>3, <1>4, <1>5

(* A step of the group is a step in the life of each server, or none.      *)
LEMMA LifeStep ==
    ASSUME Shapes, Rounds, Fresh, [Next]_vars, NEW i \in Servers
    PROVE  [Life(i)!Next]_(Life(i)!vars)
<1> DEFINE life == IF srv[i] = "none" THEN "made" ELSE srv[i]
<1> USE DEF Life!Next, Life!vars, Life!Serve, Life!Fail, Life!Leak, Life!Halt,
            Life!Drained, Life!Release, Life!Collect, Life!Become
<1>1. CASE UNCHANGED <<srv[i], stops[i]>>
  BY <1>1
<1>2. CASE Quiet
  BY <1>1, <1>2 DEF Quiet
<1>3. CASE \E t \in Threads : StartCAS(t) \/ Clear(t)
  BY <1>1, <1>3 DEF StartCAS, Clear, srvVars
<1>4. ASSUME NEW t \in Threads, RangeServers(t)
      PROVE  srv'[i] = srv[i] /\ (stops'[i] = "draining" <=> stops[i] = "draining")
  BY <1>4 DEF RangeServers, RangeOver, Shapes
<1>5. ASSUME NEW t \in Threads, NEW p \in Ports, Store(t, p)
      PROVE  UNCHANGED <<life, stops[i]>>
  <2>1. p \in todo[t] /\ pc[t] = "store" /\ UNCHANGED stops
    BY <1>5 DEF Store, Move
  <2>2. srv[<<p, mine[t]>>] = "none"
    BY <2>1 DEF Fresh
  <2>3. srv' = [srv EXCEPT ![<<p, mine[t]>>] = "made"]
    BY <1>5 DEF Store
  <2> QED
    BY <2>1, <2>2, <2>3 DEF Shapes
<1>6. ASSUME NEW t \in Threads, NEW p \in Ports, BindNext(t, p)
      PROVE  [Life(i)!Next]_(Life(i)!vars)
  <2>1. srv[<<p, mine[t]>>] = "made" /\ UNCHANGED stops
    BY <1>6 DEF BindNext
  <2>2. PICK s \in {"failed", "leaking", "serving"} :
           /\ srv' = [srv EXCEPT ![<<p, mine[t]>>] = s]
           /\ s = "leaking" => Families[p] = {"tcp4", "tcp6"}
    BY <1>6, BindIs
  <2>3. CASE i # <<p, mine[t]>>
    BY <1>1, <2>1, <2>2, <2>3 DEF Shapes
  <2>4. CASE i = <<p, mine[t]>>
    <3>1. srv[i] = "made" /\ srv'[i] = s /\ stops'[i] = stops[i] /\ i[1] = p
      BY <2>1, <2>2, <2>4 DEF Shapes
    <3> QED
      BY <2>2, <3>1
  <2> QED
    BY <2>3, <2>4
<1>7. ASSUME NEW j \in Servers, ServerMoves(j)
      PROVE  [Life(i)!Next]_(Life(i)!vars)
  <2>1. CASE j # i
    BY <1>1, <1>7, <2>1, ServerMoveIs
  <2>2. CASE j = i
    <3>1. StopTaken(i) \/ StopIdle(i) \/ StopOver(i) \/ Released(i) \/ Swept(i)
      BY <1>7, <2>2, ServerMoveIs
    <3> QED
      BY <3>1 DEF StopTaken, StopIdle, StopOver, Released, Swept, HeedsStop
  <2> QED
    BY <2>1, <2>2
<1> QED
  BY QuietSteps, <1>2, <1>3, <1>4, <1>5, <1>6, <1>7

(* Whatever starts and stops run into each other, no server of the group   *)
(* does what ServerLife, hence ForwardServer, rules out.                   *)
THEOREM ServersLive == ASSUME NEW CONSTANT i \in Servers PROVE Spec => Life(i)!Spec
<1>1. Init => Life(i)!Init
  BY ConstantsAssumption DEF Init, Life!Init, Servers
<1>2. Init => Own /\ Fresh
  BY ConstantsAssumption DEF Init, Own, Fresh, Starting, Threads
<1>3. TypeOK /\ MapInv /\ Own /\ Fresh /\ [Next]_vars => Own' /\ Fresh'
  BY OwnStep DEF TypeOK, MapInv
<1>4. TypeOK /\ MapInv /\ Fresh /\ [Next]_vars => [Life(i)!Next]_(Life(i)!vars)
  BY LifeStep DEF TypeOK, MapInv
<1> QED
  BY <1>1, <1>2, <1>3, <1>4, Inductive, PTL DEF Spec, Life!Spec
=============================================================================
