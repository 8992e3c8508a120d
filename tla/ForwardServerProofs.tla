------------------------- MODULE ForwardServerProofs -------------------------
(***************************************************************************)
(* Proofs about ForwardServer, for any set of connections, addresses and   *)
(* configurations.  The safety invariants the runs check on small          *)
(* instances follow from the inductive invariant IInv.                     *)
(***************************************************************************)
EXTENDS ForwardServer, TLAPS

InHand == {"check", "dial", "header"}

(* No loop runs before Start launches them.                                *)
NotLaunched ==
    starter \in {"tcp4", "tcp6", "launch", "failed"} =>
        \A f \in Families : loop[f] = "off"

(* A loop holds a connection exactly between Accept and the end of accept, *)
(* one of its own listener, open and not handed over yet.                  *)
LoopHolds ==
    \A f \in Families :
        /\ loop[f] \in InHand <=> cur[f] # NoConn
        /\ cur[f] # NoConn => /\ Via[cur[f]] = f
                              /\ fwd[cur[f]] = "none"
                              /\ sock[cur[f]] = "open"

(* A forward has a socket that was accepted; one about to leave has closed *)
(* both sockets.                                                           *)
FwdSockets ==
    \A c \in Conns :
        /\ fwd[c] # "none" => sock[c] \in {"open", "closed"}
        /\ fwd[c] \in {"deleting", "leaving", "done"} =>
              sock[c] # "open" /\ target[c] # "open"

(* An entry of the registry always names a forward that is registered.     *)
EntriesLive ==
    \A a \in Addrs :
        allconn[a] # NoConn => /\ allconn[a] \in Registered
                               /\ RemoteAddr[allconn[a]] = a

(* Until the one sweep every registered forward still has its entry.       *)
SweepComplete ==
    /\ stopper \in {"idle", "declined", "close", "sleep"} => killer = "none"
    /\ killer \in {"none", "sweep"} =>
          \A c \in Registered : allconn[RemoteAddr[c]] = c

(* A listener that has taken its last call is not in Accept again.         *)
LastCallSpent ==
    \A f \in Families :
        /\ lastcall[f] <= 1
        /\ ~stopchan => lastcall[f] = 0
        /\ lastcall[f] = 1 => loop[f] # "accept"

(* Nothing but Start opens a listener, nothing but a loop that has seen    *)
(* stopchan closes one, and Stop gets past its guard at most once.         *)
Phases ==
    /\ starter \in {"tcp4", "tcp6", "launch", "run", "failed"} => status = "Ready"
    /\ starter \in {"tcp4", "tcp6"} => ln[starter] = "nil"
    /\ starter = "tcp4" => ln["tcp6"] = "nil"
    /\ stopper \in {"idle", "declined"} <=> status \in {"Ready", "Running"}
    /\ stopchan <=> stopper \in {"sleep", "wait", "returned"}
    /\ stopper = "close" => ln["tcp4"] = "open"
    /\ \A f \in Families :
          /\ loop[f] # "off" => ln[f] = "open"
          /\ loop[f] = "exit" => stopchan

IInv ==
    /\ TypeOK
    /\ Phases
    /\ NotLaunched
    /\ LoopHolds
    /\ FwdSockets
    /\ SocketsOwned
    /\ EntriesLive
    /\ SweepComplete
    /\ SweepMissesOnlyLate
    /\ LastCallSpent

-----------------------------------------------------------------------------
(* How a connection is dropped after the dial, whatever the reason:        *)
(* HeaderFails here; SshServer, which steps alike, has others.             *)
HeaderDrop(f) == LoopMove(f, "header", "select") /\ DropCur(f)

(* What may happen to a forward between its registration and its end.      *)
Copies(c) == PeerEnds(c) \/ CopyCut(c) \/ Stalls(c) \/ StallEnds(c)

Moves == Next \/ \E f \in Families : HeaderDrop(f)

(* What one step may be, action by action: the shape every proof follows.  *)
LEMMA Steps ==
    ASSUME Moves
    PROVE  \/ \E f \in Families : Listen(f) \/ ListenFails(f)
           \/ Launch \/ SetRunning
           \/ \E f \in Families :
                 \/ LoopSelect(f) \/ AcceptError(f) \/ Deny(f) \/ Admit(f)
                 \/ DialFails(f) \/ Dial(f) \/ HeaderDrop(f) \/ HandOver(f)
                 \/ LoopExit(f) \/ \E c \in Conns : Accept(f, c)
           \/ \E c \in Conns :
                 \/ FwdAdd(c) \/ FwdRegister(c) \/ FwdDuplicate(c) \/ Copies(c)
                 \/ FwdClose(c) \/ FwdDelete(c) \/ FwdDone(c) \/ Arrive(c)
           \/ KillerSweeps \/ KillerClears
           \/ StopDeclined \/ StopBegins \/ StopCloses \/ StopSpawnsKiller \/ StopReturns
  BY DEF Moves, Next, Start, LoopStep, HeaderFails, HeaderDrop, FwdStep, Copies, Killer,
         Stop, Environment

(* Every variable keeps the shape that struct TcpServer gives it.          *)
LEMMA TypeStep ==
    ASSUME TypeOK, [Moves]_vars
    PROVE  TypeOK'
<1> USE ConstantsAssumption DEF TypeOK
<1>1. CASE UNCHANGED vars
  BY <1>1 DEF vars, netVars, loopVars, fwdVars, stopVars
<1>2. CASE \E f \in Families : Listen(f) \/ ListenFails(f)
  BY <1>2 DEF Listen, ListenFails, StartMove, netVars, fwdVars, stopVars, Families
<1>3. CASE Launch \/ SetRunning
  BY <1>3 DEF Launch, SetRunning, StartMove, netVars, fwdVars, stopVars
<1>4. CASE \E f \in Families : LoopSelect(f) \/ AcceptError(f) \/ Admit(f)
  BY <1>4 DEF LoopSelect, AcceptError, Admit, LoopMove, netVars, stopVars
<1>5. CASE \E f \in Families : Deny(f) \/ DialFails(f) \/ HeaderDrop(f)
  BY <1>5 DEF Deny, DialFails, HeaderDrop, DropCur, Close, LoopMove, stopVars
<1>6. CASE \E f \in Families : Dial(f) \/ HandOver(f) \/ LoopExit(f)
  BY <1>6 DEF Dial, HandOver, LoopExit, LoopMove, netVars, stopVars
<1>7. CASE \E f \in Families : \E c \in Conns : Accept(f, c)
  BY <1>7 DEF Accept, LoopMove, stopVars
<1>8. CASE \E c \in Conns : FwdAdd(c) \/ FwdDuplicate(c) \/ Copies(c) \/ FwdDone(c)
  BY <1>8 DEF FwdAdd, FwdDuplicate, Copies, PeerEnds, CopyCut, Stalls, StallEnds, FwdDone,
              FwdMove, netVars, loopVars, stopVars
<1>9. CASE \E c \in Conns : FwdRegister(c) \/ FwdClose(c) \/ FwdDelete(c)
  BY <1>9 DEF FwdRegister, Registers, FwdClose, FwdDelete, Close, FwdMove,
              netVars, loopVars, stopVars
<1>10. CASE \E c \in Conns : Arrive(c)
  BY <1>10 DEF Arrive, loopVars, fwdVars, stopVars
<1>11. CASE KillerSweeps \/ KillerClears
  BY <1>11 DEF KillerSweeps, KillerClears, KillerMove, loopVars
<1>12. CASE StopDeclined \/ StopBegins \/ StopCloses \/ StopSpawnsKiller \/ StopReturns
  BY <1>12 DEF StopDeclined, StopBegins, StopCloses, StopSpawnsKiller, StopReturns,
               StopMove, netVars, loopVars, fwdVars
<1> QED
  BY Steps, <1>1, <1>2, <1>3, <1>4, <1>5, <1>6, <1>7, <1>8, <1>9, <1>10, <1>11, <1>12

(* The loops exist only once Start has launched them.                      *)
LEMMA LaunchStep ==
    ASSUME TypeOK, NotLaunched, [Moves]_vars
    PROVE  NotLaunched'
<1> USE ConstantsAssumption DEF TypeOK, NotLaunched
<1>1. CASE UNCHANGED vars
  BY <1>1 DEF vars, netVars, loopVars, fwdVars, stopVars
<1>2. CASE \E f \in Families : Listen(f) \/ ListenFails(f)
  BY <1>2 DEF Listen, ListenFails, StartMove, netVars, loopVars, fwdVars, stopVars, Families
<1>3. CASE Launch \/ SetRunning
  BY <1>3 DEF Launch, SetRunning, StartMove, netVars, loopVars, fwdVars, stopVars
<1>4. CASE \E f \in Families : LoopSelect(f) \/ AcceptError(f) \/ Admit(f)
  BY <1>4 DEF LoopSelect, AcceptError, Admit, LoopMove, netVars, stopVars
<1>5. CASE \E f \in Families : Deny(f) \/ DialFails(f) \/ HeaderDrop(f)
  BY <1>5 DEF Deny, DialFails, HeaderDrop, DropCur, Close, LoopMove, stopVars
<1>6. CASE \E f \in Families : Dial(f) \/ HandOver(f) \/ LoopExit(f)
  BY <1>6 DEF Dial, HandOver, LoopExit, LoopMove, netVars, stopVars
<1>7. CASE \E f \in Families : \E c \in Conns : Accept(f, c)
  BY <1>7 DEF Accept, LoopMove, stopVars
<1>8. CASE \E c \in Conns : FwdAdd(c) \/ FwdDuplicate(c) \/ Copies(c) \/ FwdDone(c)
  BY <1>8 DEF FwdAdd, FwdDuplicate, Copies, PeerEnds, CopyCut, Stalls, StallEnds, FwdDone,
              FwdMove, netVars, loopVars, stopVars
<1>9. CASE \E c \in Conns : FwdRegister(c) \/ FwdClose(c) \/ FwdDelete(c)
  BY <1>9 DEF FwdRegister, Registers, FwdClose, FwdDelete, Close, FwdMove,
              netVars, loopVars, stopVars
<1>10. CASE \E c \in Conns : Arrive(c)
  BY <1>10 DEF Arrive, loopVars, fwdVars, stopVars
<1>11. CASE KillerSweeps \/ KillerClears
  BY <1>11 DEF KillerSweeps, KillerClears, KillerMove, loopVars
<1>12. CASE StopDeclined \/ StopBegins \/ StopCloses \/ StopSpawnsKiller \/ StopReturns
  BY <1>12 DEF StopDeclined, StopBegins, StopCloses, StopSpawnsKiller, StopReturns,
               StopMove, netVars, loopVars, fwdVars
<1> QED
  BY Steps, <1>1, <1>2, <1>3, <1>4, <1>5, <1>6, <1>7, <1>8, <1>9, <1>10, <1>11, <1>12

(* Start, the loops and Stop go through their phases in step.              *)
LEMMA PhasesStep ==
    ASSUME TypeOK, NotLaunched, Phases, [Moves]_vars
    PROVE  Phases'
<1> USE ConstantsAssumption DEF TypeOK, NotLaunched, Phases, Families
<1>1. CASE UNCHANGED vars
  BY <1>1 DEF vars, netVars, loopVars, fwdVars, stopVars
<1>2. CASE \E f \in Families : Listen(f) \/ ListenFails(f)
  BY <1>2 DEF Listen, ListenFails, StartMove, netVars, loopVars, fwdVars, stopVars
<1>3. CASE Launch \/ SetRunning
  BY <1>3 DEF Launch, SetRunning, StartMove, netVars, loopVars, fwdVars, stopVars
<1>4. CASE \E f \in Families : LoopSelect(f) \/ AcceptError(f) \/ Admit(f)
  BY <1>4 DEF LoopSelect, AcceptError, Admit, LoopMove, netVars, stopVars
<1>5. CASE \E f \in Families : Deny(f) \/ DialFails(f) \/ HeaderDrop(f)
  BY <1>5 DEF Deny, DialFails, HeaderDrop, DropCur, Close, LoopMove, stopVars
<1>6. CASE \E f \in Families : Dial(f) \/ HandOver(f) \/ LoopExit(f)
  BY <1>6 DEF Dial, HandOver, LoopExit, LoopMove, netVars, stopVars
<1>7. CASE \E f \in Families : \E c \in Conns : Accept(f, c)
  BY <1>7 DEF Accept, LoopMove, stopVars
<1>8. CASE \E c \in Conns : FwdAdd(c) \/ FwdDuplicate(c) \/ Copies(c) \/ FwdDone(c)
  BY <1>8 DEF FwdAdd, FwdDuplicate, Copies, PeerEnds, CopyCut, Stalls, StallEnds, FwdDone,
              FwdMove, netVars, loopVars, stopVars
<1>9. CASE \E c \in Conns : FwdRegister(c) \/ FwdClose(c) \/ FwdDelete(c)
  BY <1>9 DEF FwdRegister, Registers, FwdClose, FwdDelete, Close, FwdMove,
              netVars, loopVars, stopVars
<1>10. CASE \E c \in Conns : Arrive(c)
  BY <1>10 DEF Arrive, loopVars, fwdVars, stopVars
<1>11. CASE KillerSweeps \/ KillerClears
  BY <1>11 DEF KillerSweeps, KillerClears, KillerMove, loopVars
<1>12. CASE StopDeclined \/ StopBegins \/ StopCloses \/ StopSpawnsKiller \/ StopReturns
  BY <1>12 DEF StopDeclined, StopBegins, StopCloses, StopSpawnsKiller, StopReturns,
               StopMove, netVars, loopVars, fwdVars
<1> QED
  BY Steps, <1>1, <1>2, <1>3, <1>4, <1>5, <1>6, <1>7, <1>8, <1>9, <1>10, <1>11, <1>12

(* What a loop has in hand is its own: no other goroutine touches it.      *)
LEMMA LoopHoldsStep ==
    ASSUME TypeOK, NotLaunched, LoopHolds, EntriesLive, FwdSockets, [Moves]_vars
    PROVE  LoopHolds'
<1> USE ConstantsAssumption DEF TypeOK, NotLaunched, LoopHolds, EntriesLive, FwdSockets,
                                InHand, Registered
<1>1. CASE UNCHANGED vars
  BY <1>1 DEF vars, netVars, loopVars, fwdVars, stopVars
<1>2. CASE \E f \in Families : Listen(f) \/ ListenFails(f)
  BY <1>2 DEF Listen, ListenFails, StartMove, netVars, loopVars, fwdVars, stopVars, Families
<1>3. CASE Launch \/ SetRunning
  BY <1>3 DEF Launch, SetRunning, StartMove, netVars, loopVars, fwdVars, stopVars
<1>4. CASE \E f \in Families : LoopSelect(f) \/ AcceptError(f) \/ Admit(f)
  BY <1>4 DEF LoopSelect, AcceptError, Admit, LoopMove, netVars, stopVars
<1>5. CASE \E f \in Families : Deny(f) \/ DialFails(f) \/ HeaderDrop(f)
  BY <1>5 DEF Deny, DialFails, HeaderDrop, DropCur, Close, LoopMove, stopVars
<1>6. CASE \E f \in Families : Dial(f) \/ HandOver(f) \/ LoopExit(f)
  BY <1>6 DEF Dial, HandOver, LoopExit, LoopMove, netVars, stopVars
<1>7. CASE \E f \in Families : \E c \in Conns : Accept(f, c)
  BY <1>7 DEF Accept, LoopMove, stopVars
<1>8. CASE \E c \in Conns : FwdAdd(c) \/ FwdDuplicate(c) \/ Copies(c) \/ FwdDone(c)
  BY <1>8 DEF FwdAdd, FwdDuplicate, Copies, PeerEnds, CopyCut, Stalls, StallEnds, FwdDone,
              FwdMove, netVars, loopVars, stopVars
<1>9. CASE \E c \in Conns : FwdRegister(c) \/ FwdClose(c) \/ FwdDelete(c)
  BY <1>9 DEF FwdRegister, Registers, FwdClose, FwdDelete, Close, FwdMove,
              netVars, loopVars, stopVars
<1>10. CASE \E c \in Conns : Arrive(c)
  BY <1>10 DEF Arrive, loopVars, fwdVars, stopVars
<1>11. CASE KillerSweeps \/ KillerClears
  BY <1>11 DEF KillerSweeps, KillerClears, KillerMove, loopVars
<1>12. CASE StopDeclined \/ StopBegins \/ StopCloses \/ StopSpawnsKiller \/ StopReturns
  BY <1>12 DEF StopDeclined, StopBegins, StopCloses, StopSpawnsKiller, StopReturns,
               StopMove, netVars, loopVars, fwdVars
<1> QED
  BY Steps, <1>1, <1>2, <1>3, <1>4, <1>5, <1>6, <1>7, <1>8, <1>9, <1>10, <1>11, <1>12

(* A forward works on sockets that were accepted, and closes them first.   *)
LEMMA FwdSocketsStep ==
    ASSUME TypeOK, LoopHolds, FwdSockets, [Moves]_vars
    PROVE  FwdSockets'
<1> USE ConstantsAssumption DEF TypeOK, LoopHolds, FwdSockets, InHand
<1>1. CASE UNCHANGED vars
  BY <1>1 DEF vars, netVars, loopVars, fwdVars, stopVars
<1>2. CASE \E f \in Families : Listen(f) \/ ListenFails(f)
  BY <1>2 DEF Listen, ListenFails, StartMove, netVars, loopVars, fwdVars, stopVars, Families
<1>3. CASE Launch \/ SetRunning
  BY <1>3 DEF Launch, SetRunning, StartMove, netVars, loopVars, fwdVars, stopVars
<1>4. CASE \E f \in Families : LoopSelect(f) \/ AcceptError(f) \/ Admit(f)
  BY <1>4 DEF LoopSelect, AcceptError, Admit, LoopMove, netVars, stopVars
<1>5. CASE \E f \in Families : Deny(f) \/ DialFails(f) \/ HeaderDrop(f)
  BY <1>5 DEF Deny, DialFails, HeaderDrop, DropCur, Close, LoopMove, stopVars
<1>6. CASE \E f \in Families : Dial(f) \/ HandOver(f) \/ LoopExit(f)
  BY <1>6 DEF Dial, HandOver, LoopExit, LoopMove, netVars, stopVars
<1>7. CASE \E f \in Families : \E c \in Conns : Accept(f, c)
  BY <1>7 DEF Accept, LoopMove, stopVars
<1>8. CASE \E c \in Conns : FwdAdd(c) \/ FwdDuplicate(c) \/ Copies(c) \/ FwdDone(c)
  BY <1>8 DEF FwdAdd, FwdDuplicate, Copies, PeerEnds, CopyCut, Stalls, StallEnds, FwdDone,
              FwdMove, netVars, loopVars, stopVars
<1>9. CASE \E c \in Conns : FwdRegister(c) \/ FwdClose(c) \/ FwdDelete(c)
  BY <1>9 DEF FwdRegister, Registers, FwdClose, FwdDelete, Close, FwdMove,
              netVars, loopVars, stopVars
<1>10. CASE \E c \in Conns : Arrive(c)
  BY <1>10 DEF Arrive, loopVars, fwdVars, stopVars
<1>11. CASE KillerSweeps \/ KillerClears
  BY <1>11 DEF KillerSweeps, KillerClears, KillerMove, loopVars
<1>12. CASE StopDeclined \/ StopBegins \/ StopCloses \/ StopSpawnsKiller \/ StopReturns
  BY <1>12 DEF StopDeclined, StopBegins, StopCloses, StopSpawnsKiller, StopReturns,
               StopMove, netVars, loopVars, fwdVars
<1> QED
  BY Steps, <1>1, <1>2, <1>3, <1>4, <1>5, <1>6, <1>7, <1>8, <1>9, <1>10, <1>11, <1>12

(* Every way to drop a connection closes it; every other way keeps an owner. *)
LEMMA OwnedStep ==
    ASSUME TypeOK, LoopHolds, FwdSockets, SocketsOwned, [Moves]_vars
    PROVE  SocketsOwned'
<1> USE ConstantsAssumption DEF TypeOK, LoopHolds, FwdSockets, SocketsOwned, Owner, InHand
<1>1. CASE UNCHANGED vars
  BY <1>1 DEF vars, netVars, loopVars, fwdVars, stopVars
<1>2. CASE \E f \in Families : Listen(f) \/ ListenFails(f)
  BY <1>2 DEF Listen, ListenFails, StartMove, netVars, loopVars, fwdVars, stopVars, Families
<1>3. CASE Launch \/ SetRunning
  BY <1>3 DEF Launch, SetRunning, StartMove, netVars, loopVars, fwdVars, stopVars
<1>4. CASE \E f \in Families : LoopSelect(f) \/ AcceptError(f) \/ Admit(f)
  BY <1>4 DEF LoopSelect, AcceptError, Admit, LoopMove, netVars, stopVars
<1>5. CASE \E f \in Families : Deny(f) \/ DialFails(f) \/ HeaderDrop(f)
  BY <1>5 DEF Deny, DialFails, HeaderDrop, DropCur, Close, LoopMove, stopVars
<1>6. CASE \E f \in Families : Dial(f) \/ HandOver(f) \/ LoopExit(f)
  BY <1>6 DEF Dial, HandOver, LoopExit, LoopMove, netVars, stopVars
<1>7. CASE \E f \in Families : \E c \in Conns : Accept(f, c)
  BY <1>7 DEF Accept, LoopMove, stopVars
<1>8. CASE \E c \in Conns : FwdAdd(c) \/ FwdDuplicate(c) \/ Copies(c) \/ FwdDone(c)
  BY <1>8 DEF FwdAdd, FwdDuplicate, Copies, PeerEnds, CopyCut, Stalls, StallEnds, FwdDone,
              FwdMove, netVars, loopVars, stopVars
<1>9. CASE \E c \in Conns : FwdRegister(c) \/ FwdClose(c) \/ FwdDelete(c)
  BY <1>9 DEF FwdRegister, Registers, FwdClose, FwdDelete, Close, FwdMove,
              netVars, loopVars, stopVars
<1>10. CASE \E c \in Conns : Arrive(c)
  BY <1>10 DEF Arrive, loopVars, fwdVars, stopVars
<1>11. CASE KillerSweeps \/ KillerClears
  BY <1>11 DEF KillerSweeps, KillerClears, KillerMove, loopVars
<1>12. CASE StopDeclined \/ StopBegins \/ StopCloses \/ StopSpawnsKiller \/ StopReturns
  BY <1>12 DEF StopDeclined, StopBegins, StopCloses, StopSpawnsKiller, StopReturns,
               StopMove, netVars, loopVars, fwdVars
<1> QED
  BY Steps, <1>1, <1>2, <1>3, <1>4, <1>5, <1>6, <1>7, <1>8, <1>9, <1>10, <1>11, <1>12

(* An entry goes away with its forward at the latest.                      *)
LEMMA EntriesStep ==
    ASSUME TypeOK, LoopHolds, EntriesLive, [Moves]_vars
    PROVE  EntriesLive'
<1> USE ConstantsAssumption DEF TypeOK, LoopHolds, EntriesLive, Registered, InHand
<1>1. CASE UNCHANGED vars
  BY <1>1 DEF vars, netVars, loopVars, fwdVars, stopVars
<1>2. CASE \E f \in Families : Listen(f) \/ ListenFails(f)
  BY <1>2 DEF Listen, ListenFails, StartMove, netVars, loopVars, fwdVars, stopVars, Families
<1>3. CASE Launch \/ SetRunning
  BY <1>3 DEF Launch, SetRunning, StartMove, netVars, loopVars, fwdVars, stopVars
<1>4. CASE \E f \in Families : LoopSelect(f) \/ AcceptError(f) \/ Admit(f)
  BY <1>4 DEF LoopSelect, AcceptError, Admit, LoopMove, netVars, stopVars
<1>5. CASE \E f \in Families : Deny(f) \/ DialFails(f) \/ HeaderDrop(f)
  BY <1>5 DEF Deny, DialFails, HeaderDrop, DropCur, Close, LoopMove, stopVars
<1>6. CASE \E f \in Families : Dial(f) \/ HandOver(f) \/ LoopExit(f)
  BY <1>6 DEF Dial, HandOver, LoopExit, LoopMove, netVars, stopVars
<1>7. CASE \E f \in Families : \E c \in Conns : Accept(f, c)
  BY <1>7 DEF Accept, LoopMove, stopVars
<1>8. CASE \E c \in Conns : FwdAdd(c) \/ FwdDuplicate(c) \/ Copies(c) \/ FwdDone(c)
  BY <1>8 DEF FwdAdd, FwdDuplicate, Copies, PeerEnds, CopyCut, Stalls, StallEnds, FwdDone,
              FwdMove, netVars, loopVars, stopVars
<1>9. CASE \E c \in Conns : FwdRegister(c) \/ FwdClose(c) \/ FwdDelete(c)
  BY <1>9 DEF FwdRegister, Registers, FwdClose, FwdDelete, Close, FwdMove,
              netVars, loopVars, stopVars
<1>10. CASE \E c \in Conns : Arrive(c)
  BY <1>10 DEF Arrive, loopVars, fwdVars, stopVars
<1>11. CASE KillerSweeps \/ KillerClears
  BY <1>11 DEF KillerSweeps, KillerClears, KillerMove, loopVars
<1>12. CASE StopDeclined \/ StopBegins \/ StopCloses \/ StopSpawnsKiller \/ StopReturns
  BY <1>12 DEF StopDeclined, StopBegins, StopCloses, StopSpawnsKiller, StopReturns,
               StopMove, netVars, loopVars, fwdVars
<1> QED
  BY Steps, <1>1, <1>2, <1>3, <1>4, <1>5, <1>6, <1>7, <1>8, <1>9, <1>10, <1>11, <1>12

(* Before the sweep Delete only ever removes the entry of its own forward. *)
LEMMA CompleteStep ==
    ASSUME TypeOK, LoopHolds, EntriesLive, SweepComplete, [Moves]_vars
    PROVE  SweepComplete'
<1> USE ConstantsAssumption DEF TypeOK, LoopHolds, EntriesLive, SweepComplete, Registered,
                                InHand
<1>1. CASE UNCHANGED vars
  BY <1>1 DEF vars, netVars, loopVars, fwdVars, stopVars
<1>2. CASE \E f \in Families : Listen(f) \/ ListenFails(f)
  BY <1>2 DEF Listen, ListenFails, StartMove, netVars, loopVars, fwdVars, stopVars, Families
<1>3. CASE Launch \/ SetRunning
  BY <1>3 DEF Launch, SetRunning, StartMove, netVars, loopVars, fwdVars, stopVars
<1>4. CASE \E f \in Families : LoopSelect(f) \/ AcceptError(f) \/ Admit(f)
  BY <1>4 DEF LoopSelect, AcceptError, Admit, LoopMove, netVars, stopVars
<1>5. CASE \E f \in Families : Deny(f) \/ DialFails(f) \/ HeaderDrop(f)
  BY <1>5 DEF Deny, DialFails, HeaderDrop, DropCur, Close, LoopMove, stopVars
<1>6. CASE \E f \in Families : Dial(f) \/ HandOver(f) \/ LoopExit(f)
  BY <1>6 DEF Dial, HandOver, LoopExit, LoopMove, netVars, stopVars
<1>7. CASE \E f \in Families : \E c \in Conns : Accept(f, c)
  BY <1>7 DEF Accept, LoopMove, stopVars
<1>8. CASE \E c \in Conns : FwdAdd(c) \/ FwdDuplicate(c) \/ Copies(c) \/ FwdDone(c)
  BY <1>8 DEF FwdAdd, FwdDuplicate, Copies, PeerEnds, CopyCut, Stalls, StallEnds, FwdDone,
              FwdMove, netVars, loopVars, stopVars
<1>9. CASE \E c \in Conns : FwdRegister(c) \/ FwdClose(c) \/ FwdDelete(c)
  BY <1>9 DEF FwdRegister, Registers, FwdClose, FwdDelete, Close, FwdMove,
              netVars, loopVars, stopVars
<1>10. CASE \E c \in Conns : Arrive(c)
  BY <1>10 DEF Arrive, loopVars, fwdVars, stopVars
<1>11. CASE KillerSweeps \/ KillerClears
  BY <1>11 DEF KillerSweeps, KillerClears, KillerMove, loopVars
<1>12. CASE StopDeclined \/ StopBegins \/ StopCloses \/ StopSpawnsKiller \/ StopReturns
  BY <1>12 DEF StopDeclined, StopBegins, StopCloses, StopSpawnsKiller, StopReturns,
               StopMove, netVars, loopVars, fwdVars
<1> QED
  BY Steps, <1>1, <1>2, <1>3, <1>4, <1>5, <1>6, <1>7, <1>8, <1>9, <1>10, <1>11, <1>12

(* The sweep closes all that is registered; only later ones escape it.     *)
LEMMA SweepStep ==
    ASSUME TypeOK, LoopHolds, FwdSockets, SweepComplete, SweepMissesOnlyLate, [Moves]_vars
    PROVE  SweepMissesOnlyLate'
<1> USE ConstantsAssumption DEF TypeOK, LoopHolds, FwdSockets, SweepComplete,
                                SweepMissesOnlyLate, Registered, InHand
<1>1. CASE UNCHANGED vars
  BY <1>1 DEF vars, netVars, loopVars, fwdVars, stopVars
<1>2. CASE \E f \in Families : Listen(f) \/ ListenFails(f)
  BY <1>2 DEF Listen, ListenFails, StartMove, netVars, loopVars, fwdVars, stopVars, Families
<1>3. CASE Launch \/ SetRunning
  BY <1>3 DEF Launch, SetRunning, StartMove, netVars, loopVars, fwdVars, stopVars
<1>4. CASE \E f \in Families : LoopSelect(f) \/ AcceptError(f) \/ Admit(f)
  BY <1>4 DEF LoopSelect, AcceptError, Admit, LoopMove, netVars, stopVars
<1>5. CASE \E f \in Families : Deny(f) \/ DialFails(f) \/ HeaderDrop(f)
  BY <1>5 DEF Deny, DialFails, HeaderDrop, DropCur, Close, LoopMove, stopVars
<1>6. CASE \E f \in Families : Dial(f) \/ HandOver(f) \/ LoopExit(f)
  BY <1>6 DEF Dial, HandOver, LoopExit, LoopMove, netVars, stopVars
<1>7. CASE \E f \in Families : \E c \in Conns : Accept(f, c)
  BY <1>7 DEF Accept, LoopMove, stopVars
<1>8. CASE \E c \in Conns : FwdAdd(c) \/ FwdDuplicate(c) \/ Copies(c) \/ FwdDone(c)
  BY <1>8 DEF FwdAdd, FwdDuplicate, Copies, PeerEnds, CopyCut, Stalls, StallEnds, FwdDone,
              FwdMove, netVars, loopVars, stopVars
<1>9. CASE \E c \in Conns : FwdRegister(c) \/ FwdClose(c) \/ FwdDelete(c)
  BY <1>9 DEF FwdRegister, Registers, FwdClose, FwdDelete, Close, FwdMove,
              netVars, loopVars, stopVars
<1>10. CASE \E c \in Conns : Arrive(c)
  BY <1>10 DEF Arrive, loopVars, fwdVars, stopVars
<1>11. CASE KillerSweeps \/ KillerClears
  BY <1>11 DEF KillerSweeps, KillerClears, KillerMove, loopVars
<1>12. CASE StopDeclined \/ StopBegins \/ StopCloses \/ StopSpawnsKiller \/ StopReturns
  BY <1>12 DEF StopDeclined, StopBegins, StopCloses, StopSpawnsKiller, StopReturns,
               StopMove, netVars, loopVars, fwdVars
<1> QED
  BY Steps, <1>1, <1>2, <1>3, <1>4, <1>5, <1>6, <1>7, <1>8, <1>9, <1>10, <1>11, <1>12

(* Nothing reopens stopchan, and a loop that returns to it leaves.         *)
LEMMA LastCallStep ==
    ASSUME TypeOK, NotLaunched, LastCallSpent, [Moves]_vars
    PROVE  LastCallSpent'
<1> USE ConstantsAssumption DEF TypeOK, NotLaunched, LastCallSpent
<1>1. CASE UNCHANGED vars
  BY <1>1 DEF vars, netVars, loopVars, fwdVars, stopVars
<1>2. CASE \E f \in Families : Listen(f) \/ ListenFails(f)
  BY <1>2 DEF Listen, ListenFails, StartMove, netVars, loopVars, fwdVars, stopVars, Families
<1>3. CASE Launch \/ SetRunning
  BY <1>3 DEF Launch, SetRunning, StartMove, netVars, loopVars, fwdVars, stopVars
<1>4. CASE \E f \in Families : LoopSelect(f) \/ AcceptError(f) \/ Admit(f)
  BY <1>4 DEF LoopSelect, AcceptError, Admit, LoopMove, netVars, stopVars
<1>5. CASE \E f \in Families : Deny(f) \/ DialFails(f) \/ HeaderDrop(f)
  BY <1>5 DEF Deny, DialFails, HeaderDrop, DropCur, Close, LoopMove, stopVars
<1>6. CASE \E f \in Families : Dial(f) \/ HandOver(f) \/ LoopExit(f)
  BY <1>6 DEF Dial, HandOver, LoopExit, LoopMove, netVars, stopVars
<1>7. CASE \E f \in Families : \E c \in Conns : Accept(f, c)
  BY <1>7 DEF Accept, LoopMove, stopVars
<1>8. CASE \E c \in Conns : FwdAdd(c) \/ FwdDuplicate(c) \/ Copies(c) \/ FwdDone(c)
  BY <1>8 DEF FwdAdd, FwdDuplicate, Copies, PeerEnds, CopyCut, Stalls, StallEnds, FwdDone,
              FwdMove, netVars, loopVars, stopVars
<1>9. CASE \E c \in Conns : FwdRegister(c) \/ FwdClose(c) \/ FwdDelete(c)
  BY <1>9 DEF FwdRegister, Registers, FwdClose, FwdDelete, Close, FwdMove,
              netVars, loopVars, stopVars
<1>10. CASE \E c \in Conns : Arrive(c)
  BY <1>10 DEF Arrive, loopVars, fwdVars, stopVars
<1>11. CASE KillerSweeps \/ KillerClears
  BY <1>11 DEF KillerSweeps, KillerClears, KillerMove, loopVars
<1>12. CASE StopDeclined \/ StopBegins \/ StopCloses \/ StopSpawnsKiller \/ StopReturns
  BY <1>12 DEF StopDeclined, StopBegins, StopCloses, StopSpawnsKiller, StopReturns,
               StopMove, netVars, loopVars, fwdVars
<1> QED
  BY Steps, <1>1, <1>2, <1>3, <1>4, <1>5, <1>6, <1>7, <1>8, <1>9, <1>10, <1>11, <1>12

-----------------------------------------------------------------------------
(* A server that has just been made satisfies it.                          *)
LEMMA InitIInv ==
    ASSUME Init
    PROVE  IInv
<1> USE ConstantsAssumption DEF Init, InitMarks
<1>1. TypeOK
  BY DEF TypeOK
<1>2. NotLaunched /\ Phases /\ LoopHolds /\ FwdSockets /\ SocketsOwned
  BY DEF NotLaunched, Phases, Families, LoopHolds, InHand, FwdSockets, SocketsOwned, Owner
<1>3. EntriesLive /\ SweepComplete /\ SweepMissesOnlyLate /\ LastCallSpent
  BY DEF EntriesLive, SweepComplete, SweepMissesOnlyLate, LastCallSpent, Registered
<1> QED
  BY <1>1, <1>2, <1>3 DEF IInv

(* Each part of IInv is kept by every move.                                *)
LEMMA MovesKeepIInv ==
    ASSUME IInv, [Moves]_vars
    PROVE  IInv'
  BY TypeStep, LaunchStep, PhasesStep, LoopHoldsStep, FwdSocketsStep, OwnedStep,
     EntriesStep, CompleteStep, SweepStep, LastCallStep DEF IInv

(* The inductive invariant holds initially and every step keeps it.        *)
THEOREM Inductive == Spec => []IInv
<1>1. Init => IInv
  BY InitIInv
<1>2. IInv /\ [Next]_vars => IInv'
  BY MovesKeepIInv DEF Moves
<1> QED
  BY <1>1, <1>2, PTL DEF Spec

(* Every variable keeps the shape that struct TcpServer gives it.          *)
THEOREM TypeCorrect == Spec => []TypeOK
<1>1. IInv => TypeOK
  BY DEF IInv
<1> QED
  BY <1>1, Inductive, PTL

(* No accepted socket is open without an owner, except a duplicate's.      *)
THEOREM Owned == Spec => []SocketsOwned
<1>1. IInv => SocketsOwned
  BY DEF IInv
<1> QED
  BY <1>1, Inductive, PTL

(* Until the sweep the registry is exact, although Delete goes by address. *)
THEOREM Exact == Spec => []RegistryExact
<1>1. IInv => RegistryExact
  BY DEF IInv, EntriesLive, SweepComplete, RegistryExact
<1> QED
  BY <1>1, Inductive, PTL

(* No connection registered before the sweep survives it.                  *)
THEOREM SweepReachesAll == Spec => []SweepMissesOnlyLate
<1>1. IInv => SweepMissesOnlyLate
  BY DEF IInv
<1> QED
  BY <1>1, Inductive, PTL

(* A listener that closes belongs to a server that has been asked to stop. *)
LEMMA StayOpenStep ==
    ASSUME TypeOK, Phases, [Moves]_vars,
           NEW f \in Families, ln[f] = "open", ln'[f] # "open"
    PROVE  status \in {"Stopping", "Finished"}
<1> USE DEF TypeOK, Phases
<1>1. CASE ln' = ln
  BY <1>1
<1>2. CASE \E g \in Families : Listen(g)
  BY <1>2 DEF Listen, StartMove, Families
<1>3. CASE \E g \in Families : LoopExit(g)
  <2>1. loop[f] = "exit"
    BY <1>3 DEF LoopExit, LoopMove
  <2>2. stopchan
    BY <2>1
  <2> QED
    BY <2>2
<1>4. ln' = ln \/ (\E g \in Families : Listen(g)) \/ (\E g \in Families : LoopExit(g))
  <2>1. CASE UNCHANGED vars
    BY <2>1 DEF vars
  <2>2. CASE \E g \in Families : ListenFails(g) \/ LoopSelect(g) \/ AcceptError(g) \/ Admit(g)
                                 \/ Dial(g) \/ HandOver(g) \/ \E c \in Conns : Accept(g, c)
    BY <2>2 DEF ListenFails, LoopSelect, AcceptError, Admit, Dial, HandOver, Accept
  <2>3. CASE \E g \in Families : Deny(g) \/ DialFails(g) \/ HeaderDrop(g)
    BY <2>3 DEF Deny, DialFails, HeaderDrop, DropCur
  <2>4. CASE Launch \/ SetRunning
    BY <2>4 DEF Launch, SetRunning
  <2>5. CASE \E c \in Conns : \/ FwdAdd(c) \/ FwdRegister(c) \/ FwdDuplicate(c) \/ Copies(c)
                              \/ FwdClose(c) \/ FwdDelete(c) \/ FwdDone(c) \/ Arrive(c)
    BY <2>5 DEF FwdAdd, FwdRegister, Registers, FwdDuplicate, Copies, PeerEnds, CopyCut,
                Stalls, StallEnds, FwdClose,
                FwdDelete, FwdDone, Arrive, FwdMove
  <2>6. CASE KillerSweeps \/ KillerClears
    BY <2>6 DEF KillerSweeps, KillerClears, KillerMove
  <2>7. CASE StopDeclined \/ StopBegins \/ StopCloses \/ StopSpawnsKiller \/ StopReturns
    BY <2>7 DEF StopDeclined, StopBegins, StopCloses, StopSpawnsKiller, StopReturns, StopMove
  <2> QED
    BY Steps, <2>1, <2>2, <2>3, <2>4, <2>5, <2>6, <2>7
<1> QED
  BY <1>1, <1>2, <1>3, <1>4

(* Nothing but Stop ends a loop and closes its listener.                   *)
THEOREM StayOpen == Spec => ListenersStayOpen
<1>1. IInv /\ [Next]_vars =>
        [\A f \in Families : (ln[f] = "open" /\ ln'[f] # "open")
            => status \in {"Stopping", "Finished"}]_vars
  BY StayOpenStep DEF IInv, Moves
<1> QED
  BY <1>1, Inductive, PTL DEF Spec, ListenersStayOpen

(* After close(stopchan) each listener accepts one connection at most.     *)
THEOREM LastCall == Spec => []OneLastCall
<1>1. IInv => OneLastCall
  BY DEF IInv, LastCallSpent, OneLastCall
<1> QED
  BY <1>1, Inductive, PTL

-----------------------------------------------------------------------------
(* How the two mapped functions change, from how they change at a point.   *)
PortsStay   == \A f \in Families : PortOf(f)' = PortOf(f)
ClientsStay == \A c \in Conns : ClientOf(c)' = ClientOf(c)
PortGoes(f, p, q) ==
    PortOf(f) = p /\ PortOf(f)' = q /\ \A g \in Families \ {f} : PortOf(g)' = PortOf(g)
ClientGoes(c, s, t) ==
    ClientOf(c) = s /\ ClientOf(c)' = t /\ \A d \in Conns \ {c} : ClientOf(d)' = ClientOf(d)

(* ... nothing the contract sees changes,                                  *)
LEMMA Still ==
    /\ PortsStay => UNCHANGED [f \in Families |-> PortOf(f)]
    /\ ClientsStay => UNCHANGED [c \in Conns |-> ClientOf(c)]
    /\ PortsStay /\ ClientsStay => UNCHANGED Contract!vars
  BY DEF PortsStay, ClientsStay, Contract!vars

(* ... one port changes,                                                   *)
LEMMA PortMoves ==
    ASSUME NEW f \in Families, NEW p, NEW q, PortGoes(f, p, q)
    PROVE  /\ [g \in Families |-> PortOf(g)][f] = p
           /\ [g \in Families |-> PortOf(g)]' =
                [[g \in Families |-> PortOf(g)] EXCEPT ![f] = q]
  BY DEF PortGoes

(* ... one client does.                                                    *)
LEMMA ClientMoves ==
    ASSUME NEW c \in Conns, NEW s, NEW t, ClientGoes(c, s, t)
    PROVE  /\ [d \in Conns |-> ClientOf(d)][c] = s
           /\ Contract!Become(c, t)
  BY DEF ClientGoes, Contract!Become

(* The server implements ServerContract: under IInv each step of a         *)
(* goroutine is a step of the contract or changes nothing it can see.      *)
LEMMA StepMaps ==
    ASSUME IInv, [Moves]_vars
    PROVE  [Contract!Next]_(Contract!vars)
<1> USE ConstantsAssumption DEF IInv, TypeOK
<1> DEFINE Quiet == PortsStay /\ ClientsStay
<1>1. CASE UNCHANGED vars
  BY <1>1, Still DEF vars, netVars, loopVars, fwdVars, stopVars, PortsStay, ClientsStay,
                     PortOf, ClientOf
<1>2. ASSUME NEW f \in Families, Listen(f)
      PROVE  Contract!Bind(f) \/ Quiet
  <2>1. ln[f] = "nil" /\ ~stopchan
    BY <1>2 DEF Listen, StartMove, Phases, Families
  <2>2. ClientsStay
    BY <1>2 DEF Listen, StartMove, netVars, fwdVars, ClientsStay, ClientOf
  <2>3. PortsStay \/ PortGoes(f, "down", "open")
    BY <1>2, <2>1 DEF Listen, StartMove, stopVars, PortsStay, PortGoes, PortOf
  <2> QED
    BY <2>2, <2>3, Still, PortMoves DEF Contract!Bind
<1>3. ASSUME (\E f \in Families : ListenFails(f)) \/ SetRunning
      PROVE  Quiet
  BY <1>3 DEF ListenFails, SetRunning, StartMove, netVars, fwdVars, stopVars,
              PortsStay, ClientsStay, PortOf, ClientOf
<1>4. ASSUME Launch PROVE Quiet
  <2>1. ~stopchan
    BY <1>4 DEF Launch, StartMove, Phases
  <2> QED
    BY <1>4, <2>1 DEF Launch, StartMove, netVars, fwdVars, stopVars,
                      PortsStay, ClientsStay, PortOf, ClientOf
<1>5. ASSUME NEW f \in Families, LoopSelect(f) \/ Admit(f)
      PROVE  Quiet
  BY <1>5 DEF LoopSelect, Admit, LoopMove, netVars, stopVars,
              PortsStay, ClientsStay, PortOf, ClientOf
<1>6. ASSUME NEW f \in Families, AcceptError(f)
      PROVE  Contract!GiveUp(f) \/ Quiet
  <2>1. ClientsStay
    BY <1>6 DEF AcceptError, LoopMove, netVars, ClientsStay, ClientOf
  <2>2. PortsStay \/ PortGoes(f, "last", "shut")
    BY <1>6 DEF AcceptError, LoopMove, stopVars, Phases, PortsStay, PortGoes, PortOf
  <2> QED
    BY <2>1, <2>2, Still, PortMoves DEF Contract!GiveUp
<1>7. ASSUME NEW f \in Families, Deny(f) \/ DialFails(f) \/ HeaderDrop(f)
      PROVE  \E c \in Conns : Contract!Refuse(c)
  <2>1. PICK c \in Conns : c = cur[f] /\ fwd[c] = "none" /\ sock[c] = "open"
    BY <1>7 DEF Deny, DialFails, HeaderDrop, LoopMove, LoopHolds, InHand
  <2>2. PortsStay
    BY <1>7 DEF Deny, DialFails, HeaderDrop, DropCur, LoopMove, stopVars, PortsStay, PortOf
  <2>3. fwd' = fwd /\ sock' = [sock EXCEPT ![c] = "closed"]
    BY <1>7, <2>1 DEF Deny, DialFails, HeaderDrop, DropCur, Close
  <2>4. ClientGoes(c, "inside", "gone")
    BY <2>1, <2>3 DEF ClientGoes, ClientOf
  <2> QED
    BY <2>2, <2>4, Still, ClientMoves DEF Contract!Refuse
<1>8. ASSUME NEW f \in Families, Dial(f) PROVE Quiet
  BY <1>8 DEF Dial, LoopMove, stopVars, PortsStay, ClientsStay, PortOf, ClientOf
<1>9. ASSUME NEW f \in Families, HandOver(f)
      PROVE  \E c \in Conns : Contract!Serve(c)
  <2>1. PICK c \in Conns : c = cur[f] /\ fwd[c] = "none" /\ sock[c] = "open"
    BY <1>9 DEF HandOver, LoopMove, LoopHolds, InHand
  <2>2. PortsStay
    BY <1>9 DEF HandOver, LoopMove, stopVars, PortsStay, PortOf
  <2>3. sock' = sock /\ fwd' = [fwd EXCEPT ![c] = "spawned"]
    BY <1>9, <2>1 DEF HandOver, netVars
  <2>4. ClientGoes(c, "inside", "served")
    BY <2>1, <2>3 DEF ClientGoes, ClientOf
  <2> QED
    BY <2>2, <2>4, Still, ClientMoves DEF Contract!Serve
<1>10. ASSUME NEW f \in Families, LoopExit(f) PROVE Contract!Release(f)
  <2>1. ln[f] = "open" /\ stopchan
    BY <1>10 DEF LoopExit, LoopMove, Phases
  <2>2. PortGoes(f, "shut", "released")
    BY <1>10, <2>1 DEF LoopExit, LoopMove, stopVars, PortGoes, PortOf
  <2>3. \A c \in Conns : ClientOf(c)' =
           IF Via[c] = f /\ ClientOf(c) = "waiting" THEN "gone" ELSE ClientOf(c)
    BY <1>10 DEF LoopExit, FwdSockets, ClientOf
  <2> QED
    BY <2>2, <2>3, PortMoves DEF Contract!Release
<1>11. ASSUME NEW f \in Families, NEW c \in Conns, Accept(f, c) PROVE Contract!Enter(c)
  <2>1. Via[c] = f /\ ln[f] = "open" /\ fwd[c] = "none"
    BY <1>11 DEF Accept, LoopMove, Phases, FwdSockets
  <2>2. ClientGoes(c, "waiting", "inside")
    BY <1>11, <2>1 DEF Accept, ClientGoes, ClientOf
  <2>3. (PortOf(f) = "open" /\ PortsStay) \/ PortGoes(f, "last", "shut")
    BY <1>11, <2>1 DEF Accept, LoopMove, stopVars, PortsStay, PortGoes, PortOf
  <2> QED
    BY <2>1, <2>2, <2>3, Still, PortMoves, ClientMoves DEF Contract!Enter
<1>12. ASSUME NEW c \in Conns, FwdAdd(c) \/ FwdRegister(c) \/ Copies(c) \/ FwdClose(c)
                               \/ FwdDone(c)
       PROVE  Quiet
  BY <1>12 DEF FwdAdd, FwdRegister, Registers, Copies, PeerEnds, CopyCut, Stalls, StallEnds,
               FwdClose, FwdDone, Close, FwdMove,
               netVars, loopVars, stopVars, PortsStay, ClientsStay, PortOf, ClientOf
<1>13. ASSUME NEW c \in Conns, FwdDuplicate(c) PROVE Contract!Lose(c)
  <2>1. PortsStay
    BY <1>13 DEF FwdDuplicate, FwdMove, loopVars, stopVars, PortsStay, PortOf
  <2>2. ClientGoes(c, "served", "lost")
    BY <1>13 DEF FwdDuplicate, FwdMove, netVars, ClientGoes, ClientOf
  <2>3. \E d \in Conns \ {c} : ClientOf(d) = "served" /\ RemoteAddr[d] = RemoteAddr[c]
    BY <1>13 DEF FwdDuplicate, FwdMove, EntriesLive, Registered, ClientOf
  <2> QED
    BY <2>1, <2>2, <2>3, Still, ClientMoves DEF Contract!Lose
<1>14. ASSUME NEW c \in Conns, FwdDelete(c) PROVE Contract!Finish(c)
  <2>1. PortsStay
    BY <1>14 DEF FwdDelete, FwdMove, loopVars, stopVars, PortsStay, PortOf
  <2>2. ClientGoes(c, "served", "gone")
    BY <1>14 DEF FwdDelete, FwdMove, netVars, ClientGoes, ClientOf
  <2> QED
    BY <2>1, <2>2, Still, ClientMoves DEF Contract!Finish
<1>15. ASSUME NEW c \in Conns, Arrive(c) PROVE Contract!Connect(c)
  <2>1. PortsStay /\ PortOf(Via[c]) \in {"open", "last", "shut"}
    BY <1>15 DEF Arrive, loopVars, stopVars, PortsStay, PortOf
  <2>2. ClientGoes(c, "away", "waiting")
    BY <1>15 DEF Arrive, fwdVars, FwdSockets, ClientGoes, ClientOf
  <2> QED
    BY <2>1, <2>2, Still, ClientMoves DEF Contract!Connect, Contract!Bound
<1>16. ASSUME KillerSweeps \/ KillerClears PROVE Quiet
  <2>1. PortsStay
    BY <1>16 DEF KillerSweeps, KillerClears, KillerMove, loopVars, PortsStay, PortOf
  <2>2. ClientsStay
    BY <1>16 DEF KillerSweeps, KillerClears, KillerMove, EntriesLive, Registered,
                 ClientsStay, ClientOf
  <2> QED
    BY <2>1, <2>2
<1>17. ASSUME StopDeclined \/ StopBegins \/ StopSpawnsKiller \/ StopReturns
       PROVE  Quiet
  BY <1>17 DEF StopDeclined, StopBegins, StopSpawnsKiller, StopReturns, StopMove,
               netVars, loopVars, fwdVars, PortsStay, ClientsStay, PortOf, ClientOf
<1>18. ASSUME StopCloses PROVE Contract!Drain
  <2> DEFINE blocked == {f \in Families : loop[f] = "accept"}
  <2>1. ~stopchan /\ ln["tcp4"] = "open" /\ "tcp4" \in Families
    BY <1>18 DEF StopCloses, StopMove, Phases, Families
  <2>2. \A f \in Families : PortOf(f)' = IF PortOf(f) # "open" THEN PortOf(f)
                                         ELSE IF f \in blocked THEN "last" ELSE "shut"
    BY <1>18, <2>1 DEF StopCloses, StopMove, loopVars, PortOf
  <2>3. ClientsStay
    BY <1>18 DEF StopCloses, StopMove, netVars, fwdVars, ClientsStay, ClientOf
  <2>4. PortOf("tcp4") = "open"
    BY <2>1 DEF PortOf
  <2>5. [f \in Families |-> PortOf(f)]' =
           [f \in Families |-> IF [g \in Families |-> PortOf(g)][f] # "open"
                               THEN [g \in Families |-> PortOf(g)][f]
                               ELSE IF f \in blocked THEN "last" ELSE "shut"]
    BY <2>2
  <2>6. blocked \in SUBSET Families
    OBVIOUS
  <2> QED
    BY <2>1, <2>3, <2>4, <2>5, <2>6, Still DEF Contract!Drain
<1> QED
  BY Steps, Still, <1>1, <1>2, <1>3, <1>4, <1>5, <1>6, <1>7, <1>8, <1>9, <1>10, <1>11,
     <1>12, <1>13, <1>14, <1>15, <1>16, <1>17, <1>18 DEF Contract!Next

(* Every behaviour of the server is one that ServerContract allows.        *)
THEOREM KeepsContract == Spec => ContractSpec
<1>1. Init => Contract!Init
  BY DEF Init, Contract!Init, PortOf, ClientOf
<1>2. IInv /\ [Next]_vars => [Contract!Next]_(Contract!vars)
  BY StepMaps DEF Moves
<1> QED
  BY <1>1, <1>2, Inductive, PTL DEF Spec, ContractSpec, Contract!Spec
-----------------------------------------------------------------------------
(*            Who can be waiting, and whom Stop can turn away              *)

(* A Start that has got past a family listens there if it is to listen; a  *)
(* listener that is open after Start has launched has its loop; only Stop  *)
(* leads to a closed one; and only an open one has a queue.                *)
Opened ==
    /\ starter \notin {"tcp4", "failed"} /\ Listens("tcp4") => ln["tcp4"] # "nil"
    /\ starter \notin {"tcp4", "tcp6", "failed"} /\ Listens("tcp6") => ln["tcp6"] # "nil"
    /\ \A f \in Families :
          /\ ln[f] = "closed" => stopchan
          /\ starter \in {"run", "started"} /\ ln[f] = "open" => loop[f] # "off"
    /\ \A c \in Conns : sock[c] = "queued" => ln[Via[c]] = "open"

(* Start, the loops and the kernel's queue go together.                    *)
LEMMA OpenedStep ==
    ASSUME TypeOK, Phases, LoopHolds, Opened, [Moves]_vars
    PROVE  Opened'
<1> USE ConstantsAssumption DEF TypeOK, Opened, Phases, LoopHolds, InHand, Listens
<1>1. CASE UNCHANGED vars
  BY <1>1 DEF vars, netVars, loopVars, fwdVars, stopVars
<1>2. CASE \E f \in Families : Listen(f) \/ ListenFails(f)
  BY <1>2 DEF Listen, ListenFails, StartMove, netVars, fwdVars, stopVars, Families
<1>3. CASE Launch \/ SetRunning
  BY <1>3 DEF Launch, SetRunning, StartMove, netVars, fwdVars, stopVars
<1>4. CASE \E f \in Families : LoopSelect(f) \/ AcceptError(f) \/ Admit(f)
  BY <1>4 DEF LoopSelect, AcceptError, Admit, LoopMove, netVars, stopVars
<1>5. CASE \E f \in Families : Deny(f) \/ DialFails(f) \/ HeaderDrop(f)
  BY <1>5 DEF Deny, DialFails, HeaderDrop, DropCur, Close, LoopMove, stopVars
<1>6. CASE \E f \in Families : Dial(f) \/ HandOver(f)
  BY <1>6 DEF Dial, HandOver, LoopMove, netVars, stopVars
<1>13. ASSUME NEW f \in Families, LoopExit(f) PROVE Opened'
  <2>1. /\ stopchan /\ UNCHANGED <<config, starter, stopchan>>
        /\ ln' = [ln EXCEPT ![f] = "closed"]
        /\ loop' = [loop EXCEPT ![f] = "off"]
    BY <1>13 DEF LoopExit, LoopMove, stopVars
  <2>2. \A c \in Conns : sock'[c] = "queued" => sock[c] = "queued" /\ Via[c] # f
    BY <1>13 DEF LoopExit
  <2>3. \A c \in Conns : sock'[c] = "queued" => ln'[Via[c]] = "open"
    BY <2>1, <2>2
  <2>4. \A g \in Families :
           /\ ln'[g] = "closed" => stopchan'
           /\ starter' \in {"run", "started"} /\ ln'[g] = "open" => loop'[g] # "off"
    BY <2>1
  <2>5. \A g \in Families : ln'[g] = "nil" => ln[g] = "nil"
    BY <2>1
  <2> QED
    BY <2>1, <2>3, <2>4, <2>5 DEF Families
<1>7. CASE \E f \in Families : \E c \in Conns : Accept(f, c)
  BY <1>7 DEF Accept, LoopMove, stopVars
<1>8. CASE \E c \in Conns : FwdAdd(c) \/ FwdDuplicate(c) \/ Copies(c) \/ FwdDone(c)
  BY <1>8 DEF FwdAdd, FwdDuplicate, Copies, PeerEnds, CopyCut, Stalls, StallEnds, FwdDone,
              FwdMove, netVars, loopVars, stopVars
<1>9. CASE \E c \in Conns : FwdRegister(c) \/ FwdClose(c) \/ FwdDelete(c)
  BY <1>9 DEF FwdRegister, Registers, FwdClose, FwdDelete, Close, FwdMove,
              netVars, loopVars, stopVars
<1>10. CASE \E c \in Conns : Arrive(c)
  BY <1>10 DEF Arrive, loopVars, fwdVars, stopVars
<1>11. CASE KillerSweeps \/ KillerClears
  BY <1>11 DEF KillerSweeps, KillerClears, KillerMove, loopVars
<1>12. CASE StopDeclined \/ StopBegins \/ StopCloses \/ StopSpawnsKiller \/ StopReturns
  BY <1>12 DEF StopDeclined, StopBegins, StopCloses, StopSpawnsKiller, StopReturns,
               StopMove, netVars, loopVars, fwdVars
<1> QED
  BY Steps, <1>1, <1>2, <1>3, <1>4, <1>5, <1>6, <1>7, <1>8, <1>9, <1>10, <1>11, <1>12, <1>13

LEMMA OpenedInit ==
    ASSUME Init
    PROVE  Opened
  BY ConstantsAssumption DEF Init, Opened, Families

(* Whoever is in the queue of a listener is in that of an open one, and    *)
(* once Start has returned without an error the loop of that listener has  *)
(* not ended: there is somebody who can take the connection, or will reset *)
(* it.  This is what EveryClientServed rests on besides fairness.          *)
NobodyStranded ==
    \A c \in Conns : sock[c] = "queued" =>
        /\ ln[Via[c]] = "open"
        /\ starter = "started" => loop[Via[c]] # "off"

(* A client in the kernel's queue has an accept loop that can reach it.    *)
THEOREM SomebodyAccepts == Spec => []NobodyStranded
<1>1. Init => IInv /\ Opened
  BY InitIInv, OpenedInit
<1>2. (IInv /\ Opened) /\ [Next]_vars => (IInv /\ Opened)'
  BY MovesKeepIInv, OpenedStep DEF Moves, IInv
<1>3. IInv /\ Opened => NobodyStranded
  BY ConstantsAssumption DEF IInv, TypeOK, Opened, NobodyStranded
<1> QED
  BY <1>1, <1>2, <1>3, PTL DEF Spec

(* Stop is the only step that makes a caller of it "declined".             *)
LEMMA DeclinedStep ==
    ASSUME TypeOK, [Moves]_vars, stopper = "idle", stopper' = "declined"
    PROVE  StopDeclined
<1> USE DEF TypeOK
<1>1. ~UNCHANGED vars
  BY DEF vars, stopVars
<1>2. ~\E f \in Families : Listen(f) \/ ListenFails(f)
  BY DEF Listen, ListenFails, StartMove, stopVars
<1>3. ~(Launch \/ SetRunning)
  BY DEF Launch, SetRunning, StartMove, stopVars
<1>4. ~\E f \in Families :
          \/ LoopSelect(f) \/ AcceptError(f) \/ Deny(f) \/ Admit(f)
          \/ DialFails(f) \/ Dial(f) \/ HeaderDrop(f) \/ HandOver(f)
          \/ LoopExit(f) \/ \E c \in Conns : Accept(f, c)
  BY DEF LoopSelect, AcceptError, Deny, Admit, DialFails, Dial, HeaderDrop, HandOver,
         LoopExit, Accept, LoopMove, stopVars
<1>5. ~\E c \in Conns :
          \/ FwdAdd(c) \/ FwdRegister(c) \/ FwdDuplicate(c) \/ Copies(c)
          \/ FwdClose(c) \/ FwdDelete(c) \/ FwdDone(c) \/ Arrive(c)
  BY DEF FwdAdd, FwdRegister, Registers, FwdDuplicate, Copies, PeerEnds, CopyCut, Stalls,
         StallEnds, FwdClose, FwdDelete,
         FwdDone, Arrive, FwdMove, stopVars
<1>6. ~(KillerSweeps \/ KillerClears)
  BY DEF KillerSweeps, KillerClears, KillerMove
<1>7. ~(StopBegins \/ StopCloses \/ StopSpawnsKiller \/ StopReturns)
  BY DEF StopBegins, StopCloses, StopSpawnsKiller, StopReturns, StopMove
<1> QED
  BY Steps, <1>1, <1>2, <1>3, <1>4, <1>5, <1>6, <1>7

(* Stop can turn away a running server (StopNeverDeclinesRunning fails),   *)
(* but for one reason only: its configuration gives it no IPv4 listener,   *)
(* the only one that the guard of Stop looks at.                           *)
DeclinesOnlyWithoutFour ==
    [][stopper = "idle" /\ stopper' = "declined" /\ status = "Running"
         => ~Listens("tcp4")]_vars

(* A Start that has returned has opened the listener it was to open, and   *)
(* nobody but Stop closes it.                                              *)
LEMMA DeclinedForFour ==
    ASSUME IInv, Opened, [Moves]_vars,
           stopper = "idle", stopper' = "declined", status = "Running"
    PROVE  ~Listens("tcp4")
<1>1. ln["tcp4"] # "open"
  BY DeclinedStep DEF IInv, StopDeclined
<1>2. ln["tcp4"] # "closed"
  BY DEF IInv, Phases, Opened, Families
<1>3. ln["tcp4"] \in {"nil", "open", "closed"}
  BY DEF IInv, TypeOK, Families
<1>4. starter = "started"
  BY DEF IInv, Phases, TypeOK
<1> QED
  BY <1>1, <1>2, <1>3, <1>4 DEF Opened

(* A running server that listens on IPv4 is never turned away by Stop.     *)
THEOREM OnlyFourCounts == Spec => DeclinesOnlyWithoutFour
<1>1. Init => IInv /\ Opened
  BY InitIInv, OpenedInit
<1>2. (IInv /\ Opened) /\ [Next]_vars => (IInv /\ Opened)'
  BY MovesKeepIInv, OpenedStep DEF Moves, IInv
<1>3. IInv /\ Opened /\ [Next]_vars =>
        [stopper = "idle" /\ stopper' = "declined" /\ status = "Running"
           => ~Listens("tcp4")]_vars
  BY DeclinedForFour DEF Moves
<1> QED
  BY <1>1, <1>2, <1>3, PTL DEF Spec, DeclinesOnlyWithoutFour

(* After a failure of Start only the clients and Stop's caller move.       *)
LEMMA FailedStep ==
    ASSUME TypeOK, Phases, NotLaunched, LoopHolds, FwdSockets, EntriesLive,
           [Moves]_vars, starter = "failed"
    PROVE  /\ UNCHANGED <<starter, ln, loop, stopchan>>
           /\ \A c \in Conns : sock[c] = "queued" => sock'[c] = "queued"
<1> USE ConstantsAssumption DEF TypeOK, NotLaunched
<1>0. ~stopchan /\ status = "Ready" /\ stopper \in {"idle", "declined"}
  BY DEF Phases
<1>1. CASE UNCHANGED vars
  BY <1>1 DEF vars, netVars, loopVars, fwdVars, stopVars
<1>2. CASE \E f \in Families : Listen(f) \/ ListenFails(f)
  BY <1>2 DEF Listen, ListenFails, StartMove, netVars, fwdVars, stopVars, Families
<1>3. CASE Launch \/ SetRunning
  BY <1>3 DEF Launch, SetRunning, StartMove, netVars, fwdVars, stopVars
<1>4. CASE \E f \in Families : LoopSelect(f) \/ AcceptError(f) \/ Admit(f)
  BY <1>4 DEF LoopSelect, AcceptError, Admit, LoopMove, netVars, stopVars
<1>5. CASE \E f \in Families : Deny(f) \/ DialFails(f) \/ HeaderDrop(f)
  BY <1>5 DEF Deny, DialFails, HeaderDrop, DropCur, Close, LoopMove, stopVars
<1>6. CASE \E f \in Families : Dial(f) \/ HandOver(f) \/ LoopExit(f)
  BY <1>6 DEF Dial, HandOver, LoopExit, LoopMove, netVars, stopVars
<1>7. CASE \E f \in Families : \E c \in Conns : Accept(f, c)
  BY <1>7 DEF Accept, LoopMove, stopVars
<1>8. CASE \E c \in Conns : FwdAdd(c) \/ FwdDuplicate(c) \/ Copies(c) \/ FwdDone(c)
  BY <1>8 DEF FwdAdd, FwdDuplicate, Copies, PeerEnds, CopyCut, Stalls, StallEnds, FwdDone,
              FwdMove, netVars, loopVars, stopVars
<1>9. CASE \E c \in Conns : FwdRegister(c) \/ FwdClose(c) \/ FwdDelete(c)
  BY <1>9 DEF FwdSockets, FwdRegister, Registers, FwdClose, FwdDelete, Close, FwdMove,
              netVars, loopVars, stopVars
<1>10. CASE \E c \in Conns : Arrive(c)
  BY <1>10 DEF Arrive, loopVars, fwdVars, stopVars
<1>11. CASE KillerSweeps \/ KillerClears
  BY <1>11 DEF EntriesLive, Registered, FwdSockets, KillerSweeps, KillerClears, KillerMove,
               loopVars
<1>12. CASE StopDeclined \/ StopBegins \/ StopCloses \/ StopSpawnsKiller \/ StopReturns
  BY <1>0, <1>12 DEF StopDeclined, StopBegins, StopCloses, StopSpawnsKiller, StopReturns,
               StopMove, netVars, loopVars, fwdVars
<1> QED
  BY Steps, <1>1, <1>2, <1>3, <1>4, <1>5, <1>6, <1>7, <1>8, <1>9, <1>10, <1>11, <1>12

(* A Start that failed closes nothing: the listener it had opened before   *)
(* stays open without a loop, and who is in its queue stays there.  Stop   *)
(* declines a server that never ran, so nothing ends this as long as       *)
(* anybody refers to the server (TcpGroup has the collector).              *)
FailureLeavesQueue ==
    [][starter = "failed" =>
         /\ UNCHANGED <<starter, ln, loop, stopchan>>
         /\ \A c \in Conns : sock[c] = "queued" => sock'[c] = "queued"]_vars

(* What a failed Start left open no step of the server ever closes.        *)
THEOREM FailureLeaks == Spec => FailureLeavesQueue
<1>1. IInv /\ [Next]_vars =>
        [starter = "failed" =>
           /\ UNCHANGED <<starter, ln, loop, stopchan>>
           /\ \A c \in Conns : sock[c] = "queued" => sock'[c] = "queued"]_vars
  BY FailedStep DEF IInv, Moves
<1> QED
  BY <1>1, Inductive, PTL DEF Spec, FailureLeavesQueue

-----------------------------------------------------------------------------
(*                      The life the group counts on                       *)

(* A server listens nowhere but where its configuration says.              *)
Listened == \A f \in Families : ln[f] # "nil" => Listens(f)

(* Most steps are none of the group's business.                            *)
LEMMA SeenSteps ==
    ASSUME [Moves]_vars
    PROVE  /\ UNCHANGED config
           /\ \/ UNCHANGED <<starter, ln, stopper>>
              \/ \E f \in Families : Listen(f) \/ ListenFails(f) \/ LoopExit(f)
              \/ Launch \/ SetRunning
              \/ StopDeclined \/ StopBegins \/ StopCloses \/ StopSpawnsKiller \/ StopReturns
<1>1. CASE UNCHANGED vars
  BY <1>1 DEF vars, stopVars
<1>2. CASE \E f \in Families : Listen(f) \/ ListenFails(f)
  BY <1>2 DEF Listen, ListenFails, StartMove
<1>3. CASE Launch \/ SetRunning
  BY <1>3 DEF Launch, SetRunning, StartMove
<1>4. CASE \E f \in Families : LoopSelect(f) \/ AcceptError(f) \/ Admit(f)
  BY <1>4 DEF LoopSelect, AcceptError, Admit, LoopMove, stopVars
<1>5. CASE \E f \in Families : Deny(f) \/ DialFails(f) \/ HeaderDrop(f)
  BY <1>5 DEF Deny, DialFails, HeaderDrop, DropCur, LoopMove, stopVars
<1>6. CASE \E f \in Families : Dial(f) \/ HandOver(f) \/ \E c \in Conns : Accept(f, c)
  BY <1>6 DEF Dial, HandOver, Accept, LoopMove, stopVars
<1>7. CASE \E f \in Families : LoopExit(f)
  BY <1>7 DEF LoopExit, LoopMove
<1>8. CASE \E c \in Conns : \/ FwdAdd(c) \/ FwdRegister(c) \/ FwdDuplicate(c) \/ Copies(c)
                            \/ FwdClose(c) \/ FwdDelete(c) \/ FwdDone(c)
  BY <1>8 DEF FwdAdd, FwdRegister, Registers, FwdDuplicate, Copies, PeerEnds, CopyCut,
              Stalls, StallEnds, FwdClose,
              FwdDelete, FwdDone, FwdMove, stopVars
<1>9. CASE KillerSweeps \/ KillerClears \/ \E c \in Conns : Arrive(c)
  BY <1>9 DEF KillerSweeps, KillerClears, KillerMove, Arrive, stopVars
<1>10. CASE StopDeclined \/ StopBegins \/ StopCloses \/ StopSpawnsKiller \/ StopReturns
  BY <1>10 DEF StopDeclined, StopBegins, StopCloses, StopSpawnsKiller, StopReturns, StopMove
<1> QED
  BY Steps, <1>1, <1>2, <1>3, <1>4, <1>5, <1>6, <1>7, <1>8, <1>9, <1>10

LEMMA ListenedStep ==
    ASSUME TypeOK, Phases, Listened, [Moves]_vars
    PROVE  Listened'
<1>0. \A f \in Families : Listens(f)' <=> Listens(f)
  BY SeenSteps DEF Listens
<1>1. CASE UNCHANGED ln
  BY <1>0, <1>1 DEF Listened
<1>2. ASSUME NEW f \in Families, Listen(f)
      PROVE  Listened'
  BY <1>0, <1>2 DEF Listen, Listened, TypeOK
<1>3. ASSUME NEW f \in Families, LoopExit(f)
      PROVE  Listened'
  <2>1. ln[f] = "open" /\ ln' = [ln EXCEPT ![f] = "closed"]
    BY <1>3 DEF LoopExit, LoopMove, Phases
  <2> QED
    BY <1>0, <2>1 DEF Listened, TypeOK
<1> QED
  BY SeenSteps, <1>1, <1>2, <1>3 DEF ListenFails, Launch, SetRunning, StopDeclined,
     StopBegins, StopCloses, StopSpawnsKiller, StopReturns, StopMove

(* A server that does not run has no Stop under way.                       *)
LEMMA BeforeStop ==
    ASSUME TypeOK, Phases, starter # "started"
    PROVE  status = "Ready" /\ stopper \in {"idle", "declined"} /\ ~stopchan
  BY DEF TypeOK, Phases

(* What the group sees of a step is a step of ServerLife or nothing.       *)
LEMMA LifeStep ==
    ASSUME TypeOK, Phases, NotLaunched, Listened, [Moves]_vars
    PROVE  [Life!Next]_(Life!vars)
<1> DEFINE fams == {f \in Families : Listens(f)}
           drains == stopper \in {"close", "sleep", "wait"}
           Stays  == LifeOf' = LifeOf /\ (drains' <=> drains)
<1>0. fams' = fams
  BY SeenSteps DEF Listens
<1>1. Stays => UNCHANGED Life!vars
  BY <1>0 DEF Life!vars
<1>2. CASE UNCHANGED <<starter, ln, stopper>>
  BY <1>1, <1>2 DEF LifeOf, HoldsListener
<1>3. ASSUME NEW f \in Families, Listen(f)
      PROVE  Stays
  BY <1>3, BeforeStop DEF Listen, StartMove, stopVars, LifeOf, Families
<1>4. ASSUME NEW f \in Families, ListenFails(f)
      PROVE  Life!Fail \/ Life!Leak
  <2>1. /\ starter = f /\ starter' = "failed" /\ Listens(f) /\ ln[f] = "nil"
        /\ UNCHANGED <<ln, stopper>>
    BY <1>4 DEF ListenFails, StartMove, stopVars, Phases, Families
  <2>2. LifeOf = "made" /\ (drains' <=> drains)
    BY <2>1 DEF LifeOf, Families
  <2>3. CASE ~HoldsListener
    <3>1. LifeOf' = "failed"
      BY <2>1, <2>3 DEF LifeOf, HoldsListener
    <3> QED
      BY <1>0, <2>2, <3>1 DEF Life!Fail, Life!Become
  <2>4. CASE HoldsListener
    <3>1. f = "tcp6" /\ ln["tcp4"] = "open"
      BY <2>1, <2>4 DEF HoldsListener, Phases, Families
    <3>2. Listens("tcp4") /\ Listens("tcp6")
      BY <2>1, <3>1 DEF Listened, Families
    <3>3. fams = {"tcp4", "tcp6"}
      BY <3>2 DEF Families
    <3>4. LifeOf' = "leaking"
      BY <2>1, <2>4 DEF LifeOf, HoldsListener
    <3> QED
      BY <1>0, <2>2, <3>3, <3>4 DEF Life!Leak, Life!Become
  <2> QED
    BY <2>3, <2>4
<1>5. CASE Launch
  BY <1>1, <1>5 DEF Launch, StartMove, stopVars, LifeOf
<1>6. CASE SetRunning
  <2>1. starter = "run" /\ starter' = "started" /\ stopper' = stopper
    BY <1>6 DEF SetRunning, StartMove, stopVars
  <2>2. stopper \in {"idle", "declined"}
    BY <2>1, BeforeStop
  <2>3. LifeOf = "made" /\ LifeOf' = "serving" /\ (drains' <=> drains)
    BY <2>1, <2>2 DEF LifeOf
  <2> QED
    BY <1>0, <2>3 DEF Life!Next, Life!Serve, Life!Become
<1>7. ASSUME NEW f \in Families, LoopExit(f)
      PROVE  Stays \/ Life!Release
  <2>1. loop[f] = "exit" /\ UNCHANGED <<starter, stopper>>
    BY <1>7 DEF LoopExit, LoopMove, stopVars
  <2>2. ln[f] = "open" /\ stopchan
    BY <2>1 DEF Phases
  <2>3. starter = "started" /\ stopper \in {"sleep", "wait", "returned"}
    BY <2>2, BeforeStop DEF Phases
  <2>4. LifeOf = "halting" /\ LifeOf' \in {"halting", "halted"}
    BY <2>1, <2>2, <2>3 DEF LifeOf, HoldsListener
  <2> QED
    BY <1>0, <2>1, <2>4 DEF Life!Release, Life!Become
<1>8. CASE StopDeclined
  BY <1>1, <1>8 DEF StopDeclined, StopMove, LifeOf, HoldsListener
<1>9. CASE StopBegins
  <2>1. /\ ln["tcp4"] = "open" /\ stopper \in {"idle", "declined"} /\ stopper' = "close"
        /\ UNCHANGED <<starter, ln>>
    BY <1>9 DEF StopBegins, StopMove
  <2>2. starter = "started"
    BY <1>9, BeforeStop DEF StopBegins
  <2>3. LifeOf = "serving" /\ LifeOf' = "halting"
    BY <2>1, <2>2 DEF LifeOf, HoldsListener, Families
  <2>4. "tcp4" \in fams
    BY <2>1 DEF Listened, Families
  <2> QED
    BY <1>0, <2>1, <2>3, <2>4 DEF Life!Next, Life!Halt, Life!Become
<1>10. CASE StopCloses \/ StopSpawnsKiller
  BY <1>1, <1>10 DEF StopCloses, StopSpawnsKiller, StopMove, LifeOf, HoldsListener
<1>11. CASE StopReturns
  <2>1. stopper = "wait" /\ stopper' = "returned" /\ UNCHANGED <<starter, ln>>
    BY <1>11 DEF StopReturns, StopMove
  <2>2. LifeOf' = LifeOf
    BY <2>1 DEF LifeOf, HoldsListener
  <2> QED
    BY <1>0, <2>1, <2>2 DEF Life!Next, Life!Drained
<1> QED
  BY SeenSteps, <1>1, <1>2, <1>3, <1>4, <1>5, <1>6, <1>7, <1>8, <1>9, <1>10, <1>11
     DEF Life!Next

LEMMA LifeInit ==
    ASSUME Init
    PROVE  Life!Init /\ Listened
<1>1. config \in ForwardConfig
  BY ConstantsAssumption DEF Init
<1>2. PICK f \in Families : f \in config.dest
  <2>1. config.dest \in (SUBSET Families) \ {{}}
    BY <1>1 DEF ForwardConfig
  <2>2. \E f \in config.dest : f \in Families
    BY <2>1
  <2> QED
    BY <2>2
<1>3. Listens(f)
  BY <1>1, <1>2 DEF ForwardConfig, Listens
<1>4. {g \in Families : Listens(g)} \in (SUBSET {"tcp4", "tcp6"}) \ {{}}
  BY <1>2, <1>3 DEF Families
<1>5. LifeOf = "made" /\ stopper \notin {"close", "sleep", "wait"}
  BY DEF Init, LifeOf
<1> QED
  BY <1>4, <1>5 DEF Life!Init, Init, Listened

(* Every behaviour of a server, goroutines and all, is for the group one   *)
(* that ServerLife allows: what TcpGroup takes a server to be.             *)
THEOREM LivesLife == Spec => LifeSpec
<1>1. Init => Life!Init /\ Listened
  BY LifeInit
<1>2. IInv /\ Listened /\ [Next]_vars => Listened'
  BY ListenedStep DEF IInv, Moves
<1>3. IInv /\ Listened /\ [Next]_vars => [Life!Next]_(Life!vars)
  BY LifeStep DEF IInv, Moves
<1> QED
  BY <1>1, <1>2, <1>3, Inductive, PTL DEF Spec, LifeSpec, Life!Spec
=============================================================================
