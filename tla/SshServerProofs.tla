--------------------------- MODULE SshServerProofs ---------------------------
(***************************************************************************)
(* Proofs about SshServer, for any set of connections, addresses and       *)
(* configurations.  Its steps are moves of ForwardServer, whose invariant, *)
(* properties and contract it therefore keeps; RowsInv says what the rows  *)
(* and the records add.                                                    *)
(***************************************************************************)
EXTENDS SshServer, ForwardServerProofs

Recorded == {"live", "ended", "purged"}

(* The part of RowsTellTruth that every step preserves: a row is recorded  *)
(* exactly with the hand-over, and finished by a forward that is through.  *)
RowsInv ==
    \A c \in Conns :
        /\ fwd[c] # "none" <=> row[c] \in Recorded
        /\ row[c] = "live" => rec[c] \in {"held", "unsaved"}
        /\ row[c] = "ended" => fwd[c] \in {"done", "lost"}
        /\ row[c] = "claimed" => fwd[c] = "none" /\ sock[c] = "closed"

SshInv == IInv /\ SshTypeOK /\ RowsInv

-----------------------------------------------------------------------------
(* What a step of SshNext may be: one that leaves the rows alone, or one   *)
(* of those that do not.                                                   *)
Plain ==
    \/ \E f \in Families : Listen(f) \/ ListenFails(f)
    \/ Launch \/ SetRunning \/ Stop \/ Killer
    \/ \E f \in Families :
          \/ LoopSelect(f) \/ AcceptError(f) \/ LoopExit(f) \/ Admit(f) \/ Dial(f)
          \/ Deny(f) \/ DialFails(f) \/ HeaderFails(f) \/ \E c \in Conns : Accept(f, c)
    \/ \E c \in Conns : FwdStep(c) \/ Arrive(c) \/ Copies(c)

(* ... and nothing else.                                                   *)
LEMMA SshSteps ==
    ASSUME SshNext
    PROVE  \/ Plain /\ UNCHANGED rowVars
           \/ \E f \in Families : RowFails(f) \/ HandOverSaved(f)
           \/ \E c \in Conns : Update(c) \/ CleanRow(c)
  BY DEF SshNext, Plain, Listening, Launching, Stopping, Outside, Environment, SshLoop,
         LoopPlain, AcceptSsh, TurnedAway, Forwarding, Copies

(* To the forwarding server itself every step is one of its moves.         *)
LEMMA SshMoves ==
    ASSUME [SshNext]_sshVars
    PROVE  [Moves]_vars
<1>1. CASE UNCHANGED sshVars
  BY <1>1 DEF sshVars
<1>2. CASE Plain
  BY <1>2 DEF Plain, Moves, Next, Start, LoopStep, Environment, FwdStep, Copies
<1>3. CASE \E f \in Families : RowFails(f) \/ HandOverSaved(f)
  BY <1>3 DEF RowFails, HandOverSaved, HeaderDrop, Moves, Next, LoopStep
<1>4. CASE \E c \in Conns : Update(c) \/ CleanRow(c)
  BY <1>4 DEF Update, CleanRow
<1> QED
  BY SshSteps, <1>1, <1>2, <1>3, <1>4

(* Each row and each record goes from one of its states to another.        *)
LEMMA SshTypeStep ==
    ASSUME SshTypeOK, IInv, [SshNext]_sshVars
    PROVE  SshTypeOK'
<1>1. TypeOK'
  BY SshMoves, MovesKeepIInv DEF IInv
<1>2. row' \in [Conns -> {"none", "claimed", "live", "ended", "purged"}]
  <2>1. CASE UNCHANGED rowVars
    BY <2>1 DEF SshTypeOK, rowVars
  <2>2. CASE \E f \in Families : RowFails(f) \/ HandOverSaved(f)
    BY <2>2 DEF SshTypeOK, RowFails, HandOverSaved
  <2>3. CASE \E c \in Conns : Update(c) \/ CleanRow(c)
    BY <2>3 DEF SshTypeOK, Update, Saves, CleanRow
  <2> QED
    BY SshSteps, <2>1, <2>2, <2>3 DEF sshVars
<1>3. rec' \in [Conns -> {"none", "held", "final", "unsaved"}]
  <2>1. CASE UNCHANGED rowVars
    BY <2>1 DEF SshTypeOK, rowVars
  <2>2. CASE \E f \in Families : RowFails(f) \/ HandOverSaved(f)
    BY <2>2 DEF SshTypeOK, RowFails, HandOverSaved
  <2>3. CASE \E c \in Conns : Update(c) \/ CleanRow(c)
    BY <2>3 DEF SshTypeOK, Update, Saves, CleanRow
  <2> QED
    BY SshSteps, <2>1, <2>2, <2>3 DEF sshVars
<1> QED
  BY <1>1, <1>2, <1>3 DEF SshTypeOK

(* A plain step starts no forward, revives none and opens no closed socket. *)
LEMMA PlainStep ==
    ASSUME IInv, Plain, NEW c \in Conns
    PROVE  /\ fwd[c] = "none" <=> fwd'[c] = "none"
           /\ fwd[c] \in {"done", "lost"} => fwd'[c] = fwd[c]
           /\ sock[c] = "closed" => sock'[c] = "closed"
<1> USE ConstantsAssumption DEF IInv, TypeOK
<1>1. CASE \E f \in Families : Listen(f) \/ ListenFails(f)
  BY <1>1 DEF Listen, ListenFails, StartMove, netVars, fwdVars
<1>2. CASE Launch \/ SetRunning
  BY <1>2 DEF Launch, SetRunning, StartMove, netVars, fwdVars
<1>3. CASE Stop
  BY <1>3 DEF Stop, StopDeclined, StopBegins, StopCloses, StopSpawnsKiller, StopReturns,
              StopMove, netVars, fwdVars
<1>4. CASE Killer
  BY <1>4 DEF Killer, KillerSweeps, KillerClears, KillerMove
<1>5. CASE \E f \in Families : LoopSelect(f) \/ AcceptError(f) \/ Admit(f) \/ Dial(f)
  BY <1>5 DEF LoopSelect, AcceptError, Admit, Dial, LoopMove, netVars
<1>6. CASE \E f \in Families : \/ Deny(f) \/ DialFails(f) \/ HeaderFails(f) \/ LoopExit(f)
                               \/ \E d \in Conns : Accept(f, d)
  BY <1>6 DEF Deny, DialFails, HeaderFails, DropCur, Close, LoopExit, Accept, LoopMove
<1>7. CASE \E d \in Conns : FwdAdd(d) \/ FwdDuplicate(d) \/ Copies(d) \/ FwdDone(d)
  BY <1>7 DEF FwdAdd, FwdDuplicate, Copies, PeerEnds, CopyCut, Stalls, StallEnds, FwdDone,
              FwdMove, netVars
<1>8. CASE \E d \in Conns : FwdRegister(d) \/ FwdClose(d) \/ FwdDelete(d) \/ Arrive(d)
  BY <1>8 DEF FwdRegister, Registers, FwdClose, FwdDelete, Arrive, Close, FwdMove,
              netVars, fwdVars
<1> QED
  BY <1>1, <1>2, <1>3, <1>4, <1>5, <1>6, <1>7, <1>8 DEF Plain, FwdStep, Copies

(* What a loop has in hand after the dial is an open connection that has   *)
(* no forward yet, hence no row that a forward or the cleaner could own.   *)
LEMMA InHandFresh ==
    ASSUME IInv, NEW f \in Families, loop[f] = "header"
    PROVE  cur[f] \in Conns /\ fwd[cur[f]] = "none" /\ sock[cur[f]] = "open"
  BY DEF IInv, TypeOK, LoopHolds, InHand

(* Only RowFails and the hand-over write the row of a connection without a *)
(* forward, only Update and the cleaner that of one with a forward.        *)
LEMMA RowsStep ==
    ASSUME SshInv, [SshNext]_sshVars
    PROVE  RowsInv'
<1> USE DEF SshInv, IInv, TypeOK, SshTypeOK, RowsInv, Recorded
<1>1. CASE UNCHANGED sshVars
  BY <1>1 DEF sshVars, vars, rowVars, netVars, fwdVars
<1>2. CASE Plain /\ UNCHANGED rowVars
  BY <1>2, PlainStep DEF rowVars
<1>3. ASSUME NEW f \in Families, RowFails(f)
      PROVE  RowsInv'
  BY <1>3, InHandFresh DEF RowFails, DropCur, Close, LoopMove
<1>4. ASSUME NEW f \in Families, HandOverSaved(f)
      PROVE  RowsInv'
  BY <1>4, InHandFresh DEF HandOverSaved, HandOver, LoopMove, netVars
<1>5. ASSUME NEW c \in Conns, Update(c)
      PROVE  RowsInv'
  BY <1>5 DEF Update, Saves, vars, netVars, fwdVars
<1>6. ASSUME NEW c \in Conns, CleanRow(c)
      PROVE  RowsInv'
  BY <1>6 DEF CleanRow, vars, netVars, fwdVars
<1> QED
  BY SshSteps, <1>1, <1>2, <1>3, <1>4, <1>5, <1>6

-----------------------------------------------------------------------------
(* The invariant of the forwarding server and that of the rows, together.  *)
THEOREM SshInductive == SshSpec => []SshInv
<1>1. SshInit => SshInv
  <2> SUFFICES ASSUME SshInit PROVE SshInv
    OBVIOUS
  <2>1. IInv
    BY InitIInv DEF SshInit
  <2> QED
    BY <2>1 DEF SshInit, Init, SshInv, IInv, SshTypeOK, RowsInv, Recorded
<1>2. SshInv /\ [SshNext]_sshVars => SshInv'
  BY SshMoves, MovesKeepIInv, SshTypeStep, RowsStep DEF SshInv
<1> QED
  BY <1>1, <1>2, PTL DEF SshSpec

(* The server, the table and the records keep their shapes.                *)
THEOREM SshTypeCorrect == SshSpec => []SshTypeOK
<1>1. SshInv => SshTypeOK
  BY DEF SshInv
<1> QED
  BY <1>1, SshInductive, PTL

(* Whatever is forwarded is recorded, and a finished row tells the truth.  *)
THEOREM RowsTrue == SshSpec => []RowsTellTruth
<1>1. SshInv => RowsTellTruth
  BY DEF SshInv, RowsInv, Recorded, IInv, FwdSockets, RowsTellTruth
<1> QED
  BY <1>1, SshInductive, PTL

(* Only the last deed of a forward brings a deleted row back.              *)
LEMMA ComesBackStep ==
    ASSUME SshInv, [SshNext]_sshVars, NEW c \in Conns,
           row[c] = "purged", row'[c] # "purged"
    PROVE  rec[c] = "held" /\ rec'[c] = "final" /\ fwd[c] \in {"done", "lost"}
<1> USE DEF SshInv, SshTypeOK
<1>1. fwd[c] # "none"
  BY DEF RowsInv, Recorded
<1>2. ~UNCHANGED row
  OBVIOUS
<1>3. ASSUME NEW f \in Families, RowFails(f) \/ HandOverSaved(f)
      PROVE  FALSE
  <2>1. cur[f] # c
    BY <1>1, <1>3, InHandFresh DEF RowFails, HandOverSaved, HandOver, LoopMove
  <2> QED
    BY <1>3, <2>1 DEF RowFails, HandOverSaved
<1>4. ASSUME NEW d \in Conns, CleanRow(d)
      PROVE  FALSE
  BY <1>4 DEF CleanRow
<1>5. PICK d \in Conns : Update(d)
  BY SshSteps, <1>2, <1>3, <1>4 DEF sshVars, rowVars
<1> QED
  BY <1>5 DEF Update, Saves

(* So a row deleted for its age returns at most once, and complete.        *)
THEOREM ReturnsComplete == SshSpec => ComesBackOnce
<1>1. SshInv /\ [SshNext]_sshVars =>
        [\A c \in Conns : (row[c] = "purged" /\ row'[c] # "purged") =>
            rec[c] = "held" /\ rec'[c] = "final" /\ fwd[c] \in {"done", "lost"}]_sshVars
  BY ComesBackStep
<1> QED
  BY <1>1, SshInductive, PTL DEF SshSpec, ComesBackOnce

(* The SSH server keeps the same contract as the plain one.                *)
THEOREM SshKeepsContract == SshSpec => ContractSpec
<1>1. SshInit => Contract!Init
  BY DEF SshInit, Init, Contract!Init, PortOf, ClientOf
<1>2. SshInv /\ [SshNext]_sshVars => [Contract!Next]_(Contract!vars)
  BY SshMoves, StepMaps DEF SshInv
<1> QED
  BY <1>1, <1>2, SshInductive, PTL DEF SshSpec, ContractSpec, Contract!Spec

-----------------------------------------------------------------------------
(*            What the plain server promises, the SSH server does          *)

(* The sockets have owners, the registry is exact, the sweep reaches all   *)
(* that are registered, a listener takes one last call, and nobody is      *)
(* stranded in a queue: the rows and the cleaner disturb none of it.       *)
THEOREM SshLikeTcp ==
    SshSpec => [](SocketsOwned /\ RegistryExact /\ SweepMissesOnlyLate
                    /\ OneLastCall /\ NobodyStranded)
<1>1. SshInit => IInv /\ Opened
  BY InitIInv, OpenedInit DEF SshInit
<1>2. (IInv /\ Opened) /\ [SshNext]_sshVars => (IInv /\ Opened)'
  BY SshMoves, MovesKeepIInv, OpenedStep DEF IInv
<1>3. IInv /\ Opened => /\ SocketsOwned /\ RegistryExact /\ SweepMissesOnlyLate
                        /\ OneLastCall /\ NobodyStranded
  <2>1. IInv => SocketsOwned /\ SweepMissesOnlyLate
    BY DEF IInv
  <2>2. IInv => RegistryExact
    BY DEF IInv, EntriesLive, SweepComplete, RegistryExact
  <2>3. IInv => OneLastCall
    BY DEF IInv, LastCallSpent, OneLastCall
  <2>4. IInv /\ Opened => NobodyStranded
    BY ConstantsAssumption DEF IInv, TypeOK, Opened, NobodyStranded
  <2> QED
    BY <2>1, <2>2, <2>3, <2>4
<1> QED
  BY <1>1, <1>2, <1>3, PTL DEF SshSpec

(* What a step of the plain server may not do, one of the SSH server may   *)
(* not: close a listener nobody asked to stop, turn away the Stop of a     *)
(* running server that listens on IPv4, take anything back after a failed  *)
(* Start.                                                                  *)
THEOREM SshStepsLikeTcp ==
    SshSpec => ListenersStayOpen /\ DeclinesOnlyWithoutFour /\ FailureLeavesQueue
<1>1. SshInit => IInv /\ Opened
  BY InitIInv, OpenedInit DEF SshInit
<1>2. (IInv /\ Opened) /\ [SshNext]_sshVars => (IInv /\ Opened)'
  BY SshMoves, MovesKeepIInv, OpenedStep DEF IInv
<1>3. IInv /\ [SshNext]_sshVars =>
        [\A f \in Families : (ln[f] = "open" /\ ln'[f] # "open")
            => status \in {"Stopping", "Finished"}]_vars
  BY SshMoves, StayOpenStep DEF IInv
<1>4. IInv /\ Opened /\ [SshNext]_sshVars =>
        [stopper = "idle" /\ stopper' = "declined" /\ status = "Running"
           => ~Listens("tcp4")]_vars
  BY SshMoves, DeclinedForFour
<1>5. IInv /\ [SshNext]_sshVars =>
        [starter = "failed" =>
           /\ UNCHANGED <<starter, ln, loop, stopchan>>
           /\ \A c \in Conns : sock[c] = "queued" => sock'[c] = "queued"]_vars
  BY SshMoves, FailedStep DEF IInv
<1> QED
  BY <1>1, <1>2, <1>3, <1>4, <1>5, PTL
     DEF SshSpec, ListenersStayOpen, DeclinesOnlyWithoutFour, FailureLeavesQueue

(* To its group the SSH server is a server like any other.                 *)
THEOREM SshLivesLife == SshSpec => LifeSpec
<1>1. SshInit => Life!Init /\ Listened
  BY LifeInit DEF SshInit
<1>2. SshInv /\ Listened /\ [SshNext]_sshVars => Listened'
  BY SshMoves, ListenedStep DEF SshInv, IInv
<1>3. SshInv /\ Listened /\ [SshNext]_sshVars => [Life!Next]_(Life!vars)
  BY SshMoves, LifeStep DEF SshInv, IInv
<1> QED
  BY <1>1, <1>2, <1>3, SshInductive, PTL DEF SshSpec, LifeSpec, Life!Spec
=============================================================================
