------------------------------ MODULE SshServer ------------------------------
(***************************************************************************)
(* One SSH forwarding server: src/sshserver/server.go.  Its listeners,     *)
(* loops, registry and Stop are those of tcpserver/server.go, line for     *)
(* line, so the actions of ForwardServer are reused.  What is new: there   *)
(* is no gate, a connection is handed over only once its row in SQLite is  *)
(* saved, and a forward completes its row as its very last deed, while the *)
(* cleaner deletes rows.                                                   *)
(***************************************************************************)
EXTENDS ForwardServer

VARIABLES
    row,   \* row[c]: the row of c in the table ssh_connect_record
    rec    \* rec[c]: the record, with its row's id, that the forward of c holds

rowVars == <<row, rec>>
sshVars == <<vars, rowVars>>

SshInit ==
    /\ Init
    /\ row = [c \in Conns |-> "none"]
    /\ rec = [c \in Conns |-> "none"]

-----------------------------------------------------------------------------
(*             What SshServer does exactly as TcpServer does               *)

Listening == (\E f \in Families : Listen(f) \/ ListenFails(f)) /\ UNCHANGED rowVars

Launching == (Launch \/ SetRunning) /\ UNCHANGED rowVars

LoopPlain(f) ==
    /\ LoopSelect(f) \/ AcceptError(f) \/ LoopExit(f)
    /\ UNCHANGED rowVars

AcceptSsh(f) ==
    /\ Admit(f) \/ Dial(f) \/ \E c \in Conns : Accept(f, c)
    /\ UNCHANGED rowVars

Forwarding(c) == FwdStep(c) /\ UNCHANGED rowVars

Stopping == (Stop \/ Killer) /\ UNCHANGED rowVars

Outside == Environment /\ UNCHANGED rowVars

-----------------------------------------------------------------------------
(*                          The row of an attempt                          *)

(* The remote address is nil or does not resolve, it is refused, the dial  *)
(* or the header fails.  The row such an attempt leaves, or fails to       *)
(* leave, only matters to the count rules: SshGate has it.                 *)
TurnedAway(f) == (Deny(f) \/ DialFails(f) \/ HeaderFails(f)) /\ UNCHANGED rowVars

(* Saving the row fails; a second one is tried, which says accept = true   *)
(* although the connection is dropped.                                     *)
RowFails(f) ==
    /\ LoopMove(f, "header", "select")
    /\ DropCur(f)
    /\ row' = [row EXCEPT ![cur[f]] = "claimed"] \/ UNCHANGED row
    /\ UNCHANGED rec

(* Slip: the row is saved by the forward, its error dropped.               *)
HandOverUnsaved(f) ==
    /\ HandOver(f)
    /\ row' = [row EXCEPT ![cur[f]] = "live"] \/ UNCHANGED row
    /\ rec' = [rec EXCEPT ![cur[f]] = "held"]

HandOverSaved(f) ==
    /\ HandOver(f)
    /\ row' = [row EXCEPT ![cur[f]] = "live"]
    /\ rec' = [rec EXCEPT ![cur[f]] = "held"]

(* Save by primary key: every column of the row, or an insert of the whole *)
(* row when the cleaner has deleted it.                                    *)
Saves(c) ==
    \/ /\ row' = [row EXCEPT ![c] = "ended"]
       /\ rec' = [rec EXCEPT ![c] = "final"]
    \/ /\ rec' = [rec EXCEPT ![c] = "unsaved"]
       /\ UNCHANGED row

(* Slips: the update is deferred last, so it runs while the sockets are    *)
(* open; it is deferred only once the connection is registered.            *)
UpdateEarly(c) ==
    /\ fwd[c] \in {"closing", "done", "lost"} /\ rec[c] = "held"
    /\ Saves(c)
    /\ UNCHANGED vars

UpdateRegistered(c) ==
    /\ fwd[c] = "done" /\ rec[c] = "held"
    /\ Saves(c)
    /\ UNCHANGED vars

(* forward's first deferred call, hence its last: after swg.Done, and for  *)
(* a duplicate too.                                                        *)
Update(c) ==
    /\ fwd[c] \in {"done", "lost"} /\ rec[c] = "held"
    /\ Saves(c)
    /\ UNCHANGED vars

(* CleanSshConnectRecord deletes the rows older than the retention time,   *)
(* whatever their connections do.  Which are older is left open; a row     *)
(* claimed for a connection that was dropped is no forward's concern.      *)
CleanRow(c) ==
    /\ row[c] \in {"live", "ended"}
    /\ row' = [row EXCEPT ![c] = "purged"]
    /\ UNCHANGED <<vars, rec>>

-----------------------------------------------------------------------------
SshLoop(f) ==
    \/ LoopPlain(f) \/ AcceptSsh(f) \/ TurnedAway(f)
    \/ RowFails(f) \/ HandOverSaved(f)

SshNext ==
    \/ Listening \/ Launching \/ Stopping \/ Outside
    \/ \E f \in Families : SshLoop(f)
    \/ \E c \in Conns : Forwarding(c) \/ Update(c) \/ CleanRow(c)

SshSpec == SshInit /\ [][SshNext]_sshVars

(* As in ForwardServer.  A loop blocked in Accept waits for a connection;  *)
(* the cleaner and the environment owe nothing.                            *)
SshLoopGoesOn(f) ==
    \/ (LoopSelect(f) \/ LoopExit(f)) /\ UNCHANGED rowVars
    \/ AcceptSsh(f) \/ RowFails(f) \/ HandOverSaved(f)
    \/ (Deny(f) \/ DialFails(f)) /\ UNCHANGED rowVars

SshFairness ==
    /\ WF_sshVars(Listening \/ Launching)
    /\ \A f \in Families : /\ WF_sshVars(SshLoopGoesOn(f))
                            /\ SF_sshVars(\E c \in Conns : Accept(f, c) /\ UNCHANGED rowVars)
    /\ \A c \in Conns : WF_sshVars(Forwarding(c) \/ Update(c))
    /\ WF_sshVars(Killer /\ UNCHANGED rowVars)
    /\ WF_sshVars(StopGoesOn /\ UNCHANGED rowVars)

SshFairSpec == SshSpec /\ SshFairness

-----------------------------------------------------------------------------
(*                              Properties                                 *)

(* The forwarding server's types, and those of the table and the records.  *)
SshTypeOK ==
    /\ TypeOK
    /\ row \in [Conns -> {"none", "claimed", "live", "ended", "purged"}]
    /\ rec \in [Conns -> {"none", "held", "final", "unsaved"}]

(* The rows against the connections (accept 444-457, forward 259-270):     *)
(* whatever is forwarded has been recorded first; an open row belongs to   *)
(* a forward that still holds it or could not save it; a finished one says *)
(* that the client is gone, except for a duplicate, whose sockets are      *)
(* still open.                                                             *)
RowsTellTruth ==
    \A c \in Conns :
        /\ fwd[c] # "none" => row[c] \in {"live", "ended", "purged"}
        /\ row[c] = "live" => rec[c] \in {"held", "unsaved"}
        /\ row[c] = "ended" => sock[c] # "open" \/ fwd[c] = "lost"
        /\ row[c] = "claimed" => fwd[c] = "none" /\ sock[c] = "closed"

(* A row deleted for its age comes back only for a connection that lived   *)
(* longer than the retention time, and then complete (db.go 310); once a   *)
(* forward is through with its record nothing brings the row back.         *)
ComesBackOnce ==
    [][\A c \in Conns : (row[c] = "purged" /\ row'[c] # "purged") =>
          rec[c] = "held" /\ rec'[c] = "final" /\ fwd[c] \in {"done", "lost"}]_sshVars

(* Every forward that ends, a duplicate included, completes its row unless *)
(* the database refuses the update or the cleaner deletes the row.         *)
RowCompleted ==
    \A c \in Conns :
        fwd[c] \in {"done", "lost"}
            ~> (row[c] \in {"ended", "purged"} \/ rec[c] = "unsaved")
=============================================================================
