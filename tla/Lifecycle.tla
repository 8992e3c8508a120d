------------------------------ MODULE Lifecycle ------------------------------
(***************************************************************************)
(* The life of the process: MainV1 starts the components one after the     *)
(* other, each start that needs an end defers it, and a signal or a        *)
(* failing start ends them in the reverse order, the database and Redis    *)
(* after those who use them.  The cleaner and the end of the server groups *)
(* are modelled in full, with Go's WaitGroup; of the others only how they  *)
(* end and what they do to the database.  Sources:                         *)
(* mainfunc/huanspringboard/v1.go, database/clean.go, database/init.go,    *)
(* redisserver/redis.go, notify/action.go, and the Stop of netwatcher,     *)
(* tcpserver and sshserver.  Sleeping is no synchronisation here: a        *)
(* goroutine may be slower than any Sleep.                                 *)
(***************************************************************************)
EXTENDS Naturals, Sequences, FiniteSets

CONSTANTS
    TcpServers, SshServers,
    Only6,       \* SSH servers without ln4, whose Stop returns at once
    Conns,       \* SSH connections
    ServerOf,    \* ServerOf[c]: the server that connection c comes to
    Options,     \* the options tried: "reloader", "collector" (an interface is
                 \* watched), and the servers
    MaxRounds    \* bound: MaxRounds[o] rounds of the cleaner under the options o

Servers == TcpServers \cup SshServers

ASSUME LifecycleAssumption ==
    /\ IsFiniteSet(TcpServers) /\ IsFiniteSet(SshServers)
    /\ TcpServers \cap SshServers = {} /\ Only6 \subseteq SshServers
    /\ ServerOf \in [Conns -> SshServers]
    /\ Options \subseteq SUBSET ({"reloader", "collector"} \cup Servers)
    /\ MaxRounds \in [Options -> Nat \ {0}]

VARIABLES
    at,        \* the stage MainV1 has reached
    mode,      \* what MainV1 does
    exitcode,
    options,   \* what the flags and the file ask for
    deferred,  \* MainV1's deferred calls, the last one first to run
    ready,     \* the configuration is ready
    db,        \* "nil", "open", and again "nil" as "closed"
    signal,    \* "none", "lost" (nobody listened), "taken"
    stop,      \* stop[r]: how far component r's Stop has come
    loop, round,   \* the cleaner's loop and its rounds
    jobs,      \* how many of its cleaning goroutines, two a round, are at what
    group,     \* group[g]: how far StopAllServers of a group of servers has come
    helper,    \* helper[s]: the goroutine in it that stops server s
    collector, \* the network watcher's collecting loop
    conn,      \* conn[c]: the forward of an SSH connection
    late       \* history: who joined a WaitGroup when its Wait was over

mainVars  == <<at, mode, exitcode, options, deferred, ready, signal>>
cleanVars == <<loop, round, jobs>>
groupVars == <<group, helper>>
vars == <<mainVars, db, stop, cleanVars, groupVars, collector, conn, late>>

Stages == <<"flag", "config", "reloader", "ip", "smtp", "sqlite", "cleaner",
            "redis", "netwatcher", "tcp", "ssh">>
Fatal    == {"flag", "config", "reloader"}    \* their failure calls os.Exit
Failing  == Fatal \cup {"ip", "smtp", "sqlite", "redis", "netwatcher"}
Groups   == {"tcp", "ssh"}
Stopped  == {"cleaner", "netwatcher", "tcp", "ssh"}   \* those that have a Stop
Deferring == Stopped \cup {"reloader", "sqlite", "redis"}

Init ==
    /\ at = 1 /\ mode = "starting" /\ exitcode = 0
    /\ options \in Options
    /\ deferred = <<>> /\ ready = FALSE /\ db = "nil" /\ signal = "none"
    /\ stop = [r \in Stopped |-> "idle"]
    /\ loop = "none" /\ round = 0 /\ jobs = [spawned |-> 0, counted |-> 0, late |-> 0]
    /\ group = [g \in Groups |-> "running"]
    /\ helper = [s \in Servers |-> "none"]
    /\ collector = "none"
    /\ conn = [c \in Conns |-> "none"]
    /\ late = {}

-----------------------------------------------------------------------------
(*                               Starting                                  *)

Over    == mode \in {"exited", "crashed"}
Started == {Stages[i] : i \in 1 .. at - 1}
Stage   == Stages[at]

(* Slip: the database's end is deferred after the cleaner's.               *)
DefersSwapped ==
    CASE Stage = "sqlite" -> deferred
      [] Stage = "cleaner" -> deferred \o <<"cleaner", "sqlite">>
      [] OTHER -> Append(deferred, Stage)

Defers == Append(deferred, Stage)

StageGoesWell ==
    /\ mode = "starting"
    /\ at' = at + 1
    /\ mode' = IF at = Len(Stages) THEN "serving" ELSE mode
    /\ deferred' = IF Stage \in Deferring /\ (Stage = "reloader" => Stage \in options)
                   THEN Defers ELSE deferred
    /\ ready' = (ready \/ Stage = "config")
    /\ db' = IF Stage = "sqlite" THEN "open" ELSE db
    /\ loop' = IF Stage = "cleaner" THEN "spawned" ELSE loop
    /\ collector' = IF Stage = "netwatcher" /\ "collector" \in options
                    THEN "saving" ELSE collector
    /\ UNCHANGED <<exitcode, options, signal, stop, round, jobs, groupVars, conn, late>>

(* Slip: every failing start calls os.Exit.                                *)
StageFailsFatal ==
    /\ mode = "starting" /\ Stage \in Failing
    /\ mode' = "exited"
    /\ exitcode' = 1
    /\ UNCHANGED <<at, options, deferred, ready, signal, db, stop, cleanVars, groupVars,
                   collector, conn, late>>

StageFails ==
    /\ mode = "starting" /\ Stage \in Failing
    /\ Stage = "reloader" => Stage \in options
    /\ Stage = "netwatcher" => "collector" \in options
    /\ mode' = IF Stage \in Fatal THEN "exited" ELSE "unwinding"
    /\ exitcode' = 1
    /\ UNCHANGED <<at, options, deferred, ready, signal, db, stop, cleanVars, groupVars,
                   collector, conn, late>>

(* --help and its like return 0.                                           *)
OnlyPrints ==
    /\ mode = "starting" /\ Stage = "flag"
    /\ mode' = "unwinding"
    /\ UNCHANGED <<at, exitcode, options, deferred, ready, signal, db, stop, cleanVars,
                   groupVars, collector, conn, late>>

(* The channel has no buffer: only MainV1's select can take a signal.  It  *)
(* starts four goroutines that stop a component each.                      *)
Signal ==
    /\ ~Over /\ ready /\ signal # "taken"
    /\ signal' = IF mode = "serving" THEN "taken" ELSE "lost"
    /\ mode' = IF mode = "serving" THEN "stopping" ELSE mode
    /\ stop' = IF mode = "serving" THEN [r \in Stopped |-> "called"] ELSE stop
    /\ UNCHANGED <<at, exitcode, options, deferred, ready, db, cleanVars, groupVars,
                   collector, conn, late>>

-----------------------------------------------------------------------------
(*                                Ending                                   *)

MainMove(to) ==
    /\ mode' = to
    /\ UNCHANGED <<at, exitcode, options, ready, signal, cleanVars, groupVars,
                   collector, conn, late>>

(* Slip: MainV1 does not wait for its four goroutines.                     *)
EarlyDoneNoWait ==
    /\ mode = "stopping"
    /\ MainMove("unwinding")
    /\ UNCHANGED <<deferred, db, stop>>

EarlyDone ==
    /\ mode = "stopping"
    /\ \A r \in Stopped : stop[r] = "done"
    /\ MainMove("unwinding")
    /\ UNCHANGED <<deferred, db, stop>>

Top == deferred[Len(deferred)]
Pop == deferred' = SubSeq(deferred, 1, Len(deferred) - 1)

Unwinding == mode = "unwinding" /\ deferred # <<>> /\ MainMove(mode)

DeferredStop ==
    /\ Unwinding
    /\ Top \in Stopped
    /\ stop[Top] = "idle" /\ stop' = [stop EXCEPT ![Top] = "called"]
    /\ UNCHANGED <<deferred, db>>

(* A Stop that a signal has already called finds the status changed and    *)
(* returns; CloseSQLite, CloseRedis, CloseNotifyConfigFile end at once.    *)
DeferredReturns ==
    /\ Unwinding
    /\ Top \in Stopped => stop[Top] = "done" \/ signal = "taken"
    /\ Pop
    /\ db' = IF Top = "sqlite" THEN "closed" ELSE db
    /\ UNCHANGED stop

(* The first deferred call, SyncSendStop, reads the configuration: without *)
(* one it panics.                                                          *)
SyncSendStop ==
    /\ mode = "unwinding" /\ deferred = <<>>
    /\ MainMove(IF ready THEN "exited" ELSE "crashed")
    /\ UNCHANGED <<deferred, db, stop>>

-----------------------------------------------------------------------------
(*                               Cleaner                                   *)

Cleaning == ~Over /\ UNCHANGED <<at, exitcode, options, deferred, ready, signal, db,
                                 groupVars, collector, conn>>

InGroup == jobs.counted + jobs.late + (IF loop \in {"cleaning", "select"} THEN 1 ELSE 0)

(* Add(1): too late once Stop's Wait has returned, and a panic nobody      *)
(* recovers in the moment before it returns.                               *)
TooLate == stop["cleaner"] = "done"

Adds ==
    /\ mode' = IF stop["cleaner"] = "releasing" THEN "crashed" ELSE mode
    /\ UNCHANGED stop

(* Done by the last one releases who waits.                                *)
Leaves ==
    /\ stop' = [stop EXCEPT !["cleaner"] =
                   IF @ = "waiting" /\ InGroup = 1 THEN "releasing" ELSE @]
    /\ UNCHANGED <<late, mode>>

LoopCounted ==
    /\ Cleaning
    /\ loop = "spawned" /\ loop' = "cleaning"
    /\ Adds
    /\ late' = IF TooLate THEN late \cup {<<"loop">>} ELSE late
    /\ UNCHANGED <<round, jobs>>

Clean ==
    /\ Cleaning
    /\ loop = "cleaning" /\ loop' = "select"
    /\ round' = round + 1
    /\ jobs' = [jobs EXCEPT !.spawned = @ + 2]
    /\ UNCHANGED <<stop, mode, late>>

LoopTicks ==
    /\ Cleaning
    /\ loop = "select" /\ loop' = "cleaning"
    /\ round < MaxRounds[options]
    /\ UNCHANGED <<round, jobs, stop, mode, late>>

(* Slip: the loop listens to the timer only.                               *)
LoopEndsNever ==
    /\ Cleaning /\ FALSE
    /\ UNCHANGED <<cleanVars, stop, mode, late>>

LoopEnds ==
    /\ Cleaning
    /\ loop = "select" /\ loop' = "ended"
    /\ stop["cleaner"] \notin {"idle", "called"}
    /\ Leaves
    /\ UNCHANGED <<round, jobs>>

JobCounted ==
    /\ Cleaning
    /\ jobs.spawned > 0
    /\ jobs' = IF TooLate THEN [jobs EXCEPT !.spawned = @ - 1, !.late = @ + 1]
                          ELSE [jobs EXCEPT !.spawned = @ - 1, !.counted = @ + 1]
    /\ Adds
    /\ UNCHANGED <<loop, round, late>>

(* Slip: Done twice.                                                       *)
JobEndsTwice(kind) ==
    /\ Cleaning
    /\ jobs' = [jobs EXCEPT ![kind] = @ - 1]
    /\ Leaves
    /\ UNCHANGED <<loop, round>>

(* It has deleted the old rows or skipped it, failed, or panicked for want *)
(* of a database, which it recovers.                                       *)
JobEnds(kind) ==
    /\ Cleaning
    /\ jobs[kind] > 0 /\ jobs' = [jobs EXCEPT ![kind] = @ - 1]
    /\ Leaves
    /\ UNCHANGED <<loop, round>>

Stopping == ~Over /\ UNCHANGED <<mainVars, db, cleanVars, collector, conn, late>>

StopMoves(r, from, to) == stop[r] = from /\ stop' = [stop EXCEPT ![r] = to]

(* close(stopchan), and then Wait.                                         *)
CleanerStop ==
    /\ Stopping
    /\ \/ StopMoves("cleaner", "called", IF InGroup = 0 THEN "done" ELSE "waiting")
       \/ StopMoves("cleaner", "releasing", "done")
    /\ UNCHANGED groupVars

-----------------------------------------------------------------------------
(*             Network watcher, server groups, SSH connections             *)

(* The channels are closed; then it sleeps for a second.                   *)
NetWatcherStop ==
    /\ Stopping
    /\ \/ StopMoves("netwatcher", "called", "waiting")
       \/ StopMoves("netwatcher", "waiting", "done")
    /\ UNCHANGED groupVars

Of(g) == options \cap (IF g = "ssh" THEN SshServers ELSE TcpServers)
GroupOf(s) == IF s \in SshServers THEN "ssh" ELSE "tcp"
Counted(g) == {s \in Of(g) : helper[s] = "counted"}

(* StopAllServers starts a goroutine a server, before it waits.            *)
Ranges(g) ==
    /\ group[g] = "running" /\ group' = [group EXCEPT ![g] = "stopping"]
    /\ helper' = [s \in Servers |-> IF s \in Of(g) THEN "spawned" ELSE helper[s]]

(* The consumer of the TCP group has seen an overload that lasts.  How the *)
(* servers come back, and go again, is TcpGroup's.                         *)
Overload ==
    /\ Stopping
    /\ "tcp" \in Started /\ "collector" \in options
    /\ Ranges("tcp")
    /\ UNCHANGED stop

(* A group that is being stopped already is left alone by its Stop.        *)
GroupStop(g) ==
    /\ Stopping
    /\ \/ StopMoves(g, "called", "waiting") /\ Ranges(g)
       \/ StopMoves(g, "called", "done") /\ group[g] # "running" /\ UNCHANGED groupVars
       \/ StopMoves(g, "waiting", "done") /\ group[g] = "stopped" /\ UNCHANGED groupVars

GroupWaits(g) ==
    /\ Stopping
    /\ \/ /\ group[g] = "stopping"
          /\ group' = [group EXCEPT ![g] = IF Counted(g) = {} THEN "stopped" ELSE "waiting"]
       \/ group[g] = "releasing" /\ group' = [group EXCEPT ![g] = "stopped"]
    /\ UNCHANGED <<stop, helper>>

Helping == ~Over /\ UNCHANGED <<at, exitcode, options, deferred, ready, signal, db, stop,
                                cleanVars, collector, conn>>

HelperMoves(s, from, to) ==
    /\ Helping
    /\ helper[s] = from /\ helper' = [helper EXCEPT ![s] = to]

(* Each adds itself to the WaitGroup: Wait may have come first, or another *)
(* may just have released it, and the panic of Add comes before recover.   *)
HelperCounted(s) ==
    /\ HelperMoves(s, "spawned", "counted")
    /\ mode' = IF group[GroupOf(s)] = "releasing" THEN "crashed" ELSE mode
    /\ late' = IF group[GroupOf(s)] = "stopped" THEN late \cup {<<"helper", s>>} ELSE late
    /\ UNCHANGED group

(* The server's Stop returns once no forward is counted, unless it has     *)
(* nothing to stop; of TCP forwards only this is told.                     *)
HelperDone(s) ==
    /\ HelperMoves(s, "counted", "done")
    /\ s \in SshServers \ Only6 => \A c \in Conns : ServerOf[c] = s => conn[c] # "counted"
    /\ group' = [group EXCEPT ![GroupOf(s)] =
                    IF @ = "waiting" /\ Counted(GroupOf(s)) = {s} THEN "releasing" ELSE @]
    /\ UNCHANGED <<mode, late>>

Saving == ~Over /\ UNCHANGED <<at, exitcode, options, deferred, ready, signal, db, stop,
                               cleanVars, groupVars>>

(* A round in which saving fails goes on like one in which it succeeds;    *)
(* with db = nil it panics, and this loop recovers nothing.                *)
CollectorSaves ==
    /\ Saving
    /\ collector = "saving" /\ collector' = "select"
    /\ mode' = IF db = "open" THEN mode ELSE "crashed"
    /\ UNCHANGED <<conn, late>>

CollectorTicks ==
    /\ Saving
    /\ collector = "select" /\ collector' = "saving"
    /\ UNCHANGED <<mode, conn, late>>

CollectorEnds ==
    /\ Saving
    /\ collector = "select" /\ collector' = "ended"
    /\ stop["netwatcher"] \notin {"idle", "called"}
    /\ UNCHANGED <<mode, conn, late>>

ConnMove(c, from, to) ==
    /\ Saving
    /\ conn[c] = from /\ conn' = [conn EXCEPT ![c] = to]
    /\ UNCHANGED <<mode, collector>>

(* A loop blocked in Accept takes one more connection whatever Stop does;  *)
(* without a database its checks panic, accept recovers and closes it.     *)
ConnAccepted(c) ==
    /\ "ssh" \in Started /\ ServerOf[c] \in options /\ db = "open"
    /\ ConnMove(c, "none", "spawned")
    /\ UNCHANGED late

ConnCounted(c) ==
    /\ ConnMove(c, "spawned", "counted")
    /\ late' = IF helper[ServerOf[c]] = "done" THEN late \cup {<<"conn", c>>} ELSE late

(* Its client or its target ends it, or the sweep of the server being      *)
(* stopped does; that one misses those who register after it, and cannot   *)
(* wake a copy that waits for the target.                                  *)
ConnLeaves(c) == ConnMove(c, "counted", "saving") /\ UNCHANGED late

(* The row is completed after Done; without a database it stays open.      *)
ConnSaves(c) == ConnMove(c, "saving", IF db = "open" THEN "saved" ELSE "lost") /\ UNCHANGED late

-----------------------------------------------------------------------------
MainEnds ==
    \/ EarlyDone \/ DeferredStop \/ DeferredReturns \/ SyncSendStop

Loop == LoopCounted \/ Clean \/ LoopEnds
Jobs == JobCounted \/ \E kind \in {"counted", "late"} : JobEnds(kind)
Stops(g) == GroupStop(g) \/ GroupWaits(g)
Collector == CollectorSaves \/ CollectorTicks \/ CollectorEnds
Conn(c) == ConnCounted(c) \/ ConnSaves(c)

Next ==
    \/ StageGoesWell \/ StageFails \/ OnlyPrints \/ Signal
    \/ MainEnds \/ CleanerStop \/ NetWatcherStop
    \/ Loop \/ LoopTicks \/ Jobs
    \/ Overload \/ Collector
    \/ \E g \in Groups : Stops(g)
    \/ \E s \in Servers : HelperCounted(s) \/ HelperDone(s)
    \/ \E c \in Conns : ConnAccepted(c) \/ Conn(c) \/ ConnLeaves(c)

Spec == Init /\ [][Next]_vars

(* Goroutines that can go on do, and as each makes few steps it is enough  *)
(* to say so of those of a kind.  Nothing makes a connection leave, and so *)
(* nothing makes the Stop of a TCP server return.                          *)
Fairness ==
    /\ WF_vars(MainEnds)
    /\ WF_vars(CleanerStop \/ Loop \/ Jobs)
    /\ WF_vars(NetWatcherStop \/ \E g \in Groups : Stops(g))
    /\ WF_vars(\/ \E s \in Servers : HelperCounted(s)
               \/ \E s \in SshServers : HelperDone(s))
    /\ WF_vars(\E c \in Conns : Conn(c))

FairSpec == Spec /\ Fairness

-----------------------------------------------------------------------------
(*                              Properties                                 *)

Shapes ==
    /\ at \in 1 .. Len(Stages) + 1
    /\ mode \in {"starting", "serving", "stopping", "unwinding", "exited", "crashed"}
    /\ exitcode \in {0, 1} /\ ready \in BOOLEAN /\ options \in Options
    /\ deferred \in Seq(Deferring)
    /\ db \in {"nil", "open", "closed"} /\ signal \in {"none", "lost", "taken"}
    /\ stop \in [Stopped -> {"idle", "called", "waiting", "releasing", "done"}]
    /\ loop \in {"none", "spawned", "cleaning", "select", "ended"}
    /\ round \in 0 .. MaxRounds[options]
    /\ jobs \in [{"spawned", "counted", "late"} -> 0 .. 2 * MaxRounds[options]]
    /\ group \in [Groups -> {"running", "stopping", "waiting", "releasing", "stopped"}]
    /\ helper \in [Servers -> {"none", "spawned", "counted", "done"}]
    /\ collector \in {"none", "saving", "select", "ended"}
    /\ conn \in [Conns -> {"none", "spawned", "counted", "saving", "saved", "lost"}]
    /\ late \subseteq {<<"loop">>} \cup ({"helper"} \X Servers) \cup ({"conn"} \X Conns)

(* The types of MainV1's variables and of the goroutines it starts; no end *)
(* is deferred twice.                                                      *)
TypeOK == Shapes /\ Len(deferred) <= Cardinality(Deferring)

(* Once the database is closed, whoever is still counted by a WaitGroup    *)
(* that MainV1 has waited for joined it after its Wait: the cleaner's loop *)
(* and a clean (clean.go 54, 90, 117), a goroutine that stops an SSH       *)
(* server (group.go 102), a forward (server.go 282) unless its server's    *)
(* Stop came too late itself or had nothing to stop.  Nothing is said of   *)
(* those no WaitGroup counts: a forward that has left to save its row      *)
(* (server.go 259-269) and the collecting loop may meet the closed         *)
(* database whenever they began.                                           *)
CountedInTimeMeansDone ==
    db = "closed" =>
        /\ loop \in {"cleaning", "select"} => <<"loop">> \in late
        /\ jobs.counted = 0
        /\ \A s \in SshServers : helper[s] = "counted" => <<"helper", s>> \in late
        /\ \A c \in Conns : conn[c] = "counted" =>
              \/ <<"conn", c>> \in late \/ <<"helper", ServerOf[c]>> \in late
              \/ helper[ServerOf[c]] = "spawned" \/ ServerOf[c] \in Only6

(* A process that exits has closed what it opened and stopped what it      *)
(* started, whichever start failed, and returns 0 only after a signal.     *)
EveryExitReleases ==
    mode = "exited" =>
        /\ deferred = <<>> /\ db # "open"
        /\ \A r \in Stopped \cap Started : stop[r] = "done"
        /\ exitcode = 0 <=> signal = "taken"

(* The only ways to crash: a run that only prints, before anything is      *)
(* started (notify/action.go 55); the collecting loop still saving when    *)
(* the database is closed; a clean that joins its WaitGroup in the very    *)
(* moment its Wait is released; and a goroutine that stops a server        *)
(* (group.go 102 and 125) doing so, which takes a second one in the group. *)
CrashesKnown ==
    mode = "crashed" =>
        \/ ~ready /\ Started = {}
        \/ db = "closed" /\ "collector" \in options /\ stop["netwatcher"] = "done"
        \/ stop["cleaner"] = "releasing"
        \/ \E g \in Groups : group[g] = "releasing" /\ \E s, t \in Of(g) :
              s # t /\ helper[s] = "done" /\ helper[t] = "counted"

(* A signal that MainV1 takes ends the process, and so does a start that   *)
(* fails, unless from some moment on a Stop that waits is held by a        *)
(* connection, to an SSH server or to a TCP server.                        *)
Held ==
    \/ \E c \in Conns : conn[c] = "counted" /\ helper[ServerOf[c]] = "counted"
    \/ \E s \in TcpServers : helper[s] = "counted"
EndsUnlessHeld == <>(signal = "taken" \/ mode = "unwinding") => (<>Over \/ <>[]Held)
=============================================================================
