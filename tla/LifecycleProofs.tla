---------------------------- MODULE LifecycleProofs ----------------------------
(***************************************************************************)
(* Proofs about Lifecycle, for any SSH connections, any number of rounds   *)
(* of the cleaner and any options: what is deferred ends in the reverse    *)
(* order of its start, so that the database is closed last but for those   *)
(* who have joined a WaitGroup late, and the process crashes in four ways  *)
(* only.                                                                   *)
(***************************************************************************)
EXTENDS Lifecycle, FiniteSetTheorems, TLAPS

-----------------------------------------------------------------------------
(*                          The invariant                                  *)

(* The place of each start in MainV1.                                      *)
Pos == [flag |-> 1, config |-> 2, reloader |-> 3, ip |-> 4, smtp |-> 5, sqlite |-> 6,
        cleaner |-> 7, redis |-> 8, netwatcher |-> 9, tcp |-> 10, ssh |-> 11]

(* How far MainV1 has come, and what follows from it.                      *)
StageInv ==
    /\ mode = "starting" => at <= 11
    /\ mode \in {"serving", "stopping"} => at = 12
    /\ ready <=> at > 2
    /\ db = "nil" <=> at <= 6
    /\ mode \in {"starting", "serving", "stopping"} => exitcode = 0
    /\ mode \in {"starting", "serving"} => signal # "taken" /\ db # "closed"
    /\ mode = "stopping" => signal = "taken" /\ db # "closed"
    /\ mode = "unwinding" /\ ~ready => at = 1
    /\ mode = "exited" \/ (mode = "unwinding" /\ ready) => (exitcode = 0 <=> signal = "taken")

(* Who has been told to stop.                                              *)
StopInv ==
    /\ \A r \in Stopped : Pos[r] >= at => stop[r] = "idle"
    /\ mode \in {"starting", "serving"} => \A r \in Stopped : stop[r] = "idle"
    /\ signal = "taken" /\ mode \in {"unwinding", "exited"}
           => \A r \in Stopped : stop[r] = "done"

(* The deferred calls are in the order of the starts; whatever has started *)
(* has its end among them or has ended, the database after all others.     *)
Ended(s) == IF s = "sqlite" THEN db = "closed" ELSE stop[s] = "done"

DeferInv ==
    /\ \A i \in DOMAIN deferred : Pos[deferred[i]] < at
    /\ \A i, j \in DOMAIN deferred : i < j => Pos[deferred[i]] < Pos[deferred[j]]
    /\ at <= 3 \/ mode = "exited" => deferred = <<>>
    /\ \A s \in Stopped \cup {"sqlite"} :
          Pos[s] < at => Ended(s) \/ \E i \in DOMAIN deferred : deferred[i] = s
    /\ db = "closed" => \A r \in Stopped : Pos[r] < at => stop[r] = "done"

(* The cleaner's WaitGroup: while Wait is being released nobody is in it,  *)
(* and once it has returned only those who were late.                      *)
CleanInv ==
    /\ at <= 7 => loop = "none"
    /\ loop \in {"none", "spawned", "cleaning"} => round < MaxRounds[options]
    /\ loop = "none" => jobs.spawned = 0 /\ jobs.counted = 0 /\ jobs.late = 0
    /\ jobs.spawned + jobs.counted + jobs.late <= 2 * round
    /\ stop["cleaner"] # "done" => jobs.late = 0
    /\ stop["cleaner"] = "releasing" /\ mode # "crashed" => InGroup = 0
    /\ stop["cleaner"] = "done" =>
          jobs.counted = 0 /\ (loop \in {"cleaning", "select"} => <<"loop">> \in late)

(* The goroutines that stop a group's servers, the connections of an SSH   *)
(* server, and who is counted when the WaitGroup's Wait is being released  *)
(* or has returned.  MainV1 alone stops the SSH group.                     *)
GroupInv ==
    /\ \A s \in Servers : helper[s] # "none" <=> s \in options /\ group[GroupOf(s)] # "running"
    /\ \A s \in Servers :
          group[GroupOf(s)] = "stopped" /\ helper[s] = "counted" => <<"helper", s>> \in late
    /\ \A g \in Groups : group[g] = "releasing" =>
          (\E s \in Of(g) : helper[s] = "done") /\ (mode # "crashed" => Counted(g) = {})
    /\ stop["ssh"] \in {"idle", "called"} => group["ssh"] = "running"
    /\ stop["ssh"] = "done" => group["ssh"] = "stopped"
    /\ \A c \in Conns : helper[ServerOf[c]] = "done" /\ conn[c] = "counted" =>
          <<"conn", c>> \in late \/ ServerOf[c] \in Only6
    /\ \A c \in Conns : conn[c] # "none" => ServerOf[c] \in options
    /\ at <= 11 => \A c \in Conns : conn[c] = "none"

CollectorInv ==
    collector \in {"saving", "select"} => at > 9 /\ "collector" \in options

CrashInv ==
    mode = "crashed" =>
        \/ ~ready /\ at = 1
        \/ db = "closed" /\ "collector" \in options /\ stop["netwatcher"] = "done"
        \/ stop["cleaner"] = "releasing"
        \/ \E g \in Groups : group[g] = "releasing" /\ \E s, t \in Of(g) :
              s # t /\ helper[s] = "done" /\ helper[t] = "counted"

LifeInv ==
    /\ Shapes /\ StageInv /\ StopInv /\ DeferInv /\ CleanInv /\ GroupInv /\ CollectorInv
    /\ CrashInv

-----------------------------------------------------------------------------
(*                     Stages and deferred calls                           *)

(* The stage MainV1 is at is the one with this place.                      *)
LEMMA StageAt ==
    ASSUME at \in 1 .. 11
    PROVE  /\ Stage \in DOMAIN Pos /\ Pos[Stage] = at
           /\ \A s \in DOMAIN Pos : Pos[s] = at => Stage = s
<1>1. \/ at = 1 \/ at = 2 \/ at = 3 \/ at = 4 \/ at = 5 \/ at = 6
      \/ at = 7 \/ at = 8 \/ at = 9 \/ at = 10 \/ at = 11
  OBVIOUS
<1> QED
  BY <1>1 DEF Stage, Stages, Pos

(* The places, one by one.                                                 *)
LEMMA Places ==
    /\ DOMAIN Pos = {"flag", "config", "reloader", "ip", "smtp", "sqlite", "cleaner",
                     "redis", "netwatcher", "tcp", "ssh"}
    /\ Pos["flag"] = 1 /\ Pos["config"] = 2 /\ Pos["reloader"] = 3 /\ Pos["ip"] = 4
    /\ Pos["smtp"] = 5 /\ Pos["sqlite"] = 6 /\ Pos["cleaner"] = 7 /\ Pos["redis"] = 8
    /\ Pos["netwatcher"] = 9 /\ Pos["tcp"] = 10 /\ Pos["ssh"] = 11
BY DEF Pos

(* The stages whose success changes what the invariant speaks of.          *)
LEMMA StageNames ==
    ASSUME at \in 1 .. 11
    PROVE  (Stage = "cleaner" <=> at = 7) /\ (Stage = "sqlite" <=> at = 6)
           /\ (Stage = "config" <=> at = 2) /\ (Stage = "netwatcher" <=> at = 9)
BY StageAt, Places

(* A stage has started when MainV1 is past it.                             *)
LEMMA StartedPast ==
    ASSUME at \in 1 .. 12, NEW s \in DOMAIN Pos
    PROVE  s \in Started <=> Pos[s] < at
<1>1. /\ Stages[1] = "flag" /\ Stages[2] = "config" /\ Stages[3] = "reloader"
      /\ Stages[4] = "ip" /\ Stages[5] = "smtp" /\ Stages[6] = "sqlite"
      /\ Stages[7] = "cleaner" /\ Stages[8] = "redis" /\ Stages[9] = "netwatcher"
      /\ Stages[10] = "tcp" /\ Stages[11] = "ssh"
  BY DEF Stages
<1>2. \A i \in 1 .. 11 : Pos[Stages[i]] = i
  <2> TAKE i \in 1 .. 11
  <2>1. \/ i = 1 \/ i = 2 \/ i = 3 \/ i = 4 \/ i = 5 \/ i = 6
        \/ i = 7 \/ i = 8 \/ i = 9 \/ i = 10 \/ i = 11
    OBVIOUS
  <2> QED
    BY <1>1, <2>1, Places
<1>3. Pos[s] \in 1 .. 11 /\ Stages[Pos[s]] = s
  BY <1>1, Places
<1>4. ASSUME s \in Started PROVE Pos[s] < at
  BY <1>2, <1>4 DEF Started
<1>5. ASSUME Pos[s] < at PROVE s \in Started
  BY <1>3, <1>5 DEF Started
<1> QED
  BY <1>4, <1>5

(* What the deferred calls become when a start adds its own.               *)
LEMMA DeferKept1 ==
    ASSUME Shapes, StageInv, DeferInv, StopInv, StageGoesWell
    PROVE  DeferInv'
<1>1. /\ at \in 1 .. 11 /\ at' = at + 1 /\ stop' = stop /\ mode = "starting"
      /\ deferred' = IF Stage \in Deferring /\ (Stage = "reloader" => Stage \in options)
                     THEN Append(deferred, Stage) ELSE deferred
      /\ db' = IF Stage = "sqlite" THEN "open" ELSE db
      /\ mode' \in {"starting", "serving"}
  BY DEF Shapes, StageInv, StageGoesWell, Defers, Stages
<1>2. Stage \in DOMAIN Pos /\ Pos[Stage] = at
  BY <1>1, StageAt
<1>3. deferred \in Seq(Deferring)
  BY DEF Shapes
<1>4. db' # "closed"
  BY <1>1 DEF StageInv
<1>5. CASE deferred' = Append(deferred, Stage) /\ Stage \in Deferring
  <2> DEFINE n == Len(deferred)
  <2>1. n \in Nat /\ DOMAIN deferred = 1 .. n /\ DOMAIN deferred' = 1 .. n + 1
    BY <1>3, <1>5
  <2>2. \A i \in 1 .. n : deferred'[i] = deferred[i]
    BY <1>3, <1>5
  <2>3. deferred'[n + 1] = Stage
    BY <1>3, <1>5
  <2> HIDE DEF n
  <2>4. \A i \in 1 .. n : Pos[deferred[i]] < at
    BY <2>1 DEF DeferInv
  <2>5. \A i \in 1 .. n + 1 : i \in 1 .. n \/ i = n + 1
    BY <2>1
  <2>6. \A i \in DOMAIN deferred : Pos[deferred[i]] \in Nat
    <3>1. \A i \in DOMAIN deferred : deferred[i] \in Deferring
      BY <1>3
    <3> QED
      BY <3>1, Places DEF Deferring, Stopped
  <2>7. \A i \in DOMAIN deferred' : Pos[deferred'[i]] < at'
    BY <1>1, <1>2, <2>1, <2>2, <2>3, <2>4, <2>5, <2>6
  <2>8. \A i, j \in DOMAIN deferred' : i < j => Pos[deferred'[i]] < Pos[deferred'[j]]
    <3> SUFFICES ASSUME NEW i \in 1 .. n + 1, NEW j \in 1 .. n + 1, i < j
                 PROVE  Pos[deferred'[i]] < Pos[deferred'[j]]
      BY <2>1
    <3>1. i \in 1 .. n
      BY <2>1
    <3>2. CASE j \in 1 .. n
      BY <2>1, <2>2, <3>1, <3>2 DEF DeferInv
    <3>3. CASE j = n + 1
      BY <1>2, <2>2, <2>3, <2>4, <3>1, <3>3
    <3> QED
      BY <2>5, <3>2, <3>3
  <2>9. at' > 3
    BY <1>1, <1>2, <1>5, Places DEF Deferring, Stopped
  <2>10. \A s \in Stopped \cup {"sqlite"} :
            Pos[s] < at' => Ended(s)' \/ \E i \in DOMAIN deferred' : deferred'[i] = s
    <3> SUFFICES ASSUME NEW s \in Stopped \cup {"sqlite"}, Pos[s] < at'
                 PROVE  Ended(s)' \/ \E i \in DOMAIN deferred' : deferred'[i] = s
      OBVIOUS
    <3>1. s \in DOMAIN Pos /\ Pos[s] \in Nat
      BY Places DEF Stopped
    <3>2. CASE Pos[s] = at
      BY <1>1, <2>1, <2>3, <3>1, <3>2, StageAt
    <3>3. CASE Pos[s] < at
      <4>1. CASE Ended(s)
        BY <1>1, <1>4, <4>1 DEF Ended, StageInv
      <4>2. CASE \E i \in DOMAIN deferred : deferred[i] = s
        BY <2>1, <2>2, <4>2
      <4> QED
        BY <3>3, <4>1, <4>2 DEF DeferInv
    <3> QED
      BY <1>1, <3>1, <3>2, <3>3
  <2> QED
    BY <1>1, <1>4, <2>7, <2>8, <2>9, <2>10 DEF DeferInv
<1>6. CASE deferred' = deferred /\ ~(Stage \in Stopped \cup {"sqlite"})
  <2>1. \A i \in DOMAIN deferred : Pos[deferred[i]] \in Nat
    <3>1. \A i \in DOMAIN deferred : deferred[i] \in Deferring
      BY <1>3
    <3> QED
      BY <3>1, Places DEF Deferring, Stopped
  <2>2. \A s \in Stopped \cup {"sqlite"} : Pos[s] < at' => Pos[s] < at
    <3> TAKE s \in Stopped \cup {"sqlite"}
    <3>1. s \in DOMAIN Pos /\ Pos[s] \in Nat
      BY Places DEF Stopped
    <3> QED
      BY <1>1, <1>6, <3>1, StageAt
  <2>3. \A s \in Stopped \cup {"sqlite"} :
            Pos[s] < at => Ended(s)' \/ \E i \in DOMAIN deferred' : deferred'[i] = s
    BY <1>1, <1>4, <1>6 DEF DeferInv, Ended, StageInv
  <2> QED
    BY <1>1, <1>4, <1>6, <2>1, <2>2, <2>3 DEF DeferInv
<1>7. Stage \in Stopped \cup {"sqlite"} => Stage \in Deferring /\ Stage # "reloader"
  BY DEF Deferring, Stopped
<1> QED
  BY <1>1, <1>5, <1>6, <1>7

(* When the last one returns, its component has ended, and if it is the    *)
(* database's, so has everybody else.                                      *)
LEMMA DeferKept2 ==
    ASSUME Shapes, StageInv, DeferInv, StopInv, DeferredReturns
    PROVE  DeferInv'
<1> DEFINE n == Len(deferred)
<1>1. /\ mode = "unwinding" /\ mode' = mode /\ at' = at /\ stop' = stop
      /\ deferred # <<>> /\ deferred' = SubSeq(deferred, 1, n - 1)
      /\ Top \in Stopped => stop[Top] = "done" \/ signal = "taken"
      /\ db' = IF Top = "sqlite" THEN "closed" ELSE db
  BY DEF DeferredReturns, Unwinding, MainMove, Pop
<1>2. deferred \in Seq(Deferring) /\ at \in 1 .. 12
  BY DEF Shapes, Stages
<1>3. /\ n \in Nat \ {0} /\ DOMAIN deferred = 1 .. n /\ DOMAIN deferred' = 1 .. n - 1
      /\ \A i \in 1 .. n - 1 : deferred'[i] = deferred[i]
      /\ \A i \in 1 .. n : deferred[i] \in Deferring
      /\ Top = deferred[n]
  BY <1>1, <1>2 DEF Top
<1> HIDE DEF n
<1>4. Top \in Stopped => stop[Top] = "done"
  BY <1>1 DEF StopInv
<1>5. \A i \in 1 .. n - 1 : i \in 1 .. n /\ i < n
  BY <1>3
<1>6. \A s \in Stopped \cup {"sqlite"} :
          Pos[s] < at => Ended(s)' \/ \E i \in DOMAIN deferred' : deferred'[i] = s
  <2> SUFFICES ASSUME NEW s \in Stopped \cup {"sqlite"}, Pos[s] < at
               PROVE  Ended(s)' \/ \E i \in DOMAIN deferred' : deferred'[i] = s
    OBVIOUS
  <2>1. CASE Ended(s)
    BY <1>1, <2>1 DEF Ended
  <2>2. CASE \E i \in DOMAIN deferred : deferred[i] = s
    <3>1. PICK i \in 1 .. n : deferred[i] = s
      BY <1>3, <2>2
    <3>2. CASE i = n
      BY <1>1, <1>3, <1>4, <3>1, <3>2 DEF Ended
    <3>3. CASE i # n
      <4>1. i \in 1 .. n - 1
        BY <1>3, <3>3
      <4> QED
        BY <1>3, <3>1, <4>1
    <3> QED
      BY <3>2, <3>3
  <2> QED
    BY <2>1, <2>2 DEF DeferInv
<1>7. ASSUME Top = "sqlite", NEW r \in Stopped, Pos[r] < at
      PROVE  stop[r] = "done"
  <2>1. r # "sqlite" /\ Pos[r] \in Nat /\ Pos[r] > Pos["sqlite"] /\ Pos["sqlite"] \in Nat
    BY Places DEF Stopped
  <2> SUFFICES ASSUME NEW i \in 1 .. n, deferred[i] = r PROVE FALSE
    BY <1>3, <1>7, <2>1 DEF DeferInv, Ended
  <2>2. i < n
    <3>1. i # n
      BY <1>3, <1>7, <2>1, Zenon
    <3> QED
      BY <1>3, <3>1
  <2>3. Pos[deferred[i]] < Pos[deferred[n]]
    BY <1>3, <2>2 DEF DeferInv
  <2> QED
    BY <1>3, <1>7, <2>1, <2>3
<1>8. /\ \A i \in DOMAIN deferred' : Pos[deferred'[i]] < at'
      /\ \A i, j \in DOMAIN deferred' : i < j => Pos[deferred'[i]] < Pos[deferred'[j]]
  BY <1>1, <1>3, <1>5 DEF DeferInv
<1>9. at > 3
  BY <1>1, <1>2 DEF DeferInv
<1>10. db' = "closed" => \A r \in Stopped : Pos[r] < at' => stop'[r] = "done"
  BY <1>1, <1>7 DEF DeferInv
<1> QED
  BY <1>1, <1>2, <1>6, <1>8, <1>9, <1>10 DEF DeferInv

(* All other steps leave the deferred calls alone, and a Stop that has     *)
(* returned stays so.                                                      *)
LEMMA DeferKept3 ==
    ASSUME DeferInv, UNCHANGED <<at, deferred, db>>,
           \A r \in Stopped : stop[r] = "done" => stop'[r] = "done",
           mode' = "exited" => deferred = <<>>
    PROVE  DeferInv'
<1>1. \A s \in Stopped \cup {"sqlite"} : Ended(s) => Ended(s)'
  BY DEF Ended
<1> QED
  BY <1>1 DEF DeferInv

(* Every server belongs to one group.                                      *)
LEMMA OfGroup ==
    /\ \A s \in Servers : GroupOf(s) \in Groups
    /\ \A g \in Groups, s \in Servers : s \in Of(g) <=> s \in options /\ GroupOf(s) = g
    /\ \A g \in Groups : Of(g) \subseteq Servers
BY LifecycleAssumption DEF Of, GroupOf, Groups, Servers

(* The jobs are never more than two a round.                               *)
LEMMA JobsCount ==
    ASSUME Shapes, CleanInv
    PROVE  /\ jobs.spawned \in Nat /\ jobs.counted \in Nat /\ jobs.late \in Nat
           /\ round \in Nat
           /\ jobs.spawned <= 2 * round /\ jobs.counted <= 2 * round /\ jobs.late <= 2 * round
           /\ jobs.spawned + jobs.counted + jobs.late <= 2 * MaxRounds[options]
           /\ MaxRounds[options] \in Nat
           /\ loop = "cleaning" => 2 * (round + 1) <= 2 * MaxRounds[options]
BY LifecycleAssumption DEF Shapes, CleanInv

(* There is room for the next round, and for a job that goes on.           *)
LEMMA JobsRoom ==
    ASSUME Shapes, CleanInv
    PROVE  /\ loop = "cleaning" => jobs.spawned + 2 \in 0 .. 2 * MaxRounds[options]
           /\ jobs.spawned > 0 =>
                 /\ jobs.spawned - 1 \in 0 .. 2 * MaxRounds[options]
                 /\ jobs.counted + 1 \in 0 .. 2 * MaxRounds[options]
                 /\ jobs.late + 1 \in 0 .. 2 * MaxRounds[options]
BY JobsCount

(* The variables keep their shapes.                                        *)
LEMMA ShapesKept ==
    ASSUME Shapes, StageInv, CleanInv, [Next]_vars
    PROVE  Shapes'
<1> USE DEF Shapes, Over
<1>1. CASE UNCHANGED vars
  BY <1>1 DEF vars, mainVars, cleanVars, groupVars
<1>2. CASE StageGoesWell
  <2>1. at \in 1 .. 11 /\ at' = at + 1 /\ Len(Stages) = 11
    BY <1>2 DEF StageGoesWell, StageInv, Stages
  <2>2. deferred' \in Seq(Deferring)
    BY <1>2 DEF StageGoesWell, Defers
  <2>3. at' \in 1 .. Len(Stages) + 1
    BY <2>1
  <2> QED
    BY <1>2, <2>2, <2>3 DEF StageGoesWell, groupVars
<1>3. CASE StageFails
  BY <1>3 DEF StageFails, mainVars, cleanVars, groupVars
<1>4. CASE OnlyPrints
  BY <1>4 DEF OnlyPrints, mainVars, cleanVars, groupVars
<1>5. CASE Signal
  BY <1>5 DEF Signal, mainVars, cleanVars, groupVars
<1>6. CASE EarlyDone
  BY <1>6 DEF EarlyDone, MainMove, mainVars, cleanVars, groupVars
<1>7. CASE DeferredStop
  BY <1>7 DEF DeferredStop, Unwinding, MainMove, mainVars, cleanVars, groupVars
<1>8. CASE DeferredReturns
  BY <1>8 DEF DeferredReturns, Unwinding, MainMove, Pop, mainVars, cleanVars, groupVars
<1>9. CASE SyncSendStop
  BY <1>9 DEF SyncSendStop, MainMove, mainVars, cleanVars, groupVars
<1>10. CASE CleanerStop
  BY <1>10 DEF CleanerStop, Stopping, StopMoves, mainVars, cleanVars, groupVars
<1>11. CASE NetWatcherStop
  BY <1>11 DEF NetWatcherStop, Stopping, StopMoves, mainVars, cleanVars, groupVars
<1>12. CASE Overload
  <2>1. /\ group' \in [Groups -> {"running", "stopping", "waiting", "releasing", "stopped"}]
        /\ helper' \in [Servers -> {"none", "spawned", "counted", "done"}]
    BY <1>12 DEF Overload, Ranges
  <2> QED
    BY <1>12, <2>1 DEF Overload, Stopping, mainVars, cleanVars
<1>13. ASSUME NEW g \in Groups, GroupStop(g)
       PROVE  Shapes'
  BY <1>13 DEF GroupStop, Stopping, StopMoves, Ranges, mainVars, cleanVars, groupVars
<1>14. ASSUME NEW g \in Groups, GroupWaits(g)
       PROVE  Shapes'
  BY <1>14 DEF GroupWaits, Stopping, mainVars, cleanVars, groupVars
<1>15. CASE LoopCounted
  BY <1>15 DEF LoopCounted, Cleaning, Adds, TooLate, mainVars, cleanVars, groupVars
<1>16. CASE Clean
  <2>1. jobs' \in [{"spawned", "counted", "late"} -> 0 .. 2 * MaxRounds[options]]
    <3>1. loop = "cleaning"
      BY <1>16 DEF Clean
    <3>2. jobs.spawned + 2 \in 0 .. 2 * MaxRounds[options]
      BY <3>1, JobsRoom
    <3> QED
      BY <1>16, <3>2 DEF Clean
  <2>2. round' \in 0 .. MaxRounds[options]
    BY <1>16, LifecycleAssumption DEF CleanInv, Clean, Cleaning, cleanVars
  <2>3. /\ mode' \in {mode, "crashed"}
        /\ stop' \in [Stopped -> {"idle", "called", "waiting", "releasing", "done"}]
    BY <1>16 DEF Clean, Cleaning, cleanVars
  <2>4. /\ UNCHANGED <<at, exitcode, ready, deferred, db, signal, options>>
        /\ UNCHANGED <<group, helper, collector, conn>>
        /\ loop' \in {loop, "select"}
    BY <1>16 DEF Clean, Cleaning, cleanVars, groupVars
  <2>5. late' = late
    BY <1>16 DEF Clean, Cleaning, cleanVars
  <2> QED
    BY <2>1, <2>2, <2>3, <2>4, <2>5
<1>17. CASE LoopEnds
  BY <1>17 DEF LoopEnds, Cleaning, Leaves, mainVars, cleanVars, groupVars
<1>18. CASE LoopTicks
  BY <1>18 DEF LoopTicks, Cleaning, mainVars, cleanVars, groupVars
<1>19. CASE JobCounted
  <2>1. jobs' \in [{"spawned", "counted", "late"} -> 0 .. 2 * MaxRounds[options]]
    <3>1. jobs.spawned > 0
      BY <1>19 DEF JobCounted
    <3>2. /\ jobs.spawned - 1 \in 0 .. 2 * MaxRounds[options]
          /\ jobs.counted + 1 \in 0 .. 2 * MaxRounds[options] /\ jobs.late + 1 \in 0 .. 2 * MaxRounds[options]
      BY <3>1, JobsRoom
    <3> QED
      BY <1>19, <3>2 DEF JobCounted
  <2>2. round' \in 0 .. MaxRounds[options]
    BY <1>19, LifecycleAssumption DEF CleanInv, JobCounted, Cleaning, Adds, TooLate, cleanVars
  <2>3. /\ mode' \in {mode, "crashed"}
        /\ stop' \in [Stopped -> {"idle", "called", "waiting", "releasing", "done"}]
    BY <1>19 DEF JobCounted, Cleaning, Adds, TooLate, cleanVars
  <2>4. /\ UNCHANGED <<at, exitcode, ready, deferred, db, signal, options>>
        /\ UNCHANGED <<group, helper, collector, conn>>
        /\ loop' \in {loop, "select"}
    BY <1>19 DEF JobCounted, Cleaning, Adds, TooLate, cleanVars, groupVars
  <2>5. late' = late
    BY <1>19 DEF JobCounted, Cleaning, Adds, TooLate, cleanVars
  <2> QED
    BY <2>1, <2>2, <2>3, <2>4, <2>5
<1>20. ASSUME NEW kind \in {"counted", "late"}, JobEnds(kind)
      PROVE  Shapes'
  <2>1. jobs' \in [{"spawned", "counted", "late"} -> 0 .. 2 * MaxRounds[options]]
    <3>1. jobs' = [jobs EXCEPT ![kind] = @ - 1] /\ jobs[kind] > 0 /\ options' = options
      BY <1>20 DEF JobEnds, Cleaning
    <3>2. jobs[kind] \in Nat /\ jobs[kind] <= 2 * MaxRounds[options]
      <4>1. CASE kind = "counted"
        BY <4>1, JobsCount
      <4>2. CASE kind = "late"
        BY <4>2, JobsCount
      <4> QED
        BY <4>1, <4>2
    <3>3. jobs[kind] - 1 \in 0 .. 2 * MaxRounds[options]
      BY <3>1, <3>2, JobsCount
    <3> QED
      BY <3>1, <3>3
  <2>2. round' \in 0 .. MaxRounds[options]
    BY <1>20, LifecycleAssumption DEF CleanInv, JobEnds, Cleaning, Leaves, cleanVars
  <2>3. /\ mode' \in {mode, "crashed"}
        /\ stop' \in [Stopped -> {"idle", "called", "waiting", "releasing", "done"}]
    BY <1>20 DEF JobEnds, Cleaning, Leaves, cleanVars
  <2>4. /\ UNCHANGED <<at, exitcode, ready, deferred, db, signal, options>>
        /\ UNCHANGED <<group, helper, collector, conn>>
        /\ loop' \in {loop, "select"}
    BY <1>20 DEF JobEnds, Cleaning, Leaves, cleanVars, groupVars
  <2>5. late' = late
    BY <1>20 DEF JobEnds, Cleaning, Leaves, cleanVars
  <2> QED
    BY <2>1, <2>2, <2>3, <2>4, <2>5
<1>21. ASSUME NEW s \in Servers, HelperCounted(s)
       PROVE  Shapes'
  BY <1>21 DEF HelperCounted, HelperMoves, Helping, mainVars, cleanVars
<1>22. ASSUME NEW s \in Servers, HelperDone(s)
       PROVE  Shapes'
  <2>1. /\ group' \in [Groups -> {"running", "stopping", "waiting", "releasing", "stopped"}]
        /\ helper' \in [Servers -> {"none", "spawned", "counted", "done"}]
    BY <1>22 DEF HelperDone, HelperMoves
  <2> QED
    BY <1>22, <2>1 DEF HelperDone, HelperMoves, Helping, mainVars, cleanVars
<1>23. CASE CollectorSaves
  BY <1>23 DEF CollectorSaves, Saving, mainVars, cleanVars, groupVars
<1>24. CASE CollectorTicks
  BY <1>24 DEF CollectorTicks, Saving, mainVars, cleanVars, groupVars
<1>25. CASE CollectorEnds
  BY <1>25 DEF CollectorEnds, Saving, mainVars, cleanVars, groupVars
<1>26. ASSUME NEW c \in Conns, ConnAccepted(c)
      PROVE  Shapes'
  BY <1>26 DEF ConnAccepted, ConnMove, Saving, mainVars, cleanVars, groupVars
<1>27. ASSUME NEW c \in Conns, ConnCounted(c)
      PROVE  Shapes'
  BY <1>27 DEF ConnCounted, ConnMove, Saving, mainVars, cleanVars, groupVars
<1>28. ASSUME NEW c \in Conns, ConnSaves(c)
      PROVE  Shapes'
  BY <1>28 DEF ConnSaves, ConnMove, Saving, mainVars, cleanVars, groupVars
<1>29. ASSUME NEW c \in Conns, ConnLeaves(c)
      PROVE  Shapes'
  BY <1>29 DEF ConnLeaves, ConnMove, Saving, mainVars, cleanVars, groupVars
<1> QED
  BY <1>1, <1>2, <1>3, <1>4, <1>5, <1>6, <1>7, <1>8, <1>9, <1>10, <1>11, <1>12,
     <1>13, <1>14, <1>15, <1>16, <1>17, <1>18, <1>19, <1>20, <1>21, <1>22,
     <1>23, <1>24, <1>25, <1>26, <1>27, <1>28, <1>29
     DEF Next, MainEnds, Stops, Loop, Jobs, Collector, Conn

(* What follows from MainV1's stage.                                       *)
LEMMA StageKept ==
    ASSUME Shapes, StageInv, DeferInv, [Next]_vars
    PROVE  StageInv'
<1> USE DEF StageInv, Over
<1>1. CASE UNCHANGED vars
  BY <1>1 DEF vars, mainVars, cleanVars, groupVars
<1>2. CASE StageGoesWell
  <2>1. at \in 1 .. 11 /\ at' = at + 1 /\ Len(Stages) = 11
    BY <1>2 DEF StageGoesWell, Stages, Shapes
  <2>2. /\ Stage = "config" <=> at = 2
        /\ Stage = "sqlite" <=> at = 6
    BY <2>1, StageAt, Places
  <2>3. /\ mode = "starting" /\ UNCHANGED <<exitcode, signal>>
        /\ mode' = IF at = 11 THEN "serving" ELSE mode
        /\ (ready' <=> ready \/ at = 2) /\ db' = IF at = 6 THEN "open" ELSE db
    BY <1>2, <2>1, <2>2 DEF StageGoesWell
  <2>4. ready \in BOOLEAN
    BY DEF Shapes
  <2>5. ready' <=> at' > 2
    <3>1. CASE at = 2
      BY <2>1, <2>3, <3>1
    <3>2. CASE at # 2
      <4>1. ready' <=> ready
        BY <2>3, <3>2
      <4>2. at > 2 <=> at' > 2
        BY <2>1, <3>2
      <4> QED
        BY <4>1, <4>2
    <3> QED
      BY <3>1, <3>2
  <2>6. db' = "nil" <=> at' <= 6
    BY <2>1, <2>3
  <2>7. db' # "closed" /\ signal' # "taken" /\ exitcode' = 0 /\ mode' \in {"starting", "serving"}
    BY <2>1, <2>3
  <2>8. (mode' = "starting" => at' <= 11) /\ (mode' = "serving" => at' = 12)
    BY <2>1, <2>3
  <2> QED
    BY <2>5, <2>6, <2>7, <2>8
<1>3. CASE StageFails
  <2>1. at \in 1 .. 11
    BY <1>3 DEF StageFails, Stages, Shapes
  <2>2. Stage \notin Fatal => at > 2
    BY <2>1, <1>3, StageAt, Places DEF StageFails, Fatal, Failing
  <2> QED
    BY <1>3, <2>1, <2>2 DEF StageFails
<1>4. CASE OnlyPrints
  <2>1. at = 1
    BY <1>4, StageAt, Places DEF OnlyPrints, Stages, Shapes
  <2> QED
    BY <1>4, <2>1 DEF OnlyPrints
<1>5. CASE Signal
  BY <1>5 DEF Signal, mainVars, cleanVars, groupVars
<1>6. CASE EarlyDone
  BY <1>6 DEF EarlyDone, MainMove, mainVars, cleanVars, groupVars
<1>7. CASE DeferredStop
  BY <1>7 DEF DeferredStop, Unwinding, MainMove, mainVars, cleanVars, groupVars
<1>8. CASE DeferredReturns
  <2>0. at \in Nat
    BY DEF Shapes
  <2>1. Top = "sqlite" => at > 6
    <3>1. /\ deferred \in Seq(Deferring) /\ deferred # <<>> /\ at \in Nat
      BY <1>8 DEF DeferredReturns, Unwinding, Shapes
    <3>2. Len(deferred) \in DOMAIN deferred
      BY <3>1
    <3> QED
      BY <3>1, <3>2, Places DEF Top, DeferInv
  <2>2. /\ UNCHANGED <<at, exitcode, ready, signal, mode>> /\ mode = "unwinding"
        /\ db' = IF Top = "sqlite" THEN "closed" ELSE db
    BY <1>8 DEF DeferredReturns, Unwinding, MainMove
  <2>3. db' = "nil" <=> at' <= 6
    <3>1. CASE Top = "sqlite"
      BY <2>1, <2>2, <3>1, <2>0
    <3>2. CASE Top # "sqlite"
      BY <2>2, <3>2
    <3> QED
      BY <3>1, <3>2
  <2>4. (ready' <=> at' > 2) /\ (~ready' => at' = 1)
    BY <2>2, Zenon
  <2>5. ready' => (exitcode' = 0 <=> signal' = "taken")
    BY <2>2, Zenon
  <2> QED
    BY <2>2, <2>3, <2>4, <2>5
<1>9. CASE SyncSendStop
  BY <1>9 DEF SyncSendStop, MainMove, mainVars, cleanVars, groupVars
<1>10. CASE CleanerStop
  BY <1>10 DEF CleanerStop, Stopping, StopMoves, mainVars, cleanVars, groupVars
<1>11. CASE NetWatcherStop
  BY <1>11 DEF NetWatcherStop, Stopping, StopMoves, mainVars, cleanVars, groupVars
<1>12. CASE Overload
  BY <1>12 DEF Overload, Stopping, Ranges, mainVars, cleanVars, groupVars
<1>13. ASSUME NEW g \in Groups, GroupStop(g)
       PROVE  StageInv'
  BY <1>13 DEF GroupStop, Stopping, StopMoves, Ranges, mainVars, cleanVars, groupVars
<1>14. ASSUME NEW g \in Groups, GroupWaits(g)
       PROVE  StageInv'
  BY <1>14 DEF GroupWaits, Stopping, mainVars, cleanVars, groupVars
<1>15. CASE LoopCounted
  BY <1>15 DEF LoopCounted, Cleaning, Adds, TooLate, mainVars, cleanVars, groupVars
<1>16. CASE Clean
  BY <1>16 DEF Clean, Cleaning, mainVars, cleanVars, groupVars
<1>17. CASE LoopEnds
  BY <1>17 DEF LoopEnds, Cleaning, Leaves, mainVars, cleanVars, groupVars
<1>18. CASE LoopTicks
  BY <1>18 DEF LoopTicks, Cleaning, mainVars, cleanVars, groupVars
<1>19. CASE JobCounted
  BY <1>19 DEF JobCounted, Cleaning, Adds, TooLate, mainVars, cleanVars, groupVars
<1>20. ASSUME NEW kind \in {"counted", "late"}, JobEnds(kind)
      PROVE  StageInv'
  BY <1>20 DEF JobEnds, Cleaning, Leaves, mainVars, cleanVars, groupVars
<1>21. ASSUME NEW s \in Servers, HelperCounted(s)
       PROVE  StageInv'
  BY <1>21 DEF HelperCounted, HelperMoves, Helping, mainVars, cleanVars
<1>22. ASSUME NEW s \in Servers, HelperDone(s)
       PROVE  StageInv'
  BY <1>22 DEF HelperDone, HelperMoves, Helping, mainVars, cleanVars
<1>23. CASE CollectorSaves
  BY <1>23 DEF CollectorSaves, Saving, mainVars, cleanVars, groupVars
<1>24. CASE CollectorTicks
  BY <1>24 DEF CollectorTicks, Saving, mainVars, cleanVars, groupVars
<1>25. CASE CollectorEnds
  BY <1>25 DEF CollectorEnds, Saving, mainVars, cleanVars, groupVars
<1>26. ASSUME NEW c \in Conns, ConnAccepted(c)
      PROVE  StageInv'
  BY <1>26 DEF ConnAccepted, ConnMove, Saving, mainVars, cleanVars, groupVars
<1>27. ASSUME NEW c \in Conns, ConnCounted(c)
      PROVE  StageInv'
  BY <1>27 DEF ConnCounted, ConnMove, Saving, mainVars, cleanVars, groupVars
<1>28. ASSUME NEW c \in Conns, ConnSaves(c)
      PROVE  StageInv'
  BY <1>28 DEF ConnSaves, ConnMove, Saving, mainVars, cleanVars, groupVars
<1>29. ASSUME NEW c \in Conns, ConnLeaves(c)
      PROVE  StageInv'
  BY <1>29 DEF ConnLeaves, ConnMove, Saving, mainVars, cleanVars, groupVars
<1> QED
  BY <1>1, <1>2, <1>3, <1>4, <1>5, <1>6, <1>7, <1>8, <1>9, <1>10, <1>11, <1>12,
     <1>13, <1>14, <1>15, <1>16, <1>17, <1>18, <1>19, <1>20, <1>21, <1>22,
     <1>23, <1>24, <1>25, <1>26, <1>27, <1>28, <1>29
     DEF Next, MainEnds, Stops, Loop, Jobs, Collector, Conn

(* What follows from it for those that have a Stop.                        *)
LEMMA StopKept ==
    ASSUME Shapes, StageInv, StopInv, DeferInv, [Next]_vars
    PROVE  StopInv'
<1> USE DEF Shapes, StageInv, StopInv, Over
<1>1. CASE UNCHANGED vars
  BY <1>1 DEF vars, mainVars, cleanVars, groupVars
<1>2. CASE StageGoesWell
  BY <1>2 DEF StageGoesWell, Defers, mainVars, cleanVars, groupVars
<1>3. CASE StageFails
  BY <1>3 DEF StageFails, mainVars, cleanVars, groupVars
<1>4. CASE OnlyPrints
  BY <1>4 DEF OnlyPrints, mainVars, cleanVars, groupVars
<1>5. CASE Signal
  <2>1. \A r \in Stopped : Pos[r] < 12 /\ Pos[r] \in Nat
    BY Places DEF Stopped
  <2>2. CASE mode = "serving"
    BY <1>5, <2>1, <2>2 DEF Signal
  <2>3. CASE mode # "serving"
    BY <1>5, <2>3 DEF Signal
  <2> QED
    BY <2>2, <2>3
<1>6. CASE EarlyDone
  BY <1>6 DEF EarlyDone, MainMove, mainVars, cleanVars, groupVars
<1>7. CASE DeferredStop
  <2>1. /\ deferred \in Seq(Deferring) /\ deferred # <<>> /\ at \in Nat
    BY <1>7 DEF DeferredStop, Unwinding
  <2>2. Len(deferred) \in DOMAIN deferred
    BY <2>1
  <2>3. Pos[Top] < at /\ Top \in Stopped
    BY <1>7, <2>1, <2>2 DEF Top, DeferInv, DeferredStop
  <2>4. stop' = [stop EXCEPT ![Top] = "called"] /\ stop[Top] = "idle"
        /\ mode = "unwinding" /\ UNCHANGED <<at, signal, mode>>
    BY <1>7 DEF DeferredStop, Unwinding, MainMove
  <2>5. Pos[Top] \in Nat
    BY <2>3, Places DEF Stopped
  <2> HIDE DEF Top
  <2> QED
    BY <2>1, <2>3, <2>4, <2>5
<1>8. CASE DeferredReturns
  BY <1>8 DEF DeferredReturns, Unwinding, MainMove, Pop, mainVars, cleanVars, groupVars
<1>9. CASE SyncSendStop
  BY <1>9 DEF SyncSendStop, MainMove, mainVars, cleanVars, groupVars
<1>10. CASE CleanerStop
  BY <1>10 DEF CleanerStop, Stopping, StopMoves, mainVars, cleanVars, groupVars
<1>11. CASE NetWatcherStop
  BY <1>11 DEF NetWatcherStop, Stopping, StopMoves, mainVars, cleanVars, groupVars
<1>12. CASE Overload
  BY <1>12 DEF Overload, Stopping, Ranges, mainVars, cleanVars, groupVars
<1>13. ASSUME NEW g \in Groups, GroupStop(g)
       PROVE  StopInv'
  BY <1>13 DEF GroupStop, Stopping, StopMoves, Ranges, mainVars, cleanVars, groupVars
<1>14. ASSUME NEW g \in Groups, GroupWaits(g)
       PROVE  StopInv'
  BY <1>14 DEF GroupWaits, Stopping, mainVars, cleanVars, groupVars
<1>15. CASE LoopCounted
  BY <1>15 DEF LoopCounted, Cleaning, Adds, TooLate, mainVars, cleanVars, groupVars
<1>16. CASE Clean
  BY <1>16 DEF Clean, Cleaning, mainVars, cleanVars, groupVars
<1>17. CASE LoopEnds
  BY <1>17 DEF LoopEnds, Cleaning, Leaves, mainVars, cleanVars, groupVars
<1>18. CASE LoopTicks
  BY <1>18 DEF LoopTicks, Cleaning, mainVars, cleanVars, groupVars
<1>19. CASE JobCounted
  BY <1>19 DEF JobCounted, Cleaning, Adds, TooLate, mainVars, cleanVars, groupVars
<1>20. ASSUME NEW kind \in {"counted", "late"}, JobEnds(kind)
      PROVE  StopInv'
  BY <1>20 DEF JobEnds, Cleaning, Leaves, mainVars, cleanVars, groupVars
<1>21. ASSUME NEW s \in Servers, HelperCounted(s)
       PROVE  StopInv'
  BY <1>21 DEF HelperCounted, HelperMoves, Helping, mainVars, cleanVars
<1>22. ASSUME NEW s \in Servers, HelperDone(s)
       PROVE  StopInv'
  BY <1>22 DEF HelperDone, HelperMoves, Helping, mainVars, cleanVars
<1>23. CASE CollectorSaves
  BY <1>23 DEF CollectorSaves, Saving, mainVars, cleanVars, groupVars
<1>24. CASE CollectorTicks
  BY <1>24 DEF CollectorTicks, Saving, mainVars, cleanVars, groupVars
<1>25. CASE CollectorEnds
  BY <1>25 DEF CollectorEnds, Saving, mainVars, cleanVars, groupVars
<1>26. ASSUME NEW c \in Conns, ConnAccepted(c)
      PROVE  StopInv'
  BY <1>26 DEF ConnAccepted, ConnMove, Saving, mainVars, cleanVars, groupVars
<1>27. ASSUME NEW c \in Conns, ConnCounted(c)
      PROVE  StopInv'
  BY <1>27 DEF ConnCounted, ConnMove, Saving, mainVars, cleanVars, groupVars
<1>28. ASSUME NEW c \in Conns, ConnSaves(c)
      PROVE  StopInv'
  BY <1>28 DEF ConnSaves, ConnMove, Saving, mainVars, cleanVars, groupVars
<1>29. ASSUME NEW c \in Conns, ConnLeaves(c)
      PROVE  StopInv'
  BY <1>29 DEF ConnLeaves, ConnMove, Saving, mainVars, cleanVars, groupVars
<1> QED
  BY <1>1, <1>2, <1>3, <1>4, <1>5, <1>6, <1>7, <1>8, <1>9, <1>10, <1>11, <1>12,
     <1>13, <1>14, <1>15, <1>16, <1>17, <1>18, <1>19, <1>20, <1>21, <1>22,
     <1>23, <1>24, <1>25, <1>26, <1>27, <1>28, <1>29
     DEF Next, MainEnds, Stops, Loop, Jobs, Collector, Conn

(* The collecting loop runs only if an interface is watched.               *)
LEMMA CollectorKept ==
    ASSUME Shapes, StageInv, CollectorInv, [Next]_vars
    PROVE  CollectorInv'
<1> USE DEF Shapes, StageInv, CollectorInv, Over
<1>1. CASE UNCHANGED vars
  BY <1>1 DEF vars, mainVars, cleanVars, groupVars
<1>2. CASE StageGoesWell
  <2>1. at \in 1 .. 11 /\ at' = at + 1
    BY <1>2 DEF StageGoesWell, Stages
  <2>2. Stage = "netwatcher" <=> at = 9
    BY <2>1, StageAt, Places
  <2> QED
    BY <1>2, <2>1, <2>2 DEF StageGoesWell
<1>3. CASE StageFails
  BY <1>3 DEF StageFails, mainVars, cleanVars, groupVars
<1>4. CASE OnlyPrints
  BY <1>4 DEF OnlyPrints, mainVars, cleanVars, groupVars
<1>5. CASE Signal
  BY <1>5 DEF Signal, mainVars, cleanVars, groupVars
<1>6. CASE EarlyDone
  BY <1>6 DEF EarlyDone, MainMove, mainVars, cleanVars, groupVars
<1>7. CASE DeferredStop
  BY <1>7 DEF DeferredStop, Unwinding, MainMove, mainVars, cleanVars, groupVars
<1>8. CASE DeferredReturns
  BY <1>8 DEF DeferredReturns, Unwinding, MainMove, Pop, mainVars, cleanVars, groupVars
<1>9. CASE SyncSendStop
  BY <1>9 DEF SyncSendStop, MainMove, mainVars, cleanVars, groupVars
<1>10. CASE CleanerStop
  BY <1>10 DEF CleanerStop, Stopping, StopMoves, mainVars, cleanVars, groupVars
<1>11. CASE NetWatcherStop
  BY <1>11 DEF NetWatcherStop, Stopping, StopMoves, mainVars, cleanVars, groupVars
<1>12. CASE Overload
  BY <1>12 DEF Overload, Stopping, Ranges, mainVars, cleanVars, groupVars
<1>13. ASSUME NEW g \in Groups, GroupStop(g)
       PROVE  CollectorInv'
  BY <1>13 DEF GroupStop, Stopping, StopMoves, Ranges, mainVars, cleanVars, groupVars
<1>14. ASSUME NEW g \in Groups, GroupWaits(g)
       PROVE  CollectorInv'
  BY <1>14 DEF GroupWaits, Stopping, mainVars, cleanVars, groupVars
<1>15. CASE LoopCounted
  BY <1>15 DEF LoopCounted, Cleaning, Adds, TooLate, mainVars, cleanVars, groupVars
<1>16. CASE Clean
  BY <1>16 DEF Clean, Cleaning, mainVars, cleanVars, groupVars
<1>17. CASE LoopEnds
  BY <1>17 DEF LoopEnds, Cleaning, Leaves, mainVars, cleanVars, groupVars
<1>18. CASE LoopTicks
  BY <1>18 DEF LoopTicks, Cleaning, mainVars, cleanVars, groupVars
<1>19. CASE JobCounted
  BY <1>19 DEF JobCounted, Cleaning, Adds, TooLate, mainVars, cleanVars, groupVars
<1>20. ASSUME NEW kind \in {"counted", "late"}, JobEnds(kind)
      PROVE  CollectorInv'
  BY <1>20 DEF JobEnds, Cleaning, Leaves, mainVars, cleanVars, groupVars
<1>21. ASSUME NEW s \in Servers, HelperCounted(s)
       PROVE  CollectorInv'
  BY <1>21 DEF HelperCounted, HelperMoves, Helping, mainVars, cleanVars
<1>22. ASSUME NEW s \in Servers, HelperDone(s)
       PROVE  CollectorInv'
  BY <1>22 DEF HelperDone, HelperMoves, Helping, mainVars, cleanVars
<1>23. CASE CollectorSaves
  BY <1>23 DEF CollectorSaves, Saving, mainVars, cleanVars, groupVars
<1>24. CASE CollectorTicks
  BY <1>24 DEF CollectorTicks, Saving, mainVars, cleanVars, groupVars
<1>25. CASE CollectorEnds
  BY <1>25 DEF CollectorEnds, Saving, mainVars, cleanVars, groupVars
<1>26. ASSUME NEW c \in Conns, ConnAccepted(c)
      PROVE  CollectorInv'
  BY <1>26 DEF ConnAccepted, ConnMove, Saving, mainVars, cleanVars, groupVars
<1>27. ASSUME NEW c \in Conns, ConnCounted(c)
      PROVE  CollectorInv'
  BY <1>27 DEF ConnCounted, ConnMove, Saving, mainVars, cleanVars, groupVars
<1>28. ASSUME NEW c \in Conns, ConnSaves(c)
      PROVE  CollectorInv'
  BY <1>28 DEF ConnSaves, ConnMove, Saving, mainVars, cleanVars, groupVars
<1>29. ASSUME NEW c \in Conns, ConnLeaves(c)
      PROVE  CollectorInv'
  BY <1>29 DEF ConnLeaves, ConnMove, Saving, mainVars, cleanVars, groupVars
<1> QED
  BY <1>1, <1>2, <1>3, <1>4, <1>5, <1>6, <1>7, <1>8, <1>9, <1>10, <1>11, <1>12,
     <1>13, <1>14, <1>15, <1>16, <1>17, <1>18, <1>19, <1>20, <1>21, <1>22,
     <1>23, <1>24, <1>25, <1>26, <1>27, <1>28, <1>29
     DEF Next, MainEnds, Stops, Loop, Jobs, Collector, Conn

(* The four ways to crash.                                                 *)
LEMMA CrashKept ==
    ASSUME Shapes, StageInv, DeferInv, GroupInv, CollectorInv, CrashInv, [Next]_vars
    PROVE  CrashInv'
<1> USE DEF Shapes, StageInv, CrashInv, Over
<1>1. CASE UNCHANGED vars
  BY <1>1 DEF vars, mainVars, cleanVars, groupVars, Of
<1>2. CASE StageGoesWell
  BY <1>2 DEF StageGoesWell, Defers, mainVars, cleanVars, groupVars
<1>3. CASE StageFails
  BY <1>3 DEF StageFails, mainVars, cleanVars, groupVars
<1>4. CASE OnlyPrints
  BY <1>4 DEF OnlyPrints, mainVars, cleanVars, groupVars
<1>5. CASE Signal
  BY <1>5 DEF Signal, mainVars, cleanVars, groupVars
<1>6. CASE EarlyDone
  BY <1>6 DEF EarlyDone, MainMove, mainVars, cleanVars, groupVars
<1>7. CASE DeferredStop
  BY <1>7 DEF DeferredStop, Unwinding, MainMove, mainVars, cleanVars, groupVars
<1>8. CASE DeferredReturns
  BY <1>8 DEF DeferredReturns, Unwinding, MainMove, Pop, mainVars, cleanVars, groupVars
<1>9. CASE SyncSendStop
  BY <1>9 DEF SyncSendStop, MainMove, mainVars, cleanVars, groupVars
<1>10. CASE CleanerStop
  BY <1>10 DEF CleanerStop, Stopping, StopMoves, mainVars, cleanVars, groupVars
<1>11. CASE NetWatcherStop
  BY <1>11 DEF NetWatcherStop, Stopping, StopMoves, mainVars, cleanVars, groupVars
<1>12. CASE Overload
  BY <1>12 DEF Overload, Stopping, Ranges, mainVars, cleanVars, groupVars
<1>13. ASSUME NEW g \in Groups, GroupStop(g)
       PROVE  CrashInv'
  BY <1>13 DEF GroupStop, Stopping, StopMoves, Ranges, mainVars, cleanVars, groupVars
<1>14. ASSUME NEW g \in Groups, GroupWaits(g)
       PROVE  CrashInv'
  BY <1>14 DEF GroupWaits, Stopping, mainVars, cleanVars, groupVars
<1>15. CASE LoopCounted
  BY <1>15 DEF LoopCounted, Cleaning, Adds, TooLate, mainVars, cleanVars, groupVars
<1>16. CASE Clean
  BY <1>16 DEF Clean, Cleaning, mainVars, cleanVars, groupVars
<1>17. CASE LoopEnds
  BY <1>17 DEF LoopEnds, Cleaning, Leaves, mainVars, cleanVars, groupVars
<1>18. CASE LoopTicks
  BY <1>18 DEF LoopTicks, Cleaning, mainVars, cleanVars, groupVars
<1>19. CASE JobCounted
  BY <1>19 DEF JobCounted, Cleaning, Adds, TooLate, mainVars, cleanVars, groupVars
<1>20. ASSUME NEW kind \in {"counted", "late"}, JobEnds(kind)
      PROVE  CrashInv'
  BY <1>20 DEF JobEnds, Cleaning, Leaves, mainVars, cleanVars, groupVars
<1>21. ASSUME NEW s \in Servers, HelperCounted(s)
       PROVE  CrashInv'
  <2>1. CASE mode' # "crashed"
    BY <2>1
  <2>2. CASE mode' = "crashed"
    <3>1. /\ group[GroupOf(s)] = "releasing" /\ helper[s] = "spawned" /\ UNCHANGED <<group, options>>
          /\ helper' = [helper EXCEPT ![s] = "counted"]
      BY <1>21, <2>2 DEF HelperCounted, HelperMoves, Helping
    <3>2. GroupOf(s) \in Groups /\ s \in Of(GroupOf(s)) /\ Of(GroupOf(s)) \subseteq Servers
      BY <3>1, OfGroup DEF GroupInv
    <3>3. PICK r \in Of(GroupOf(s)) : helper[r] = "done"
      BY <3>1, <3>2 DEF GroupInv
    <3>4. r # s /\ helper'[r] = "done" /\ helper'[s] = "counted"
      BY <3>1, <3>2, <3>3
    <3>5. Of(GroupOf(s))' = Of(GroupOf(s))
      BY <3>1 DEF Of, GroupOf
    <3> QED
      BY <3>1, <3>2, <3>3, <3>4, <3>5
  <2> QED
    BY <2>1, <2>2
<1>22. ASSUME NEW s \in Servers, HelperDone(s)
       PROVE  CrashInv'
  BY <1>22 DEF HelperDone, HelperMoves, Helping, mainVars, cleanVars
<1>23. CASE CollectorSaves
  <2>1. at > 9 /\ at \in Nat /\ "collector" \in options
    BY <1>23 DEF CollectorSaves, CollectorInv
  <2>2. db # "open" => db = "closed"
    BY <2>1
  <2>3. db = "closed" => stop["netwatcher"] = "done"
    BY <2>1, Places DEF DeferInv, Stopped
  <2> QED
    BY <1>23, <2>1, <2>2, <2>3 DEF CollectorSaves, Saving
<1>24. CASE CollectorTicks
  BY <1>24 DEF CollectorTicks, Saving, mainVars, cleanVars, groupVars
<1>25. CASE CollectorEnds
  BY <1>25 DEF CollectorEnds, Saving, mainVars, cleanVars, groupVars
<1>26. ASSUME NEW c \in Conns, ConnAccepted(c)
      PROVE  CrashInv'
  BY <1>26 DEF ConnAccepted, ConnMove, Saving, mainVars, cleanVars, groupVars
<1>27. ASSUME NEW c \in Conns, ConnCounted(c)
      PROVE  CrashInv'
  BY <1>27 DEF ConnCounted, ConnMove, Saving, mainVars, cleanVars, groupVars
<1>28. ASSUME NEW c \in Conns, ConnSaves(c)
      PROVE  CrashInv'
  BY <1>28 DEF ConnSaves, ConnMove, Saving, mainVars, cleanVars, groupVars
<1>29. ASSUME NEW c \in Conns, ConnLeaves(c)
      PROVE  CrashInv'
  BY <1>29 DEF ConnLeaves, ConnMove, Saving, mainVars, cleanVars, groupVars
<1> QED
  BY <1>1, <1>2, <1>3, <1>4, <1>5, <1>6, <1>7, <1>8, <1>9, <1>10, <1>11, <1>12,
     <1>13, <1>14, <1>15, <1>16, <1>17, <1>18, <1>19, <1>20, <1>21, <1>22,
     <1>23, <1>24, <1>25, <1>26, <1>27, <1>28, <1>29
     DEF Next, MainEnds, Stops, Loop, Jobs, Collector, Conn

(* Who is in the cleaner's WaitGroup.                                      *)
LEMMA GroupCount ==
    ASSUME Shapes, CleanInv
    PROVE  /\ InGroup \in Nat
           /\ InGroup = 0 => jobs.counted = 0 /\ loop \notin {"cleaning", "select"}
<1>1. jobs.counted \in Nat /\ jobs.late \in Nat
  BY JobsCount
<1> QED
  BY <1>1 DEF InGroup

(* Two more jobs fit into one more round.                                  *)
LEMMA TwoMoreARound ==
    ASSUME NEW a \in Nat, NEW b \in Nat, NEW c \in Nat, NEW n \in Nat, a + b + c <= 2 * n
    PROVE  a + 2 + b + c <= 2 * (n + 1)
OBVIOUS

(* The cleaner's WaitGroup.                                                *)
LEMMA CleanKept ==
    ASSUME Shapes, StageInv, StopInv, CleanInv, Shapes', [Next]_vars
    PROVE  CleanInv'
<1>0. /\ at \in 1 .. 12 /\ round \in Nat /\ options \in Options
      /\ stop \in [Stopped -> {"idle", "called", "waiting", "releasing", "done"}]
      /\ jobs \in [{"spawned", "counted", "late"} -> Nat]
      /\ loop \in {"none", "spawned", "cleaning", "select", "ended"}
  BY LifecycleAssumption DEF Shapes, Stages
<1> USE <1>0 DEF StageInv, StopInv, CleanInv, Over, InGroup, Stopped
<1>1. CASE UNCHANGED vars
  BY <1>1 DEF vars, mainVars, cleanVars, groupVars
<1>2. CASE StageGoesWell
  <2>1. at \in 1 .. 11 /\ at' = at + 1
    BY <1>2 DEF StageGoesWell, Stages
  <2>2. Stage = "cleaner" <=> at = 7
    BY <2>1, StageNames
  <2> QED
    BY <1>2, <2>1, <2>2 DEF StageGoesWell, InGroup
<1>3. CASE StageFails
  BY <1>3 DEF StageFails, mainVars, cleanVars, groupVars
<1>4. CASE OnlyPrints
  BY <1>4 DEF OnlyPrints, mainVars, cleanVars, groupVars
<1>5. CASE Signal
  BY <1>5 DEF Signal, mainVars, cleanVars, groupVars
<1>6. CASE EarlyDone
  BY <1>6 DEF EarlyDone, MainMove, mainVars, cleanVars, groupVars
<1>7. CASE DeferredStop
  BY <1>7 DEF DeferredStop, Unwinding, MainMove, mainVars, cleanVars, groupVars
<1>8. CASE DeferredReturns
  BY <1>8 DEF DeferredReturns, Unwinding, MainMove, Pop, mainVars, cleanVars, groupVars
<1>9. CASE SyncSendStop
  BY <1>9 DEF SyncSendStop, MainMove, mainVars, cleanVars, groupVars
<1>10. CASE CleanerStop
  <2>1. mode # "crashed" /\ UNCHANGED <<mode, at, options, loop, round, jobs, late>>
    BY <1>10 DEF CleanerStop, Stopping, StopMoves, mainVars, cleanVars, groupVars
  <2>2. /\ InGroup \in Nat
        /\ InGroup = 0 => jobs.counted = 0 /\ loop \notin {"cleaning", "select"}
    BY GroupCount
  <2>3. CASE /\ stop["cleaner"] = "called"
             /\ stop' = [stop EXCEPT !["cleaner"] = IF InGroup = 0 THEN "done" ELSE "waiting"]
    BY <2>1, <2>2, <2>3
  <2>4. CASE stop["cleaner"] = "releasing" /\ stop' = [stop EXCEPT !["cleaner"] = "done"]
    BY <2>1, <2>2, <2>4
  <2> QED
    BY <1>10, <2>3, <2>4 DEF CleanerStop, StopMoves
<1>11. CASE NetWatcherStop
  BY <1>11 DEF NetWatcherStop, Stopping, StopMoves, mainVars, cleanVars, groupVars
<1>12. CASE Overload
  BY <1>12 DEF Overload, Stopping, Ranges, mainVars, cleanVars, groupVars
<1>13. ASSUME NEW g \in Groups, GroupStop(g)
       PROVE  CleanInv'
  <2>1. UNCHANGED <<mode, at, options, loop, round, jobs, late>>
    BY <1>13 DEF GroupStop, Stopping, mainVars, cleanVars
  <2>2. stop'["cleaner"] = stop["cleaner"]
    BY <1>13 DEF GroupStop, StopMoves, Groups
  <2> QED
    BY <2>1, <2>2
<1>14. ASSUME NEW g \in Groups, GroupWaits(g)
       PROVE  CleanInv'
  BY <1>14 DEF GroupWaits, Stopping, mainVars, cleanVars, groupVars
<1>15. CASE LoopCounted
  BY <1>15 DEF LoopCounted, Cleaning, Adds, TooLate, mainVars, cleanVars, groupVars
<1>16. CASE Clean
  <2>1. /\ loop = "cleaning" /\ loop' = "select" /\ round' = round + 1
        /\ jobs' = [jobs EXCEPT !.spawned = @ + 2] /\ UNCHANGED <<stop, mode, late, at>>
    BY <1>16 DEF Clean, Cleaning
  <2>2. /\ jobs'.spawned = jobs.spawned + 2
        /\ jobs'.counted = jobs.counted /\ jobs'.late = jobs.late
    BY <2>1
  <2>3. jobs'.spawned + jobs'.counted + jobs'.late <= 2 * round'
    <3>1. jobs.spawned + jobs.counted + jobs.late <= 2 * round
      BY DEF CleanInv
    <3>2. jobs.spawned + 2 + jobs.counted + jobs.late <= 2 * (round + 1)
      BY <3>1, JobsCount, TwoMoreARound
    <3> QED
      BY <2>1, <2>2, <3>2
  <2>4. InGroup' = InGroup
    BY <2>1, <2>2
  <2> QED
    BY <2>1, <2>2, <2>3, <2>4
<1>17. CASE LoopEnds
  BY <1>17 DEF LoopEnds, Cleaning, Leaves, mainVars, cleanVars, groupVars
<1>18. CASE LoopTicks
  BY <1>18 DEF LoopTicks, Cleaning, mainVars, cleanVars, groupVars
<1>19. CASE JobCounted
  BY <1>19 DEF JobCounted, Cleaning, Adds, TooLate, mainVars, cleanVars, groupVars
<1>20. ASSUME NEW kind \in {"counted", "late"}, JobEnds(kind)
      PROVE  CleanInv'
  BY <1>20 DEF JobEnds, Cleaning, Leaves, mainVars, cleanVars, groupVars
<1>21. ASSUME NEW s \in Servers, HelperCounted(s)
       PROVE  CleanInv'
  BY <1>21 DEF HelperCounted, HelperMoves, Helping, mainVars, cleanVars
<1>22. ASSUME NEW s \in Servers, HelperDone(s)
       PROVE  CleanInv'
  BY <1>22 DEF HelperDone, HelperMoves, Helping, mainVars, cleanVars
<1>23. CASE CollectorSaves
  BY <1>23 DEF CollectorSaves, Saving, mainVars, cleanVars, groupVars
<1>24. CASE CollectorTicks
  BY <1>24 DEF CollectorTicks, Saving, mainVars, cleanVars, groupVars
<1>25. CASE CollectorEnds
  BY <1>25 DEF CollectorEnds, Saving, mainVars, cleanVars, groupVars
<1>26. ASSUME NEW c \in Conns, ConnAccepted(c)
      PROVE  CleanInv'
  BY <1>26 DEF ConnAccepted, ConnMove, Saving, mainVars, cleanVars, groupVars
<1>27. ASSUME NEW c \in Conns, ConnCounted(c)
      PROVE  CleanInv'
  BY <1>27 DEF ConnCounted, ConnMove, Saving, mainVars, cleanVars, groupVars
<1>28. ASSUME NEW c \in Conns, ConnSaves(c)
      PROVE  CleanInv'
  BY <1>28 DEF ConnSaves, ConnMove, Saving, mainVars, cleanVars, groupVars
<1>29. ASSUME NEW c \in Conns, ConnLeaves(c)
      PROVE  CleanInv'
  BY <1>29 DEF ConnLeaves, ConnMove, Saving, mainVars, cleanVars, groupVars
<1> QED
  BY <1>1, <1>2, <1>3, <1>4, <1>5, <1>6, <1>7, <1>8, <1>9, <1>10, <1>11, <1>12,
     <1>13, <1>14, <1>15, <1>16, <1>17, <1>18, <1>19, <1>20, <1>21, <1>22,
     <1>23, <1>24, <1>25, <1>26, <1>27, <1>28, <1>29
     DEF Next, MainEnds, Stops, Loop, Jobs, Collector, Conn

(* A step that concerns neither the groups' servers nor connections.       *)
Quiet ==
    /\ UNCHANGED <<options, group, helper>> /\ late \subseteq late'
    /\ \A g \in Groups : stop'[g] = stop[g] \/ (stop[g] = "idle" /\ stop'[g] = "called")
    /\ mode = "crashed" => mode' = "crashed"
    /\ at' <= 11 => at <= 11

(* Most steps are such.                                                    *)
LEMMA QuietSteps ==
    ASSUME Shapes, StageInv, StopInv, [Next]_vars
    PROVE  \/ Quiet /\ conn' = conn
           \/ Overload \/ (\E g \in Groups : GroupStop(g) \/ GroupWaits(g))
           \/ \E s \in Servers : HelperCounted(s) \/ HelperDone(s)
           \/ \E c \in Conns : ConnAccepted(c) \/ ConnCounted(c) \/ ConnSaves(c) \/ ConnLeaves(c)
<1>0. at \in 1 .. 12 /\ stop \in [Stopped -> {"idle", "called", "waiting", "releasing", "done"}]
  BY DEF Shapes, Stages
<1> USE DEF Quiet, Over
<1>1. CASE UNCHANGED vars
  BY <1>1 DEF vars, mainVars, groupVars
<1>2. CASE StageGoesWell
  BY <1>0, <1>2 DEF StageGoesWell, groupVars
<1>3. CASE StageFails \/ OnlyPrints
  BY <1>3 DEF StageFails, OnlyPrints, groupVars
<1>4. CASE Signal
  BY <1>0, <1>4 DEF Signal, StopInv, groupVars, Groups, Stopped
<1>5. CASE EarlyDone \/ DeferredReturns \/ SyncSendStop
  BY <1>5 DEF EarlyDone, DeferredReturns, SyncSendStop, Unwinding, MainMove, groupVars
<1>6. CASE DeferredStop
  <2>1. /\ UNCHANGED <<options, group, helper, late, mode, at, conn>>
        /\ stop[Top] = "idle" /\ stop' = [stop EXCEPT ![Top] = "called"]
    BY <1>6 DEF DeferredStop, Unwinding, MainMove, groupVars
  <2> HIDE DEF Top
  <2> QED
    BY <1>0, <2>1 DEF Groups, Stopped
<1>7. CASE CleanerStop \/ NetWatcherStop
  <2>1. UNCHANGED <<options, group, helper, late, mode, at, conn>>
    BY <1>7 DEF CleanerStop, NetWatcherStop, Stopping, mainVars, groupVars
  <2>2. \A g \in Groups : stop'[g] = stop[g]
    BY <1>0, <1>7 DEF CleanerStop, NetWatcherStop, StopMoves, Groups, Stopped
  <2> QED
    BY <2>1, <2>2
<1>8. CASE Loop \/ LoopTicks \/ Jobs
  <2>1. /\ UNCHANGED <<options, group, helper, at, conn>> /\ late \subseteq late'
        /\ mode # "crashed"
    BY <1>8 DEF Loop, Jobs, LoopCounted, Clean, LoopEnds, LoopTicks, JobCounted, JobEnds,
                Cleaning,
                Leaves, groupVars
  <2>2. stop' = stop \/ stop' = [stop EXCEPT !["cleaner"] =
                                    IF @ = "waiting" /\ InGroup = 1 THEN "releasing" ELSE @]
    BY <1>8 DEF Loop, Jobs, LoopCounted, Clean, LoopEnds, LoopTicks, JobCounted, JobEnds,
                Adds, Leaves
  <2>3. \A g \in Groups : stop'[g] = stop[g]
    BY <1>0, <2>2 DEF Groups, Stopped
  <2> QED
    BY <2>1, <2>3
<1>9. CASE Collector
  BY <1>9 DEF Collector, CollectorSaves, CollectorTicks, CollectorEnds, Saving, groupVars
<1> QED
  BY <1>1, <1>2, <1>3, <1>4, <1>5, <1>6, <1>7, <1>8, <1>9
     DEF Next, MainEnds, Stops, Conn

(* ... and they keep the invariant of the groups.                          *)
LEMMA QuietKept ==
    ASSUME GroupInv, Quiet, conn' = conn
    PROVE  GroupInv'
<1>1. \A g \in Groups : Of(g)' = Of(g) /\ Counted(g)' = Counted(g)
  BY DEF Quiet, Of, Counted
<1>2. \A g \in Groups : group'[g] = "releasing" =>
          (\E s \in Of(g)' : helper'[s] = "done") /\ (mode' # "crashed" => Counted(g)' = {})
  BY <1>1 DEF Quiet, GroupInv
<1>3. "ssh" \in Groups
  BY DEF Groups
<1> QED
  BY <1>2, <1>3 DEF Quiet, GroupInv, GroupOf

(* The servers of a group begin to be stopped.                             *)
LEMMA RangesInv ==
    ASSUME Shapes, GroupInv, NEW g \in Groups, Ranges(g),
           UNCHANGED <<options, mode, at, conn, late>>,
           \/ g = "tcp" /\ stop'["ssh"] = stop["ssh"]
           \/ g = "ssh" /\ stop'["ssh"] = "waiting"
    PROVE  GroupInv'
<1>1. /\ \A h \in Groups \ {g} : group'[h] = group[h]
      /\ group[g] = "running" /\ group'[g] = "stopping"
  BY DEF Ranges, Shapes
<1>2. /\ \A s \in Servers : helper'[s] = IF s \in Of(g) THEN "spawned" ELSE helper[s]
      /\ \A h \in Groups : Of(h)' = Of(h)
      /\ \A s \in Servers : GroupOf(s)' = GroupOf(s)
  BY DEF Ranges, Of, GroupOf
<1>3. \A s \in Servers : helper'[s] # "none" <=> s \in options' /\ group'[GroupOf(s)] # "running"
  BY <1>1, <1>2, OfGroup DEF GroupInv
<1>4. \A s \in Servers :
          group'[GroupOf(s)] = "stopped" /\ helper'[s] = "counted" => <<"helper", s>> \in late'
  BY <1>1, <1>2, OfGroup DEF GroupInv
<1>5. ASSUME NEW h \in Groups, group'[h] = "releasing"
      PROVE  (\E s \in Of(h)' : helper'[s] = "done") /\ (mode' # "crashed" => Counted(h)' = {})
  <2>1. h # g /\ group[h] = "releasing"
    BY <1>1, <1>5
  <2>2. \A s \in Of(h) : helper'[s] = helper[s]
    BY <1>2, <2>1, OfGroup
  <2> QED
    BY <1>2, <2>1, <2>2 DEF GroupInv, Counted
<1>6. "ssh" \in Groups /\ "tcp" # "ssh"
  BY DEF Groups
<1>7. /\ stop'["ssh"] \in {"idle", "called"} => group'["ssh"] = "running"
      /\ stop'["ssh"] = "done" => group'["ssh"] = "stopped"
  BY <1>1, <1>6 DEF GroupInv
<1>8. \A c \in Conns : helper'[ServerOf[c]] = "done" => helper[ServerOf[c]] = "done"
  BY <1>2, LifecycleAssumption DEF Servers
<1> QED
  BY <1>2, <1>3, <1>4, <1>5, <1>7, <1>8 DEF GroupInv

(* The groups, their servers and the connections.                          *)
LEMMA GroupKept ==
    ASSUME Shapes, StageInv, StopInv, GroupInv, [Next]_vars
    PROVE  GroupInv'
<1> USE DEF Over
<1>0. /\ \A s \in Servers, h \in Groups : GroupOf(s)' = GroupOf(s)
      /\ \A c \in Conns : ServerOf[c] \in SshServers /\ ServerOf[c] \in Servers
  BY LifecycleAssumption DEF GroupOf, Servers
<1>1. CASE Quiet /\ conn' = conn
  BY <1>1, QuietKept
<1>2. CASE Overload
  <2>1. "tcp" \in Groups /\ Ranges("tcp") /\ stop' = stop
    BY <1>2 DEF Overload, Groups
  <2>2. UNCHANGED <<options, mode, at, conn, late>>
    BY <1>2 DEF Overload, Stopping, mainVars
  <2> QED
    BY <2>1, <2>2, RangesInv
<1>3. ASSUME NEW g \in Groups, GroupStop(g)
      PROVE  GroupInv'
  <2>1. UNCHANGED <<options, mode, at, conn, late>> /\ (g = "tcp" \/ g = "ssh")
    BY <1>3 DEF GroupStop, Stopping, mainVars, Groups
  <2>2. \A h \in Stopped \ {g} : stop'[h] = stop[h]
    BY <1>3 DEF GroupStop, StopMoves, Shapes
  <2>3. CASE StopMoves(g, "called", "waiting") /\ Ranges(g)
    BY <2>1, <2>2, <2>3, RangesInv DEF StopMoves, Shapes, Stopped
  <2>4. CASE UNCHANGED groupVars
    <3>1. \A h \in Groups : Of(h)' = Of(h) /\ Counted(h)' = Counted(h)
      BY <2>1, <2>4 DEF Of, Counted, groupVars
    <3>2. stop'["ssh"] \in {"idle", "called"} => stop["ssh"] \in {"idle", "called"}
      BY <1>3, <2>2, <2>1 DEF GroupStop, StopMoves, Stopped, Shapes
    <3>3. stop'["ssh"] = "done" => group["ssh"] = "stopped"
      BY <1>3, <2>1, <2>2, <2>4 DEF GroupStop, StopMoves, Stopped, Shapes, GroupInv, Ranges,
                                    groupVars
    <3>4. \A h \in Groups : group'[h] = "releasing" =>
              (\E s \in Of(h)' : helper'[s] = "done") /\ (mode' # "crashed" => Counted(h)' = {})
      BY <2>1, <2>4, <3>1 DEF groupVars, GroupInv
    <3> QED
      BY <1>0, <2>1, <2>4, <3>2, <3>3, <3>4 DEF GroupInv, groupVars
  <2> QED
    BY <1>3, <2>3, <2>4 DEF GroupStop
<1>4. ASSUME NEW g \in Groups, GroupWaits(g)
      PROVE  GroupInv'
  <2>1. UNCHANGED <<options, mode, at, conn, late, stop, helper>> /\ mode # "crashed"
    BY <1>4 DEF GroupWaits, Stopping, mainVars
  <2>2. /\ \A h \in Groups \ {g} : group'[h] = group[h]
        /\ group[g] \in {"stopping", "releasing"} /\ group'[g] \in {"stopped", "waiting"}
        /\ group'[g] = "stopped" => Counted(g) = {}
    BY <1>4, <2>1 DEF GroupWaits, Shapes, GroupInv
  <2>3. \A h \in Groups : Of(h)' = Of(h) /\ Counted(h)' = Counted(h)
    BY <2>1 DEF Of, Counted
  <2>4. \A s \in Servers :
            group'[GroupOf(s)] = "stopped" /\ helper'[s] = "counted" => <<"helper", s>> \in late'
    <3> SUFFICES ASSUME NEW s \in Servers, GroupOf(s) = g, group'[g] = "stopped",
                        helper[s] = "counted"
                 PROVE  FALSE
      BY <2>1, <2>2, OfGroup DEF GroupInv
    <3>1. s \in options
      BY DEF GroupInv
    <3>2. s \in Counted(g)
      BY <3>1, OfGroup DEF Counted
    <3> QED
      BY <2>2, <3>2
  <2>5. \A h \in Groups : group'[h] = "releasing" =>
            (\E s \in Of(h)' : helper'[s] = "done") /\ (mode' # "crashed" => Counted(h)' = {})
    BY <2>1, <2>2, <2>3 DEF GroupInv
  <2>6. \A s \in Servers : group'[GroupOf(s)] # "running" <=> group[GroupOf(s)] # "running"
    BY <2>2, OfGroup
  <2>7. "ssh" \in Groups
    BY DEF Groups
  <2>8. /\ stop'["ssh"] \in {"idle", "called"} => group'["ssh"] = "running"
        /\ stop'["ssh"] = "done" => group'["ssh"] = "stopped"
    BY <2>1, <2>2, <2>7 DEF GroupInv
  <2> QED
    BY <1>0, <2>1, <2>4, <2>5, <2>6, <2>8 DEF GroupInv
<1>5. ASSUME NEW s \in Servers, HelperCounted(s)
      PROVE  GroupInv'
  <2>1. /\ UNCHANGED <<options, at, conn, stop, group>> /\ mode # "crashed"
        /\ mode' = IF group[GroupOf(s)] = "releasing" THEN "crashed" ELSE mode
        /\ late' = IF group[GroupOf(s)] = "stopped" THEN late \cup {<<"helper", s>>} ELSE late
        /\ helper[s] = "spawned" /\ helper' = [helper EXCEPT ![s] = "counted"]
    BY <1>5 DEF HelperCounted, HelperMoves, Helping
  <2>2. helper'[s] = "counted" /\ \A t \in Servers \ {s} : helper'[t] = helper[t]
    BY <2>1 DEF Shapes
  <2>3. ASSUME NEW h \in Groups, group'[h] = "releasing"
        PROVE  (\E t \in Of(h)' : helper'[t] = "done") /\ (mode' # "crashed" => Counted(h)' = {})
    <3>1. Of(h)' = Of(h) /\ Of(h) \subseteq Servers
      BY <2>1, OfGroup DEF Of
    <3>2. \E t \in Of(h) : helper'[t] = "done"
      BY <2>1, <2>2, <2>3, <3>1 DEF GroupInv
    <3>3. mode' # "crashed" => s \notin Of(h)
      BY <2>1, <2>3, OfGroup
    <3>4. mode' # "crashed" => Counted(h)' = {}
      BY <2>1, <2>2, <2>3, <3>1, <3>3 DEF Counted, GroupInv
    <3> QED
      BY <3>1, <3>2, <3>4
  <2>4. \A t \in Servers :
            group'[GroupOf(t)] = "stopped" /\ helper'[t] = "counted" => <<"helper", t>> \in late'
    BY <2>1, <2>2 DEF GroupInv
  <2>5. \A t \in Servers : helper'[t] # "none" <=> helper[t] # "none"
    BY <2>1, <2>2
  <2>6. \A c \in Conns : helper'[ServerOf[c]] = "done" => helper[ServerOf[c]] = "done"
    BY <1>0, <2>2
  <2> QED
    BY <1>0, <2>1, <2>3, <2>4, <2>5, <2>6 DEF GroupInv
<1>6. ASSUME NEW s \in Servers, HelperDone(s)
      PROVE  GroupInv'
  <2>1. /\ UNCHANGED <<options, at, conn, stop, mode, late>>
        /\ s \in SshServers \ Only6 => \A c \in Conns : ServerOf[c] = s => conn[c] # "counted"
        /\ helper[s] = "counted" /\ helper' = [helper EXCEPT ![s] = "done"]
        /\ group' = [group EXCEPT ![GroupOf(s)] =
                        IF @ = "waiting" /\ Counted(GroupOf(s)) = {s} THEN "releasing" ELSE @]
    BY <1>6 DEF HelperDone, HelperMoves, Helping
  <2>2. helper'[s] = "done" /\ \A t \in Servers \ {s} : helper'[t] = helper[t]
    BY <2>1 DEF Shapes
  <2>3. /\ \A h \in Groups : group'[h] = group[h] \/ (/\ h = GroupOf(s) /\ group[h] = "waiting"
                                                     /\ group'[h] = "releasing"
                                                     /\ Counted(h) = {s})
    BY <2>1, OfGroup DEF Shapes
  <2>4. \A h \in Groups : /\ Of(h)' = Of(h) /\ Of(h) \subseteq Servers
                          /\ Counted(h)' = Counted(h) \ {s}
    BY <2>1, <2>2, OfGroup DEF Of, Counted
  <2>5. ASSUME NEW h \in Groups, group'[h] = "releasing"
        PROVE  (\E t \in Of(h)' : helper'[t] = "done") /\ (mode' # "crashed" => Counted(h)' = {})
    <3>1. CASE group[h] = "releasing"
      BY <2>1, <2>2, <2>4, <3>1 DEF GroupInv
    <3>2. CASE group[h] # "releasing"
      <4>1. h = GroupOf(s) /\ Counted(h) = {s}
        BY <2>3, <2>5, <3>2
      <4>2. s \in Of(h)
        BY <4>1 DEF Counted
      <4> QED
        BY <2>2, <2>4, <4>1, <4>2
    <3> QED
      BY <3>1, <3>2
  <2>6. \A t \in Servers : /\ helper'[t] # "none" <=> helper[t] # "none"
                           /\ helper'[t] = "counted" => helper[t] = "counted"
    BY <2>1, <2>2
  <2>7. \A h \in Groups : /\ group'[h] # "running" <=> group[h] # "running"
                          /\ group'[h] = "stopped" <=> group[h] = "stopped"
    BY <2>3
  <2>8. \A c \in Conns : helper'[ServerOf[c]] = "done" /\ conn'[c] = "counted" =>
            <<"conn", c>> \in late' \/ ServerOf[c] \in Only6
    BY <1>0, <2>1, <2>2 DEF GroupInv
  <2>9. "ssh" \in Groups
    BY DEF Groups
  <2> QED
    BY <1>0, <2>1, <2>5, <2>6, <2>7, <2>8, <2>9, OfGroup DEF GroupInv
<1>7. ASSUME NEW c \in Conns, ConnAccepted(c) \/ ConnCounted(c) \/ ConnSaves(c) \/ ConnLeaves(c)
      PROVE  GroupInv'
  <2>1. UNCHANGED <<options, group, helper, stop, mode, at>> /\ late \subseteq late'
    BY <1>7 DEF ConnAccepted, ConnCounted, ConnSaves, ConnLeaves, ConnMove, Saving, groupVars
  <2>2. \A h \in Groups : Of(h)' = Of(h) /\ Counted(h)' = Counted(h)
    BY <2>1 DEF Of, Counted
  <2>3. \A h \in Groups : group'[h] = "releasing" =>
            (\E s \in Of(h)' : helper'[s] = "done") /\ (mode' # "crashed" => Counted(h)' = {})
    BY <2>1, <2>2 DEF GroupInv
  <2>4. \A d \in Conns \ {c} : conn'[d] = conn[d]
    BY <1>7 DEF ConnAccepted, ConnCounted, ConnSaves, ConnLeaves, ConnMove, Shapes
  <2>5. /\ conn[c] # "none" \/ (ServerOf[c] \in options /\ "ssh" \in Started)
        /\ helper[ServerOf[c]] = "done" /\ conn'[c] = "counted" => <<"conn", c>> \in late'
    BY <1>7 DEF ConnAccepted, ConnCounted, ConnSaves, ConnLeaves, ConnMove, Shapes
  <2>6. "ssh" \in Started => at > 11
    BY StartedPast, Places DEF Shapes, Stages
  <2>7. at \in Nat
    BY DEF Shapes
  <2> QED
    BY <1>0, <2>1, <2>3, <2>4, <2>5, <2>6, <2>7 DEF GroupInv
<1> QED
  BY <1>1, <1>2, <1>3, <1>4, <1>5, <1>6, <1>7, QuietSteps

(* No step disturbs the order of the deferred calls.                       *)
LEMMA DeferKept ==
    ASSUME Shapes, StageInv, StopInv, DeferInv, [Next]_vars
    PROVE  DeferInv'
<1>1. CASE StageGoesWell
  BY <1>1, DeferKept1
<1>2. CASE DeferredReturns
  BY <1>2, DeferKept2
<1>3. CASE StageFails
  <2>1. at \in 1 .. 11
    BY <1>3 DEF StageFails, StageInv, Shapes, Stages
  <2>2. Stage \in Fatal => at <= 3
    BY <2>1, StageAt, Places DEF Fatal
  <2>3. mode' = "exited" => deferred = <<>>
    BY <1>3, <2>2 DEF StageFails, DeferInv
  <2> QED
    BY <1>3, <2>3, DeferKept3 DEF StageFails
<1>4. CASE Signal
  <2>1. \A r \in Stopped : stop[r] = "done" => stop'[r] = "done"
    BY <1>4 DEF Signal, StopInv
  <2>2. UNCHANGED <<at, deferred, db>> /\ mode' # "exited"
    BY <1>4 DEF Signal, Over
  <2> QED
    BY <2>1, <2>2, DeferKept3
<1>5. CASE OnlyPrints \/ EarlyDone
  BY <1>5, DeferKept3 DEF OnlyPrints, EarlyDone, MainMove
<1>6. CASE DeferredStop
  <2>1. \A r \in Stopped : stop[r] = "done" => stop'[r] = "done"
    BY <1>6 DEF DeferredStop, Shapes
  <2>2. UNCHANGED <<at, deferred, db>> /\ mode' # "exited"
    BY <1>6 DEF DeferredStop, Unwinding, MainMove
  <2> QED
    BY <2>1, <2>2, DeferKept3
<1>7. CASE SyncSendStop
  BY <1>7, DeferKept3 DEF SyncSendStop, MainMove
<1>8. CASE UNCHANGED vars
  BY <1>8, DeferKept3 DEF vars, mainVars, DeferInv
<1>9. CASE CleanerStop \/ NetWatcherStop \/ Overload \/ \E g \in Groups : Stops(g)
  <2>1. UNCHANGED <<at, deferred, db>> /\ mode' # "exited"
    BY <1>9 DEF Stops, CleanerStop, NetWatcherStop, Overload, GroupStop, GroupWaits, Stopping,
                mainVars, Over
  <2>2. \A r \in Stopped : stop[r] = "done" => stop'[r] = "done"
    <3>1. ASSUME NEW q \in Stopped, NEW from \in {"called", "waiting", "releasing"}, NEW to,
                 StopMoves(q, from, to)
          PROVE  \A r \in Stopped : stop[r] = "done" => stop'[r] = "done"
      BY <3>1 DEF StopMoves, Shapes
    <3>2. CASE stop' = stop
      BY <3>2
    <3> QED
      BY <1>9, <3>1, <3>2 DEF Stops, CleanerStop, NetWatcherStop, Overload, GroupStop,
                              GroupWaits,
                       Stopped, Groups
  <2> QED
    BY <2>1, <2>2, DeferKept3
<1>10. CASE Loop \/ LoopTicks \/ Jobs
  <2>1. UNCHANGED <<at, deferred, db>> /\ mode' # "exited"
    BY <1>10 DEF Loop, Jobs, LoopCounted, Clean, LoopEnds, LoopTicks, JobCounted, JobEnds,
                 Cleaning, Adds, Leaves, Over
  <2>2. stop' = stop \/ stop' = [stop EXCEPT !["cleaner"] =
                                    IF @ = "waiting" /\ InGroup = 1 THEN "releasing" ELSE @]
    BY <1>10 DEF Loop, Jobs, LoopCounted, Clean, LoopEnds, LoopTicks, JobCounted, JobEnds,
                 Adds, Leaves
  <2>3. \A r \in Stopped : stop[r] = "done" => stop'[r] = "done"
    BY <2>2 DEF Shapes
  <2> QED
    BY <2>1, <2>3, DeferKept3
<1>11. CASE \/ Collector \/ \E s \in Servers : HelperCounted(s) \/ HelperDone(s)
            \/ \E c \in Conns : ConnAccepted(c) \/ Conn(c) \/ ConnLeaves(c)
  <2>1. UNCHANGED <<at, deferred, db, stop>> /\ mode' # "exited"
    BY <1>11 DEF Collector, Conn, HelperCounted, HelperDone, HelperMoves, Helping,
                 CollectorSaves,
                 CollectorTicks, CollectorEnds, ConnAccepted, ConnCounted, ConnLeaves,
                 ConnSaves,
                 ConnMove, Saving, Over
  <2> QED
    BY <2>1, DeferKept3
<1> QED
  BY <1>1, <1>2, <1>3, <1>4, <1>5, <1>6, <1>7, <1>8, <1>9, <1>10, <1>11 DEF Next, MainEnds

-----------------------------------------------------------------------------
(*                             The theorems                                *)

(* The invariant holds before MainV1's first start.                        *)
LEMMA InitLifeInv == Init => LifeInv
<1> SUFFICES ASSUME Init PROVE LifeInv
  OBVIOUS
<1> USE DEF Init
<1>1. Shapes
  <2>1. jobs \in [{"spawned", "counted", "late"} -> 0 .. 2 * MaxRounds[options]]
    <3>1. 0 \in 0 .. 2 * MaxRounds[options]
      BY LifecycleAssumption
    <3> QED
      BY <3>1
  <2>2. round \in 0 .. MaxRounds[options] /\ at \in 1 .. Len(Stages) + 1
    BY LifecycleAssumption DEF Stages
  <2>3. deferred \in Seq(Deferring)
    OBVIOUS
  <2> QED
    BY <2>1, <2>2, <2>3 DEF Shapes
<1>2. StageInv /\ CollectorInv /\ CrashInv
  BY DEF StageInv, CollectorInv, CrashInv
<1>6. CleanInv
  <2>1. MaxRounds[options] \in Nat \ {0}
    BY LifecycleAssumption
  <2> QED
    BY <2>1 DEF CleanInv, Stopped
<1>7. GroupInv
  BY LifecycleAssumption, OfGroup DEF GroupInv, Stopped, Groups, Servers
<1>3. StopInv
  BY DEF StopInv
<1>4. \A s \in Stopped \cup {"sqlite"} : ~(Pos[s] < at)
  BY Places DEF Stopped
<1>5. DeferInv
  BY <1>4 DEF DeferInv
<1> QED
  BY <1>1, <1>2, <1>3, <1>5, <1>6, <1>7 DEF LifeInv

(* The invariant is inductive.                                             *)
THEOREM Inductive == Spec => []LifeInv
<1>1. LifeInv /\ [Next]_vars => LifeInv'
  BY ShapesKept, StageKept, StopKept, DeferKept, CleanKept, GroupKept, CollectorKept, CrashKept
     DEF LifeInv
<1> QED
  BY <1>1, InitLifeInv, PTL DEF Spec

(* An interval from 1 to n has n members.                                  *)
LEMMA IntervalSize == ASSUME NEW n \in Nat PROVE Cardinality(1 .. n) = n
<1>1. Cardinality(1 .. n) = IF 1 > n THEN 0 ELSE n - 1 + 1
  BY FS_Interval
<1> QED
  BY <1>1

(* The variables keep their types, and no end is deferred twice: the       *)
(* deferred calls are in strict order.                                     *)
THEOREM TypeCorrect == Spec => []TypeOK
<1>1. LifeInv => TypeOK
  <2> SUFFICES ASSUME LifeInv PROVE Len(deferred) <= Cardinality(Deferring)
    BY DEF LifeInv, TypeOK
  <2>1. deferred \in Seq(Deferring)
    BY DEF LifeInv, Shapes
  <2>2. IsFiniteSet(Deferring)
    <3>1. \A x, y : IsFiniteSet({x} \cup {y})
      BY FS_Singleton, FS_AddElement
    <3>2. \A x, y, z : IsFiniteSet(({x} \cup {y}) \cup {z})
      BY <3>1, FS_AddElement
    <3>3. \A w, x, y, z : IsFiniteSet((({x} \cup {y}) \cup {z}) \cup {w})
      BY <3>2, FS_AddElement
    <3>4. Deferring = ((({"tcp"} \cup {"ssh"}) \cup {"cleaner"}) \cup {"netwatcher"})
                          \cup (({"reloader"} \cup {"sqlite"}) \cup {"redis"})
      BY DEF Deferring, Stopped
    <3>5. \A S, T : IsFiniteSet(S) /\ IsFiniteSet(T) => IsFiniteSet(S \cup T)
      BY FS_Union
    <3> QED
      BY <3>2, <3>3, <3>4, <3>5, Zenon
  <2>3. \A i, j \in 1 .. Len(deferred) : deferred[i] = deferred[j] => i = j
    <3> SUFFICES ASSUME NEW i \in 1 .. Len(deferred), NEW j \in 1 .. Len(deferred),
                        deferred[i] = deferred[j], i < j
                 PROVE  FALSE
      BY <2>1
    <3>1. Pos[deferred[i]] < Pos[deferred[j]]
      BY <2>1 DEF LifeInv, DeferInv
    <3>2. Pos[deferred[i]] \in Nat
      BY <2>1, Places DEF Deferring, Stopped
    <3> QED
      BY <3>1, <3>2
  <2>4. deferred \in Injection(1 .. Len(deferred), Deferring)
    BY <2>1, <2>3 DEF Injection, IsInjective
  <2>5. Cardinality(1 .. Len(deferred)) <= Cardinality(Deferring)
    BY <2>2, <2>4, FS_Injection
  <2>6. Len(deferred) \in Nat
    BY <2>1
  <2>7. Cardinality(1 .. Len(deferred)) = Len(deferred)
    BY <2>6, IntervalSize
  <2> QED
    BY <2>5, <2>7
<1> QED
  BY <1>1, Inductive, PTL

(* Whoever a WaitGroup still counts when the database is closed joined it  *)
(* late (CountedInTimeMeansDone).                                          *)
THEOREM OnlyTheLate == Spec => []CountedInTimeMeansDone
<1>1. LifeInv => CountedInTimeMeansDone
  <2> SUFFICES ASSUME LifeInv, db = "closed" PROVE CountedInTimeMeansDone
    BY DEF CountedInTimeMeansDone
  <2>1. at \in 7 .. 12
    BY DEF LifeInv, StageInv, Shapes, Stages
  <2>2. (at > 7 => stop["cleaner"] = "done") /\ (at > 11 => stop["ssh"] = "done")
    BY <2>1, Places DEF LifeInv, DeferInv, Stopped, Groups
  <2>3. jobs.counted = 0 /\ (loop \in {"cleaning", "select"} => <<"loop">> \in late)
    BY <2>1, <2>2 DEF LifeInv, CleanInv
  <2>4. \A s \in SshServers : s \in Servers /\ GroupOf(s) = "ssh"
    BY DEF Servers, GroupOf
  <2>5. CASE at <= 11
    <3>1. \A c \in Conns : conn[c] # "counted"
      BY <2>5 DEF LifeInv, GroupInv
    <3>2. stop["ssh"] = "idle"
      BY <2>1, <2>5, Places DEF LifeInv, StopInv, Stopped, Groups
    <3>3. \A s \in SshServers : helper[s] = "none"
      BY <2>4, <3>2 DEF LifeInv, GroupInv
    <3> QED
      BY <2>3, <3>1, <3>3 DEF CountedInTimeMeansDone
  <2>6. CASE at = 12
    <3>1. group["ssh"] = "stopped"
      BY <2>2, <2>6 DEF LifeInv, GroupInv
    <3>2. \A s \in SshServers : helper[s] = "counted" => <<"helper", s>> \in late
      BY <2>4, <3>1 DEF LifeInv, GroupInv
    <3>3. ASSUME NEW c \in Conns, conn[c] = "counted"
          PROVE  \/ <<"conn", c>> \in late \/ <<"helper", ServerOf[c]>> \in late
                 \/ helper[ServerOf[c]] = "spawned" \/ ServerOf[c] \in Only6
      <4>1. ServerOf[c] \in SshServers /\ ServerOf[c] \in options
        BY <3>3, LifecycleAssumption DEF LifeInv, GroupInv
      <4>2. helper[ServerOf[c]] # "none"
        BY <2>4, <3>1, <4>1 DEF LifeInv, GroupInv
      <4>3. helper[ServerOf[c]] \in {"none", "spawned", "counted", "done"}
        BY <2>4, <4>1 DEF LifeInv, Shapes
      <4> QED
        BY <3>2, <3>3, <4>1, <4>2, <4>3 DEF LifeInv, GroupInv
    <3> QED
      BY <2>3, <3>2, <3>3 DEF CountedInTimeMeansDone
  <2> QED
    BY <2>1, <2>5, <2>6
<1> QED
  BY <1>1, Inductive, PTL

(* A process that exits has ended what it started (EveryExitReleases).     *)
THEOREM ExitReleases == Spec => []EveryExitReleases
<1>1. LifeInv => EveryExitReleases
  <2> SUFFICES ASSUME LifeInv, mode = "exited" PROVE EveryExitReleases
    BY DEF EveryExitReleases
  <2>1. deferred = <<>> /\ at \in 1 .. 12 /\ db \in {"nil", "open", "closed"}
    BY DEF LifeInv, DeferInv, Shapes, Stages
  <2>2. \A s \in Stopped \cup {"sqlite"} : Pos[s] < at => Ended(s)
    BY <2>1 DEF LifeInv, DeferInv
  <2>3. db # "open"
    BY <2>1, <2>2, Places DEF Ended, LifeInv, StageInv
  <2>4. \A r \in Stopped \cap Started : stop[r] = "done"
    BY <2>1, <2>2, StartedPast, Places DEF Ended, Stopped
  <2>5. exitcode = 0 <=> signal = "taken"
    BY DEF LifeInv, StageInv
  <2> QED
    BY <2>1, <2>3, <2>4, <2>5 DEF EveryExitReleases
<1> QED
  BY <1>1, Inductive, PTL

(* There is no fifth way to crash (CrashesKnown).                          *)
THEOREM CrashesExplained == Spec => []CrashesKnown
<1>1. LifeInv => CrashesKnown
  <2>1. at = 1 => Started = {}
    BY DEF Started
  <2> QED
    BY <2>1 DEF LifeInv, CrashInv, CrashesKnown
<1> QED
  BY <1>1, Inductive, PTL

-----------------------------------------------------------------------------
(*                        Nobody waits in vain                             *)

(* Whoever waits for a WaitGroup waits for somebody it still counts: the   *)
(* last one to leave the cleaner's, or a group's, releases it before it    *)
(* can be missed, the Stop of a group returns only from a group that is    *)
(* being stopped, and MainV1 waits for no Stop that nobody has called.     *)
(* This is the safety half of EndsUnlessHeld.                              *)
GroupsWaitForSomebody ==
    \A g \in Groups : /\ group[g] = "waiting" => Counted(g) # {}
                      /\ stop[g] = "waiting" => group[g] # "running"

MainWaitsForSomebody ==
    /\ stop["cleaner"] = "waiting" => loop \in {"cleaning", "select"} \/ jobs.counted > 0
    /\ \A r \in Stopped \ {"cleaner"} : stop[r] # "releasing"
    /\ mode = "stopping" => \A r \in Stopped : stop[r] # "idle"

StopsWaitForSomebody == GroupsWaitForSomebody /\ MainWaitsForSomebody

(* The loop ends alone or leaves a job behind,                             *)
LEMMA LoopLeaves ==
    ASSUME Shapes, CleanInv, LoopEnds, stop'["cleaner"] = "waiting"
    PROVE  jobs'.counted > 0
<1>1. stop["cleaner"] = "waiting" /\ InGroup # 1
  BY DEF LoopEnds, Leaves, Shapes, Stopped
<1>2. loop = "select" /\ jobs' = jobs
  BY DEF LoopEnds
<1>3. jobs.late = 0 /\ jobs.counted \in Nat
  BY <1>1, JobsCount DEF CleanInv
<1>4. InGroup = jobs.counted + 1
  BY <1>2, <1>3 DEF InGroup
<1> QED
  BY <1>1, <1>2, <1>3, <1>4

(* ... and so does a job.                                                  *)
LEMMA JobLeaves ==
    ASSUME Shapes, CleanInv, NEW kind \in {"counted", "late"}, JobEnds(kind),
           stop'["cleaner"] = "waiting", loop \notin {"cleaning", "select"}
    PROVE  jobs'.counted > 0
<1>1. stop["cleaner"] = "waiting" /\ InGroup # 1
  BY DEF JobEnds, Leaves, Shapes, Stopped
<1>2. jobs.late = 0 /\ jobs.counted \in Nat
  BY <1>1, JobsCount DEF CleanInv
<1>3. kind = "counted"
  BY <1>2 DEF JobEnds
<1>4. jobs.counted > 0 /\ jobs'.counted = jobs.counted - 1
  BY <1>3 DEF JobEnds, Shapes
<1>5. InGroup = jobs.counted
  BY <1>2 DEF InGroup
<1> QED
  BY <1>1, <1>2, <1>4, <1>5

(* A group that begins to be stopped disturbs nobody who waits, ...        *)
LEMMA RangesKept ==
    ASSUME Shapes, NEW g \in Groups, Ranges(g), options' = options, GroupsWaitForSomebody,
           \A h \in Groups \ {g} : stop'[h] = stop[h]
    PROVE  GroupsWaitForSomebody'
<1>1. /\ \A h \in Groups \ {g} : group'[h] = group[h]
      /\ group'[g] = "stopping"
  BY DEF Ranges, Shapes
<1>2. \A h \in Groups \ {g} : Counted(h)' = Counted(h)
  <2> TAKE h \in Groups \ {g}
  <2>1. Of(h)' = Of(h) /\ Of(h) \cap Of(g) = {} /\ Of(h) \subseteq Servers
    BY OfGroup DEF Of
  <2>2. \A s \in Of(h) : helper'[s] = helper[s]
    BY <2>1 DEF Ranges
  <2> QED
    BY <2>1, <2>2 DEF Counted
<1> QED
  BY <1>1, <1>2 DEF GroupsWaitForSomebody

(* ... and the other steps of a group and of its servers wake who waits.   *)
LEMMA GroupsWaitKept ==
    ASSUME LifeInv, GroupsWaitForSomebody, [Next]_vars
    PROVE  GroupsWaitForSomebody'
<1> USE DEF LifeInv
<1>1. CASE Quiet
  <2>1. \A g \in Groups : Counted(g)' = Counted(g)
    BY <1>1 DEF Quiet, Counted, Of
  <2> QED
    BY <1>1, <2>1 DEF Quiet, GroupsWaitForSomebody
<1>2. CASE Overload
  <2>1. "tcp" \in Groups /\ Ranges("tcp") /\ stop' = stop /\ options' = options
    BY <1>2 DEF Overload, Stopping, mainVars, Groups
  <2> QED
    BY <2>1, RangesKept
<1>3. ASSUME NEW g \in Groups, GroupStop(g)
      PROVE  GroupsWaitForSomebody'
  <2>1. options' = options
    BY <1>3 DEF GroupStop, Stopping, mainVars
  <2>2. \A h \in Groups \ {g} : stop'[h] = stop[h]
    BY <1>3 DEF GroupStop, StopMoves, Shapes, Groups, Stopped
  <2>3. CASE Ranges(g)
    BY <2>1, <2>2, <2>3, RangesKept
  <2>4. CASE UNCHANGED groupVars /\ stop'[g] = "done"
    <3>1. \A h \in Groups : Counted(h)' = Counted(h)
      BY <2>1, <2>4 DEF Counted, Of, groupVars
    <3> QED
      BY <2>2, <2>4, <3>1 DEF GroupsWaitForSomebody, groupVars
  <2> QED
    BY <1>3, <2>3, <2>4 DEF GroupStop, StopMoves, Shapes, Groups, Stopped
<1>4. ASSUME NEW g \in Groups, GroupWaits(g)
      PROVE  GroupsWaitForSomebody'
  <2>1. UNCHANGED <<options, stop, helper>>
    BY <1>4 DEF GroupWaits, Stopping, mainVars
  <2>2. \A h \in Groups : Counted(h)' = Counted(h)
    BY <2>1 DEF Counted, Of
  <2>3. /\ \A h \in Groups \ {g} : group'[h] = group[h]
        /\ group'[g] # "running" /\ (group'[g] = "waiting" => Counted(g) # {})
    BY <1>4 DEF GroupWaits, Shapes
  <2> QED
    BY <2>1, <2>2, <2>3 DEF GroupsWaitForSomebody
<1>5. ASSUME NEW s \in Servers, HelperCounted(s)
      PROVE  GroupsWaitForSomebody'
  <2>1. UNCHANGED <<options, stop, group>> /\ helper' = [helper EXCEPT ![s] = "counted"]
    BY <1>5 DEF HelperCounted, HelperMoves, Helping
  <2>2. \A h \in Groups : Counted(h) \subseteq Counted(h)'
    BY <2>1, OfGroup DEF Counted, Of, Shapes
  <2> QED
    BY <2>1, <2>2 DEF GroupsWaitForSomebody
<1>6. ASSUME NEW s \in Servers, HelperDone(s)
      PROVE  GroupsWaitForSomebody'
  <2>1. /\ UNCHANGED <<options, stop>> /\ helper' = [helper EXCEPT ![s] = "done"]
        /\ group' = [group EXCEPT ![GroupOf(s)] =
                        IF @ = "waiting" /\ Counted(GroupOf(s)) = {s} THEN "releasing" ELSE @]
    BY <1>6 DEF HelperDone, HelperMoves, Helping
  <2>2. \A h \in Groups : Counted(h)' = Counted(h) \ {s}
    BY <2>1, OfGroup DEF Counted, Of, Shapes
  <2>3. \A h \in Groups \ {GroupOf(s)} : s \notin Counted(h)
    BY OfGroup DEF Counted
  <2>4. /\ \A h \in Groups : group'[h] \in {group[h], "releasing"}
        /\ group'[GroupOf(s)] = "waiting" => Counted(GroupOf(s)) # {s}
    BY <2>1, OfGroup DEF Shapes
  <2> QED
    BY <2>1, <2>2, <2>3, <2>4 DEF GroupsWaitForSomebody
<1>7. ASSUME NEW c \in Conns, ConnAccepted(c) \/ ConnCounted(c) \/ ConnSaves(c) \/ ConnLeaves(c)
      PROVE  GroupsWaitForSomebody'
  <2>1. UNCHANGED <<options, group, helper, stop>>
    BY <1>7 DEF ConnAccepted, ConnCounted, ConnSaves, ConnLeaves, ConnMove, Saving, groupVars
  <2>2. \A h \in Groups : Counted(h)' = Counted(h)
    BY <2>1 DEF Counted, Of
  <2> QED
    BY <2>1, <2>2 DEF GroupsWaitForSomebody
<1> QED
  BY <1>1, <1>2, <1>3, <1>4, <1>5, <1>6, <1>7, QuietSteps

(* MainV1 waits for no Stop that cannot return.                            *)
LEMMA MainWaitsKept ==
    ASSUME LifeInv, MainWaitsForSomebody, [Next]_vars
    PROVE  MainWaitsForSomebody'
<1> USE DEF LifeInv, MainWaitsForSomebody
<1>0. stop \in [Stopped -> {"idle", "called", "waiting", "releasing", "done"}]
  BY DEF Shapes
<1> USE DEF Stopped
<1>1. CASE UNCHANGED vars
  BY <1>1 DEF vars, mainVars, cleanVars, groupVars
<1>2. CASE StageGoesWell
  <2>1. mode = "starting" /\ mode' \in {"starting", "serving"} /\ UNCHANGED <<stop, jobs>>
    BY <1>2 DEF StageGoesWell
  <2>2. stop["cleaner"] = "idle"
    BY <2>1 DEF StopInv
  <2> QED
    BY <2>1, <2>2
<1>3. CASE StageFails
  BY <1>0, <1>3 DEF StageFails, mainVars, cleanVars, groupVars
<1>4. CASE OnlyPrints
  BY <1>0, <1>4 DEF OnlyPrints, mainVars, cleanVars, groupVars
<1>5. CASE Signal
  <2>1. CASE mode = "serving"
    <3>1. \A r \in Stopped : stop'[r] = "called"
      BY <1>5, <2>1 DEF Signal
    <3> QED
      BY <3>1
  <2>2. CASE mode # "serving"
    BY <1>5, <2>2 DEF Signal, cleanVars
  <2> QED
    BY <2>1, <2>2
<1>6. CASE EarlyDone
  BY <1>0, <1>6 DEF EarlyDone, MainMove, mainVars, cleanVars, groupVars
<1>7. CASE DeferredStop
  <2>1. stop' = [stop EXCEPT ![Top] = "called"] /\ mode' = "unwinding"
        /\ UNCHANGED <<loop, jobs>>
    BY <1>7 DEF DeferredStop, Unwinding, MainMove, cleanVars
  <2> HIDE DEF Top
  <2> QED
    BY <1>0, <2>1
<1>8. CASE DeferredReturns
  BY <1>0, <1>8 DEF DeferredReturns, Unwinding, MainMove, Pop, mainVars, cleanVars, groupVars
<1>9. CASE SyncSendStop
  BY <1>0, <1>9 DEF SyncSendStop, MainMove, mainVars, cleanVars, groupVars
<1>10. CASE CleanerStop
  <2>1. UNCHANGED <<mode, loop, round, jobs>>
    BY <1>10 DEF CleanerStop, Stopping, StopMoves, mainVars, cleanVars, groupVars
  <2>2. InGroup # 0 /\ jobs.late = 0 => loop \in {"cleaning", "select"} \/ jobs.counted > 0
    <3>1. jobs.counted \in Nat
      BY JobsCount
    <3> QED
      BY <3>1 DEF InGroup
  <2>3. CASE /\ stop["cleaner"] = "called"
             /\ stop' = [stop EXCEPT !["cleaner"] = IF InGroup = 0 THEN "done" ELSE "waiting"]
    <3>1. jobs.late = 0
      BY <2>3 DEF CleanInv
    <3> HIDE DEF InGroup
    <3> QED
      BY <1>0, <2>1, <2>2, <2>3, <3>1
  <2>4. CASE stop["cleaner"] = "releasing" /\ stop' = [stop EXCEPT !["cleaner"] = "done"]
    BY <1>0, <2>1, <2>4
  <2> QED
    BY <1>10, <2>3, <2>4 DEF CleanerStop, StopMoves
<1>11. CASE NetWatcherStop
  BY <1>0, <1>11 DEF NetWatcherStop, Stopping, StopMoves, mainVars, cleanVars, groupVars
<1>12. CASE Overload
  <2>1. UNCHANGED <<mode, loop, jobs, stop>>
    BY <1>12 DEF Overload, Stopping, mainVars, cleanVars
  <2> QED
    BY <2>1
<1>13. ASSUME NEW g \in Groups, GroupStop(g)
       PROVE  MainWaitsForSomebody'
  <2>1. UNCHANGED <<mode, loop, jobs>>
    BY <1>13 DEF GroupStop, Stopping, mainVars, cleanVars
  <2>2. /\ stop'["cleaner"] = stop["cleaner"]
        /\ \A r \in Stopped : stop'[r] = stop[r] \/ stop'[r] \in {"waiting", "done"}
    BY <1>0, <1>13 DEF GroupStop, StopMoves, Groups
  <2> QED
    BY <2>1, <2>2
<1>14. ASSUME NEW g \in Groups, GroupWaits(g)
       PROVE  MainWaitsForSomebody'
  <2>1. UNCHANGED <<mode, loop, jobs, stop>>
    BY <1>14 DEF GroupWaits, Stopping, mainVars, cleanVars
  <2> QED
    BY <2>1
<1>15. CASE LoopCounted
  <2>1. stop' = stop /\ mode' \in {mode, "crashed"} /\ jobs' = jobs /\ loop' = "cleaning"
    BY <1>15 DEF LoopCounted, Cleaning, Adds
  <2> QED
    BY <2>1
<1>16. CASE Clean \/ LoopTicks
  <2>1. UNCHANGED <<stop, mode>> /\ loop' \in {"cleaning", "select"}
    BY <1>16 DEF Clean, LoopTicks, Cleaning
  <2> QED
    BY <2>1
<1>17. CASE LoopEnds
  <2>1. /\ mode' = mode
        /\ \A r \in Stopped \ {"cleaner"} : stop'[r] = stop[r]
        /\ stop'["cleaner"] = stop["cleaner"] \/ stop'["cleaner"] = "releasing"
    BY <1>0, <1>17 DEF LoopEnds, Leaves
  <2>2. stop'["cleaner"] = "waiting" => jobs'.counted > 0
    BY <1>17, LoopLeaves
  <2> QED
    BY <2>1, <2>2
<1>18. CASE JobCounted
  <2>1. stop' = stop /\ mode' \in {mode, "crashed"} /\ loop' = loop
    BY <1>18 DEF JobCounted, Cleaning, Adds
  <2>2. stop["cleaner"] = "waiting" => jobs'.counted = jobs.counted + 1
    BY <1>18 DEF JobCounted, TooLate, Shapes
  <2>3. jobs.counted \in Nat
    BY JobsCount
  <2> QED
    BY <2>1, <2>2, <2>3
<1>19. ASSUME NEW kind \in {"counted", "late"}, JobEnds(kind)
      PROVE  MainWaitsForSomebody'
  <2>1. /\ mode' = mode /\ loop' = loop
        /\ \A r \in Stopped \ {"cleaner"} : stop'[r] = stop[r]
        /\ stop'["cleaner"] = stop["cleaner"] \/ stop'["cleaner"] = "releasing"
    BY <1>0, <1>19 DEF JobEnds, Leaves
  <2>2. stop'["cleaner"] = "waiting" /\ loop \notin {"cleaning", "select"} => jobs'.counted > 0
    BY <1>19, JobLeaves
  <2> QED
    BY <2>1, <2>2
<1>20. ASSUME NEW s \in Servers, HelperCounted(s) \/ HelperDone(s)
       PROVE  MainWaitsForSomebody'
  <2>1. UNCHANGED <<loop, jobs, stop>> /\ mode' \in {mode, "crashed"}
    BY <1>20 DEF HelperCounted, HelperDone, HelperMoves, Helping, cleanVars
  <2> QED
    BY <2>1
<1>21. CASE CollectorSaves \/ CollectorTicks \/ CollectorEnds
  <2>1. mode' \in {mode, "crashed"} /\ UNCHANGED <<stop, loop, jobs>>
    BY <1>21 DEF CollectorSaves, CollectorTicks, CollectorEnds, Saving, cleanVars
  <2> QED
    BY <2>1
<1>22. ASSUME NEW c \in Conns, ConnAccepted(c) \/ ConnCounted(c) \/ ConnSaves(c) \/ ConnLeaves(c)
       PROVE  MainWaitsForSomebody'
  BY <1>22 DEF ConnAccepted, ConnCounted, ConnSaves, ConnLeaves, ConnMove, Saving, mainVars,
               cleanVars
<1> QED
  BY <1>1, <1>2, <1>3, <1>4, <1>5, <1>6, <1>7, <1>8, <1>9, <1>10, <1>11, <1>12,
     <1>13, <1>14, <1>15, <1>16, <1>17, <1>18, <1>19, <1>20, <1>21, <1>22
     DEF Next, MainEnds, Stops, Loop, Jobs, Collector, Conn

(* No wake-up of a WaitGroup is lost, and no Stop is waited for that       *)
(* nobody has called.                                                      *)
THEOREM NobodyWaitsInVain == Spec => []StopsWaitForSomebody
<1>1. Init => StopsWaitForSomebody
  BY DEF Init, StopsWaitForSomebody, GroupsWaitForSomebody, MainWaitsForSomebody, Stopped,
         Groups
<1>2. LifeInv /\ StopsWaitForSomebody /\ [Next]_vars => StopsWaitForSomebody'
  BY GroupsWaitKept, MainWaitsKept DEF StopsWaitForSomebody
<1> QED
  BY <1>1, <1>2, Inductive, PTL DEF Spec
=============================================================================
