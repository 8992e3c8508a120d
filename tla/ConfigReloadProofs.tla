-------------------------- MODULE ConfigReloadProofs --------------------------
(***************************************************************************)
(* Proofs about ConfigReload, for any finite set of goroutines that ask    *)
(* for the configuration and any number of reloads.                        *)
(***************************************************************************)
EXTENDS ConfigReload, FiniteSetTheorems, TLAPS

(* The two kinds of types, which call for different provers.               *)
Booleans ==
    /\ locked \in BOOLEAN /\ configReady \in BOOLEAN /\ yamlHasParser \in BOOLEAN
    /\ alive \in BOOLEAN /\ lost \in BOOLEAN
Shapes ==
    /\ asleep \subseteq Procs
    /\ yaml \in 0 .. MaxReloads /\ bak \in 0 .. MaxReloads /\ reloads \in 0 .. MaxReloads
    /\ checked \subseteq 0 .. MaxReloads
    /\ pc \in [Procs -> Asking \cup Holding \cup {"idle", "restore", "dying"}]
    /\ got \in [Readers -> 0 .. MaxReloads \cup {NoVersion}]
    /\ restoring \subseteq {"mutex", "flags", "yaml"}
    /\ torn \subseteq Readers

(* A reader is only ever in GetConfig, the reloader only ever in Reload.   *)
Places ==
    /\ \A p \in Readers : pc[p] \in {"idle", "lock", "flags", "yaml", "unlock", "panic"}
    /\ pc[Reloader] \notin {"lock", "flags", "yaml", "unlock", "panic"}

(* The mutex knows of no more sleepers than there are.                     *)
Known == waiters \in Nat /\ waiters <= Cardinality(asleep)

(* Until a restore replaces the mutex in use it works.                     *)
Mutex ==
    /\ \A p, q \in Procs : pc[p] \in Holding /\ pc[q] \in Holding => p = q
    /\ locked <=> \E p \in Procs : pc[p] \in Holding
Exclusive == alive /\ ~lost => Mutex /\ waiters = Cardinality(asleep)

(* What the reloader has to make good before it is idle again.             *)
ConfigGood == configReady /\ yamlHasParser /\ yaml \in checked
Reloading ==
    /\ pc[Reloader] \in {"idle", "asking", "isready", "lock2", "clear", "good", "again",
                         "recheck"} => ConfigGood
    /\ pc[Reloader] \in {"lock2", "clear", "parse", "check", "failed", "restore"}
          => bak \in checked
    /\ pc[Reloader] = "check" => yamlHasParser
    /\ pc[Reloader] \in {"parse", "check", "dying"} => ~configReady
    /\ pc[Reloader] = "restore" <=> restoring # {}
    /\ pc[Reloader] = "restore" =>
          /\ "flags" \notin restoring => configReady /\ yamlHasParser
          /\ "yaml" \notin restoring => yaml \in checked

(* A reader that is about to panic has seen part of a restore, or what a   *)
(* check that panicked has left.                                           *)
PanicTorn ==
    alive /\ ~lost =>
        \A p \in Readers : pc[p] = "panic" => p \in torn \/ pc[Reloader] = "dying"

(* No reader gets past the flags of a check that has panicked.             *)
DyingShut ==
    alive /\ ~lost /\ pc[Reloader] = "dying" => \A p \in Readers : pc[p] # "yaml"

IInv == /\ Booleans /\ Shapes /\ Places /\ Known /\ Exclusive /\ Reloading
        /\ PanicTorn /\ DyingShut /\ ReadersSeeChecked

-----------------------------------------------------------------------------
(* What one step may be, action by action: the shape every proof follows.  *)
LEMMA Steps ==
    ASSUME Next
    PROVE  \/ \E p \in Readers : Ask(p)
           \/ \E p \in Readers : ReaderLocks(p)
           \/ \E p \in Readers : ReadFlags(p) \/ ReadYaml(p)
           \/ \E p \in Readers : ReaderUnlocks(p) \/ Panics(p)
           \/ FileWritten \/ ReloadClears \/ ParseFails \/ Parses \/ CheckFails \/ ReloaderDies \/ Checks
           \/ ReloadAsks \/ ReloadLocks \/ AsksAgain
           \/ ReloadIsReady \/ ReloadUnlocks \/ FailedUnlocks \/ ReadyAgain \/ CheckPanics
           \/ \E part \in {"mutex", "flags", "yaml"} : Restore(part)
  BY DEF Next, Reload, GetConfig

(* The flags and the lock stay Booleans.                                   *)
LEMMA BooleansStep ==
    ASSUME Booleans, [Next]_vars
    PROVE  Booleans'
<1> USE DEF Booleans
<1>1. CASE UNCHANGED vars
  BY <1>1 DEF vars, mutex, flags
<1>2. CASE \E p \in Readers : Ask(p)
  BY <1>2 DEF Ask, ReaderMove, Goto, mutex, flags
<1>3. CASE \E p \in Readers : ReaderLocks(p)
  BY <1>3 DEF ReaderLocks, LockOrSleep, Goto, Overlaps, flags
<1>4. CASE \E p \in Readers : ReadFlags(p) \/ ReadYaml(p)
  BY <1>4 DEF ReadFlags, ReadYaml, ReaderMove, Goto, Overlaps, mutex, flags
<1>5. CASE \E p \in Readers : ReaderUnlocks(p) \/ Panics(p)
  BY <1>5 DEF ReaderUnlocks, Panics, ReaderMove, Unlocks, Goto, mutex, flags
<1>6. CASE \/ FileWritten \/ ReloadClears \/ ParseFails \/ Parses \/ CheckFails
           \/ ReloaderDies \/ Checks
  BY <1>6 DEF FileWritten, ReloadClears, ParseFails, Parses, CheckFails, ReloaderDies, Checks,
              ReloadMove, Goto, mutex, flags
<1>7. CASE ReloadAsks \/ ReloadLocks \/ AsksAgain
  BY <1>7 DEF ReloadAsks, ReloadLocks, AsksAgain, LockOrSleep, Goto, flags
<1>8. CASE ReloadIsReady \/ ReloadUnlocks \/ FailedUnlocks \/ ReadyAgain \/ CheckPanics
  BY <1>8 DEF ReloadIsReady, ReloadUnlocks, FailedUnlocks, ReadyAgain, CheckPanics,
              ReloadMove, Unlocks,
              Goto, flags
<1>9. CASE \E part \in {"mutex", "flags", "yaml"} : Restore(part)
  BY <1>9 DEF Restore
<1> QED
  BY Steps, <1>1, <1>2, <1>3, <1>4, <1>5, <1>6, <1>7, <1>8, <1>9

(* The structure, the program counters and the histories keep their shape. *)
LEMMA ShapesStep ==
    ASSUME Shapes, [Next]_vars
    PROVE  Shapes'
<1> USE ConstantsAssumption DEF Shapes, Procs, Asking, Holding
<1>1. CASE UNCHANGED vars
  BY <1>1 DEF vars, mutex, flags
<1>2. CASE \E p \in Readers : Ask(p)
  BY <1>2 DEF Ask, ReaderMove, Goto, mutex, flags
<1>3. CASE \E p \in Readers : ReaderLocks(p)
  BY <1>3 DEF ReaderLocks, LockOrSleep, Goto, Overlaps, flags
<1>4. CASE \E p \in Readers : ReadFlags(p) \/ ReadYaml(p)
  <2>1. CASE \E p \in Readers : ReadFlags(p)
    BY <2>1 DEF ReadFlags, ReaderMove, Goto, Overlaps, mutex, flags
  <2>2. CASE \E p \in Readers : ReadYaml(p)
    BY <2>2 DEF ReadYaml, ReaderMove, Goto, Overlaps, mutex, flags
  <2> QED
    BY <1>4, <2>1, <2>2
<1>5. CASE \E p \in Readers : ReaderUnlocks(p) \/ Panics(p)
  <2>1. CASE \E p \in Readers : ReaderUnlocks(p)
    BY <2>1 DEF ReaderUnlocks, ReaderMove, Unlocks, Goto, flags
  <2>2. CASE \E p \in Readers : Panics(p) /\ Unlocks
    BY <2>2 DEF Panics, ReaderMove, Unlocks, Goto, flags
  <2>3. CASE \E p \in Readers : Panics(p) /\ UNCHANGED mutex
    BY <2>3 DEF Panics, ReaderMove, Goto, mutex, flags
  <2> QED
    BY <1>5, <2>1, <2>2, <2>3 DEF Panics
<1>6. CASE \/ FileWritten \/ ReloadClears \/ ParseFails \/ Parses \/ CheckFails
           \/ ReloaderDies \/ Checks
  <2>1. CASE FileWritten \/ ReloadClears
    <3>1. CASE FileWritten
      <4>1. reloads' \in 0 .. MaxReloads
        BY <3>1 DEF FileWritten
      <4> QED
        BY <3>1, <4>1 DEF FileWritten, ReloadMove, Goto, mutex, flags
    <3>2. CASE ReloadClears
      BY <3>2 DEF ReloadClears, ReloadMove, Goto, mutex, flags
    <3> QED
      BY <2>1, <3>1, <3>2
  <2>2. CASE ParseFails \/ Parses \/ CheckFails \/ ReloaderDies
    BY <2>2 DEF ParseFails, Parses, CheckFails, ReloaderDies, ReloadMove, Goto, mutex, flags
  <2>3. CASE Checks
    BY <2>3 DEF Checks, Goto, mutex, flags
  <2> QED
    BY <1>6, <2>1, <2>2, <2>3
<1>7. CASE ReloadAsks \/ ReloadLocks \/ AsksAgain
  BY <1>7 DEF ReloadAsks, ReloadLocks, AsksAgain, LockOrSleep, Goto, flags
<1>8. CASE ReloadIsReady \/ ReloadUnlocks \/ FailedUnlocks \/ ReadyAgain \/ CheckPanics
  BY <1>8 DEF ReloadIsReady, ReloadUnlocks, FailedUnlocks, ReadyAgain, CheckPanics,
              ReloadMove, Unlocks,
              Goto, flags
<1>9. CASE \E part \in {"mutex", "flags", "yaml"} : Restore(part)
  BY <1>9 DEF Restore
<1> QED
  BY Steps, <1>1, <1>2, <1>3, <1>4, <1>5, <1>6, <1>7, <1>8, <1>9

(* Each goroutine keeps to its own function.                               *)
LEMMA PlacesStep ==
    ASSUME Shapes, Places, [Next]_vars
    PROVE  Places'
<1> USE ConstantsAssumption DEF Shapes, Places, Procs
<1>1. CASE UNCHANGED vars
  BY <1>1 DEF vars, mutex, flags
<1>2. CASE \E p \in Readers : Ask(p)
  BY <1>2 DEF Ask, ReaderMove, Goto, mutex, flags
<1>3. CASE \E p \in Readers : ReaderLocks(p)
  BY <1>3 DEF ReaderLocks, LockOrSleep, Goto, Overlaps, flags
<1>4. CASE \E p \in Readers : ReadFlags(p) \/ ReadYaml(p)
  BY <1>4 DEF ReadFlags, ReadYaml, ReaderMove, Goto, Overlaps, mutex, flags
<1>5. CASE \E p \in Readers : ReaderUnlocks(p) \/ Panics(p)
  BY <1>5 DEF ReaderUnlocks, Panics, ReaderMove, Unlocks, Goto, mutex, flags
<1>6. CASE \/ FileWritten \/ ReloadClears \/ ParseFails \/ Parses \/ CheckFails
           \/ ReloaderDies \/ Checks
  BY <1>6 DEF FileWritten, ReloadClears, ParseFails, Parses, CheckFails, ReloaderDies, Checks,
              ReloadMove, Goto, mutex, flags
<1>7. CASE ReloadAsks \/ ReloadLocks \/ AsksAgain
  BY <1>7 DEF ReloadAsks, ReloadLocks, AsksAgain, LockOrSleep, Goto, flags
<1>8. CASE ReloadIsReady \/ ReloadUnlocks \/ FailedUnlocks \/ ReadyAgain \/ CheckPanics
  BY <1>8 DEF ReloadIsReady, ReloadUnlocks, FailedUnlocks, ReadyAgain, CheckPanics,
              ReloadMove, Unlocks,
              Goto, flags
<1>9. CASE \E part \in {"mutex", "flags", "yaml"} : Restore(part)
  BY <1>9 DEF Restore
<1> QED
  BY Steps, <1>1, <1>2, <1>3, <1>4, <1>5, <1>6, <1>7, <1>8, <1>9

(* Lock counts the goroutine it puts to sleep,                             *)
LEMMA LockCounts ==
    ASSUME asleep \subseteq Procs, Known, NEW p \in Procs, NEW from, NEW to,
           LockOrSleep(p, from, to)
    PROVE  Known' /\ (waiters = Cardinality(asleep) => waiters' = Cardinality(asleep'))
<1>1. IsFiniteSet(asleep)
  BY ConstantsAssumption, FS_Singleton, FS_Union, FS_Subset DEF Procs
<1>2. CASE locked
  <2>1. asleep' = asleep \cup {p} /\ p \notin asleep /\ waiters' = waiters + 1
    BY <1>2 DEF LockOrSleep
  <2>2. Cardinality(asleep') = Cardinality(asleep) + 1 /\ Cardinality(asleep) \in Nat
    BY <1>1, <2>1, FS_AddElement, FS_CardinalityType
  <2> QED
    BY <2>1, <2>2 DEF Known
<1>3. CASE ~locked
  BY <1>3 DEF LockOrSleep, Known
<1> QED
  BY <1>2, <1>3

(* ... and Unlock the one it wakes.                                        *)
LEMMA UnlockCounts ==
    ASSUME asleep \subseteq Procs, Known, Unlocks
    PROVE  Known' /\ (waiters = Cardinality(asleep) => waiters' = Cardinality(asleep'))
<1>1. IsFiniteSet(asleep)
  BY ConstantsAssumption, FS_Singleton, FS_Union, FS_Subset DEF Procs
<1>2. CASE waiters > 0 /\ asleep # {}
  <2>1. PICK p \in asleep : asleep' = asleep \ {p}
    BY <1>2 DEF Unlocks
  <2>2. Cardinality(asleep') = Cardinality(asleep) - 1 /\ Cardinality(asleep) \in Nat
    BY <1>1, <2>1, FS_RemoveElement, FS_CardinalityType
  <2>3. waiters' = waiters - 1
    BY <1>2 DEF Unlocks
  <2> QED
    BY <1>2, <2>2, <2>3 DEF Known
<1>3. CASE ~(waiters > 0 /\ asleep # {})
  BY <1>3 DEF Unlocks, Known
<1> QED
  BY <1>2, <1>3

(* A restore forgets its sleepers, which then counts as lost.              *)
LEMMA KnownStep ==
    ASSUME Shapes, Known, [Next]_vars
    PROVE  /\ Known'
           /\ waiters = Cardinality(asleep) => waiters' = Cardinality(asleep') \/ lost'
<1>1. asleep \subseteq Procs /\ Reloader \in Procs /\ Readers \subseteq Procs
  BY DEF Shapes, Procs
<1>2. CASE UNCHANGED mutex
  BY <1>2 DEF mutex, Known
<1>3. CASE \E p \in Readers : ReaderLocks(p)
  BY <1>1, <1>3, LockCounts DEF ReaderLocks
<1>4. CASE ReloadAsks \/ ReloadLocks \/ AsksAgain
  BY <1>1, <1>4, LockCounts DEF ReloadAsks, ReloadLocks, AsksAgain
<1>5. CASE \E p \in Readers : ReaderUnlocks(p) \/ Panics(p)
  BY <1>1, <1>2, <1>5, UnlockCounts DEF ReaderUnlocks, Panics
<1>6. CASE ReloadIsReady \/ ReloadUnlocks \/ FailedUnlocks \/ ReadyAgain \/ CheckPanics
  BY <1>1, <1>6, UnlockCounts DEF ReloadIsReady, ReloadUnlocks, FailedUnlocks, ReadyAgain,
                                  CheckPanics
<1>7. ASSUME NEW part \in {"mutex", "flags", "yaml"}, Restore(part)
      PROVE  /\ Known'
             /\ waiters = Cardinality(asleep) => waiters' = Cardinality(asleep') \/ lost'
  <2>1. IsFiniteSet(asleep)
    BY <1>1, ConstantsAssumption, FS_Singleton, FS_Union, FS_Subset DEF Procs
  <2>2. Cardinality(asleep) \in Nat /\ Cardinality({}) = 0
    BY <2>1, FS_CardinalityType, FS_EmptySet
  <2>3. asleep' = asleep /\ waiters' = IF part = "mutex" THEN 0 ELSE waiters
    BY <1>7 DEF Restore
  <2>4. part = "mutex" /\ asleep # {} => lost'
    BY <1>7 DEF Restore
  <2> QED
    BY <2>2, <2>3, <2>4 DEF Known
<1>8. CASE \/ UNCHANGED vars
           \/ \E p \in Readers : Ask(p) \/ ReadFlags(p) \/ ReadYaml(p)
           \/ FileWritten \/ ReloadClears \/ ParseFails \/ Parses \/ CheckFails \/ ReloaderDies \/ Checks
  BY <1>2, <1>8 DEF vars, Ask, ReadFlags, ReadYaml, FileWritten, ReloadClears, ParseFails,
                    Parses, CheckFails, ReloaderDies, Checks
<1> QED
  BY Steps, <1>3, <1>4, <1>5, <1>6, <1>7, <1>8

(* Whoever gets the lock finds nobody inside.                              *)
LEMMA TakesMutex ==
    ASSUME Shapes, Mutex, NEW p \in Procs, NEW from, from \notin Holding,
           NEW to, to \in Holding, LockOrSleep(p, from, to)
    PROVE  Mutex'
<1>1. CASE locked
  BY <1>1 DEF LockOrSleep, Goto, Mutex, Shapes
<1>2. CASE ~locked
  BY <1>2 DEF LockOrSleep, Goto, Mutex, Shapes
<1> QED
  BY <1>1, <1>2

(* Whoever unlocks is inside no longer.                                    *)
LEMMA LeavesMutex ==
    ASSUME Shapes, Mutex, NEW p \in Procs, NEW from, from \in Holding,
           NEW to, to \notin Holding, Goto(p, from, to), Unlocks
    PROVE  Mutex'
  BY DEF Unlocks, Goto, Mutex, Shapes

(* Nobody gets in or out otherwise.                                        *)
LEMMA StaysInMutex ==
    ASSUME Shapes, Mutex, NEW p \in Procs, NEW from, NEW to,
           from \in Holding <=> to \in Holding, Goto(p, from, to), UNCHANGED locked
    PROVE  Mutex'
  BY DEF Goto, Mutex, Shapes

(* Lock and Unlock keep the mutex right; Restore does, if nobody uses it.  *)
LEMMA MutexStep ==
    ASSUME Booleans, Shapes, Reloading, Mutex, alive', ~lost', [Next]_vars
    PROVE  Mutex'
<1>0. Reloader \in Procs /\ Readers \subseteq Procs
  BY DEF Procs
<1>1. CASE UNCHANGED vars
  BY <1>1 DEF vars, mutex, Mutex
<1>2. ASSUME NEW p \in Readers, Ask(p) PROVE Mutex'
  BY <1>0, <1>2, StaysInMutex DEF Ask, ReaderMove, Holding, mutex
<1>3. ASSUME NEW p \in Readers, ReaderLocks(p) PROVE Mutex'
  BY <1>0, <1>3, TakesMutex DEF ReaderLocks, Holding
<1>4. ASSUME NEW p \in Readers, ReadFlags(p) PROVE Mutex'
  BY <1>0, <1>4, StaysInMutex DEF ReadFlags, ReaderMove, Holding, mutex
<1>5. ASSUME NEW p \in Readers, ReadYaml(p) PROVE Mutex'
  BY <1>0, <1>5, StaysInMutex DEF ReadYaml, ReaderMove, Holding, mutex
<1>6. ASSUME NEW p \in Readers, ReaderUnlocks(p) \/ Panics(p) PROVE Mutex'
  <2>1. Unlocks
    BY <1>6 DEF ReaderUnlocks, Panics
  <2>2. Goto(p, "unlock", "idle") \/ Goto(p, "panic", "idle")
    BY <1>6 DEF ReaderUnlocks, Panics, ReaderMove
  <2> QED
    BY <1>0, <2>1, <2>2, LeavesMutex DEF Holding
<1>7. CASE FileWritten
  BY <1>0, <1>7, StaysInMutex DEF FileWritten, ReloadMove, Holding, mutex
<1>8. CASE ReloadClears \/ ParseFails \/ Parses \/ CheckFails \/ ReloaderDies
  BY <1>0, <1>8, StaysInMutex DEF ReloadClears, ParseFails, Parses, CheckFails, ReloaderDies,
                                  ReloadMove,
                                  Holding, mutex
<1>9. CASE Checks
  BY <1>0, <1>9, StaysInMutex DEF Checks, Holding, mutex
<1>10. CASE ReloadAsks \/ ReloadLocks \/ AsksAgain
  BY <1>0, <1>10, TakesMutex DEF ReloadAsks, ReloadLocks, AsksAgain, Holding
<1>11. CASE ReloadIsReady \/ ReloadUnlocks \/ FailedUnlocks \/ ReadyAgain \/ CheckPanics
  BY <1>0, <1>11, LeavesMutex DEF ReloadIsReady, ReloadUnlocks, FailedUnlocks, ReadyAgain,
                                  CheckPanics,
                                  ReloadMove, Holding
<1>12. ASSUME NEW part \in {"mutex", "flags", "yaml"}, Restore(part) PROVE Mutex'
  <2>1. locked' = locked
    BY <1>12 DEF Restore, Booleans
  <2>2. pc[Reloader] = "restore"
    BY <1>12 DEF Restore, Reloading
  <2>3. /\ pc'[Reloader] \in {"restore", "idle"}
        /\ \A p \in Procs \ {Reloader} : pc'[p] = pc[p]
    BY <1>0, <1>12, <2>2 DEF Restore, Shapes
  <2> QED
    BY <2>1, <2>2, <2>3 DEF Mutex, Holding
<1> QED
  BY Steps, <1>1, <1>2, <1>3, <1>4, <1>5, <1>6, <1>7, <1>8, <1>9, <1>10, <1>11, <1>12

(* A process that has crashed, or lost its mutex, does not get it back.    *)
LEMMA MemoryStep ==
    ASSUME alive', ~lost', [Next]_vars
    PROVE  alive /\ ~lost
<1>1. CASE UNCHANGED vars
  BY <1>1 DEF vars
<1>2. ASSUME NEW p \in Readers,
             Ask(p) \/ ReadFlags(p) \/ ReadYaml(p) \/ ReaderUnlocks(p) \/ Panics(p)
      PROVE  alive /\ ~lost
  <2>1. PICK from, to : ReaderMove(p, from, to)
    BY <1>2 DEF Ask, ReadFlags, ReadYaml, ReaderUnlocks, Panics
  <2> QED
    BY <2>1 DEF ReaderMove, Goto
<1>3. CASE FileWritten \/ ReloadClears \/ ParseFails \/ Parses \/ CheckFails \/ ReloaderDies
  <2>1. PICK from, to : ReloadMove(from, to)
    BY <1>3 DEF FileWritten, ReloadClears, ParseFails, Parses, CheckFails, ReloaderDies
  <2> QED
    BY <2>1 DEF ReloadMove, Goto
<1>4. CASE Checks
  BY <1>4 DEF Checks, Goto
<1>5. ASSUME NEW p \in Procs, NEW from, NEW to, LockOrSleep(p, from, to), UNCHANGED lost
      PROVE  alive /\ ~lost
  BY <1>5 DEF LockOrSleep, Goto
<1>6. CASE ReloadAsks \/ ReloadLocks \/ AsksAgain \/ \E p \in Readers : ReaderLocks(p)
  BY <1>5, <1>6 DEF ReloadAsks, ReloadLocks, AsksAgain, ReaderLocks, Procs
<1>7. CASE ReloadIsReady \/ ReloadUnlocks \/ FailedUnlocks \/ ReadyAgain \/ CheckPanics
  BY <1>7 DEF ReloadIsReady, ReloadUnlocks, FailedUnlocks, ReadyAgain, CheckPanics,
              ReloadMove, Goto
<1>8. CASE \E part \in {"mutex", "flags", "yaml"} : Restore(part)
  BY <1>8 DEF Restore
<1> QED
  BY Steps, <1>1, <1>2, <1>3, <1>4, <1>6, <1>7, <1>8

(* The mutex works as long as it is the one its users know.                *)
LEMMA ExclusiveStep ==
    ASSUME Booleans, Shapes, Reloading, Known, Exclusive, [Next]_vars
    PROVE  Exclusive'
<1> SUFFICES ASSUME alive', ~lost'
             PROVE  Mutex' /\ waiters' = Cardinality(asleep')
  BY DEF Exclusive
<1>1. alive /\ ~lost
  BY MemoryStep
<1> QED
  BY <1>1, MutexStep, KnownStep DEF Exclusive

(* Only the reloader writes the configuration.                             *)
LEMMA ReloadingStep ==
    ASSUME Booleans, Shapes, Places, Reloading, [Next]_vars
    PROVE  Reloading'
<1> USE ConstantsAssumption DEF Booleans, Shapes, Places, Reloading, ConfigGood, Procs
<1>1. CASE UNCHANGED vars
  BY <1>1 DEF vars, mutex, flags
<1>2. CASE \E p \in Readers : Ask(p)
  BY <1>2 DEF Ask, ReaderMove, Goto, mutex, flags
<1>3. CASE \E p \in Readers : ReaderLocks(p)
  BY <1>3 DEF ReaderLocks, LockOrSleep, Goto, Overlaps, flags
<1>4. CASE \E p \in Readers : ReadFlags(p) \/ ReadYaml(p)
  BY <1>4 DEF ReadFlags, ReadYaml, ReaderMove, Goto, Overlaps, mutex, flags
<1>5. CASE \E p \in Readers : ReaderUnlocks(p) \/ Panics(p)
  BY <1>5 DEF ReaderUnlocks, Panics, ReaderMove, Unlocks, Goto, mutex, flags
<1>6. CASE \/ FileWritten \/ ReloadClears \/ ParseFails \/ Parses \/ CheckFails
           \/ ReloaderDies \/ Checks
  BY <1>6 DEF FileWritten, ReloadClears, ParseFails, Parses, CheckFails, ReloaderDies, Checks,
              ReloadMove, Goto, mutex, flags
<1>7. CASE ReloadAsks \/ ReloadLocks \/ AsksAgain
  BY <1>7 DEF ReloadAsks, ReloadLocks, AsksAgain, LockOrSleep, Goto, flags
<1>8. CASE ReloadIsReady \/ ReloadUnlocks \/ FailedUnlocks \/ ReadyAgain \/ CheckPanics
  BY <1>8 DEF ReloadIsReady, ReloadUnlocks, FailedUnlocks, ReadyAgain, CheckPanics,
              ReloadMove, Unlocks,
              Goto, flags
<1>9. CASE \E part \in {"mutex", "flags", "yaml"} : Restore(part)
  BY <1>9 DEF Restore
<1> QED
  BY Steps, <1>1, <1>2, <1>3, <1>4, <1>5, <1>6, <1>7, <1>8, <1>9

(* Whoever is inside shuts the reloader out, so what it reads is good      *)
(* unless a restore is still under way or the process is about to die.     *)
LEMMA InsideGood ==
    ASSUME Shapes, Places, Exclusive, Reloading, alive, ~lost,
           NEW p \in Readers, pc[p] \in {"flags", "yaml"}
    PROVE  ConfigGood \/ restoring # {} \/ pc[Reloader] = "dying"
<1>1. p \in Procs /\ Reloader \in Procs /\ p # Reloader
  BY ConstantsAssumption DEF Procs
<1>2. pc[Reloader] \notin Holding
  BY <1>1 DEF Exclusive, Mutex, Holding
<1>3. pc[Reloader] \in {"idle", "asking", "lock2", "again", "restore", "dying"}
  BY <1>1, <1>2 DEF Shapes, Places, Asking, Holding
<1> QED
  BY <1>3 DEF Reloading

(* Nobody else is inside when a check panics, and the flags stay down.     *)
LEMMA DyingStep ==
    ASSUME Booleans, Shapes, Places, Exclusive, Reloading, DyingShut, [Next]_vars
    PROVE  DyingShut'
<1> SUFFICES ASSUME alive', ~lost', pc'[Reloader] = "dying", NEW p \in Readers, pc'[p] = "yaml"
             PROVE  FALSE
  BY DEF DyingShut
<1>0. p \in Procs /\ Reloader \in Procs /\ Readers \subseteq Procs /\ p # Reloader
  BY ConstantsAssumption DEF Procs
<1>1. alive /\ ~lost
  BY MemoryStep
<1>2. CASE UNCHANGED vars
  BY <1>1, <1>2 DEF vars, DyingShut
<1>3. ASSUME NEW q \in Readers,
             \/ Ask(q) \/ ReaderLocks(q) \/ ReadFlags(q) \/ ReadYaml(q)
             \/ ReaderUnlocks(q) \/ Panics(q)
      PROVE  FALSE
  <2>1. pc'[Reloader] = pc[Reloader]
    BY <1>0, <1>3 DEF Ask, ReaderLocks, LockOrSleep, ReadFlags, ReadYaml, ReaderUnlocks,
                      Panics, ReaderMove, Goto, Shapes
  <2>2. pc[p] = "yaml" \/ (ReadFlags(q) /\ configReady)
    BY <1>0, <1>3 DEF Ask, ReaderLocks, LockOrSleep, ReadFlags, ReadYaml, ReaderUnlocks,
                      Panics, ReaderMove, Goto, Shapes
  <2> QED
    BY <1>1, <2>1, <2>2 DEF DyingShut, Reloading
<1>4. CASE \/ FileWritten \/ ReloadClears \/ ParseFails \/ Parses \/ CheckFails \/ Checks
           \/ ReloadAsks \/ ReloadLocks \/ AsksAgain
           \/ ReloadIsReady \/ ReloadUnlocks \/ FailedUnlocks \/ ReadyAgain
  <2>1. pc'[Reloader] # "dying"
    BY <1>0, <1>4 DEF FileWritten, ReloadClears, ParseFails, Parses, CheckFails, Checks,
           ReloadAsks, ReloadLocks, AsksAgain, LockOrSleep, ReloadIsReady, ReloadUnlocks,
           FailedUnlocks, ReadyAgain, ReloadMove, Goto, Shapes
  <2> QED
    BY <2>1
<1>5. CASE CheckPanics
  <2>1. pc[Reloader] = "check" /\ pc[p] = "yaml"
    BY <1>0, <1>5 DEF CheckPanics, ReloadMove, Goto, Shapes
  <2> QED
    BY <1>0, <1>1, <2>1 DEF Exclusive, Mutex, Holding
<1>6. CASE ReloaderDies
  BY <1>6 DEF ReloaderDies
<1>7. CASE \E part \in {"mutex", "flags", "yaml"} : Restore(part)
  <2>1. pc[Reloader] = "restore"
    BY <1>7 DEF Restore, Reloading
  <2> QED
    BY <1>0, <1>7, <2>1 DEF Restore, Shapes
<1> QED
  BY Steps, <1>2, <1>3, <1>4, <1>5, <1>6, <1>7

(* Only a reader that overlaps with a restore, or comes after a check that *)
(* panicked, finds the flags down.                                         *)
LEMMA PanicStep ==
    ASSUME Booleans, Shapes, Places, Exclusive, Reloading, PanicTorn, [Next]_vars
    PROVE  PanicTorn'
<1> USE DEF PanicTorn, Shapes, Places, Booleans, Procs
<1>1. CASE UNCHANGED vars
  BY <1>1 DEF vars, mutex, flags
<1>2. CASE \E p \in Readers : Ask(p)
  BY <1>2 DEF Ask, ReaderMove, Goto, mutex, flags
<1>3. CASE \E p \in Readers : ReaderLocks(p)
  BY <1>3 DEF ReaderLocks, LockOrSleep, Goto, Overlaps, flags
<1>4. CASE \E p \in Readers : ReadFlags(p) \/ ReadYaml(p)
  <2>1. PICK p \in Readers : ReadFlags(p) \/ ReadYaml(p)
    BY <1>4
  <2>2. /\ alive /\ lost' = lost /\ torn \subseteq torn'
        /\ \A q \in Readers \ {p} : pc'[q] = pc[q]
    BY <2>1 DEF ReadFlags, ReadYaml, ReaderMove, Goto, Overlaps, Shapes, Procs
  <2>3. pc'[p] = "panic" => ReadFlags(p) /\ pc[p] = "flags" /\ ~ConfigGood
    BY <2>1 DEF ReadFlags, ReadYaml, ReaderMove, Goto, Shapes, Procs, ConfigGood
  <2>4. ~lost /\ pc'[p] = "panic" => p \in torn' \/ pc[Reloader] = "dying"
    BY <2>2, <2>3, InsideGood DEF ReadFlags, Overlaps
  <2>5. pc'[Reloader] = pc[Reloader]
    BY <2>1, ConstantsAssumption DEF ReadFlags, ReadYaml, ReaderMove, Goto, Shapes, Procs
  <2> QED
    BY <2>2, <2>4, <2>5 DEF PanicTorn
<1>5. CASE \E p \in Readers : ReaderUnlocks(p) \/ Panics(p)
  <2>1. PICK p \in Readers : ReaderUnlocks(p) \/ Panics(p)
    BY <1>5
  <2>2. /\ alive /\ lost' = lost /\ torn' = torn
        /\ \A q \in Readers : pc'[q] = pc[q] \/ pc'[q] = "idle"
        /\ pc'[Reloader] = pc[Reloader]
    BY <2>1, ConstantsAssumption DEF ReaderUnlocks, Panics, ReaderMove, Goto, Shapes, Procs
  <2> QED
    BY <2>2 DEF PanicTorn
<1>6. CASE \/ FileWritten \/ ReloadClears \/ ParseFails \/ Parses \/ CheckFails
           \/ ReloaderDies \/ Checks
  BY <1>6 DEF FileWritten, ReloadClears, ParseFails, Parses, CheckFails, ReloaderDies, Checks,
              ReloadMove, Goto, mutex, flags
<1>7. CASE ReloadAsks \/ ReloadLocks \/ AsksAgain
  BY <1>7 DEF ReloadAsks, ReloadLocks, AsksAgain, LockOrSleep, Goto, flags
<1>8. CASE ReloadIsReady \/ ReloadUnlocks \/ FailedUnlocks \/ ReadyAgain \/ CheckPanics
  BY <1>8 DEF ReloadIsReady, ReloadUnlocks, FailedUnlocks, ReadyAgain, CheckPanics,
              ReloadMove, Unlocks,
              Goto, flags
<1>9. CASE \E part \in {"mutex", "flags", "yaml"} : Restore(part)
  BY <1>9 DEF Restore
<1> QED
  BY Steps, <1>1, <1>2, <1>3, <1>4, <1>5, <1>6, <1>7, <1>8, <1>9

(* ... or reads a configuration that has not been checked.                 *)
LEMMA CheckedStep ==
    ASSUME Booleans, Shapes, Places, Exclusive, Reloading, DyingShut, ReadersSeeChecked,
           [Next]_vars
    PROVE  ReadersSeeChecked'
<1> USE DEF ReadersSeeChecked, Shapes, Places, Booleans
<1>1. CASE UNCHANGED vars
  BY <1>1 DEF vars, mutex, flags
<1>2. CASE \E p \in Readers : Ask(p)
  BY <1>2 DEF Ask, ReaderMove, Goto, mutex, flags
<1>3. CASE \E p \in Readers : ReaderLocks(p)
  BY <1>3 DEF ReaderLocks, LockOrSleep, Goto, Overlaps, flags
<1>4. CASE \E p \in Readers : ReadFlags(p) \/ ReadYaml(p)
  <2>1. CASE \E p \in Readers : ReadFlags(p)
    BY <2>1 DEF ReadFlags, ReaderMove, Overlaps, ReadersSeeChecked
  <2>2. ASSUME NEW p \in Readers, ReadYaml(p)
        PROVE  ReadersSeeChecked'
    <3>1. alive /\ lost' = lost /\ checked' = checked /\ torn \subseteq torn'
      BY <2>2 DEF ReadYaml, ReaderMove, Goto, Overlaps
    <3>2. ~lost => yaml \in checked \/ p \in torn'
      BY <2>2, <3>1, InsideGood DEF ReadYaml, ReaderMove, Goto, Overlaps, ConfigGood, DyingShut
    <3>3. got' = [got EXCEPT ![p] = yaml]
      BY <2>2 DEF ReadYaml
    <3> QED
      BY <3>1, <3>2, <3>3 DEF Shapes, ReadersSeeChecked
  <2> QED
    BY <1>4, <2>1, <2>2
<1>5. CASE \E p \in Readers : ReaderUnlocks(p) \/ Panics(p)
  BY <1>5 DEF ReaderUnlocks, Panics, ReaderMove, Unlocks, Goto, mutex, flags
<1>6. CASE \/ FileWritten \/ ReloadClears \/ ParseFails \/ Parses \/ CheckFails
           \/ ReloaderDies \/ Checks
  BY <1>6 DEF FileWritten, ReloadClears, ParseFails, Parses, CheckFails, ReloaderDies, Checks,
              ReloadMove, Goto, mutex, flags
<1>7. CASE ReloadAsks \/ ReloadLocks \/ AsksAgain
  BY <1>7 DEF ReloadAsks, ReloadLocks, AsksAgain, LockOrSleep, Goto, flags
<1>8. CASE ReloadIsReady \/ ReloadUnlocks \/ FailedUnlocks \/ ReadyAgain \/ CheckPanics
  BY <1>8 DEF ReloadIsReady, ReloadUnlocks, FailedUnlocks, ReadyAgain, CheckPanics,
              ReloadMove, Unlocks,
              Goto, flags
<1>9. CASE \E part \in {"mutex", "flags", "yaml"} : Restore(part)
  BY <1>9 DEF Restore
<1> QED
  BY Steps, <1>1, <1>2, <1>3, <1>4, <1>5, <1>6, <1>7, <1>8, <1>9

-----------------------------------------------------------------------------
(* All of it holds from the start and through every step.                  *)
THEOREM Inductive == Spec => []IInv
<1>1. Init => IInv
  <2> SUFFICES ASSUME Init PROVE IInv
    OBVIOUS
  <2> USE ConstantsAssumption DEF Init
  <2>1. Booleans
    BY DEF Booleans
  <2>2. Shapes /\ Places
    BY DEF Shapes, Places, Procs
  <2>3. Known /\ Exclusive
    BY FS_EmptySet DEF Known, Exclusive, Mutex, Holding
  <2>4. Reloading /\ PanicTorn /\ DyingShut /\ ReadersSeeChecked
    BY DEF Reloading, ConfigGood, PanicTorn, DyingShut, ReadersSeeChecked, Procs
  <2> QED
    BY <2>1, <2>2, <2>3, <2>4 DEF IInv
<1>2. IInv /\ [Next]_vars => IInv'
  <2> SUFFICES ASSUME IInv, [Next]_vars PROVE IInv'
    OBVIOUS
  <2>1. Booleans' /\ Shapes' /\ Places' /\ Known'
    BY BooleansStep, ShapesStep, PlacesStep, KnownStep DEF IInv
  <2>2. Exclusive'
    BY ExclusiveStep DEF IInv
  <2>3. Reloading' /\ PanicTorn' /\ DyingShut' /\ ReadersSeeChecked'
    BY ReloadingStep, PanicStep, DyingStep, CheckedStep DEF IInv
  <2> QED
    BY <2>1, <2>2, <2>3 DEF IInv
<1> QED
  BY <1>1, <1>2, PTL DEF Spec

(* The types hold, and the mutex excludes until a restore replaces it.     *)
THEOREM TypeCorrect == Spec => []TypeOK
<1>1. IInv => TypeOK
  <2> SUFFICES ASSUME IInv PROVE TypeOK
    OBVIOUS
  <2>1. IsFiniteSet(Procs)
    BY ConstantsAssumption, FS_Singleton, FS_Union DEF Procs
  <2>2. waiters \in 0 .. Cardinality(Procs)
    BY <2>1, FS_Subset, FS_CardinalityType DEF IInv, Known, Shapes
  <2>3. ASSUME alive, ~lost
        PROVE  LockWorks
    <3>1. locked <=> Inside # {}
      BY <2>3 DEF IInv, Exclusive, Mutex, Inside
    <3>2. Inside = {} \/ \E p \in Procs : Inside = {p}
      BY <2>3 DEF IInv, Exclusive, Mutex, Inside
    <3>3. Cardinality({}) = 0 /\ \A p \in Procs : Cardinality({p}) = 1
      BY FS_EmptySet, FS_Singleton
    <3>4. Cardinality(Inside) <= 1
      BY <3>2, <3>3
    <3> QED
      BY <2>3, <3>1, <3>4 DEF IInv, Exclusive, LockWorks
  <2>4. /\ {yaml, bak, reloads} \cup checked \subseteq 0 .. MaxReloads
        /\ asleep \subseteq Procs
        /\ pc \in [Procs -> Asking \cup Holding \cup {"idle", "restore", "dying"}]
        /\ got \in [Readers -> 0 .. MaxReloads \cup {NoVersion}]
        /\ restoring \subseteq {"mutex", "flags", "yaml"}
        /\ torn \subseteq Readers
    BY DEF IInv, Shapes
  <2>5. /\ locked \in BOOLEAN /\ configReady \in BOOLEAN /\ yamlHasParser \in BOOLEAN
        /\ lost \in BOOLEAN
    BY DEF IInv, Booleans
  <2> QED
    BY <2>2, <2>3, <2>4, <2>5 DEF TypeOK
<1> QED
  BY <1>1, Inductive, PTL

(* Between reloads the configuration is ready and has been checked.        *)
THEOREM ReadyBetween == Spec => []IdleMeansReady
<1>1. IInv => IdleMeansReady
  BY DEF IInv, Reloading, ConfigGood, IdleMeansReady
<1> QED
  BY <1>1, Inductive, PTL

(* Who does not overlap with a restore gets a checked configuration.       *)
THEOREM CheckedOnly == Spec => []ReadersSeeChecked
<1>1. IInv => ReadersSeeChecked
  BY DEF IInv
<1> QED
  BY <1>1, Inductive, PTL

(* An Unlock finds the mutex locked and a panicking reader saw a restore,  *)
(* unless a restore has replaced the mutex in use or a check has panicked. *)
LEMMA DeathStep ==
    ASSUME IInv, [Next]_vars, alive, ~alive', ~lost
    PROVE  pc[Reloader] = "dying" \/ \E p \in torn : pc[p] = "panic"
<1>0. Reloader \in Procs /\ Readers \subseteq Procs
  BY DEF Procs
<1>1. ASSUME NEW p \in Procs, pc[p] \in Holding
      PROVE  ~Unlocks
  BY <1>1 DEF Unlocks, IInv, Exclusive, Mutex
<1>2. CASE \/ UNCHANGED vars
           \/ \E p \in Readers : Ask(p) \/ ReaderLocks(p) \/ ReadFlags(p) \/ ReadYaml(p)
           \/ FileWritten \/ ReloadClears \/ ParseFails \/ Parses \/ CheckFails \/ Checks
           \/ ReloadAsks \/ ReloadLocks \/ AsksAgain
           \/ \E part \in {"mutex", "flags", "yaml"} : Restore(part)
  BY <1>2 DEF vars, Ask, ReaderLocks, ReadFlags, ReadYaml, FileWritten, ReloadClears,
              ParseFails, Parses, CheckFails, Checks, ReloadAsks, ReloadLocks, AsksAgain,
              Restore
<1>3. CASE ReloadIsReady \/ ReloadUnlocks \/ FailedUnlocks \/ ReadyAgain \/ CheckPanics
  BY <1>0, <1>1, <1>3 DEF ReloadIsReady, ReloadUnlocks, FailedUnlocks, ReadyAgain, CheckPanics,
                          ReloadMove, Goto, Holding
<1>4. ASSUME NEW p \in Readers, ReaderUnlocks(p) \/ Panics(p)
      PROVE  pc[Reloader] = "dying" \/ \E q \in torn : pc[q] = "panic"
  <2>1. pc[p] \in {"unlock", "panic"}
    BY <1>4 DEF ReaderUnlocks, Panics, ReaderMove, Goto
  <2>2. ~Unlocks
    BY <1>0, <1>1, <2>1 DEF Holding
  <2>3. pc[p] = "panic"
    BY <1>4, <2>2 DEF ReaderUnlocks, Panics, ReaderMove, Goto
  <2> QED
    BY <2>3 DEF IInv, PanicTorn
<1>5. CASE ReloaderDies
  BY <1>5 DEF ReloaderDies, ReloadMove, Goto
<1> QED
  BY Steps, <1>2, <1>3, <1>4, <1>5

(* The process dies of a reload only if its check panicked or it failed.   *)
THEOREM DeathExplained == Spec => DiesOnlyOfReload
<1>1. IInv /\ [Next]_vars =>
        [alive /\ ~alive' => \/ pc[Reloader] = "dying"
                            \/ lost \/ \E p \in torn : pc[p] = "panic"]_vars
  BY DeathStep
<1> QED
  BY <1>1, Inductive, PTL DEF Spec, DiesOnlyOfReload

-----------------------------------------------------------------------------
(*                     Nobody sleeps on a free mutex                       *)

(* Whoever sleeps is in Lock, and while anybody does, somebody who does    *)
(* not is in Lock as well or inside, and will come to an Unlock.           *)
Sleepers == \A p \in asleep : pc[p] \in Asking
Awake    == alive /\ ~lost /\ asleep # {}
                => \E p \in Procs \ asleep : pc[p] \in Asking \cup Holding

(* A goroutine that moves on outside Lock and Unlock leaves somebody awake *)
LEMMA AwakeMoves ==
    ASSUME Shapes, Sleepers, Awake, NEW p \in Procs, NEW from, NEW to,
           Goto(p, from, to), from \notin Asking, from \in Holding => to \in Holding,
           UNCHANGED <<asleep, lost>>
    PROVE  Sleepers' /\ Awake'
<1>1. /\ alive /\ pc[p] = from /\ pc'[p] = to
      /\ \A q \in Procs \ {p} : pc'[q] = pc[q]
  BY DEF Goto, Shapes
<1>2. p \notin asleep
  BY <1>1 DEF Sleepers
<1>3. Sleepers'
  BY <1>1, <1>2 DEF Sleepers, Shapes
<1>4. Awake'
  <2> SUFFICES ASSUME alive', ~lost', asleep' # {}
               PROVE  \E q \in Procs \ asleep' : pc'[q] \in Asking \cup Holding
    BY DEF Awake
  <2>1. PICK q \in Procs \ asleep : pc[q] \in Asking \cup Holding
    BY <1>1 DEF Awake
  <2>2. CASE q = p
    BY <1>1, <1>2, <2>1, <2>2
  <2>3. CASE q # p
    BY <1>1, <2>1, <2>3
  <2> QED
    BY <2>2, <2>3
<1> QED
  BY <1>3, <1>4

(* ... whoever finds the mutex locked leaves its holder awake, and whoever *)
(* finds it free is inside,                                                *)
LEMMA AwakeLocks ==
    ASSUME Booleans, Shapes, Sleepers, Exclusive, NEW p \in Procs, NEW from, NEW to,
           LockOrSleep(p, from, to), from \in Asking, to \in Holding, UNCHANGED lost
    PROVE  Sleepers' /\ Awake'
<1>1. /\ alive /\ p \notin asleep /\ pc[p] \in Asking
      /\ \A q \in Procs \ {p} : pc'[q] = pc[q]
  BY DEF LockOrSleep, Goto, Shapes
<1>2. CASE locked
  <2>1. pc'[p] = pc[p] /\ asleep' = asleep \cup {p}
    BY <1>2 DEF LockOrSleep, Goto, Shapes
  <2>2. Sleepers'
    BY <1>1, <2>1 DEF Sleepers, Shapes
  <2>3. ASSUME ~lost
        PROVE  \E q \in Procs \ asleep' : pc'[q] \in Asking \cup Holding
    <3>1. PICK q \in Procs : pc[q] \in Holding
      BY <1>1, <1>2, <2>3 DEF Exclusive, Mutex
    <3>2. pc[q] \notin Asking
      BY <3>1 DEF Asking, Holding
    <3> QED
      BY <1>1, <2>1, <3>1, <3>2 DEF Sleepers
  <2> QED
    BY <2>2, <2>3 DEF Awake
<1>3. CASE ~locked
  <2>1. pc'[p] \in Holding /\ asleep' = asleep
    BY <1>3 DEF LockOrSleep, Goto, Shapes
  <2>2. Sleepers'
    BY <1>1, <2>1 DEF Sleepers, Shapes
  <2> QED
    BY <1>1, <2>1, <2>2 DEF Awake
<1> QED
  BY <1>2, <1>3

(* ... and whoever unlocks wakes one, if anybody sleeps: the mutex knows   *)
(* of all its sleepers.                                                    *)
LEMMA AwakeUnlocks ==
    ASSUME Shapes, Sleepers, Known, Exclusive, NEW p \in Procs, NEW from, NEW to,
           Goto(p, from, to), from \in Holding, Unlocks, UNCHANGED lost
    PROVE  Sleepers' /\ Awake'
<1>1. /\ alive /\ pc[p] = from
      /\ \A q \in Procs \ {p} : pc'[q] = pc[q]
  BY DEF Goto, Shapes
<1>2. p \notin asleep
  BY <1>1 DEF Sleepers, Asking, Holding
<1>3. asleep' \subseteq asleep
  BY DEF Unlocks
<1>4. Sleepers'
  BY <1>1, <1>2, <1>3 DEF Sleepers, Shapes
<1>5. ASSUME ~lost, asleep' # {}
      PROVE  \E q \in Procs \ asleep' : pc'[q] \in Asking \cup Holding
  <2>1. IsFiniteSet(asleep)
    BY ConstantsAssumption, FS_Singleton, FS_Union, FS_Subset DEF Procs, Shapes
  <2>2. Cardinality(asleep) \in Nat /\ Cardinality(asleep) # 0
    BY <1>3, <1>5, <2>1, FS_CardinalityType, FS_EmptySet
  <2>3. waiters > 0 /\ asleep # {}
    BY <1>1, <1>3, <1>5, <2>2 DEF Exclusive
  <2>4. PICK q \in asleep : asleep' = asleep \ {q}
    BY <2>3 DEF Unlocks
  <2>5. pc'[q] \in Asking /\ q \in Procs
    BY <1>1, <1>2, <2>4 DEF Sleepers, Shapes
  <2> QED
    BY <2>4, <2>5
<1> QED
  BY <1>4, <1>5 DEF Awake

LEMMA AwakeStep ==
    ASSUME IInv, Sleepers, Awake, [Next]_vars
    PROVE  Sleepers' /\ Awake'
<1>0. Reloader \in Procs /\ Readers \subseteq Procs
  BY DEF Procs
<1> USE DEF IInv
<1>1. CASE UNCHANGED vars
  BY <1>1 DEF vars, mutex, Sleepers, Awake
<1>2. ASSUME NEW p \in Readers, Ask(p) \/ ReadFlags(p) \/ ReadYaml(p)
      PROVE  Sleepers' /\ Awake'
  <2>1. UNCHANGED <<asleep, lost>>
    BY <1>2 DEF Ask, ReadFlags, ReadYaml, ReaderMove, mutex
  <2>2. PICK from, to :
          /\ Goto(p, from, to)
          /\ from \in {"idle", "flags", "yaml"}
          /\ from # "idle" => to \in {"yaml", "panic", "unlock"}
    BY <1>2 DEF Ask, ReadFlags, ReadYaml, ReaderMove
  <2>3. from \notin Asking /\ (from \in Holding => to \in Holding)
    BY <2>2 DEF Asking, Holding
  <2> QED
    BY <1>0, <2>1, <2>2, <2>3, AwakeMoves
<1>3. ASSUME NEW p \in Readers, ReaderLocks(p) PROVE Sleepers' /\ Awake'
  BY <1>0, <1>3, AwakeLocks DEF ReaderLocks, Asking, Holding
<1>4. ASSUME NEW p \in Readers, ReaderUnlocks(p) \/ Panics(p)
      PROVE  Sleepers' /\ Awake'
  <2>1. Goto(p, "unlock", "idle") \/ Goto(p, "panic", "idle")
    BY <1>4 DEF ReaderUnlocks, Panics, ReaderMove
  <2>2. lost' = lost
    BY <1>4 DEF ReaderUnlocks, Panics, ReaderMove
  <2>3. CASE Unlocks
    BY <1>0, <2>1, <2>2, <2>3, AwakeUnlocks DEF Holding
  <2>4. CASE ~Unlocks
    <3>1. asleep' = asleep /\ ~alive' /\ Goto(p, "panic", "idle")
      BY <1>4, <2>4 DEF ReaderUnlocks, Panics, ReaderMove, mutex
    <3>2. pc[p] = "panic" /\ \A q \in Procs \ {p} : pc'[q] = pc[q]
      BY <3>1 DEF Goto, Shapes
    <3>3. p \notin asleep
      BY <3>2 DEF Sleepers, Asking
    <3> QED
      BY <3>1, <3>2, <3>3 DEF Sleepers, Awake, Shapes
  <2> QED
    BY <2>3, <2>4
<1>5. CASE \/ FileWritten \/ ReloadClears \/ ParseFails \/ Parses \/ CheckFails
           \/ ReloaderDies \/ Checks
  <2>1. UNCHANGED <<asleep, lost>>
    BY <1>5 DEF FileWritten, ReloadClears, ParseFails, Parses, CheckFails, ReloaderDies, Checks,
                ReloadMove, mutex
  <2>2. PICK from, to :
          /\ Goto(Reloader, from, to)
          /\ from \in {"idle", "clear", "parse", "check", "dying"}
          /\ from \notin {"idle", "dying"} => to \in {"parse", "failed", "check", "good"}
    BY <1>5 DEF FileWritten, ReloadClears, ParseFails, Parses, CheckFails, ReloaderDies, Checks,
                ReloadMove
  <2>3. from \notin Asking /\ (from \in Holding => to \in Holding)
    BY <2>2 DEF Asking, Holding
  <2> QED
    BY <1>0, <2>1, <2>2, <2>3, AwakeMoves
<1>6. CASE ReloadAsks \/ ReloadLocks \/ AsksAgain
  BY <1>0, <1>6, AwakeLocks DEF ReloadAsks, ReloadLocks, AsksAgain, Asking, Holding
<1>7. CASE ReloadIsReady \/ ReloadUnlocks \/ FailedUnlocks \/ ReadyAgain \/ CheckPanics
  BY <1>0, <1>7, AwakeUnlocks DEF ReloadIsReady, ReloadUnlocks, FailedUnlocks, ReadyAgain,
                                  CheckPanics,
                                  ReloadMove, Holding
<1>8. ASSUME NEW part \in {"mutex", "flags", "yaml"}, Restore(part)
      PROVE  Sleepers' /\ Awake'
  <2>1. pc[Reloader] = "restore"
    BY <1>8 DEF Restore, Reloading
  <2>2. asleep' = asleep /\ alive /\ (~lost' => ~lost)
    BY <1>8 DEF Restore
  <2>3. \A p \in Procs \ {Reloader} : pc'[p] = pc[p]
    BY <1>8 DEF Restore, Shapes
  <2>4. pc[Reloader] \notin Asking \cup Holding
    BY <2>1 DEF Asking, Holding
  <2> QED
    BY <1>0, <2>2, <2>3, <2>4 DEF Sleepers, Awake, Shapes
<1> QED
  BY Steps, <1>1, <1>2, <1>3, <1>4, <1>5, <1>6, <1>7, <1>8

(* No wake-up is lost: as long as no restore has replaced the mutex, a     *)
(* goroutine that sleeps on it has somebody awake in Lock or inside, whose *)
(* Unlock wakes it or another.  With the fairness of the runs this is what *)
(* EveryReaderAnswered needs; what a restore does to it is why that        *)
(* property leaves lost out (103).                                         *)
NoSleeperForgotten ==
    alive /\ ~lost =>
        /\ \A p \in asleep : pc[p] \in Asking
        /\ asleep # {} => \E p \in Procs \ asleep : pc[p] \in Asking \cup Holding

(* A sleeper always has somebody awake who will wake it or another.        *)
THEOREM SomebodyAwake == Spec => []NoSleeperForgotten
<1>1. Init => Sleepers /\ Awake
  BY DEF Init, Sleepers, Awake
<1>2. IInv /\ Sleepers /\ Awake /\ [Next]_vars => Sleepers' /\ Awake'
  BY AwakeStep
<1>3. Sleepers /\ Awake => NoSleeperForgotten
  BY DEF Sleepers, Awake, NoSleeperForgotten
<1> QED
  BY <1>1, <1>2, <1>3, Inductive, PTL DEF Spec

-----------------------------------------------------------------------------
(*               A reload never takes the configuration back               *)

(* The last configuration that passed its check is the one in force, or    *)
(* the one a reload under way will put back if it fails.                   *)
NewestIs(v) == v \in checked /\ \A w \in checked : w <= v
Newest ==
    /\ \A w \in checked : w <= reloads
    /\ pc[Reloader] \in {"idle", "asking", "isready", "lock2", "clear", "good", "again",
                         "recheck"} => NewestIs(yaml)
    /\ pc[Reloader] \in {"lock2", "clear", "parse", "check", "failed", "restore"}
          => NewestIs(bak)
    /\ pc[Reloader] \in {"parse", "check"} => yaml = reloads
    /\ pc[Reloader] = "restore" /\ "yaml" \notin restoring => NewestIs(yaml)

(* A step of a reader writes no configuration.                             *)
LEMMA NewestKeeps ==
    ASSUME Newest, UNCHANGED <<yaml, bak, checked, reloads, restoring>>,
           pc'[Reloader] = pc[Reloader]
    PROVE  Newest'
  BY DEF Newest, NewestIs

LEMMA NewestStep ==
    ASSUME Shapes, Places, Reloading, Newest, [Next]_vars
    PROVE  Newest'
<1>0. Reloader \in Procs /\ Reloader \notin Readers /\ Readers \subseteq Procs
  BY ConstantsAssumption DEF Procs
<1>1. CASE UNCHANGED vars
  BY <1>1, NewestKeeps DEF vars, flags
<1>2. ASSUME NEW p \in Readers,
             Ask(p) \/ ReadFlags(p) \/ ReadYaml(p) \/ ReaderUnlocks(p) \/ Panics(p)
      PROVE  Newest'
  <2>1. PICK from, to : ReaderMove(p, from, to)
    BY <1>2 DEF Ask, ReadFlags, ReadYaml, ReaderUnlocks, Panics
  <2>2. pc'[Reloader] = pc[Reloader]
    BY <1>0, <2>1 DEF ReaderMove, Goto, Shapes
  <2> QED
    BY <2>1, <2>2, NewestKeeps DEF ReaderMove, flags
<1>3. ASSUME NEW p \in Readers, ReaderLocks(p) PROVE Newest'
  <2>1. pc'[Reloader] = pc[Reloader]
    BY <1>0, <1>3 DEF ReaderLocks, LockOrSleep, Goto, Shapes
  <2> QED
    BY <1>3, <2>1, NewestKeeps DEF ReaderLocks, flags
<1>4. CASE FileWritten
  <2>1. /\ pc[Reloader] = "idle" /\ pc'[Reloader] = "asking"
        /\ reloads' = reloads + 1 /\ UNCHANGED <<yaml, checked>>
    BY <1>0, <1>4 DEF FileWritten, ReloadMove, Goto, Shapes, flags
  <2>2. \A w \in checked : w <= reloads + 1
    <3>1. reloads \in Nat /\ \A w \in checked : w \in Nat /\ w <= reloads
      BY ConstantsAssumption DEF Newest, Shapes
    <3> QED
      BY <3>1
  <2> QED
    BY <2>1, <2>2 DEF Newest, NewestIs
<1>5. CASE ReloadIsReady
  <2>1. /\ pc[Reloader] = "isready" /\ pc'[Reloader] = "lock2"
        /\ bak' = yaml /\ UNCHANGED <<yaml, checked, reloads>>
    BY <1>0, <1>5 DEF ReloadIsReady, ReloadMove, Goto, Shapes, flags
  <2> QED
    BY <2>1 DEF Newest, NewestIs
<1>6. CASE ReloadClears
  <2>1. /\ pc[Reloader] = "clear" /\ pc'[Reloader] = "parse"
        /\ yaml' = reloads /\ UNCHANGED <<bak, checked, reloads>>
    BY <1>0, <1>6 DEF ReloadClears, ReloadMove, Goto, Shapes
  <2> QED
    BY <2>1 DEF Newest, NewestIs
<1>7. CASE ParseFails \/ Parses \/ CheckFails \/ CheckPanics \/ ReloaderDies
  <2>1. /\ pc[Reloader] \in {"parse", "check", "dying"}
        /\ pc'[Reloader] \in {"check", "failed", "dying"}
        /\ pc'[Reloader] \in {"check", "failed"} => pc[Reloader] \in {"parse", "check"}
        /\ UNCHANGED <<yaml, bak, checked, reloads>>
    BY <1>0, <1>7 DEF ParseFails, Parses, CheckFails, CheckPanics, ReloaderDies, ReloadMove,
                      Goto, Shapes, flags
  <2> QED
    BY <2>1 DEF Newest, NewestIs
<1>8. CASE Checks
  <2>1. /\ pc[Reloader] = "check" /\ pc'[Reloader] = "good"
        /\ checked' = checked \cup {yaml} /\ UNCHANGED <<yaml, reloads>>
    BY <1>0, <1>8 DEF Checks, Goto, Shapes
  <2>2. yaml = reloads /\ reloads <= reloads
    BY <2>1, ConstantsAssumption DEF Newest, Shapes
  <2> QED
    BY <2>1, <2>2 DEF Newest, NewestIs
<1>9. CASE ReloadAsks \/ ReloadLocks \/ AsksAgain
  <2>1. /\ UNCHANGED <<yaml, bak, checked, reloads, restoring>>
        /\ \/ pc'[Reloader] = pc[Reloader]
           \/ pc[Reloader] = "asking" /\ pc'[Reloader] = "isready"
           \/ pc[Reloader] = "lock2" /\ pc'[Reloader] = "clear"
           \/ pc[Reloader] = "again" /\ pc'[Reloader] = "recheck"
    BY <1>0, <1>9 DEF ReloadAsks, ReloadLocks, AsksAgain, LockOrSleep, Goto, Shapes, flags
  <2> QED
    BY <2>1 DEF Newest, NewestIs
<1>10. CASE ReloadUnlocks \/ ReadyAgain
  <2>1. /\ UNCHANGED <<yaml, bak, checked, reloads, restoring>>
        /\ \/ pc[Reloader] = "good" /\ pc'[Reloader] = "again"
           \/ pc[Reloader] = "recheck" /\ pc'[Reloader] = "idle"
    BY <1>0, <1>10 DEF ReloadUnlocks, ReadyAgain, ReloadMove, Goto, Shapes, flags
  <2> QED
    BY <2>1 DEF Newest, NewestIs
<1>11. CASE FailedUnlocks
  <2>1. /\ UNCHANGED <<yaml, bak, checked, reloads>> /\ "yaml" \in restoring'
        /\ pc[Reloader] = "failed" /\ pc'[Reloader] = "restore"
    BY <1>0, <1>11 DEF FailedUnlocks, ReloadMove, Goto, Shapes, flags
  <2> QED
    BY <2>1 DEF Newest, NewestIs
<1>12. ASSUME NEW part \in {"mutex", "flags", "yaml"}, Restore(part) PROVE Newest'
  <2>1. pc[Reloader] = "restore"
    BY <1>12 DEF Restore, Reloading
  <2>2. /\ UNCHANGED <<bak, checked, reloads>> /\ restoring' = restoring \ {part}
        /\ pc'[Reloader] = IF restoring = {part} THEN "idle" ELSE "restore"
        /\ yaml' = IF part = "yaml" THEN bak ELSE yaml
    BY <1>0, <1>12, <2>1 DEF Restore, Shapes
  <2>3. part = "yaml" \/ "yaml" \notin restoring' => NewestIs(yaml')
    BY <2>1, <2>2 DEF Newest, NewestIs
  <2>4. restoring = {part} => part = "yaml" \/ "yaml" \notin restoring'
    BY <2>2
  <2> QED
    BY <2>1, <2>2, <2>3, <2>4 DEF Newest, NewestIs
<1> QED
  BY Steps, <1>1, <1>2, <1>3, <1>4, <1>5, <1>6, <1>7, <1>8, <1>9, <1>10, <1>11, <1>12

(* A reader leaves GetConfig with the newest configuration that has passed *)
(* its check: while it is inside no reload is, so what it has read is      *)
(* current when it unlocks.  It is never handed an older one than another  *)
(* reader has had, failed reloads included, unless a restore ran meanwhile *)
(* or has replaced the mutex.                                              *)
ReadersGetNewest ==
    alive /\ ~lost => \A p \in Readers \ torn : pc[p] = "unlock" => NewestIs(got[p])

(* Whoever is inside and has not met a restore finds the newest in Yaml,   *)
LEMMA InsideNewest ==
    ASSUME IInv, Newest, alive, ~lost, NEW p \in Readers, pc[p] = "yaml",
           restoring = {}
    PROVE  NewestIs(yaml)
<1>1. p \in Procs /\ Reloader \in Procs /\ p # Reloader
  BY ConstantsAssumption DEF Procs
<1>2. pc[Reloader] \notin Holding
  BY <1>1 DEF IInv, Exclusive, Mutex, Holding
<1>3. pc[Reloader] \in {"idle", "asking", "lock2", "again"}
  BY <1>1, <1>2 DEF IInv, DyingShut, Shapes, Places, Asking, Holding, Reloading
<1> QED
  BY <1>3 DEF Newest

(* ... and keeps what it has found until it unlocks.                       *)
LEMMA NewestRead ==
    ASSUME IInv, IInv', Newest, ReadersGetNewest, [Next]_vars
    PROVE  ReadersGetNewest'
<1> SUFFICES ASSUME alive', ~lost', NEW p \in Readers, p \notin torn', pc'[p] = "unlock"
             PROVE  NewestIs(got[p])'
  BY DEF ReadersGetNewest
<1>0. p \in Procs /\ Reloader \in Procs /\ Readers \subseteq Procs /\ p # Reloader
  BY ConstantsAssumption DEF Procs
<1>1. alive /\ ~lost
  BY MemoryStep
<1>2. CASE ReadYaml(p)
  <2>1. restoring = {} /\ pc[p] = "yaml" /\ checked' = checked
    BY <1>2 DEF ReadYaml, ReaderMove, Goto, Overlaps
  <2>2. got'[p] = yaml
    BY <1>2 DEF ReadYaml, IInv, Shapes
  <2> QED
    BY <1>1, <2>1, <2>2, InsideNewest DEF NewestIs
<1>3. CASE ~ReadYaml(p)
  <2>1. pc[p] = "unlock" /\ got'[p] = got[p] /\ p \notin torn
    <3>1. CASE UNCHANGED vars
      BY <3>1 DEF vars
    <3>2. ASSUME NEW q \in Readers,
                 Ask(q) \/ ReadFlags(q) \/ ReadYaml(q) \/ ReaderUnlocks(q) \/ Panics(q)
          PROVE  pc[p] = "unlock" /\ got'[p] = got[p] /\ p \notin torn
      <4>1. q # p
        BY <1>3, <3>2 DEF Ask, ReadFlags, ReadYaml, ReaderUnlocks, Panics, ReaderMove,
                          Goto, IInv, Shapes, Procs
      <4>2. pc'[p] = pc[p]
        <5>1. PICK from, to : ReaderMove(q, from, to)
          BY <3>2 DEF Ask, ReadFlags, ReadYaml, ReaderUnlocks, Panics
        <5> QED
          BY <1>0, <4>1, <5>1 DEF ReaderMove, Goto, IInv, Shapes
      <4>3. torn \ {q} \subseteq torn' /\ got'[p] = got[p]
        BY <3>2, <4>1 DEF Ask, ReadFlags, ReadYaml, ReaderUnlocks, Panics, Overlaps,
                          IInv, Shapes
      <4> QED
        BY <4>1, <4>2, <4>3
    <3>3. ASSUME NEW q \in Readers, ReaderLocks(q)
          PROVE  pc[p] = "unlock" /\ got'[p] = got[p] /\ p \notin torn
      <4>1. torn \subseteq torn' /\ got' = got
        BY <3>3 DEF ReaderLocks, Overlaps
      <4>2. pc'[p] = pc[p]
        BY <1>0, <3>3 DEF ReaderLocks, LockOrSleep, Goto, IInv, Shapes
      <4> QED
        BY <4>1, <4>2
    <3>4. CASE \/ FileWritten \/ ReloadClears \/ ParseFails \/ Parses \/ CheckFails
               \/ ReloaderDies
               \/ ReloadIsReady \/ ReloadUnlocks \/ FailedUnlocks \/ ReadyAgain \/ CheckPanics
      <4>1. PICK from, to : ReloadMove(from, to)
        BY <3>4 DEF FileWritten, ReloadClears, ParseFails, Parses, CheckFails, ReloaderDies,
                    ReloadIsReady, ReloadUnlocks, FailedUnlocks, ReadyAgain, CheckPanics
      <4> QED
        BY <1>0, <4>1 DEF ReloadMove, Goto, IInv, Shapes
    <3>5. CASE Checks
      BY <1>0, <3>5 DEF Checks, Goto, IInv, Shapes
    <3>6. CASE ReloadAsks \/ ReloadLocks \/ AsksAgain
      BY <1>0, <3>6 DEF ReloadAsks, ReloadLocks, AsksAgain, LockOrSleep, Goto, IInv, Shapes
    <3>7. CASE \E part \in {"mutex", "flags", "yaml"} : Restore(part)
      BY <3>7 DEF Restore, IInv, Shapes
    <3> QED
      BY Steps, <3>1, <3>2, <3>3, <3>4, <3>5, <3>6, <3>7
  <2>2. checked' = checked
    <3>1. pc[Reloader] # "check"
      BY <1>0, <1>1, <2>1 DEF IInv, Exclusive, Mutex, Holding
    <3>2. ~Checks
      BY <3>1 DEF Checks, Goto
    <3> QED
      BY Steps, <3>2 DEF vars, Ask, ReaderLocks, ReadFlags, ReadYaml, ReaderUnlocks,
         Panics, ReaderMove, FileWritten, ReloadClears, ParseFails, Parses, CheckFails,
         ReloaderDies,
         ReloadAsks, ReloadLocks, AsksAgain, ReloadIsReady, ReloadUnlocks, FailedUnlocks,
         ReadyAgain, CheckPanics, ReloadMove, Restore
  <2> QED
    BY <1>1, <2>1, <2>2 DEF ReadersGetNewest, NewestIs
<1> QED
  BY <1>2, <1>3

(* Without a restore, GetConfig returns what was checked last.             *)
THEOREM NewestOnly == Spec => []ReadersGetNewest
<1>1. Init => Newest /\ ReadersGetNewest
  BY ConstantsAssumption DEF Init, Newest, NewestIs, ReadersGetNewest, Procs
<1>2. IInv /\ IInv' /\ Newest /\ ReadersGetNewest /\ [Next]_vars
        => Newest' /\ ReadersGetNewest'
  BY NewestStep, NewestRead DEF IInv
<1> QED
  BY <1>1, <1>2, Inductive, PTL DEF Spec
=============================================================================
