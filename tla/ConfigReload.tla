---------------------------- MODULE ConfigReload ----------------------------
(***************************************************************************)
(* The configuration and its reload: src/config/config.go, main.go,        *)
(* yamlconfig.go and config/watcher/watcher.go.  One goroutine reloads the *)
(* file when it has been written; accept loops, the consumer, the network  *)
(* watcher and the cleaner call GetConfig whenever they need it.  Go's     *)
(* mutex is modelled with its sleepers, because a failed reload assigns    *)
(* over it.                                                                *)
(***************************************************************************)
EXTENDS Naturals, FiniteSets

CONSTANTS
    Readers,      \* goroutines that call GetConfig
    Recovering,   \* those that call it inside a recover: statistics loop, cleaner
    Exposed,      \* those that call it outside of any: all but the cleaner
    Reloader,     \* the goroutine of WatcherConfigFile
    NoVersion,    \* no configuration returned
    MaxReloads    \* bound: how often the file is written

ASSUME ConstantsAssumption ==
    /\ IsFiniteSet(Readers) /\ Recovering \cup Exposed = Readers /\ Reloader \notin Readers
    /\ MaxReloads \in Nat /\ NoVersion \notin Nat

VARIABLES
    locked,    \* ConfigLock is locked, as far as the mutex knows
    waiters,   \* how many sleepers the mutex knows of
    asleep,    \* the goroutines that sleep on it
    configReady, yamlHasParser,   \* the two flags
    yaml,      \* the YamlConfig Yaml points to: one per reload, 0 from Init
    bak,       \* Reload's copy of Yaml
    checked,   \* the configurations that passed check
    reloads,   \* how many YamlConfigs have been made by reloads
    pc,        \* pc[p]: where a reader is in GetConfig, the reloader in Reload
    got,       \* got[p]: what GetConfig returned to p last
    restoring, \* the parts of the structure the restore has yet to assign
    alive,     \* the process has not crashed
    torn,      \* history: readers whose GetConfig overlaps with a restore
    lost       \* history: a restore has replaced the mutex while it was in use

mutex == <<locked, waiters, asleep>>
flags == <<configReady, yamlHasParser, yaml>>
vars  == <<mutex, flags, bak, checked, reloads, pc, got, restoring, alive, torn, lost>>

Procs   == Readers \cup {Reloader}
Asking  == {"lock", "asking", "lock2", "again"}  \* before Lock, or after being woken
Holding == {"flags", "yaml", "unlock", "panic",
            "isready", "clear", "parse", "check", "failed", "good", "recheck"}

Init ==
    /\ locked = FALSE /\ waiters = 0 /\ asleep = {}
    /\ configReady = TRUE /\ yamlHasParser = TRUE /\ yaml = 0
    /\ bak = 0 /\ checked = {0} /\ reloads = 0
    /\ pc = [p \in Procs |-> "idle"]
    /\ got = [p \in Readers |-> NoVersion]
    /\ restoring = {} /\ alive = TRUE /\ torn = {} /\ lost = FALSE

-----------------------------------------------------------------------------
(*                          Go's mutex                                     *)

Goto(p, from, to) == alive /\ pc[p] = from /\ pc' = [pc EXCEPT ![p] = to]

(* Lock: take it, or go to sleep as one more waiter.                       *)
LockOrSleep(p, from, to) ==
    /\ p \notin asleep
    /\ IF locked
       THEN /\ Goto(p, from, from)
            /\ asleep' = asleep \cup {p} /\ waiters' = waiters + 1
            /\ UNCHANGED locked
       ELSE /\ Goto(p, from, to)
            /\ locked' = TRUE
            /\ UNCHANGED <<waiters, asleep>>

(* Unlock wakes one sleeper if it knows of any; unlocking a mutex that is  *)
(* not locked is a fatal error nobody can recover from.                    *)
Unlocks ==
    /\ locked' = FALSE
    /\ alive' = locked
    /\ IF waiters > 0 /\ asleep # {}
       THEN /\ waiters' = waiters - 1
            /\ \E p \in asleep : asleep' = asleep \ {p}
       ELSE UNCHANGED <<waiters, asleep>>

-----------------------------------------------------------------------------
(*                              GetConfig                                  *)

Overlaps(p) == torn' = IF restoring # {} THEN torn \cup {p} ELSE torn

ReaderMove(p, from, to) ==
    /\ Goto(p, from, to)
    /\ UNCHANGED <<flags, bak, checked, reloads, restoring, lost>>

Ask(p) ==
    /\ ReaderMove(p, "idle", "lock")
    /\ torn' = torn \ {p}
    /\ got' = [got EXCEPT ![p] = NoVersion]
    /\ UNCHANGED <<mutex, alive>>

ReaderLocks(p) ==
    /\ pc[p] = "lock"
    /\ LockOrSleep(p, "lock", "flags")
    /\ UNCHANGED <<flags, bak, checked, reloads, restoring, lost, got, alive>>
    /\ Overlaps(p)

ReadFlags(p) ==
    /\ ReaderMove(p, "flags", IF yamlHasParser /\ configReady THEN "yaml" ELSE "panic")
    /\ Overlaps(p)
    /\ UNCHANGED <<mutex, got, alive>>

ReadYaml(p) ==
    /\ ReaderMove(p, "yaml", "unlock")
    /\ got' = [got EXCEPT ![p] = yaml]
    /\ Overlaps(p)
    /\ UNCHANGED <<mutex, alive>>

ReaderUnlocks(p) ==
    /\ ReaderMove(p, "unlock", "idle")
    /\ Unlocks
    /\ UNCHANGED <<got, torn>>

(* The panic unlocks on its way out.  accept recovers it only to run into  *)
(* a nil error (server.go 366, SSH 387); the consumer (group.go 180) and   *)
(* the collecting loop (watcher.go 207) have no recover.  The statistics   *)
(* loop recovers in its rounds (247, 281), not where it waits (341).       *)
Panics(p) ==
    /\ ReaderMove(p, "panic", "idle")
    /\ \/ p \in Recovering /\ Unlocks
       \/ p \in Exposed /\ alive' = FALSE /\ UNCHANGED mutex
    /\ UNCHANGED <<got, torn>>

-----------------------------------------------------------------------------
(*                               Reload                                    *)

ReloadMove(from, to) ==
    /\ Goto(Reloader, from, to)
    /\ UNCHANGED <<checked, got, torn, lost>>

(* The file has been written or created: ReloadConfig calls Reload.        *)
FileWritten ==
    /\ reloads < MaxReloads
    /\ ReloadMove("idle", "asking")
    /\ reloads' = reloads + 1
    /\ UNCHANGED <<mutex, flags, bak, restoring, alive>>

(* c.IsReady().                                                            *)
ReloadAsks ==
    /\ LockOrSleep(Reloader, "asking", "isready")
    /\ UNCHANGED <<flags, bak, checked, reloads, restoring, lost, got, alive, torn>>

ReloadIsReady ==
    /\ yamlHasParser /\ configReady
    /\ ReloadMove("isready", "lock2")
    /\ Unlocks
    /\ bak' = yaml
    /\ UNCHANGED <<flags, reloads, restoring>>

(* Slip: Reload does not take the lock.                                    *)
ReloadLocksNot ==
    /\ ReloadMove("lock2", "clear")
    /\ UNCHANGED <<mutex, flags, bak, reloads, restoring, alive>>

ReloadLocks ==
    /\ LockOrSleep(Reloader, "lock2", "clear")
    /\ UNCHANGED <<flags, bak, checked, reloads, restoring, lost, got, alive, torn>>

(* Slip: the new YamlConfig is forgotten.                                  *)
ReloadClearsOnly ==
    /\ ReloadMove("clear", "parse")
    /\ configReady' = FALSE /\ yamlHasParser' = FALSE
    /\ yaml' = NoVersion
    /\ UNCHANGED <<mutex, bak, reloads, restoring, alive>>

(* clear() and the new, empty YamlConfig.                                  *)
ReloadClears ==
    /\ ReloadMove("clear", "parse")
    /\ configReady' = FALSE /\ yamlHasParser' = FALSE
    /\ yaml' = reloads
    /\ UNCHANGED <<mutex, bak, reloads, restoring, alive>>

(* The file is read while it is written, or is no YAML.                    *)
ParseFails ==
    /\ ReloadMove("parse", "failed")
    /\ UNCHANGED <<mutex, flags, bak, reloads, restoring, alive>>

Parses ==
    /\ ReloadMove("parse", "check")
    /\ yamlHasParser' = TRUE
    /\ UNCHANGED <<mutex, configReady, yaml, bak, reloads, restoring, alive>>

CheckFails ==
    /\ ReloadMove("check", "failed")
    /\ UNCHANGED <<mutex, flags, bak, reloads, restoring, alive>>

(* An item of one of the file's lists is null: SetDefault, or else check,  *)
(* dereferences nil.  The deferred Unlock runs; err is still nil, so the   *)
(* restore does not; nobody recovers on the way out of WatcherConfigFile.  *)
CheckPanics ==
    /\ ReloadMove("check", "dying")
    /\ Unlocks
    /\ UNCHANGED <<flags, bak, reloads, restoring>>

(* The watcher's deferred calls have run: the panic ends the process.      *)
ReloaderDies ==
    /\ ReloadMove("dying", "dying")
    /\ alive' = FALSE
    /\ UNCHANGED <<mutex, flags, bak, reloads, restoring>>

(* Slip: a configuration is ready although its check failed.               *)
CheckIgnored ==
    /\ Goto(Reloader, "check", "good")
    /\ configReady' = TRUE
    /\ UNCHANGED <<mutex, yamlHasParser, yaml, bak, checked, reloads, got, restoring,
                   alive, torn, lost>>

Checks ==
    /\ Goto(Reloader, "check", "good")
    /\ configReady' = TRUE
    /\ checked' = checked \cup {yaml}
    /\ UNCHANGED <<mutex, yamlHasParser, yaml, bak, reloads, got, restoring, alive, torn, lost>>

(* Slip: a successful Reload returns without Unlock.                       *)
ReloadKeepsLock ==
    /\ ReloadMove("good", "idle")
    /\ UNCHANGED <<mutex, flags, bak, reloads, restoring, alive>>

ReloadUnlocks ==
    /\ ReloadMove("good", "again")
    /\ Unlocks
    /\ UNCHANGED <<flags, bak, reloads, restoring>>

(* ReloadConfig asks IsReady once more after a Reload that succeeded.      *)
AsksAgain ==
    /\ LockOrSleep(Reloader, "again", "recheck")
    /\ UNCHANGED <<flags, bak, checked, reloads, restoring, lost, got, alive, torn>>

ReadyAgain ==
    /\ ReloadMove("recheck", "idle")
    /\ Unlocks
    /\ UNCHANGED <<flags, bak, reloads, restoring>>

(* Slip: the restore forgets the flags.                                    *)
FailedUnlocksYamlOnly ==
    /\ ReloadMove("failed", "restore")
    /\ Unlocks
    /\ restoring' = {"mutex", "yaml"}
    /\ UNCHANGED <<flags, bak, reloads>>

(* The deferred Unlock runs first, the restore, deferred before it, after. *)
FailedUnlocks ==
    /\ ReloadMove("failed", "restore")
    /\ Unlocks
    /\ restoring' = {"mutex", "flags", "yaml"}
    /\ UNCHANGED <<flags, bak, reloads>>

(* *c = ConfigStruct{...} is no atomic assignment and nothing orders its   *)
(* parts for those who read meanwhile; the mutex is replaced by a free one *)
(* that knows of no sleeper.                                               *)
Restore(part) ==
    /\ alive
    /\ part \in restoring
    /\ restoring' = restoring \ {part}
    /\ pc' = [pc EXCEPT ![Reloader] = IF restoring = {part} THEN "idle" ELSE @]
    /\ locked' = (locked /\ part # "mutex")
    /\ waiters' = IF part = "mutex" THEN 0 ELSE waiters
    /\ lost' = (lost \/ (part = "mutex" /\ (locked \/ asleep # {})))
    /\ torn' = torn \cup {p \in Readers : pc[p] # "idle"}
    /\ IF part = "flags" THEN configReady' = TRUE /\ yamlHasParser' = TRUE
                         ELSE UNCHANGED <<configReady, yamlHasParser>>
    /\ yaml' = IF part = "yaml" THEN bak ELSE yaml
    /\ UNCHANGED <<asleep, bak, checked, reloads, got, alive>>

-----------------------------------------------------------------------------
GetConfig(p) == ReaderLocks(p) \/ ReadFlags(p) \/ ReadYaml(p) \/ ReaderUnlocks(p) \/ Panics(p)

Reload ==
    \/ ReloadAsks \/ ReloadIsReady \/ ReloadLocks \/ ReloadClears \/ ParseFails \/ Parses
    \/ CheckFails \/ CheckPanics \/ ReloaderDies \/ Checks \/ ReloadUnlocks
    \/ FailedUnlocks \/ AsksAgain \/ ReadyAgain
    \/ \E part \in {"mutex", "flags", "yaml"} : Restore(part)

Next == FileWritten \/ Reload \/ \E p \in Readers : Ask(p) \/ GetConfig(p)

Spec == Init /\ [][Next]_vars

(* Goroutines that can go on do; nobody has to ask or to write the file.   *)
(* A goroutine that has been woken gets the mutex in the end: Go's mutex   *)
(* hands it over after a millisecond of waiting.                           *)
Fairness ==
    /\ WF_vars(Reload) /\ SF_vars(ReloadAsks /\ ~locked) /\ SF_vars(ReloadLocks /\ ~locked)
    /\ SF_vars(AsksAgain /\ ~locked)
    /\ \A p \in Readers : WF_vars(GetConfig(p)) /\ SF_vars(ReaderLocks(p) /\ ~locked)

FairSpec == Spec /\ Fairness

-----------------------------------------------------------------------------
(*                              Properties                                 *)

Inside == {p \in Procs : pc[p] \in Holding}

(* The mutex excludes, and it is locked exactly when somebody is inside,   *)
(* until a restore replaces it.                                            *)
LockWorks ==
    /\ Cardinality(Inside) <= 1
    /\ locked <=> Inside # {}
    /\ waiters = Cardinality(asleep)

(* The types of the structure, its mutex and the goroutines, and what the  *)
(* mutex is for.                                                           *)
TypeOK ==
    /\ locked \in BOOLEAN /\ waiters \in 0 .. Cardinality(Procs) /\ asleep \subseteq Procs
    /\ configReady \in BOOLEAN /\ yamlHasParser \in BOOLEAN
    /\ {yaml, bak, reloads} \cup checked \subseteq 0 .. MaxReloads
    /\ pc \in [Procs -> Asking \cup Holding \cup {"idle", "restore", "dying"}]
    /\ got \in [Readers -> 0 .. MaxReloads \cup {NoVersion}]
    /\ restoring \subseteq {"mutex", "flags", "yaml"}
    /\ torn \subseteq Readers /\ lost \in BOOLEAN
    /\ alive /\ ~lost => LockWorks

(* Between two reloads the configuration is ready and is one that passed   *)
(* its check, whether the last reload succeeded or failed (84-142).        *)
IdleMeansReady ==
    alive /\ pc[Reloader] \in {"idle", "again", "asking", "isready", "lock2", "clear"} =>
        configReady /\ yamlHasParser /\ yaml \in checked

(* GetConfig never hands out a configuration that has not passed its check *)
(* -- except to a reader that overlaps with the restore of a failed reload *)
(* and sees its flags before its Yaml, and once a restore has replaced a   *)
(* mutex in use, which then lets a reader and the next Reload in (103).    *)
ReadersSeeChecked ==
    \A p \in Readers : got[p] # NoVersion => got[p] \in checked \/ p \in torn \/ lost

(* What a reload can do to the process.  One whose check panics on a null  *)
(* item (tcpconfig.go 11-13) ends it.  Any other ends it only if it failed:*)
(* by a panic of a reader that finds the configuration not ready between   *)
(* the Unlock and the restore, or by an Unlock of the mutex the restore    *)
(* has replaced (101-115).                                                 *)
DiesOnlyOfReload ==
    [][alive /\ ~alive' =>
          \/ pc[Reloader] = "dying"
          \/ lost \/ \E p \in torn : pc[p] = "panic"]_vars

(* Whoever asks for the configuration gets it, unless the process dies, or *)
(* the mutex it sleeps on is replaced and forgets its sleepers.            *)
EveryReaderAnswered ==
    \A p \in Readers : (pc[p] = "lock") ~> (pc[p] # "lock" \/ ~alive \/ lost)
=============================================================================
