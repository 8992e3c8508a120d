# Huan-Springboard: TLA+ models and proofs

Huan-Springboard (Go, `src/`) is a TCP port forwarder. It listens on configured
ports, checks the remote address of each client against rules, and copies bytes
to a destination, with or without the PROXY protocol. A network watcher measures
one interface; on a long overload the TCP forwarders are shut and, when the
network is calm again, restarted. SSH forwards are counted per client in SQLite and a
client that tries too often is banned in Redis. Paths below are relative to `src/src/`.

## Inventory

| component | state | operations | interacts with |
|---|---|---|---|
| forwarding server, `tcpserver/server.go` | status, `ln4`/`ln6`, `stopchan`, registry `allconn`, `swg` | Start, one accept loop per listener, accept, forward, Stop and the sweep it leaves behind | group (controller), kernel |
| server group, `tcpserver/group.go` | status, map `servers`, `acceptStatus` (the gate), `stopAcceptTime`, `ifaceNotify` | Start, Stop, StartAllServers, StopAllServers, RestartAllServers, the consumer loop, RemoteAddrCheck | servers, netwatcher, main, notify |
| SSH server and group, `sshserver/` | as above without consumer; the records of connections | as above, CountRulesCheck | database, redisserver |
| network watcher, `netwatcher/watcher.go` | status, `stopchan`, `notices` | collect loop, statistics loop, AddNotice, Stop | database, group |
| database, `database/` | SQLite tables (interface and SSH records, ban tables) and the cleaner's status and `swg` | add, find, update, clean | everyone |
| redisserver | ban keys with a time to live, location cache | SetSSHIpBanned, QuerySSHIpBanned, QueryIpLocation | SSH and TCP checks |
| configuration, `config/` | the YAML structure, ready flags, a mutex | InitConfig, Reload (from the file watcher), GetConfig | everyone |
| main, `mainfunc/huanspringboard/v1.go` | the stack of deferred calls | start of all parts, signal, early stops, deferred stops | everyone |
| api/apiip, ipcheck, notify, smtpserver, wxrobot, logger, flagparser, utils, network | next to none | external queries, messages, parsing | |

What is hard, and which property of the components it makes worth stating:

* **Ownership of sockets.** accept hands `conn` and `target` to a forward goroutine by
  setting its own variables to nil; deferred calls close what is left. Correct: every
  open socket has exactly one owner.
* **The registry and the sweep.** `allconn` is keyed by remote address, forwards delete by
  key, Stop sweeps (Range) and clears in two steps, ten seconds after it was called, while
  loops may still hand over connections. Correct: the sweep reaches all that were there.
* **Stop without waking Accept.** `close(stopchan)` is noticed only between two calls of
  Accept. Correct: one more connection at most, then the port is free.
* **WaitGroups incremented by the goroutine they count** (`server.go:269`, `group.go:125`,
  `clean.go:54,90,117`): Wait can return early, and an Add in the moment a Wait is released panics.
* **Who ends what.** The sweep closes the client's side of a forward only; a list item that is null, a counter reset,
  a row the cleaner deletes inside a rule's window: each is a case one part leaves to another.
* **Five goroutines on one status word**: main's two Stops, the consumer, and the goroutines the
  consumer starts to stop and restart the group, while notifications arrive in any order.
  Correct: no server serves out of the reach of the map, the gate agrees with its clock, after
  the overload the group runs, after main's last Stop it is Finished.
* **Two-step updates of shared stores**: the Redis ban (TTL, then Set), the count of
  attempts (read, then record), the reload of the configuration (unlock, then restore).
* **Boundaries**: counter wrap-around and a zero span in the watcher, windows and limits in
  the count rules.

`PROJECT.json` lists every hazard with its line and the properties that cover it.

## Modules

| module | models |
|---|---|
| `ServerContract` | what one forwarding server promises, without its goroutines |
| `ServerLife` | the same server as its group sees it: from Start to the last listener, without connections |
| `ForwardServer` | `tcpserver/server.go`, goroutine by goroutine; refines `ServerContract` and `ServerLife` |
| `TcpGroup` | `tcpserver/group.go` with main and the watcher as its environment; each of its servers refines `ServerLife` |
| `SshGate` | the count rules of `sshserver/group.go` with accept of `sshserver/server.go`, the ban in `redisserver/ssh.go` and the rows of `database/db.go` |
| `SshServer` | `sshserver/server.go`: the actions of `ForwardServer` with the row of each connection and the cleaner |
| `AddrCheck` | `RemoteAddrCheck` of both groups, with the ban tables, the location and the rules it asks |
| `NetWatcher` | `netwatcher/watcher.go` with its table, the kernel's counters and one subscriber's filter |
| `ConfigReload` | `config/config.go` and `config/watcher/watcher.go`: GetConfig against Reload, with Go's mutex |
| `Lifecycle` | `mainfunc/huanspringboard/v1.go` and `database/clean.go`: starts, signal, deferred calls, and who uses the database when it closes |
| `ForwardServerProofs`, `SshServerProofs`, `TcpGroupProofs`, `SshGateProofs`, `AddrCheckProofs`, `ConfigReloadProofs`, `LifecycleProofs`, `NetWatcherProofs` | theorems about the module of that name |
| `MCForwardServer`, `MCTcpGroup`, `MCSshGate`, `MCSshServer`, `MCNetWatcher`, `MCConfigReload`, `MCLifecycle` | instances for TLC; `MCSshGate` puts `AddrCheck` before `SshGate` |

`SshServer` extends `ForwardServer` and conjoins rows to its actions; `TcpGroup` sees of a server what
`ServerLife` shows, which joins the two models: `ForwardServer` does nothing that `ServerLife` excludes, nor do the
servers of `TcpGroup`; of the watcher, `TcpGroup` has the notifications and `NetWatcher` how they come about.

### ForwardServer

`starter`, `loop[f]`, `fwd[c]`, `stopper` and `killer` are the program counters of the
goroutines: the caller of Start, the accept loop of `tcp4` and of `tcp6`, one forward per
connection, the caller of Stop, and the goroutine that sweeps. `ln`, `stopchan`, `allconn`
and `status` are the fields of `TcpServer`; `sock` and `target` are the sockets. The
deferred calls of an early return are part of the action that returns (`DropCur`). `Accept`
takes a queued connection, `AcceptError` stands for every error of Accept (the loop goes on);
`Deny`, `Admit`, `DialFails` and `HeaderFails` are the outcomes of the checks, whose reasons
do not matter here. `config` fixes which listeners exist and
which of them speak the PROXY protocol, from the values `TcpForwardConfig.check` lets
through. Only a PROXY header makes two live connections share a remote address (`AddrFree`).
The two `io.Copy` goroutines of a forward are one program counter: `copying`, when an end of the client's side wakes
both, or `stalled`, when one of them waits for a target that neither takes nor sends anything. `Stalls` and `StallEnds`
go from one to the other whenever the target does; `PeerEnds` ends either, `CopyCut` only a forward that copies, since the
sweep closes the client's connection and never the target's (`server.go:239-247`).
`late` and `lastcall` are history variables that no guard reads.

### TcpGroup

A server is what `ForwardServer` shows of it from outside (`srv[i]`): made, failed, serving, halting
(stopped, port still held), halted. `Families` says where it listens. `Start` listens on tcp4 before tcp6, so on a port
with both it can fail with the tcp4 listener open (`leaking`, `FailsAs`); Stop declines such a server, and the listener stays
until nothing refers to the server and the garbage collector closes it (`Collected`). A server on IPv6 alone never heeds a
Stop (`HeedsStop`). Server `<<p, n>>` is the one the n-th run of
StartAllServers makes for port p. `Threads` are main and the goroutines the consumer
starts; the status word is changed by one CAS per action, and everything between
two of them (Store, bind, Range, Clear, Wait) is a step of its own. `inbox` counts the notifications
waiting and forgets their order, because each is sent by its own goroutine. Samples the consumer
skips (short span, good but not over the full span) are left out. A reload of the configuration
between two starts is not modelled: `Ports` stays the same. Neither is the panic of `wg.Add` (125), which `Lifecycle` has.

### SshGate

One client tries one target; `Loops` are the accept loops of the SSH forwards to it (several ports may
forward to one target), each with its own count rules or the default policy. `pc[l]` follows one attempt through
accept, `CountRulesCheck` (`Query`, then `Pass` or `Hit`), `SetSSHIpBanned` (`TTL`, then `Set`) and the
recording (`Deny`, `Admit`). `records` holds the times of all rows ever written, `purged` those that the cleaner has deleted
(`Clean`, everything older than `Retention`), `held` those whose forward has still to save them, which may bring a purged
row back (`ForwardEnds`). Nothing but the time of a row is read. No rule's window need fit into `Retention`: the
configuration does not compare the two.
`Found` is the SQL query, oldest rows first and cut at `Limit`; `Counted` is `_countRulesCheck`, its index
that stays 0 included. `bannedUntil` is the Redis key with its time to live; keys without one are set only by
hand and left out. Whatever else may refuse a client (location tables, rules, dialling) is `Refuse`. `overtaken`
and `served` are history variables. Times are small integers and the default policy (5 attempts,
180 s, limit 10) is scaled down by a constant; the model needs only that its limit exceeds its count, and that a list of
rules is sorted as the check of the configuration demands (`Sorted`): it rejects the others.

### SshServer

`sshserver/server.go` repeats the listeners, loops, registry and Stop of `tcpserver/server.go` line for line, so
`Listening`, `Launching`, `LoopPlain`, `AcceptSsh`, `Forwarding` and `Stopping` are the actions of `ForwardServer`.
`row[c]` is the connection's row in `ssh_connect_record` ("claimed": a row with accept = true for a connection that
was dropped, lines 444-449), `rec[c]` the record its forward holds. `HandOverSaved` needs the row; `Update` is
`forward`'s first deferred call, hence its last deed, for a duplicate too. `Saves` is GORM's Save by primary key, which
inserts a row that the cleaner has deleted (`CleanRow`). Rows of refused attempts are `SshGate`'s.

### AddrCheck

One check of one client: `ask` is the service, the kind of address and what the ban tables, Redis and the API hold
about it; `step` follows RemoteAddrCheck. The configuration is read anew at each step, `Reload` may change it in
between. A text is a set of letters, so that equality and `strings.Contains` can be told apart; whether a rule's addresses match
is the set `ips`. `CheckCount` is what `SshGate` decides. `Documented` is the decision as `src/README.md` (62-85) tells
it, written without the steps; `Departs` lists the five cases in which the code decides otherwise (see Findings).

### NetWatcher

`collector` and `stats` are the two loops, `closer` the goroutine that passes a stop on to both, `senders` the
goroutines blocked on a channel. The statistics' three queries are steps of their own, between which
the collecting loop and the cleaner go on. A row carries, beside the counters, the bytes that really went through
(`moved`) and how often the counters were reset: history that no guard reads. Counters are taken modulo `Width`, rates rounded
up, 0/0 gives any verdict. A tick is the unit of time; a round that fails or finds no fresh row leaves no trace and is
left out. The channel is reduced to how many samples it holds. Its reader ends when the channel is closed (`ReaderEnds`)
or when its own group is stopped (`ReaderStopped`: `ifaceNotifyStopchan`, `tcpserver/group.go:104,224`), of which the watcher
knows nothing.

### ConfigReload

`pc[p]` is where a reader is in GetConfig, and the file watcher's goroutine in Reload. The mutex is modelled with its
sleepers: `Unlocks` wakes one it knows of, unlocking a free mutex kills the process. A failing Reload runs its
deferred calls, Unlock first (`FailedUnlocks`), then the assignment of the whole structure (`Restore`), whose parts become
visible in any order and one of which is a fresh mutex. A YAML structure is the number of the reload that made it;
`checked` are those that passed their check. A reload whose file has a null list item panics (`CheckPanics`) with the lock
released and the restore left out, and a step later ends the process (`ReloaderDies`). A panic in GetConfig ends
the process too except where it is recovered: in the cleaner, and in the rounds of the statistics loop, which calls
GetConfig once more where it waits, outside of any recover (`netwatcher/watcher.go:341`), and so is both `Recovering` and
`Exposed` (in accept the deferred function recovers and then calls `err.Error()` on a nil error, `tcpserver/server.go:366`,
`sshserver/server.go:384`).

### Lifecycle

`at` is MainV1's next start, `deferred` its deferred calls, `stop[r]` how far the Stop of a component has come. A
failing start unwinds, or calls `os.Exit` (flags, configuration, file watcher). The cleaner is modelled in full with its
WaitGroup, and so is StopAllServers of both groups: `group[g]` is where it is, `helper[s]` the goroutine it starts for the
server `s`, which adds itself to the group's WaitGroup and leaves it when that server's Stop returns. `late` are those who
join a WaitGroup whose Wait is over, and an Add in the moment Wait is released panics, as Go's does: before the goroutine
has deferred its recover (`sshserver/group.go:102`, `tcpserver/group.go:125`). `Overload` is the stop of the TCP group that
the consumer starts, instead of main; what comes after it, restarts included, is `TcpGroup`'s. An SSH connection is
counted by its server's WaitGroup until it leaves and then saves its row, which nobody waits for. Nothing makes a
connection leave: `ForwardServer` shows which ones the sweep ends. Of the network watcher only what touches the
database remains. Sleeping synchronises nothing here: the second that
`netwatcher.Stop` and main sleep makes the late cases unlikely, not impossible. `CloseSQLite` is one step.

## Runs

| run | specification | question | bounds and why they are enough |
|---|---|---|---|
| FSsafety | ForwardServer | types, socket ownership, registry, sweep, last call; only Stop closes listeners; refinement of the contract | both listeners, tcp6 crossed, PROXY protocol on tcp4; three connections, two with one address: a registered one, a duplicate and a bystander at the other listener. The two alike are interchangeable (symmetry; all properties are safety) |
| FSonly6 | ForwardServer | Stop declines only a server that is not running: **violated** | one IPv6-only configuration |
| SSlive | SshServer, fair | rows against connections, purged rows, every row completed; release of the port, return of Stop unless a late or a stalled forward holds it, no client forgotten | one listener, two connections with one address: the one that wakes the loop and one being forwarded, or a duplicate; each target may stall and go on at any time |
| TGsafety | TcpGroup | gate and clock, reachability, one starter, backstop | one port, two goroutines at once, three starts, two overloads (the second makes the first overdue) |
| TGlive | TcpGroup, fair | recovery after overloads | three overloads, so that a goroutine that stops the servers may be late for the next calm |
| TGwait | TcpGroup | Finished means stopped: **violated** | two starts |
| TGrestored | TcpGroup | restored means served: **violated** | two starts |
| SGsafety | AddrCheck, then SshGate | the decision about an address and what a reload can do to it; no undercount, bounded overrun, ban kept unless overtaken | addresses of all four kinds, ban histories of two rows, five places, lists of up to two rules with each location field exact and vague, one reload between any two steps; for the count rules two loops, a list of two rules against the default policy, rows up to three before an attempt begins (the bound of `ServedBounded` is reached: three are let in where a rule allows one), windows of 4, 2 and 1 units and a retention of 1, so that the cleaner deletes rows inside a window; the clock reads 1 to 3: rows are deleted at 3, the shortest ban expires before the end |
| SGexact | SshGate | banned means exceeded: **violated** | the same, a retention of 2, the clock to 5 |
| NWsafety | NetWatcher, fair | verdicts true of the real traffic, meaning of UseRealLastRecord, Stop ends everything | a span of two ticks, counters modulo 5 that wrap once in the run, one reset, a row of an earlier run, two directions of which one is limited; a channel of one place and one blocked sender, so that it fills |
| CRsafety | ConfigReload, fair | what readers see, when the process dies, who is answered | two readers, one that never survives a panic and one that sometimes does; two reloads, each of which may succeed, fail, or panic on a null item, so that a restore can meet a reader of the one before |
| LCsafety | Lifecycle, fair | release order, who is still counted when the database is closed, crashes, end | five sets of options: two rounds of the cleaner (four goroutines) with a file watcher; an interface, whose loop saves rows, with a TCP server and overloads; two TCP servers; two SSH servers, one with a connection; one SSH server on tcp6 alone with a connection. Two servers are what the panic of a group's Add takes; each set makes one part interesting and keeps the others small |

TGsafety has one port, on both families so that a Start can fail halfway, since servers of different ports share
only the status word and the map, and are told apart in both; two ports, one of them on IPv6 alone, were explored once by hand
with one worker goroutine and two starts (2.4 million states, no violation), too long to repeat in every check.
The proofs need no such bound. What the cleaner does to the count rules was tried by hand too: with `Reach(r)` replaced by
`r.secs` and windows of 4 on both loops, within the bounds of SGsafety, TLC finds more attempts let in than the bound, after the cleaner has deleted a row
inside the window.
Runs switch off deadlock checking because the systems do stop: a stopped server, a check that has decided, an
exited main.

**Fairness.** Go's scheduler runs every goroutine that can go on: weak fairness of each goroutine's
steps. A loop blocked in Accept goes on only if a connection is queued; errors of
Accept are transient, hence strong fairness of Accept alone. Nobody is obliged to connect, to hang up
or to call Stop. No target is obliged to take or to send anything: a stalled copy may
stay stalled, after the sweep too. In TcpGroup the watcher goes on reporting a calm network once overloads have ended
(`MaxOver` bounds them): its statistics loop never ends by itself. The Stop of a server begins there, but need never
return, and its listener need never be closed: `Recovers` depends on neither. In SshServer the cleaner and PROXY headers
that fail owe nothing. In ConfigReload a goroutine that has been woken gets the mutex in the end (strong
fairness): Go's mutex hands itself over to a sleeper that has waited a millisecond. In
NetWatcher time need not pass, the kernel owes nothing, and nobody has to stop the subscriber's group. In Lifecycle nothing
makes a connection leave, nor the Stop of a TCP server return; nobody sends a signal, and neither the cleaner's timer nor
the collecting loop needs to go on. The Stop of an SSH server returns once no forward of it is counted.

## Findings

* `server.go:229`: Stop looks at `ln4` alone; an IPv6-only server is never stopped (FSonly6).
* `group.go:125`: `wg.Add` in the goroutine; StopAllServers reports the end of Stops that have
  not begun (TGwait).
* `server.go:233`: a stopped listener keeps its port, the restart fails to bind and only logs;
  the port stays without a server although the restoration is announced (TGrestored). If tcp4 was free already and only
  tcp6 held, the failed Start leaves its own tcp4 listener open (`server.go:107,129`), with nobody to accept on it.
* `sshserver/group.go:298`: when no record falls into a rule's window the index stays 0 and all records of
  the larger window are counted: clients are banned that the rule does not mean (SGexact).

Each of the four has a theorem that names its only cause: `OnlyFourCounts`, `OnlyUnbegun`, `OnlyOldListenersDo`,
`OnlyEmptyWindows`.

Some passing properties state exactly how far the code goes, and so name its limits:

* `BanCutOnlyIfOvertaken`: `redisserver/ssh.go:21` means to keep a longer ban; a loop overtaken
  between its TTL and its Set does cut it short.
* `Departs` in AddrCheck: `api/apiip/ip.go:89,97` compares a vague city and a vague ISP with the province; an allowed
  intranet spares a loopback address the database (`tcpserver/group.go:264`, `sshserver/group.go:156`), which `src/README.md:84`
  keeps; for SSH the intranet is the private addresses only (164) and an address that cannot be located
  is refused (178-184), where `src/README.md:80-81` lets the rules without a location decide; TCP takes a location that calls itself local
  for none (`tcpserver/group.go:283`). SSH asks the location tables of TCP (`sshserver/group.go:188-202`).
* `BansHold`: the configuration is read again at each step, and a check during a reload may give a verdict that
  neither configuration gives; the bans of the database hold whatever happens.
* `ServedBounded`: a window counts back no further than rows are kept. The retention period may be as short as five
  minutes (`config/dbcleanconfig.go:52-56`), the project's own example of a rule counts ten (`src/README.md:134-136`), and
  nothing compares the two: rows deleted inside a window are forgotten by the rule (`Reach`).
* `StopReturnsUnlessHeld`: Stop waits for ever for a forward that registered after the sweep and goes on, and for one whose
  target has stalled, because the sweep closes the client's side only (`tcpserver/server.go:239-251`, and the same in `sshserver`).
  With it wait the group, the deferred Stop and main (`EndsUnlessHeld`).
* `DiesOnlyOfReload`, `ReadersSeeChecked`, `EveryReaderAnswered`: a file that is written badly can end the process, hand out an unchecked
  configuration, or leave a reader asleep for ever, because the restore comes after the Unlock and replaces the mutex
  (`config/config.go:101-118`). A null item in one of its lists ends the process without any of that: defaults and check
  dereference it (`config/config.go:132`, `config/tcpconfig.go:11-13`) and the file watcher's goroutine recovers nothing.
* `CountedInTimeMeansDone`, `CrashesKnown`: a clean, a forward or a Stop that joins its WaitGroup late works on a closed database.
  There are four ways to crash: the collecting loop on a closed database (`netwatcher/watcher.go:192`); a clean that adds
  itself in the instant its Wait is released; a goroutine that stops a server and does the same while another server of the
  group has just released the Wait (`sshserver/group.go:102`, `tcpserver/group.go:125`); a run that only prints, which
  panics in SyncSendStop (`notify/action.go:55`). Whom no WaitGroup counts may meet the closed database although it began
  in time: the collecting loop, and a forward that has left its WaitGroup to save its row (`sshserver/server.go:259-269`), which
  then stays open.
* `VerdictTrue` leaves out spans with a counter reset in them, whose difference wraps to a huge rate (`netwatcher/watcher.go:272`);
  `StopEndsAll` holds for one subscriber, as Range closes one channel (148): `StopClosesOne` shows that of several all the
  others stay.
* `EndsUnlessHeld` speaks of signals MainV1 takes: the channel has no buffer (`config/config.go:47`), a signal that arrives before
  the `select` is lost.
* `RowsTellTruth` includes rows that claim an accepted connection which was dropped (`sshserver/server.go:447`).

## Proofs

Each theorem holds for every value of the constants its module's assumption allows: any connections, ports, goroutines, loops,
readers, rules. None of the properties is inductive as it stands; each module of proofs first states the strengthening,
proves Init => Inv, one lemma for each conjunct or action, and combines them with PTL (`Inductive`). The
properties follow from the invariant. Some theorems state formulas that no run checks by name; they are defined in the
modules of proofs, and most are of three kinds:

* *The only cause.* Where a run shows that a promise is broken, a theorem shows in which way alone it can be.
  `OnlyFourCounts`: Stop turns away a running server only if it has no IPv4 listener. `OnlyUnbegun`: a Stop that
  StopAllServers did not wait for has not begun; none is left in the middle. `OnlyOldListenersDo`: in a settled, running
  group no port is missing from the map, and one that nobody serves is one whose earlier server, stopped and its Stop
  returned, still held a listener when the new one wanted to bind (unless a start has run into a stop).
  `OnlyEmptyWindows`: an unmerited ban comes from a rule with no record in its window.
* *The safety half of a liveness property*: that whoever waits has somebody to wait for. `SomebodyAccepts` (a queued client has an
  open listener and a loop that has not ended), `SomebodyAwake` (a sleeper on the mutex), `SomebodyReads` (a
  goroutine blocked on a channel, until the reader's own group is stopped), `NobodyWaitsInVain` (the Stop of the cleaner
  and StopAllServers of both groups: somebody is still counted, or the Wait is being released). TLC checks the whole on small instances.
* *One model against another.* `LivesLife` and `SshLivesLife`: both forwarding servers implement `ServerLife`; `ServersLive`:
  so does each server of `TcpGroup`, however starts and stops overlap. What the group's model takes a server to be is
  thereby no assumption about it.

By module:

* **ForwardServerProofs**: `TypeOK`, `SocketsOwned`, `RegistryExact`, `SweepMissesOnlyLate`, `OneLastCall`,
  `ListenersStayOpen`, and that ForwardServer implements ServerContract. `IInv` adds what the goroutines know of each
  other: which values of `starter`, `ln`, `loop` and `status` go together, that a loop has a
  connection in hand exactly in the states between Accept and HandOver, that two loops never
  hold the same one, what each state of `fwd[c]` says of `sock[c]` and `target[c]`, the
  order of `stopper`, `stopchan` and `killer`, and that before the sweep the registry maps
  exactly the registered connections. The lemmas are stated for `Moves`, the steps of Next and a header that fails in
  any family, because the steps of SshServer are among those. The refinement
  (`KeepsContract`) shows that each action moves at most one client or one port of the
  contract, using pointwise lemmas about `PortOf` and `ClientOf`. `Opened` and `Listened` say which listeners a Start has opened;
  with them `SomebodyAccepts`, `OnlyFourCounts` and `LivesLife` follow. `FailureLeaks`: after a failed Start no
  step of the server closes anything.
* **SshServerProofs**: `SshMoves` shows that each step of SshServer is one of `Moves` or leaves the variables of the
  forwarding server alone, so `IInv` and the contract carry over (`SshKeepsContract`): the copy of the code that saves rows in
  between still is a forwarding server. `RowsInv` ties `row[c]` to `fwd[c]` and `rec[c]` in every state; `RowsTellTruth` and `ComesBackOnce` follow.
  `SshLikeTcp` and `SshStepsLikeTcp` transfer what is proved of the plain server's sockets, registry, sweep and listeners.
* **TcpGroupProofs**: `MapInv` is what the compare-and-swaps guarantee as long as no start has run into a stop: one
  goroutine starts, it finds the map empty and fills it alone, and a serving server is in the map or its Stop is under way,
  unless it is one that does not heed a Stop (on IPv6 alone). `OneStarter` holds under the first of these
  conditions, `ServersReachable` under both.
  `StatusInv` says where main is when the status is Ready, WaitStart or Stopping; `CalmInv` what remains possible once nobody
  can restart the group. From them `GateMatchesClock`, `OneStarter`, `ServersReachable` and `BackstopFinishes`. `Asked` (a thread's
  batch has been asked to stop) gives `OnlyUnbegun`; `PlaceInv` (where each round of each port is) gives `OnlyOldListenersDo`.
  `Own` and `Fresh` hold even when starts and stops overlap: each start has a round of its own and takes each port once, hence
  no server is made or bound twice (`ServersLive`).
* **SshGateProofs**: `ServedBounded` counts over finite sets: every attempt let in has its row (`ServedRecorded`), and in each
  window, as far as rows are kept (`Reach`), the attempts let in and those about to be are at most the rule's number and one
  for each loop (`Overrun`). The cleaner deletes nothing in there (`PurgedInv`). `NeverUndercounts`
  needs that the query cut at `Limit` shows enough rows: `QueryIsEnough` argues that the rows it
  returns are the least of the window, so a rule that found no more than its number has seen them all. It uses that the rules
  are sorted, an assumption on the constant `Rules` because the check of the configuration rejects the others, and that
  `Limit` exceeds what a rule allows.
* **AddrCheckProofs**: `BansHold`, by what a check that has reached a stage has found out (`Passed`), whatever
  is reloaded between the stages. `DecidesAsDocumented`: without a reload the code decides as the README says but for `Departs`, for
  lists of any length: `DocInv` says of each stage that no earlier sentence of the README has decided (`Undecided`), and lemmas
  show that the two readings of a rule, and with them the first match, are the same (`SameReading`, `FirstPlace`).
* **ConfigReloadProofs**: until a restore replaces the mutex in use, it excludes, and it knows all its sleepers (`Exclusive`);
  `Reloading` says what the reloader still has to make good. From them `IdleMeansReady`, `ReadersSeeChecked`, `DiesOnlyOfReload`.
  `NewestOnly`: a reader that no restore has met leaves with the newest configuration that passed its check.
* **LifecycleProofs**: `LifeInv` says which parts have started at each stage, that each of them has its end among the deferred
  calls or has ended, the database last (`DeferInv`), and who may still be in a WaitGroup whose Wait has returned
  (`CleanInv` for the cleaner, `GroupInv` for both groups: until its last goroutine has left, a StopAllServers that waits goes
  on waiting). From them `CountedInTimeMeansDone`, `EveryExitReleases`, `CrashesKnown` and `NobodyWaitsInVain`. Steps that
  touch none of the WaitGroups are dealt with together (`Quiet`, `QuietSteps`).
* **NetWatcherProofs**: `CourseInv` says that any two rows, and the last row and the kernel, are two moments of one course:
  without a reset between them the later counter is the earlier one plus what went through, modulo `Width`. `RoundInv` keeps the newest
  row of a round in the table (the cleaner spares it, as `MaxAge < Retention`) and remembers that no row lay before the span. From them
  `RealMeansFullSpan`; with lemmas about remainders of sums and the subtraction that undoes one wrap-around, `VerdictTrue`.
  `StopInv` and `ChanInv`, what Stop has reached and which channel it closes, give `OnlyStopEnds`, `SomebodyReads`, `StopClosesOne`. The first two allow for a reader whose
  own group has been stopped (`ReadsUnlessStopped`): with an open channel nobody reads, a sender then stays blocked until the
  watcher's Stop closes it.

Only model-checked: the liveness properties (`EveryClientServed`, `ReleasedByNextConnection`, `StopReturnsUnlessHeld`, `RowCompleted`,
`Recovers`, `StopEndsAll`, `EveryReaderAnswered`, `EndsUnlessHeld`), out of reach of the prover but for the halves above. Every
other property of the passing runs has a theorem.

## Plan

1. *(done)* the forwarding server, its contract and its proofs; the group with its overload logic.
2. *(done)* `SshGate`: count rules, ban and records with several accept loops interleaved.
3. *(done)* `SshServer`: the records of SSH connections on top of the forwarding server.
4. *(done)* `NetWatcher`: collect and statistics loops, counters modulo a small width, the channel and Stop.
5. *(done)* `ConfigReload`: GetConfig against Reload and its restore after the unlock.
6. *(done)* `Lifecycle`: main's deferred calls, the cleaner and its WaitGroup, failing starts.
7. *(done)* `AddrCheck`: the decision of RemoteAddrCheck for TCP and SSH against the rules the project's README states.
8. *(done)* proofs about the forwarding servers, the group, the count rules, the address check, the reload,
   the watcher and main: every safety property of the passing runs.
9. *(done)* the only cause of each finding; the safety halves of the liveness properties; `ServerLife` between
   the forwarding servers and the group.
10. Left to prove: the safety halves of `StopReturnsUnlessHeld`, `RowCompleted` and `Recovers`; that the TTL of a ban never exceeds what
   a rule or the default policy sets.
11. Left to model: the window inside CloseSQLite when active closing is configured; a reload between two starts of the group.

## Not modelled

Message sending (mail, robot) except the final one, logging, the parsing of flags, string helpers, the HTTP query of
locations, the display of speeds: I/O or pure functions no behaviour above depends on. Byte contents of connections
and PROXY headers. Single configuration options beyond the ones in `ForwardConfig`, the rules and the assumptions on
constants. The SSH group's own start and its RestartAllServers, which nobody calls; the SSH location
tables, whose queries (`database/db.go:152-246`) nobody calls. A reload of the configuration between two
starts of the TCP group. The window inside CloseSQLite when active closing is configured. The moment in which the
Wait of a single server is released (`swg`): an Add then panics too, which forward and the goroutine that stops the server recover,
so that sockets may stay open. A signal before
`signal.Notify`, which ends the process by default, and the Redis client that stays open when its first Ping fails
(`redisserver/redis.go:26-29`).
