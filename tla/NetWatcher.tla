----------------------------- MODULE NetWatcher -----------------------------
(***************************************************************************)
(* The network watcher: src/netwatcher/watcher.go.  One goroutine stores   *)
(* the interface's byte counters in SQLite, another compares the newest    *)
(* row with an older one and sends the verdict to every subscriber, each   *)
(* time from a goroutine of its own.  The kernel's counters, the cleaner   *)
(* of the table and the subscriber's filter (tcpserver/group.go) are       *)
(* around it.  Time is in ticks; a loop goes round once per tick at most.  *)
(***************************************************************************)
EXTENDS Naturals, Sequences, FiniteSets

CONSTANTS
    Subs,        \* the subscribers: keys of notices
    Dirs,        \* the directions measured: sent and received
    Limit,       \* Limit[d]: bytes per tick allowed, 0 for no limit
    Span,        \* StatisticalTimeSpanSeconds
    Floor,       \* the 30 seconds of the subscriber's filter
    MaxAge,      \* the minute after which the newest row is too old
    Retention,   \* how long the cleaner keeps rows
    Width,       \* counters are taken modulo Width (2^64)
    Traffic,     \* what a tick can bring, in each direction
    Buffer,      \* capacity of a subscriber's channel (15)
    FirstTick,   \* when the program starts
    MaxClock, MaxSenders, MaxResets   \* bounds of the model

ASSUME ConstantsAssumption ==
    /\ {Span, Floor, MaxAge, Retention, Width, Buffer, FirstTick} \subseteq Nat \ {0}
    /\ {MaxClock, MaxSenders, MaxResets} \subseteq Nat
    /\ Limit \in [Dirs -> Nat] /\ Traffic \subseteq [Dirs -> Nat]
    /\ MaxAge < Retention   \* one minute against five at least
VARIABLES
    clock,      \* the time
    counter,    \* counter[d]: what the kernel reports
    moved,      \* history: moved[d], the bytes that really went through
    resets,     \* history: how often the counters were reset
    table,      \* the rows of iface_record, oldest first
    iface,      \* whether an interface is configured at all
    status,     \* NetWatcher.status
    stopper,    \* where the caller of Stop is
    stopchan,   \* whether stopchan has been closed
    closer,     \* the goroutine that passes the stop on to the two loops
    collector,  \* where the collecting loop is
    stats,      \* where the statistics loop is
    newest,     \* its newRecord
    lastRun,    \* the tick of its last round
    senders,    \* goroutines blocked on a channel: pairs of subscriber and sample
    chan        \* chan[s]: the channel of s, how many samples it holds, its reader

envVars  == <<clock, counter, moved, resets, table>>
loopVars == <<closer, collector, stats, newest, lastRun>>
stopVars == <<status, stopper, stopchan>>
vars == <<envVars, iface, loopVars, stopVars, senders, chan>>

NoRow == [time |-> 0]
Zero  == [d \in Dirs |-> 0]
Wrapped(x) == [d \in Dirs |-> x[d] % Width]

(* The program may find a row of an earlier run in SQLite; the machine may *)
(* have been rebooted since.                                               *)
InitTable ==
    /\ clock = FirstTick
    /\ \E x \in Traffic, reset \in {0, 1}, kept \in BOOLEAN :
          /\ moved = x
          /\ counter = IF reset = 1 THEN Zero ELSE Wrapped(x)
          /\ resets = reset
          /\ table = IF kept
                    THEN <<[time |-> 1, count |-> Wrapped(x), moved |-> x, resets |-> 0]>>
                    ELSE <<>>

Init ==
    /\ InitTable
    /\ iface \in BOOLEAN
    /\ status = "Ready" /\ stopper = "idle" /\ stopchan = FALSE
    /\ closer = "off" /\ collector = "off" /\ stats = "off"
    /\ newest = NoRow
    /\ lastRun = 0
    /\ senders = {}
    /\ chan = [s \in Subs |-> [is |-> "nil", held |-> 0, reader |-> "off"]]

-----------------------------------------------------------------------------
(*                          Time, kernel, cleaner                          *)

(* Bytes go through; a reboot or the driver may have set the counters to   *)
(* zero.  The queries of one round of the statistics take no time, and     *)
(* after Stop the time no longer matters to anyone.                        *)
Tick ==
    /\ clock < MaxClock
    /\ stopper = "idle"
    /\ stats \notin {"older", "oldest"}
    /\ clock' = clock + 1
    /\ \E x \in Traffic, reset \in {0, 1} :
          /\ resets + reset <= MaxResets
          /\ resets' = resets + reset
          /\ moved' = [d \in Dirs |-> moved[d] + x[d]]
          /\ counter' = [d \in Dirs |-> ((IF reset = 1 THEN 0 ELSE counter[d]) + x[d]) % Width]
    /\ UNCHANGED <<table, iface, loopVars, stopVars, senders, chan>>

Older(r, deadline) == r.time < deadline

(* CleanIfaceRecord deletes the rows before its deadline; they come first. *)
Clean ==
    /\ \E n \in DOMAIN table :
          /\ \A i \in DOMAIN table : Older(table[i], clock - Retention) <=> i <= n
          /\ table' = SubSeq(table, n + 1, Len(table))
    /\ UNCHANGED <<clock, counter, moved, resets, iface, loopVars, stopVars, senders, chan>>

-----------------------------------------------------------------------------
(*                            Start and AddNotice                          *)

(* Without an interface only the goroutine that waits for stopchan runs.   *)
Start ==
    /\ status = "Ready"
    /\ status' = "Running"
    /\ closer' = "wait"
    /\ collector' = IF iface THEN "on" ELSE "off"
    /\ stats' = IF iface THEN "wait" ELSE "off"
    /\ UNCHANGED <<envVars, iface, stopper, stopchan, newest, lastRun, senders, chan>>

(* main makes the subscriber after Start and before it can be told to stop.*)
AddNotice(s) ==
    /\ status = "Running" /\ stopper = "idle" /\ iface
    /\ chan[s].is = "nil"
    /\ chan' = [chan EXCEPT ![s] = [is |-> "open", held |-> 0, reader |-> "on"]]
    /\ UNCHANGED <<envVars, iface, loopVars, stopVars, senders>>

-----------------------------------------------------------------------------
(*                           The collecting loop                           *)

CollectorMove(to) ==
    /\ collector = "on"
    /\ collector' = to
    /\ UNCHANGED <<clock, counter, moved, resets, iface, closer, stats, newest, lastRun,
                   stopVars, senders, chan>>

(* A round in which the counters cannot be read, or the row not be saved,  *)
(* leaves no trace.                                                        *)
Collect ==
    /\ \A i \in DOMAIN table : table[i].time < clock
    /\ CollectorMove("on")
    /\ table' = Append(table, [time |-> clock, count |-> counter,
                               moved |-> moved, resets |-> resets])

CollectEnds == closer = "done" /\ CollectorMove("ended") /\ UNCHANGED table

-----------------------------------------------------------------------------
(*                           The statistics loop                           *)

StatsMove(from, to) ==
    /\ stats = from
    /\ stats' = to
    /\ UNCHANGED <<envVars, iface, closer, collector, stopVars, chan>>

Rounded == lastRun' = clock

(* FindIfaceNewRecord.  A round that finds no row, or one that is too old, *)
(* or meets an error does nothing at all.                                  *)
FindNewest ==
    /\ lastRun < clock /\ table # <<>>
    /\ clock - table[Len(table)].time <= MaxAge
    /\ StatsMove("wait", "older")
    /\ newest' = table[Len(table)]
    /\ UNCHANGED <<lastRun, senders>>

Seconds(new, last) == new.time - last.time

(* uint64 subtraction.                                                     *)
Diff(new, last, d) == (new.count[d] + Width - last.count[d]) % Width

(* Slip: the rate is rounded down.                                         *)
RateFloor(new, last, d) == Diff(new, last, d) \div Seconds(new, last)

(* math.Ceil.                                                              *)
Rate(new, last, d) ==
    (Diff(new, last, d) + Seconds(new, last) - 1) \div Seconds(new, last)

(* 0/0 is NaN, and what its conversion to uint64 yields the language       *)
(* leaves to the machine: any verdict, unless there is no limit.           *)
Verdicts(new, last) ==
    IF Seconds(new, last) = 0
    THEN {ok \in BOOLEAN : ok \/ \E d \in Dirs : Limit[d] > 0}
    ELSE {\A d \in Dirs : Limit[d] = 0 \/ Rate(new, last, d) <= Limit[d]}

(* One goroutine per channel sends the verdict.                            *)
Notify(last, real) ==
    LET made == {s \in Subs : chan[s].is # "nil"} IN
    /\ Cardinality(senders) + Cardinality(made) <= MaxSenders
    /\ \E ok \in Verdicts(newest, last) :
          senders' = senders \cup
              {[to |-> s, new |-> newest, last |-> last,
                ok |-> ok, real |-> real] : s \in made}
    /\ newest' = NoRow
    /\ Rounded

Before == {i \in DOMAIN table : Older(table[i], newest.time - Span)}

Newest(S) == CHOOSE i \in S : \A j \in S : j <= i

(* FindIfaceRecord: the newest row before the span, however old it is.     *)
FindOlder ==
    /\ Before # {}
    /\ StatsMove("older", "wait")
    /\ Notify(table[Newest(Before)], TRUE)

FindNoOlder ==
    /\ Before = {}
    /\ StatsMove("older", "oldest")
    /\ UNCHANGED <<newest, lastRun, senders>>

(* Slip: the fallback counts as the real last record.                      *)
FindOldestReal ==
    /\ table # <<>>
    /\ StatsMove("oldest", "wait")
    /\ Notify(Head(table), TRUE)

(* FindIfaceLastRecord, the fallback.                                      *)
FindOldest ==
    /\ table # <<>>
    /\ StatsMove("oldest", "wait")
    /\ Notify(Head(table), FALSE)

FindFails ==
    /\ stats \in {"older", "oldest"}
    /\ StatsMove(stats, "wait")
    /\ newest' = NoRow
    /\ Rounded
    /\ UNCHANGED senders

StatsEnds ==
    /\ closer \in {"half", "done"}
    /\ StatsMove("wait", "ended")
    /\ UNCHANGED <<newest, lastRun, senders>>

-----------------------------------------------------------------------------
(*                        Channels and their readers                       *)

Deliver(x) ==
    /\ x \in senders
    /\ chan[x.to].is = "open" /\ chan[x.to].held < Buffer
    /\ senders' = senders \ {x}
    /\ chan' = [chan EXCEPT ![x.to].held = @ + 1]
    /\ UNCHANGED <<envVars, iface, loopVars, stopVars>>

(* Sending on a closed channel panics, and the goroutine recovers.         *)
GiveUp(x) ==
    /\ x \in senders
    /\ chan[x.to].is = "closed"
    /\ senders' = senders \ {x}
    /\ UNCHANGED <<envVars, iface, loopVars, stopVars, chan>>

Take(s) ==
    /\ chan[s].reader = "on" /\ chan[s].held > 0
    /\ chan' = [chan EXCEPT ![s].held = @ - 1]
    /\ UNCHANGED <<envVars, iface, loopVars, stopVars, senders>>

ReaderEnds(s) ==
    /\ chan[s].reader = "on" /\ chan[s].held = 0 /\ chan[s].is = "closed"
    /\ chan' = [chan EXCEPT ![s].reader = "ended"]
    /\ UNCHANGED <<envVars, iface, loopVars, stopVars, senders>>

(* The reader finds that its own group has been stopped: select may choose *)
(* ifaceNotifyStopchan although samples wait.  The watcher knows nothing   *)
(* of that, and its own Stop may come later, earlier or never.             *)
ReaderStopped(s) ==
    /\ chan[s].reader = "on"
    /\ chan' = [chan EXCEPT ![s].reader = "stopped"]
    /\ UNCHANGED <<envVars, iface, loopVars, stopVars, senders>>

-----------------------------------------------------------------------------
(*                                 Stop                                    *)

StopBegins ==
    /\ status = "Running" /\ stopper = "idle"
    /\ iface => \A s \in Subs : chan[s].is = "open"
    /\ status' = "Stopping"
    /\ stopper' = "range"
    /\ stopchan' = TRUE
    /\ UNCHANGED <<envVars, iface, loopVars, senders, chan>>

StopMove(to) ==
    /\ stopper = "range"
    /\ stopper' = to
    /\ UNCHANGED <<envVars, iface, loopVars, status, stopchan, senders>>

(* Slip: Range is never reached.                                           *)
StopClosesNone == StopMove("sleep") /\ UNCHANGED chan

(* The callback returns false: Range ends after one channel, whichever.    *)
StopCloses ==
    /\ StopMove("sleep")
    /\ \/ \E s \in Subs : /\ chan[s].is = "open"
                          /\ chan' = [chan EXCEPT ![s].is = "closed"]
       \/ (\A s \in Subs : chan[s].is = "nil") /\ UNCHANGED chan

(* Slip: the loops' constant StatusStop, a few lines above.                *)
StopReturnsStop ==
    /\ stopper = "sleep"
    /\ stopper' = "returned"
    /\ status' = "stop"
    /\ UNCHANGED <<envVars, iface, loopVars, stopchan, senders, chan>>

StopReturns ==
    /\ stopper = "sleep"
    /\ stopper' = "returned"
    /\ status' = "Finished"
    /\ UNCHANGED <<envVars, iface, loopVars, stopchan, senders, chan>>

CloserMove(from, to) ==
    /\ closer = from
    /\ closer' = to
    /\ UNCHANGED <<envVars, iface, collector, stats, newest, lastRun, stopVars, senders, chan>>

(* The deferred calls of the goroutine: ststopchan, then dlstopchan.       *)
CloserWakes == stopchan /\ CloserMove("wait", IF iface THEN "half" ELSE "done")

CloserEnds == CloserMove("half", "done")

-----------------------------------------------------------------------------
CollectorStep == Collect \/ CollectEnds
StatsStep == FindNewest \/ FindOlder \/ FindNoOlder \/ FindOldest
                \/ FindFails \/ StatsEnds
SenderStep == \E x \in senders : Deliver(x) \/ GiveUp(x)
ReaderStep(s) == Take(s) \/ ReaderEnds(s)
Closer == CloserWakes \/ CloserEnds

Next ==
    \/ Tick \/ Clean
    \/ Start \/ (\E s \in Subs : AddNotice(s))
    \/ CollectorStep \/ StatsStep \/ SenderStep
    \/ \E s \in Subs : ReaderStep(s) \/ ReaderStopped(s)
    \/ StopBegins \/ StopCloses \/ StopReturns
    \/ Closer

Spec == Init /\ [][Next]_vars

(* Every goroutine that can go on does.  Nobody has to call Start, Stop or *)
(* the Stop of a group, and time need not pass.                            *)
Fairness ==
    /\ WF_vars(CollectorStep) /\ WF_vars(StatsStep) /\ WF_vars(SenderStep)
    /\ \A s \in Subs : WF_vars(ReaderStep(s))
    /\ WF_vars(StopCloses \/ StopReturns) /\ WF_vars(Closer)

FairSpec == Spec /\ Fairness

-----------------------------------------------------------------------------
(*                              Properties                                 *)

(* The subscriber skips short spans: group.go 180.                         *)
MinSpan == IF Floor < Span THEN Floor ELSE Span
CountsFor(x) == Seconds(x.new, x.last) >= MinSpan

ThroughIn(x, d) == x.new.moved[d] - x.last.moved[d]
Allowed(x, d)   == Limit[d] * Seconds(x.new, x.last)

Rows == [time : Nat, count : [Dirs -> 0 .. Width - 1], moved : [Dirs -> Nat], resets : Nat]

Samples == [to : Subs, new : Rows, last : Rows, ok : BOOLEAN, real : BOOLEAN]
Channels == [is : {"nil", "open", "closed"}, held : 0 .. Buffer,
             reader : {"off", "on", "ended", "stopped"}]

(* Rows are in the order of their times, which queries by time and the     *)
(* deadline of the cleaner rely on, and everything keeps its type.         *)
TypeOK ==
    /\ table \in Seq(Rows)
    /\ \A i, j \in DOMAIN table : i < j => table[i].time < table[j].time
    /\ clock \in Nat /\ lastRun \in Nat /\ resets \in Nat
    /\ counter \in [Dirs -> 0 .. Width - 1] /\ moved \in [Dirs -> Nat]
    /\ newest \in Rows \cup {NoRow}
    /\ status \in {"Ready", "Running", "Stopping", "Finished"}
    /\ stats \in {"off", "older", "oldest", "wait", "ended"}
    /\ collector \in {"off", "on", "ended"}
    /\ chan \in [Subs -> Channels] /\ senders \subseteq Samples

(* The verdict of every sample the subscriber acts upon is true of the     *)
(* bytes that really went through, unless the counters were reset within   *)
(* its span or wrapped around a whole turn: the subtraction, the rounding, *)
(* NaN and the choice of rows in three queries add no error of their own.  *)
VerdictTrue ==
    \A x \in senders : CountsFor(x) /\ x.new.resets = x.last.resets =>
        IF x.ok
        THEN \A d \in Dirs : Limit[d] > 0 =>
                ThroughIn(x, d) <= Allowed(x, d) \/ ThroughIn(x, d) >= Width
        ELSE \E d \in Dirs : Limit[d] > 0 /\ ThroughIn(x, d) > Allowed(x, d)

(* UseRealLastRecord, on which the gate reopens, says exactly that the     *)
(* sample spans more than the configured time, whatever the cleaner and    *)
(* the collecting loop did between the queries.                            *)
RealMeansFullSpan ==
    \A x \in senders : x.real <=> Seconds(x.new, x.last) > Span

(* After Stop every goroutine of the watcher and the subscriber's loop     *)
(* end, those blocked on a full channel included.  With one subscriber,    *)
(* as in this version: Range closes one channel only.                      *)
StopEndsAll ==
    (stopper = "range") ~>
        /\ collector \in {"off", "ended"} /\ stats \in {"off", "ended"}
        /\ closer = "done" /\ senders = {}
        /\ \A s \in Subs : chan[s].reader \in {"off", "ended", "stopped"}
=============================================================================
