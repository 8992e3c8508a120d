--------------------------- MODULE NetWatcherProofs ---------------------------
(***************************************************************************)
(* Proofs about NetWatcher, for any subscribers, limits, spans, widths of  *)
(* the counters and any traffic: the rows of the table describe one course *)
(* of the traffic, the three queries of a round pick two of them in order, *)
(* and so every verdict that counts is true of what went through.          *)
(***************************************************************************)
EXTENDS NetWatcher, Integers, NaturalsInduction, WellFoundedInduction, TLAPS

-----------------------------------------------------------------------------
(*                       Remainders and quotients                          *)

(* The remainder is the number that differs by whole turns.                *)
LEMMA Remainder ==
    ASSUME NEW w \in Nat \ {0}, NEW m \in Nat
    PROVE  /\ m % w \in 0 .. w - 1 /\ m \div w \in Nat
           /\ m = w * (m \div w) + (m % w)
<1>1. m % w \in 0 .. w - 1
  OBVIOUS
<1>2. m \div w \in Nat
  OBVIOUS
<1>3. m = w * (m \div w) + (m % w)
  OBVIOUS
<1> QED
  BY <1>1, <1>2, <1>3

(* Less than a turn is its own remainder, and so is a turn more.           *)
LEMMA SmallRemainder ==
    ASSUME NEW w \in Nat \ {0}, NEW m \in 0 .. w - 1
    PROVE  m % w = m /\ (m + w) % w = m
OBVIOUS

(* Whole turns do not matter.                                              *)
LEMMA WholeTurns ==
    ASSUME NEW w \in Nat \ {0}, NEW q \in Nat, NEW m \in 0 .. w - 1
    PROVE  (w * q + m) % w = m
OBVIOUS

(* The remainder of a sum.                                                 *)
LEMMA RemainderOfSum ==
    ASSUME NEW w \in Nat \ {0}, NEW m \in Nat, NEW x \in Nat
    PROVE  (m + x) % w = ((m % w) + x) % w
<1> DEFINE q == m \div w
           t == (m % w) + x
           p == t \div w
<1>1. q \in Nat /\ m % w \in Nat /\ m = w * q + (m % w)
  BY Remainder
<1>2. t \in Nat
  BY <1>1
<1>3. p \in Nat /\ t % w \in 0 .. w - 1 /\ t = w * p + (t % w)
  BY <1>2, Remainder
<1> HIDE DEF q, p
<1>4. m + x = w * (q + p) + (t % w)
  <2>1. w * (q + p) = w * q + w * p
    BY <1>1, <1>3
  <2>2. m + x = w * q + t
    BY <1>1, <1>2
  <2> HIDE DEF t
  <2> QED
    BY <1>1, <1>3, <2>1, <2>2
<1>5. q + p \in Nat
  BY <1>1, <1>3
<1> HIDE DEF t
<1>6. (w * (q + p) + (t % w)) % w = t % w
  BY <1>3, <1>5, WholeTurns
<1> QED
  BY <1>4, <1>6 DEF t

(* What wraps around at most once is recovered by the subtraction.         *)
LEMMA Subtraction ==
    ASSUME NEW w \in Nat \ {0}, NEW a \in 0 .. w - 1, NEW m \in 0 .. w - 1
    PROVE  (((m + a) % w) + w - a) % w = m
<1>1. CASE m + a < w
  <2>1. (m + a) % w = m + a
    BY <1>1, SmallRemainder
  <2> QED
    BY <2>1, SmallRemainder
<1>2. CASE ~(m + a < w)
  <2>1. m + a - w \in 0 .. w - 1
    BY <1>2
  <2>2. ((m + a - w) + w) % w = m + a - w
    BY <2>1, SmallRemainder
  <2> QED
    BY <2>2, SmallRemainder
<1> QED
  BY <1>1, <1>2

(* Rounded up, a quotient exceeds a limit when the dividend does.          *)
LEMMA RoundedUp ==
    ASSUME NEW a \in Nat, NEW s \in Nat \ {0}, NEW l \in Nat
    PROVE  (a + s - 1) \div s <= l <=> a <= l * s
OBVIOUS

(* A remainder is no more than its number.                                 *)
LEMMA NotMore == ASSUME NEW w \in Nat \ {0}, NEW m \in Nat PROVE m % w <= m
<1>1. m % w \in 0 .. w - 1
  BY Remainder
<1>2. CASE m < w
  BY <1>2, SmallRemainder
<1>3. CASE ~(m < w)
  BY <1>1, <1>3
<1> QED
  BY <1>2, <1>3

-----------------------------------------------------------------------------
(*                          The invariant                                  *)

(* The kernel's counters as a row.                                         *)
Present == [time |-> clock, count |-> counter, moved |-> moved, resets |-> resets]

(* Row b may come after row a: the counters have been reset in between, or *)
(* they have gone on with what went through.                               *)
Follows(a, b) ==
    /\ a.resets <= b.resets
    /\ a.resets = b.resets =>
          \A d \in Dirs : /\ a.moved[d] <= b.moved[d]
                          /\ b.count[d] = ((b.moved[d] - a.moved[d]) + a.count[d]) % Width

(* The table describes one course of the traffic.                          *)
CourseInv ==
    /\ \A i \in DOMAIN table : table[i].time <= clock /\ Follows(table[i], Present)
    /\ \A i, j \in DOMAIN table : i < j => Follows(table[i], table[j])

(* During a round its newest row is still in the table, too young for the  *)
(* cleaner; and a round that has found no row before the span need not     *)
(* fear that there is one now.                                             *)
RoundInv ==
    stats \in {"older", "oldest"} =>
        /\ newest \in Rows
        /\ \E i \in DOMAIN table : table[i] = newest
        /\ clock - newest.time <= MaxAge
        /\ stats = "oldest" =>
              \A i \in DOMAIN table : ~Older(table[i], newest.time - Span)

(* What a sample says of its two rows.                                     *)
Good(x) ==
    /\ x.last.time <= x.new.time
    /\ x.last = x.new \/ Follows(x.last, x.new)
    /\ x.ok \in Verdicts(x.new, x.last)
    /\ x.real <=> x.new.time - x.last.time > Span

SampleInv == \A x \in senders : Good(x)

WatchInv == TypeOK /\ CourseInv /\ RoundInv /\ SampleInv

(* The constants, one by one.                                              *)
LEMMA Constants ==
    /\ Span \in Nat \ {0} /\ Floor \in Nat \ {0} /\ Width \in Nat \ {0}
    /\ Buffer \in Nat \ {0} /\ FirstTick \in Nat \ {0}
    /\ MaxAge \in Nat /\ Retention \in Nat /\ MaxAge < Retention
    /\ Limit \in [Dirs -> Nat] /\ Traffic \subseteq [Dirs -> Nat]
BY ConstantsAssumption

(* The rows that remain after the first n are gone.                        *)
LEMMA Remaining ==
    ASSUME NEW S, NEW q \in Seq(S), NEW n \in DOMAIN q
    PROVE  LET rest == SubSeq(q, n + 1, Len(q)) IN
           /\ rest \in Seq(S) /\ Len(rest) = Len(q) - n
           /\ DOMAIN rest = 1 .. Len(q) - n
           /\ \A i \in DOMAIN rest : rest[i] = q[i + n] /\ i + n \in DOMAIN q
<1>1. DOMAIN q = 1 .. Len(q) /\ Len(q) \in Nat /\ n \in 1 .. Len(q)
  OBVIOUS
<1>2. \A i \in n + 1 .. Len(q) : q[i] \in S
  BY <1>1
<1> QED
  BY <1>1, <1>2


(* A set of places in the table has a greatest one: Newest is in its set.  *)
LEMMA NewestIn ==
    ASSUME NEW q, NEW S, q \in Seq(S), NEW T \in SUBSET DOMAIN q, T # {}
    PROVE  Newest(T) \in T
<1> DEFINE D == {Len(q) - i : i \in T}
           Less == {p \in Nat \X Nat : p[1] < p[2]}
<1>1. DOMAIN q = 1 .. Len(q) /\ Len(q) \in Nat
  OBVIOUS
<1>2. D \subseteq Nat /\ D # {}
  BY <1>1
<1>3. PICK x \in D : \A y \in D : ~(<<y, x>> \in Less)
  <2>1. Less = OpToRel(<, Nat)
    BY DEF OpToRel
  <2>2. IsWellFoundedOn(Less, Nat)
    <3> HIDE DEF Less
    <3> QED
      BY <2>1, NatLessThanWellFounded, Zenon
  <2> HIDE DEF Less, D
  <2> QED
    BY <1>2, <2>2, WFMin
<1>4. PICK i \in T : x = Len(q) - i
  OBVIOUS
<1>5. \A j \in T : j <= i
  <2> SUFFICES ASSUME NEW j \in T PROVE j <= i
    OBVIOUS
  <2>1. Len(q) - j \in D /\ Len(q) - j \in Nat /\ x \in Nat
    BY <1>2
  <2>2. ~(Len(q) - j < x)
    BY <1>2, <1>3, <2>1
  <2> QED
    BY <1>1, <1>4, <2>2
<1> QED
  BY <1>5 DEF Newest

(* Where FindOlder looks.                                                  *)
LEMMA InTable ==
    ASSUME TypeOK, Before # {}
    PROVE  Newest(Before) \in Before /\ table[Newest(Before)] \in Rows
<1>1. Newest(Before) \in Before
  <2>1. table \in Seq(Rows) /\ Before \in SUBSET DOMAIN table
    BY DEF TypeOK, Before
  <2> QED
    BY <2>1, NewestIn
<1> QED
  BY <1>1 DEF TypeOK, Before

(* What Notify sends are samples of its two rows.                          *)
LEMMA Sent ==
    ASSUME TypeOK, RoundInv, stats \in {"older", "oldest"}, NEW last \in Rows,
           NEW real \in BOOLEAN, Notify(last, real)
    PROVE  /\ senders' \subseteq Samples
           /\ \A x \in senders' : \/ x \in senders
                                  \/ /\ x.new = newest /\ x.last = last /\ x.real = real
                                     /\ x.ok \in Verdicts(newest, last)
<1>1. PICK ok \in Verdicts(newest, last) : senders' = senders \cup
         {[to |-> s, new |-> newest, last |-> last, ok |-> ok, real |-> real]
             : s \in {s \in Subs : chan[s].is # "nil"}}
  BY DEF Notify
<1>2. newest \in Rows /\ senders \subseteq Samples
  BY DEF RoundInv, TypeOK
<1>3. ok \in BOOLEAN
  BY <1>1 DEF Verdicts
<1>4. \A s \in Subs : [to |-> s, new |-> newest, last |-> last, ok |-> ok, real |-> real] \in Samples
  BY <1>2, <1>3 DEF Samples
<1> QED
  BY <1>1, <1>2, <1>4

(* The types, and the order of the rows.                                   *)
LEMMA TypesKept ==
    ASSUME TypeOK, RoundInv, [Next]_vars
    PROVE  TypeOK'
<1> USE DEF TypeOK
<1>1. CASE UNCHANGED vars
  BY <1>1 DEF vars, envVars, loopVars, stopVars
<1>2. CASE Tick
  <2>1. PICK x \in Traffic, reset \in {0, 1} :
             /\ resets' = resets + reset
             /\ moved' = [d \in Dirs |-> moved[d] + x[d]]
             /\ counter' = [d \in Dirs |-> ((IF reset = 1 THEN 0 ELSE counter[d]) + x[d]) % Width]
    BY <1>2 DEF Tick
  <2>2. \A d \in Dirs : x[d] \in Nat /\ moved[d] \in Nat /\ counter[d] \in 0 .. Width - 1
    BY Constants
  <2>3. moved' \in [Dirs -> Nat]
    BY <2>1, <2>2
  <2>4. counter' \in [Dirs -> 0 .. Width - 1]
    <3>1. \A d \in Dirs : ((IF reset = 1 THEN 0 ELSE counter[d]) + x[d]) \in Nat
      BY <2>2, Constants
    <3> QED
      BY <2>1, <3>1, Constants, Remainder
  <2> QED
    BY <1>2, <2>1, <2>3, <2>4 DEF Tick, loopVars, stopVars
<1>3. CASE Clean
  <2>1. PICK n \in DOMAIN table : table' = SubSeq(table, n + 1, Len(table))
    BY <1>3 DEF Clean
  <2>2. /\ table' \in Seq(Rows)
        /\ \A i \in DOMAIN table' : table'[i] = table[i + n] /\ i + n \in DOMAIN table
        /\ DOMAIN table' \subseteq Nat /\ n \in Nat
    BY <2>1, Remaining
  <2>3. \A i, j \in DOMAIN table' : i < j => table'[i].time < table'[j].time
    <3> SUFFICES ASSUME NEW i \in DOMAIN table', NEW j \in DOMAIN table', i < j
                 PROVE  table'[i].time < table'[j].time
      OBVIOUS
    <3>1. i + n \in DOMAIN table /\ j + n \in DOMAIN table /\ i + n < j + n
      BY <2>2
    <3> QED
      BY <2>2, <3>1
  <2> QED
    BY <1>3, <2>2, <2>3 DEF Clean, loopVars, stopVars
<1>4. CASE Start
  BY <1>4 DEF Start, envVars, loopVars, stopVars
<1>5. ASSUME NEW s \in Subs, AddNotice(s)
      PROVE  TypeOK'
  <2>1. [is |-> "open", held |-> 0, reader |-> "on"] \in Channels
    BY Constants DEF Channels
  <2> QED
    BY <1>5, <2>1 DEF AddNotice, envVars, loopVars, stopVars
<1>6. CASE Collect
  <2>1. table' = Append(table, Present) /\ \A i \in DOMAIN table : table[i].time < clock
    BY <1>6 DEF Collect, CollectorMove, Present
  <2>2. Present \in Rows
    BY DEF Present, Rows
  <2>3. table' \in Seq(Rows) /\ Len(table') = Len(table) + 1 /\ Len(table) \in Nat
    BY <2>1, <2>2
  <2>4. /\ \A i \in 1 .. Len(table) : table'[i] = table[i] /\ table[i].time < clock
        /\ table'[Len(table) + 1].time = clock
    BY <2>1, <2>2 DEF Present
  <2>5. \A i, j \in DOMAIN table' : i < j => table'[i].time < table'[j].time
    <3> SUFFICES ASSUME NEW i \in DOMAIN table', NEW j \in DOMAIN table', i < j
                 PROVE  table'[i].time < table'[j].time
      OBVIOUS
    <3>1. i \in 1 .. Len(table) /\ j \in 1 .. Len(table) + 1
      BY <2>3
    <3>2. CASE j = Len(table) + 1
      BY <2>4, <3>1, <3>2
    <3>3. CASE j \in 1 .. Len(table)
      <4>1. i \in DOMAIN table /\ j \in DOMAIN table
        BY <3>1, <3>3
      <4> QED
        BY <2>4, <3>1, <3>3, <4>1
    <3> QED
      BY <3>1, <3>2, <3>3
  <2> QED
    BY <1>6, <2>3, <2>5 DEF Collect, CollectorMove, stopVars
<1>7. CASE CollectEnds
  BY <1>7 DEF CollectEnds, CollectorMove, envVars, loopVars, stopVars
<1>8. CASE FindNewest
  <2>1. table[Len(table)] \in Rows
    BY <1>8 DEF FindNewest
  <2> QED
    BY <1>8, <2>1 DEF FindNewest, StatsMove, envVars, stopVars
<1>9. CASE FindOlder
  <2>1. PICK last \in Rows : Notify(last, TRUE)
    BY <1>9, InTable DEF FindOlder
  <2>2. senders' \subseteq Samples
    BY <1>9, <2>1, Sent DEF FindOlder, StatsMove
  <2> QED
    BY <1>9, <2>1, <2>2 DEF FindOlder, StatsMove, Notify, Rounded, envVars, stopVars
<1>10. CASE FindNoOlder
  BY <1>10 DEF FindNoOlder, StatsMove, envVars, loopVars, stopVars
<1>11. CASE FindOldest
  <2>1. PICK last \in Rows : Notify(last, FALSE)
    <3>1. Head(table) \in Rows
      BY <1>11 DEF FindOldest
    <3> QED
      BY <1>11, <3>1 DEF FindOldest
  <2>2. senders' \subseteq Samples
    BY <1>11, <2>1, Sent DEF FindOldest, StatsMove
  <2> QED
    BY <1>11, <2>1, <2>2 DEF FindOldest, StatsMove, Notify, Rounded, envVars, stopVars
<1>12. CASE FindFails
  BY <1>12 DEF FindFails, StatsMove, Rounded, envVars, loopVars, stopVars
<1>13. CASE StatsEnds
  BY <1>13 DEF StatsEnds, StatsMove, envVars, loopVars, stopVars
<1>14. ASSUME NEW x \in senders, Deliver(x)
      PROVE  TypeOK'
  <2>1. x.to \in Subs /\ chan[x.to] \in Channels
    BY <1>14 DEF Samples
  <2>2. [chan[x.to] EXCEPT !.held = chan[x.to].held + 1] \in Channels
    <3>1. chan[x.to].held + 1 \in 0 .. Buffer
      BY <1>14, <2>1, Constants DEF Deliver, Channels
    <3> QED
      BY <2>1, <3>1 DEF Channels
  <2>3. chan' \in [Subs -> Channels]
    BY <1>14, <2>1, <2>2 DEF Deliver
  <2> QED
    BY <1>14, <2>3 DEF Deliver, envVars, loopVars, stopVars
<1>15. ASSUME NEW x \in senders, GiveUp(x)
      PROVE  TypeOK'
  BY <1>15 DEF GiveUp, envVars, loopVars, stopVars
<1>16. ASSUME NEW s \in Subs, Take(s)
      PROVE  TypeOK'
  <2>1. s \in Subs /\ chan[s] \in Channels
    BY <1>16 DEF Samples
  <2>2. [chan[s] EXCEPT !.held = chan[s].held - 1] \in Channels
    <3>1. chan[s].held - 1 \in 0 .. Buffer
      BY <1>16, <2>1, Constants DEF Take, Channels
    <3> QED
      BY <2>1, <3>1 DEF Channels
  <2>3. chan' \in [Subs -> Channels]
    BY <1>16, <2>1, <2>2 DEF Take
  <2> QED
    BY <1>16, <2>3 DEF Take, envVars, loopVars, stopVars
<1>17. ASSUME NEW s \in Subs, ReaderEnds(s)
      PROVE  TypeOK'
  <2>1. s \in Subs /\ chan[s] \in Channels
    BY <1>17 DEF Samples
  <2>2. [chan[s] EXCEPT !.reader = "ended"] \in Channels
    <3>1. "ended" \in {"off", "on", "ended", "stopped"}
      BY <1>17, <2>1, Constants DEF ReaderEnds, Channels
    <3> QED
      BY <2>1, <3>1 DEF Channels
  <2>3. chan' \in [Subs -> Channels]
    BY <1>17, <2>1, <2>2 DEF ReaderEnds
  <2> QED
    BY <1>17, <2>3 DEF ReaderEnds, envVars, loopVars, stopVars
<1>23. ASSUME NEW s \in Subs, ReaderStopped(s)
      PROVE  TypeOK'
  <2>1. [chan[s] EXCEPT !.reader = "stopped"] \in Channels
    BY DEF Channels
  <2>2. chan' \in [Subs -> Channels]
    BY <1>23, <2>1 DEF ReaderStopped
  <2> QED
    BY <1>23, <2>2 DEF ReaderStopped, envVars, loopVars, stopVars
<1>18. CASE StopBegins
  BY <1>18 DEF StopBegins, envVars, loopVars, stopVars
<1>19. CASE StopCloses
  <2>1. ASSUME NEW s \in Subs, chan' = [chan EXCEPT ![s].is = "closed"]
        PROVE  chan' \in [Subs -> Channels]
    <3>1. [chan[s] EXCEPT !.is = "closed"] \in Channels
      BY DEF Channels
    <3> QED
      BY <2>1, <3>1
  <2> QED
    BY <1>19, <2>1 DEF StopCloses, StopMove, envVars, loopVars
<1>20. CASE StopReturns
  BY <1>20 DEF StopReturns, envVars, loopVars, stopVars
<1>21. CASE CloserWakes
  BY <1>21 DEF CloserWakes, CloserMove, envVars, loopVars, stopVars
<1>22. CASE CloserEnds
  BY <1>22 DEF CloserEnds, CloserMove, envVars, loopVars, stopVars
<1> QED
  BY <1>1, <1>2, <1>3, <1>4, <1>5, <1>6, <1>7, <1>8, <1>9, <1>10, <1>11, <1>12,
     <1>13, <1>14, <1>15, <1>16, <1>17, <1>18, <1>19, <1>20, <1>21, <1>22, <1>23
     DEF Next, CollectorStep, StatsStep, SenderStep, ReaderStep, Closer

-----------------------------------------------------------------------------
(*                     The course of the traffic                           *)

(* What changes the table or its surroundings.                             *)
LEMMA CourseSteps ==
    ASSUME [Next]_vars
    PROVE  Tick \/ Clean \/ Collect \/ UNCHANGED envVars
BY DEF Next, vars, envVars, Start, AddNotice, CollectorStep, CollectEnds, CollectorMove,
       StatsStep,
       FindNewest, FindOlder, FindNoOlder, FindOldest, FindFails, StatsEnds, StatsMove,
       SenderStep, Deliver, GiveUp, ReaderStep, Take, ReaderEnds, ReaderStopped, StopBegins,
       StopCloses,
       StopMove, StopReturns, Closer, CloserWakes, CloserEnds, CloserMove

(* Counters follow themselves.                                             *)
LEMMA FollowsItself == ASSUME TypeOK PROVE Follows(Present, Present)
<1>1. \A d \in Dirs : counter[d] \in 0 .. Width - 1 /\ moved[d] \in Nat
  BY DEF TypeOK
<1>2. \A d \in Dirs : counter[d] = ((moved[d] - moved[d]) + counter[d]) % Width
  <2> SUFFICES ASSUME NEW d \in Dirs
               PROVE  counter[d] = ((moved[d] - moved[d]) + counter[d]) % Width
    OBVIOUS
  <2>1. (moved[d] - moved[d]) + counter[d] = counter[d]
    BY <1>1
  <2> QED
    BY <1>1, <2>1, Constants, SmallRemainder
<1> QED
  BY <1>1, <1>2 DEF Follows, Present, TypeOK

(* As time passes the counters go on from every row, or start again.       *)
LEMMA Passing ==
    ASSUME TypeOK, Tick, NEW a \in Rows, Follows(a, Present)
    PROVE  Follows(a, Present')
<1>1. PICK x \in Traffic, reset \in {0, 1} :
         /\ resets' = resets + reset
         /\ moved' = [d \in Dirs |-> moved[d] + x[d]]
         /\ counter' = [d \in Dirs |-> ((IF reset = 1 THEN 0 ELSE counter[d]) + x[d]) % Width]
  BY DEF Tick
<1>2. /\ a.resets \in Nat /\ resets \in Nat /\ a.resets <= resets
      /\ \A d \in Dirs : /\ x[d] \in Nat /\ moved[d] \in Nat /\ a.moved[d] \in Nat
                         /\ a.count[d] \in 0 .. Width - 1
  BY Constants DEF TypeOK, Rows, Follows, Present
<1>3. ASSUME a.resets = resets', NEW d \in Dirs
      PROVE  /\ a.moved[d] <= moved'[d]
             /\ counter'[d] = ((moved'[d] - a.moved[d]) + a.count[d]) % Width
  <2> DEFINE m == (moved[d] - a.moved[d]) + a.count[d]
  <2>1. reset = 0 /\ a.resets = resets
    BY <1>1, <1>2, <1>3
  <2>2. a.moved[d] <= moved[d] /\ counter[d] = m % Width
    BY <2>1 DEF Follows, Present
  <2>3. m \in Nat
    BY <1>2, <2>2
  <2>4. counter'[d] = (counter[d] + x[d]) % Width
    BY <1>1, <2>1
  <2>5. (m + x[d]) % Width = ((m % Width) + x[d]) % Width
    BY <1>2, <2>3, Constants, RemainderOfSum
  <2>6. m + x[d] = (moved'[d] - a.moved[d]) + a.count[d]
    BY <1>1, <1>2
  <2>7. a.moved[d] <= moved'[d]
    BY <1>1, <1>2, <2>2
  <2> HIDE DEF m
  <2> QED
    BY <2>2, <2>4, <2>5, <2>6, <2>7
<1>4. a.resets <= resets'
  BY <1>1, <1>2
<1> QED
  BY <1>3, <1>4 DEF Follows, Present

LEMMA TheRows ==
    ASSUME TypeOK
    PROVE  /\ table \in Seq(Rows) /\ DOMAIN table = 1 .. Len(table) /\ Len(table) \in Nat
           /\ \A i \in DOMAIN table : table[i] \in Rows /\ table[i].time \in Nat
           /\ clock \in Nat
<1>1. table \in Seq(Rows) /\ clock \in Nat
  BY DEF TypeOK
<1>2. \A r \in Rows : r.time \in Nat
  BY DEF Rows
<1> QED
  BY <1>1, <1>2

LEMMA CourseKept == ASSUME TypeOK, CourseInv, [Next]_vars PROVE CourseInv'
<1>0. \A i \in DOMAIN table : table[i] \in Rows /\ table[i].time \in Nat
  BY TheRows
<1>1. CASE UNCHANGED envVars
  <2>1. Present' = Present
    BY <1>1 DEF envVars, Present
  <2> QED
    BY <1>1, <2>1 DEF envVars, CourseInv
<1>2. CASE Tick
  <2>1. table' = table /\ clock' = clock + 1 /\ clock \in Nat
    BY <1>2 DEF Tick, TypeOK
  <2>2. \A i \in DOMAIN table : Follows(table[i], Present')
    BY <1>0, <1>2, Passing DEF CourseInv
  <2> QED
    BY <1>0, <2>1, <2>2 DEF CourseInv
<1>3. CASE Clean
  <2>1. PICK n \in DOMAIN table : table' = SubSeq(table, n + 1, Len(table))
    BY <1>3 DEF Clean
  <2>2. table \in Seq(Rows) /\ DOMAIN table = 1 .. Len(table) /\ Len(table) \in Nat
    BY DEF TypeOK
  <2>3. /\ \A i \in DOMAIN table' : table'[i] = table[i + n] /\ i + n \in DOMAIN table
        /\ DOMAIN table' = 1 .. Len(table) - n
    BY <2>1, <2>2, Remaining
  <2>4. Present' = Present /\ clock' = clock
    BY <1>3 DEF Clean, Present
  <2>5. \A i, j \in DOMAIN table' : i < j => i + n < j + n
    BY <2>2, <2>3
  <2> QED
    BY <2>3, <2>4, <2>5 DEF CourseInv
<1>4. CASE Collect
  <2>1. table' = Append(table, Present) /\ Present' = Present /\ clock' = clock
    BY <1>4 DEF Collect, CollectorMove, Present
  <2>2. table \in Seq(Rows) /\ Present \in Rows
    BY DEF TypeOK, Present, Rows
  <2>3. /\ \A i \in 1 .. Len(table) : table'[i] = table[i]
        /\ table'[Len(table) + 1] = Present
        /\ DOMAIN table' = 1 .. Len(table) + 1 /\ DOMAIN table = 1 .. Len(table)
        /\ Len(table) \in Nat
    BY <2>1, <2>2
  <2>4. Follows(Present, Present) /\ Present.time <= clock
    BY FollowsItself DEF Present, TypeOK
  <2>5. \A i \in DOMAIN table' : table'[i].time <= clock /\ Follows(table'[i], Present)
    <3> SUFFICES ASSUME NEW i \in DOMAIN table'
                 PROVE  table'[i].time <= clock /\ Follows(table'[i], Present)
      OBVIOUS
    <3>1. CASE i = Len(table) + 1
      BY <2>3, <2>4, <3>1
    <3>2. CASE i \in 1 .. Len(table)
      BY <2>3, <3>2 DEF CourseInv
    <3> QED
      BY <2>3, <3>1, <3>2
  <2>6. \A i, j \in DOMAIN table' : i < j => Follows(table'[i], table'[j])
    <3> SUFFICES ASSUME NEW i \in DOMAIN table', NEW j \in DOMAIN table', i < j
                 PROVE  Follows(table'[i], table'[j])
      OBVIOUS
    <3>1. i \in 1 .. Len(table) /\ table'[i] = table[i]
      BY <2>3
    <3>2. CASE j = Len(table) + 1
      BY <2>3, <3>1, <3>2 DEF CourseInv
    <3>3. CASE j \in 1 .. Len(table)
      BY <2>3, <3>1, <3>3 DEF CourseInv
    <3> QED
      BY <2>3, <3>2, <3>3
  <2> QED
    BY <2>1, <2>5, <2>6 DEF CourseInv
<1> QED
  BY <1>1, <1>2, <1>3, <1>4, CourseSteps

-----------------------------------------------------------------------------
(*                       The rounds and their samples                      *)

(* What matters to a round of the statistics.                              *)
LEMMA RoundSteps ==
    ASSUME [Next]_vars
    PROVE  \/ stats' \notin {"older", "oldest"}
           \/ FindNewest \/ FindNoOlder \/ Clean \/ Collect
           \/ UNCHANGED <<clock, table, stats, newest>>
BY DEF Next, vars, envVars, loopVars, stopVars, Tick, Start, AddNotice, CollectorStep,
       CollectEnds,
       CollectorMove, StatsStep, FindOlder, FindOldest, FindFails, StatsEnds, StatsMove,
       SenderStep, Deliver, GiveUp, ReaderStep, Take, ReaderEnds, ReaderStopped, StopBegins,
       StopCloses,
       StopMove, StopReturns, Closer, CloserWakes, CloserEnds, CloserMove

LEMMA RoundKept == ASSUME TypeOK, CourseInv, RoundInv, [Next]_vars PROVE RoundInv'
<1>0. /\ table \in Seq(Rows) /\ DOMAIN table = 1 .. Len(table) /\ Len(table) \in Nat
      /\ \A i \in DOMAIN table : table[i] \in Rows /\ table[i].time \in Nat
      /\ clock \in Nat
  BY TheRows
<1>1. CASE stats' \notin {"older", "oldest"}
  BY <1>1 DEF RoundInv
<1>2. CASE FindNewest
  <2>1. /\ stats' = "older" /\ newest' = table[Len(table)] /\ table' = table /\ clock' = clock
        /\ clock - table[Len(table)].time <= MaxAge /\ table # <<>>
    BY <1>2 DEF FindNewest, StatsMove, envVars
  <2>2. Len(table) \in DOMAIN table
    BY <1>0, <2>1
  <2> QED
    BY <1>0, <2>1, <2>2 DEF RoundInv
<1>3. CASE FindNoOlder
  <2>1. /\ stats = "older" /\ newest' = newest /\ table' = table /\ clock' = clock
        /\ Before = {}
    BY <1>3 DEF FindNoOlder, StatsMove, envVars
  <2>2. \A i \in DOMAIN table : ~Older(table[i], newest.time - Span)
    BY <2>1 DEF Before
  <2> QED
    BY <2>1, <2>2 DEF RoundInv
<1>4. CASE Clean /\ stats \in {"older", "oldest"}
  <2>1. PICK n \in DOMAIN table :
           /\ \A i \in DOMAIN table : Older(table[i], clock - Retention) <=> i <= n
           /\ table' = SubSeq(table, n + 1, Len(table))
    BY <1>4 DEF Clean
  <2>2. /\ \A i \in DOMAIN table' : table'[i] = table[i + n] /\ i + n \in DOMAIN table
        /\ DOMAIN table' = 1 .. Len(table) - n
    BY <1>0, <2>1, Remaining
  <2>3. clock' = clock /\ stats' = stats /\ newest' = newest
    BY <1>4 DEF Clean, loopVars
  <2>4. PICK i \in DOMAIN table : table[i] = newest
    BY <1>4 DEF RoundInv
  <2>5. ~(i <= n)
    <3>1. clock - newest.time <= MaxAge /\ newest.time \in Nat
      BY <1>4 DEF RoundInv, Rows
    <3>2. ~Older(newest, clock - Retention)
      BY <1>0, <3>1, Constants DEF Older
    <3> QED
      BY <2>1, <2>4, <3>2
  <2>6. i - n \in DOMAIN table' /\ (i - n) + n = i
    BY <1>0, <2>2, <2>5
  <2>7. table'[i - n] = newest
    BY <2>2, <2>4, <2>6
  <2>8. \E k \in DOMAIN table' : table'[k] = newest
    BY <2>6, <2>7
  <2> QED
    BY <1>4, <2>2, <2>3, <2>8 DEF RoundInv
<1>5. CASE Collect /\ stats \in {"older", "oldest"}
  <2>1. /\ table' = Append(table, Present) /\ clock' = clock /\ stats' = stats
        /\ newest' = newest
    BY <1>5 DEF Collect, CollectorMove, Present
  <2>2. Present \in Rows
    BY DEF TypeOK, Present, Rows
  <2>3. /\ \A i \in 1 .. Len(table) : table'[i] = table[i]
        /\ table'[Len(table) + 1] = Present
        /\ DOMAIN table' = 1 .. Len(table) + 1
    BY <1>0, <2>1, <2>2
  <2>4. PICK i \in DOMAIN table : table[i] = newest
    BY <1>5 DEF RoundInv
  <2>5. i \in DOMAIN table' /\ table'[i] = newest
    BY <1>0, <2>3, <2>4
  <2>6. ~Older(Present, newest.time - Span)
    <3>1. newest.time <= clock /\ newest.time \in Nat
      BY <2>4, <1>0 DEF CourseInv
    <3> QED
      BY <1>0, <3>1, Constants DEF Older, Present
  <2>7. stats = "oldest" => \A k \in DOMAIN table' : ~Older(table'[k], newest.time - Span)
    BY <1>0, <2>3, <2>6 DEF RoundInv
  <2> QED
    BY <1>5, <2>1, <2>5, <2>7 DEF RoundInv
<1>6. CASE UNCHANGED <<clock, table, stats, newest>>
  BY <1>6 DEF RoundInv
<1>7. stats' = stats \/ ~(Clean \/ Collect)
  BY DEF Clean, Collect, CollectorMove, loopVars
<1> QED
  BY <1>1, <1>2, <1>3, <1>4, <1>5, <1>6, <1>7, RoundSteps

(* Samples come from the two queries alone.                                *)
LEMMA SampleSteps ==
    ASSUME [Next]_vars
    PROVE  senders' \subseteq senders \/ FindOlder \/ FindOldest
BY DEF Next, vars, Tick, Clean, Start, AddNotice, CollectorStep, Collect, CollectEnds,
       CollectorMove, StatsStep, FindNewest, FindNoOlder, FindFails, StatsEnds, StatsMove,
       SenderStep, Deliver, GiveUp, ReaderStep, Take, ReaderEnds, ReaderStopped, StopBegins,
       StopCloses,
       StopMove, StopReturns, Closer, CloserWakes, CloserEnds, CloserMove

(* A row not newer than the newest one comes before it.                    *)
LEMMA InOrder ==
    ASSUME TypeOK, CourseInv, NEW i \in DOMAIN table, NEW j \in DOMAIN table,
           table[i].time < table[j].time \/ i = 1
    PROVE  /\ table[i].time <= table[j].time
           /\ table[i] = table[j] \/ Follows(table[i], table[j])
<1>1. /\ DOMAIN table = 1 .. Len(table) /\ Len(table) \in Nat
      /\ \A k \in DOMAIN table : table[k].time \in Nat
  BY TheRows
<1>2. \A k, l \in DOMAIN table : k < l => table[k].time < table[l].time
  BY DEF TypeOK
<1>3. i = j \/ i < j
  BY <1>1, <1>2
<1>4. i < j => table[i].time < table[j].time /\ Follows(table[i], table[j])
  BY <1>2 DEF CourseInv
<1> QED
  BY <1>1, <1>3, <1>4

LEMMA SampleKept ==
    ASSUME TypeOK, CourseInv, RoundInv, SampleInv, [Next]_vars
    PROVE  SampleInv'
<1>1. CASE senders' \subseteq senders
  BY <1>1 DEF SampleInv
<1>2. CASE FindOlder
  <2> DEFINE n == Newest(Before)
  <2>1. stats = "older" /\ Notify(table[n], TRUE) /\ Before # {}
    BY <1>2 DEF FindOlder, StatsMove
  <2>2. n \in DOMAIN table /\ Older(table[n], newest.time - Span) /\ table[n] \in Rows
    BY <2>1, InTable DEF Before
  <2>3. PICK j \in DOMAIN table : table[j] = newest
    BY <2>1 DEF RoundInv
  <2> HIDE DEF n
  <2>4. newest.time \in Nat /\ table[n].time \in Nat /\ newest.time - table[n].time > Span
    BY <2>1, <2>2, Constants DEF RoundInv, Rows, Older
  <2>5. table[n].time < newest.time
    BY <2>4, Constants
  <2>6. table[n].time <= newest.time /\ (table[n] = newest \/ Follows(table[n], newest))
    BY <2>2, <2>3, <2>5, InOrder
  <2>7. \A x \in senders' : \/ x \in senders
                            \/ /\ x.new = newest /\ x.last = table[n] /\ x.real = TRUE
                               /\ x.ok \in Verdicts(newest, table[n])
    BY <2>1, <2>2, Sent
  <2>8. \A x \in senders' : Good(x)
    BY <2>4, <2>6, <2>7 DEF SampleInv, Good
  <2> QED
    BY <2>8 DEF SampleInv
<1>3. CASE FindOldest
  <2>1. stats = "oldest" /\ Notify(Head(table), FALSE) /\ table # <<>>
    BY <1>3 DEF FindOldest, StatsMove
  <2>2. 1 \in DOMAIN table /\ Head(table) = table[1] /\ table[1] \in Rows
    BY <2>1 DEF TypeOK
  <2>3. PICK j \in DOMAIN table : table[j] = newest
    BY <2>1 DEF RoundInv
  <2>4. /\ newest.time \in Nat /\ table[1].time \in Nat
        /\ ~(newest.time - table[1].time > Span)
    BY <2>1, <2>2, Constants DEF RoundInv, Rows, Older
  <2>5. table[1].time <= newest.time /\ (table[1] = newest \/ Follows(table[1], newest))
    BY <2>2, <2>3, InOrder
  <2>6. \A x \in senders' : \/ x \in senders
                            \/ /\ x.new = newest /\ x.last = table[1] /\ x.real = FALSE
                               /\ x.ok \in Verdicts(newest, table[1])
    BY <2>1, <2>2, Sent
  <2>7. \A x \in senders' : Good(x)
    BY <2>4, <2>5, <2>6 DEF SampleInv, Good
  <2> QED
    BY <2>7 DEF SampleInv
<1> QED
  BY <1>1, <1>2, <1>3, SampleSteps


-----------------------------------------------------------------------------
(*                              Theorems                                   *)

LEMMA InitWatch == ASSUME Init PROVE WatchInv
<1>1. PICK x \in Traffic, reset \in {0, 1}, kept \in BOOLEAN :
         /\ moved = x
         /\ counter = IF reset = 1 THEN Zero ELSE Wrapped(x)
         /\ resets = reset
         /\ table = IF kept
                   THEN <<[time |-> 1, count |-> Wrapped(x), moved |-> x, resets |-> 0]>>
                   ELSE <<>>
  BY DEF Init, InitTable
<1> DEFINE r == [time |-> 1, count |-> Wrapped(x), moved |-> x, resets |-> 0]
<1>2. x \in [Dirs -> Nat] /\ clock = FirstTick
  BY Constants DEF Init, InitTable
<1>3. Wrapped(x) \in [Dirs -> 0 .. Width - 1] /\ Zero \in [Dirs -> 0 .. Width - 1]
  <2>1. \A d \in Dirs : x[d] % Width \in 0 .. Width - 1
    BY <1>2, Constants, Remainder
  <2> QED
    BY <2>1, Constants DEF Wrapped, Zero
<1>4. r \in Rows
  BY <1>2, <1>3 DEF Rows
<1> HIDE DEF r
<1>5. table = <<>> \/ table = <<r>>
  BY <1>1 DEF r
<1>6. /\ table \in Seq(Rows) /\ DOMAIN table \subseteq {1}
      /\ \A i \in DOMAIN table : table[i] = r
  <2>1. CASE table = <<>>
    BY <2>1
  <2>2. CASE table = <<r>>
    BY <1>4, <2>2
  <2> QED
    BY <1>5, <2>1, <2>2
<1>7. counter \in [Dirs -> 0 .. Width - 1] /\ moved \in [Dirs -> Nat] /\ resets \in Nat
  BY <1>1, <1>2, <1>3
<1>8. TypeOK
  <2>1. chan \in [Subs -> Channels]
    BY Constants DEF Init, Channels
  <2>2. \A i, j \in DOMAIN table : i < j => table[i].time < table[j].time
    BY <1>6
  <2> QED
    BY <1>2, <1>6, <1>7, <2>1, <2>2, Constants DEF Init, TypeOK
<1>9. Follows(r, Present)
  <2>1. CASE reset = 1
    BY <1>1, <2>1 DEF r, Follows, Present
  <2>2. CASE reset = 0
    <3>1. Present.count = r.count /\ Present.moved = r.moved /\ r.resets = resets
      BY <1>1, <2>2 DEF r, Present
    <3>2. counter = r.count /\ moved = r.moved
      BY <3>1 DEF Present
    <3>3. Follows(Present, Present)
      BY <1>8, FollowsItself
    <3> QED
      BY <3>1, <3>2, <3>3 DEF Follows, Present
  <2> QED
    BY <2>1, <2>2
<1>10. CourseInv
  BY <1>2, <1>6, <1>9, Constants DEF CourseInv, r
<1>11. RoundInv /\ SampleInv
  BY DEF Init, RoundInv, SampleInv
<1> QED
  BY <1>8, <1>10, <1>11 DEF WatchInv

(* The invariant is inductive.                                             *)
THEOREM Inductive == Spec => []WatchInv
<1>1. WatchInv /\ [Next]_vars => WatchInv'
  BY TypesKept, CourseKept, RoundKept, SampleKept DEF WatchInv
<1> QED
  BY <1>1, InitWatch, PTL DEF Spec

(* Everything keeps its type, and the rows are in the order of their times.*)
THEOREM TypeCorrect == Spec => []TypeOK
<1>1. WatchInv => TypeOK
  BY DEF WatchInv
<1> QED
  BY <1>1, Inductive, PTL

(* A real last record is one before the whole span (RealMeansFullSpan).    *)
THEOREM RealIsFull == Spec => []RealMeansFullSpan
<1>1. WatchInv => RealMeansFullSpan
  BY DEF WatchInv, SampleInv, Good, RealMeansFullSpan, Seconds
<1> QED
  BY <1>1, Inductive, PTL

(* What the program computes for one direction of a sample that counts.    *)
LEMMA Computed ==
    ASSUME NEW x \in Samples, Good(x), CountsFor(x), x.new.resets = x.last.resets, NEW d \in Dirs
    PROVE  /\ ThroughIn(x, d) \in Nat
           /\ Diff(x.new, x.last, d) = ThroughIn(x, d) % Width
           /\ Rate(x.new, x.last, d) <= Limit[d] <=> Diff(x.new, x.last, d) <= Allowed(x, d)
<1> DEFINE through == ThroughIn(x, d)
           a == x.last.count[d]
           m == through % Width
<1>1. x.new \in Rows /\ x.last \in Rows
  BY DEF Samples
<1>2. /\ x.new.time \in Nat /\ x.last.time \in Nat
      /\ x.new.moved[d] \in Nat /\ x.last.moved[d] \in Nat
      /\ x.new.count[d] \in 0 .. Width - 1 /\ a \in 0 .. Width - 1
  BY <1>1 DEF Rows
<1>3. Seconds(x.new, x.last) \in Nat \ {0}
  BY <1>2, Constants DEF CountsFor, MinSpan, Seconds
<1>4. Follows(x.last, x.new)
  BY <1>2, <1>3 DEF Good, Seconds
<1>5. through \in Nat /\ x.new.count[d] = (through + a) % Width
  BY <1>2, <1>4 DEF Follows, ThroughIn
<1>6. m \in 0 .. Width - 1
  BY <1>5, Constants, Remainder
<1> HIDE DEF through
<1>7. x.new.count[d] = (m + a) % Width
  <2>1. a \in Nat /\ Width \in Nat \ {0}
    BY <1>2, Constants
  <2> HIDE DEF a
  <2>2. (through + a) % Width = ((through % Width) + a) % Width
    BY <1>5, <2>1, RemainderOfSum
  <2> QED
    BY <1>5, <2>2
<1>8. Diff(x.new, x.last, d) = m
  <2> HIDE DEF m, a
  <2>1. (((m + a) % Width) + Width - a) % Width = m
    BY <1>2, <1>6, Constants, Subtraction
  <2> QED
    BY <1>7, <2>1 DEF Diff, a
<1>9. Limit[d] \in Nat
  BY Constants
<1>10. Rate(x.new, x.last, d) <= Limit[d] <=> Diff(x.new, x.last, d) <= Allowed(x, d)
  <2> HIDE DEF m
  <2>1. Diff(x.new, x.last, d) \in Nat
    BY <1>6, <1>8, Constants
  <2> QED
    BY <1>3, <1>9, <2>1, RoundedUp DEF Rate, Allowed
<1> QED
  BY <1>5, <1>8, <1>10 DEF through

(* Every verdict that counts is true of the bytes that went through, but   *)
(* for whole turns of the counters (VerdictTrue).                          *)
THEOREM VerdictsTrue == Spec => []VerdictTrue
<1>1. ASSUME WatchInv PROVE VerdictTrue
  <2> SUFFICES ASSUME NEW x \in senders, CountsFor(x), x.new.resets = x.last.resets
               PROVE  IF x.ok
                      THEN \A d \in Dirs : Limit[d] > 0 =>
                              ThroughIn(x, d) <= Allowed(x, d) \/ ThroughIn(x, d) >= Width
                      ELSE \E d \in Dirs : Limit[d] > 0 /\ ThroughIn(x, d) > Allowed(x, d)
    BY DEF VerdictTrue
  <2>1. x \in Samples /\ Good(x)
    BY <1>1 DEF WatchInv, TypeOK, SampleInv
  <2>2. \A d \in Dirs : Limit[d] \in Nat
    BY Constants
  <2>3. Seconds(x.new, x.last) # 0
    <3>1. x.new.time \in Nat /\ x.last.time \in Nat
      BY <2>1 DEF Samples, Rows
    <3> QED
      BY <3>1, Constants DEF CountsFor, MinSpan, Seconds
  <2>4. /\ x.ok \in BOOLEAN
        /\ x.ok <=> \A d \in Dirs : Limit[d] = 0 \/ Rate(x.new, x.last, d) <= Limit[d]
    <3>1. x.ok = \A d \in Dirs : Limit[d] = 0 \/ Rate(x.new, x.last, d) <= Limit[d]
      BY <2>1, <2>3 DEF Good, Verdicts
    <3>2. x.ok \in BOOLEAN
      BY <2>1 DEF Samples
    <3> QED
      BY <3>1, <3>2
  <2>5. ASSUME NEW d \in Dirs, ThroughIn(x, d) < Width
        PROVE  Diff(x.new, x.last, d) = ThroughIn(x, d)
    BY <2>1, <2>5, Computed, SmallRemainder, Constants
  <2>6. ASSUME NEW d \in Dirs PROVE Diff(x.new, x.last, d) <= ThroughIn(x, d)
    BY <2>1, Computed, NotMore, Constants
  <2>7. ASSUME NEW d \in Dirs
        PROVE  /\ ThroughIn(x, d) \in Nat
               /\ Rate(x.new, x.last, d) <= Limit[d] <=> Diff(x.new, x.last, d) <= Allowed(x, d)
    BY <2>1, Computed
  <2>8. CASE x.ok
    <3> SUFFICES ASSUME NEW d \in Dirs, Limit[d] > 0, ThroughIn(x, d) < Width
                 PROVE  ThroughIn(x, d) <= Allowed(x, d)
      BY <2>7, <2>8, Constants
    <3>1. Rate(x.new, x.last, d) <= Limit[d]
      BY <2>2, <2>4, <2>8
    <3> QED
      BY <2>5, <2>7, <3>1
  <2>9. CASE ~x.ok
    <3>1. PICK d \in Dirs : Limit[d] # 0 /\ ~(Rate(x.new, x.last, d) <= Limit[d])
      BY <2>4, <2>9
    <3>2. Diff(x.new, x.last, d) <= ThroughIn(x, d) /\ ~(Diff(x.new, x.last, d) <= Allowed(x, d))
      BY <2>6, <2>7, <3>1
    <3>3. ThroughIn(x, d) > Allowed(x, d)
      <4>1. ThroughIn(x, d) \in Nat /\ Allowed(x, d) \in Int /\ Diff(x.new, x.last, d) \in Int
        <5>1. Seconds(x.new, x.last) \in Int
          BY <2>1 DEF Samples, Rows, Seconds
        <5>2. Diff(x.new, x.last, d) \in Int
          BY <2>1, Computed, Constants, Remainder
        <5> QED
          BY <2>2, <2>7, <5>1, <5>2 DEF Allowed
      <4> QED
        BY <3>2, <4>1
    <3> QED
      BY <2>2, <2>9, <3>1, <3>3
  <2> QED
    BY <2>8, <2>9
<1> QED
  BY <1>1, Inductive, PTL

-----------------------------------------------------------------------------
(*                    Who runs, who reads, and what Stop closes            *)

(* Whether it has been started or asked to stop, the goroutines agree: a   *)
(* loop ends only after the goroutine that waits for stopchan.             *)
StopInv ==
    /\ iface \in BOOLEAN /\ stopchan \in BOOLEAN
    /\ stopper \in {"idle", "range", "sleep", "returned"}
    /\ closer \in {"off", "wait", "half", "done"}
    /\ stopchan <=> stopper # "idle"
    /\ status = "Ready" <=> closer = "off"
    /\ status = "Ready" => stopper = "idle" /\ collector = "off" /\ stats = "off"
    /\ status = "Running" => stopper = "idle"
    /\ status # "Ready" /\ iface => collector # "off" /\ stats # "off"
    /\ closer \in {"half", "done"} => stopchan
    /\ collector = "ended" => closer = "done"
    /\ stats = "ended" => closer \in {"half", "done"}

(* A channel and its reader come together, and a reader leaves a channel   *)
(* of its own accord only when that is closed.  Until Range none is closed,*)
(* after it exactly one, and a sample is on its way to no channel that is  *)
(* not there.                                                              *)
ChanInv ==
    /\ ~iface \/ status = "Ready" => \A s \in Subs : chan[s].is = "nil"
    /\ stopper # "idle" /\ iface => \A s \in Subs : chan[s].is # "nil"
    /\ stopper \in {"idle", "range"} => \A s \in Subs : chan[s].is # "closed"
    /\ \A s, t \in Subs : chan[s].is = "closed" /\ chan[t].is = "closed" => s = t
    /\ stopper \in {"sleep", "returned"} /\ iface /\ Subs # {}
          => \E s \in Subs : chan[s].is = "closed"
    /\ \A s \in Subs : /\ chan[s].is = "nil" <=> chan[s].reader = "off"
                       /\ chan[s].reader = "ended" => chan[s].is = "closed"
    /\ \A x \in senders : chan[x.to].is # "nil"

(* What a step may be, in the order of the goroutines.                     *)
LEMMA WatchSteps ==
    ASSUME Next
    PROVE  \/ Tick \/ Clean
           \/ Start \/ StopBegins \/ StopCloses \/ StopReturns \/ CloserWakes \/ CloserEnds
           \/ Collect \/ CollectEnds
           \/ FindNewest \/ FindOlder \/ FindNoOlder \/ FindOldest \/ FindFails \/ StatsEnds
           \/ \E s \in Subs : AddNotice(s) \/ Take(s) \/ ReaderEnds(s) \/ ReaderStopped(s)
           \/ \E x \in senders : Deliver(x) \/ GiveUp(x)
  BY DEF Next, CollectorStep, StatsStep, SenderStep, ReaderStep, Closer

LEMMA StopKept ==
    ASSUME TypeOK, StopInv, [Next]_vars
    PROVE  StopInv'
<1> USE DEF StopInv
<1>1. CASE UNCHANGED vars
  BY <1>1 DEF vars, envVars, loopVars, stopVars
<1>2. CASE Tick \/ Clean
  BY <1>2 DEF Tick, Clean, loopVars, stopVars
<1>3. CASE Start
  BY <1>3 DEF Start, envVars
<1>4. CASE StopBegins \/ StopReturns
  <2>1. status # "Ready" /\ status' # "Ready" /\ stopper # "returned"
    BY <1>4 DEF StopBegins, StopReturns
  <2>2. UNCHANGED <<iface, closer, collector, stats>> /\ status' # "Running"
    BY <1>4 DEF StopBegins, StopReturns, loopVars
  <2>3. stopchan' = TRUE /\ stopper' \in {"range", "returned"}
    BY <1>4 DEF StopBegins, StopReturns
  <2> QED
    BY <2>1, <2>2, <2>3
<1>5. CASE StopCloses
  BY <1>5 DEF StopCloses, StopMove, loopVars
<1>6. CASE CloserWakes \/ CloserEnds
  BY <1>6 DEF CloserWakes, CloserEnds, CloserMove, stopVars
<1>7. CASE Collect \/ CollectEnds
  BY <1>7 DEF Collect, CollectEnds, CollectorMove, stopVars
<1>8. CASE FindNewest \/ FindOlder \/ FindNoOlder \/ FindOldest \/ FindFails
  <2>1. /\ stats \in {"wait", "older", "oldest"} /\ stats' \in {"wait", "older", "oldest"}
        /\ UNCHANGED <<iface, closer, collector, status, stopper, stopchan>>
    BY <1>8 DEF FindNewest, FindOlder, FindNoOlder, FindOldest, FindFails, StatsMove, stopVars
  <2> QED
    BY <2>1
<1>9. CASE StatsEnds
  BY <1>9 DEF StatsEnds, StatsMove, stopVars
<1>10. CASE \E s \in Subs : AddNotice(s) \/ Take(s) \/ ReaderEnds(s) \/ ReaderStopped(s)
  BY <1>10 DEF AddNotice, Take, ReaderEnds, ReaderStopped, loopVars, stopVars
<1>11. CASE \E x \in senders : Deliver(x) \/ GiveUp(x)
  BY <1>11 DEF Deliver, GiveUp, loopVars, stopVars
<1> QED
  BY WatchSteps, <1>1, <1>2, <1>3, <1>4, <1>5, <1>6, <1>7, <1>8, <1>9, <1>10, <1>11

(* A step that leaves channels, senders and the stop alone.                *)
LEMMA ChanFrame ==
    ASSUME ChanInv, UNCHANGED <<iface, stopper, chan>>, senders' \subseteq senders,
           status' = "Ready" => status = "Ready"
    PROVE  ChanInv'
  BY DEF ChanInv

(* The statistics send to the channels that are there.                     *)
LEMMA Addressed ==
    ASSUME FindOlder \/ FindOldest
    PROVE  \A x \in senders' \ senders : x.to \in Subs /\ chan[x.to].is # "nil"
<1>1. ASSUME NEW last, NEW real, Notify(last, real)
      PROVE  \A x \in senders' \ senders : x.to \in Subs /\ chan[x.to].is # "nil"
  BY <1>1 DEF Notify
<1> QED
  BY <1>1 DEF FindOlder, FindOldest

LEMMA ChanKept ==
    ASSUME TypeOK, StopInv, ChanInv, [Next]_vars
    PROVE  ChanInv'
<1>0. chan \in [Subs -> Channels] /\ \A x \in senders : x.to \in Subs
  BY DEF TypeOK, Samples
<1>1. CASE UNCHANGED vars
  BY <1>1, ChanFrame DEF vars, stopVars
<1>2. CASE Tick \/ Clean
  BY <1>2, ChanFrame DEF Tick, Clean, stopVars
<1>3. CASE Start
  BY <1>3, ChanFrame DEF Start
<1>4. CASE StopBegins
  BY <1>4 DEF StopBegins, ChanInv, StopInv
<1>5. CASE StopReturns
  BY <1>5 DEF StopReturns, ChanInv
<1>6. CASE StopCloses
  <2>1. /\ stopper = "range" /\ stopper' = "sleep"
        /\ UNCHANGED <<iface, status, senders>>
    BY <1>6 DEF StopCloses, StopMove
  <2>2. ASSUME NEW s \in Subs, chan[s].is = "open",
               chan' = [chan EXCEPT ![s].is = "closed"]
        PROVE  ChanInv'
    <3>1. /\ chan'[s].is = "closed" /\ chan'[s].reader = chan[s].reader
          /\ \A t \in Subs \ {s} : chan'[t] = chan[t]
      BY <1>0, <2>2 DEF Channels
    <3> QED
      BY <1>0, <2>1, <2>2, <3>1 DEF ChanInv
  <2>3. CASE (\A s \in Subs : chan[s].is = "nil") /\ UNCHANGED chan
    BY <2>1, <2>3 DEF ChanInv
  <2> QED
    BY <1>6, <2>2, <2>3 DEF StopCloses
<1>7. CASE CloserWakes \/ CloserEnds
  BY <1>7, ChanFrame DEF CloserWakes, CloserEnds, CloserMove, stopVars
<1>8. CASE Collect \/ CollectEnds
  BY <1>8, ChanFrame DEF Collect, CollectEnds, CollectorMove, stopVars
<1>9. CASE FindNewest \/ FindNoOlder \/ FindFails \/ StatsEnds
  BY <1>9, ChanFrame DEF FindNewest, FindNoOlder, FindFails, StatsEnds, StatsMove, stopVars
<1>10. CASE FindOlder \/ FindOldest
  <2>1. UNCHANGED <<iface, stopper, status, chan>>
    BY <1>10 DEF FindOlder, FindOldest, StatsMove, stopVars
  <2>2. \A x \in senders' : chan[x.to].is # "nil"
    BY <1>10, Addressed DEF ChanInv
  <2> QED
    BY <2>1, <2>2 DEF ChanInv
<1>11. ASSUME NEW s \in Subs, AddNotice(s) PROVE ChanInv'
  <2>1. /\ status = "Running" /\ stopper = "idle" /\ iface
        /\ UNCHANGED <<iface, stopper, status, senders>>
    BY <1>11 DEF AddNotice, stopVars
  <2>2. /\ chan'[s].is = "open" /\ chan'[s].reader = "on"
        /\ \A t \in Subs \ {s} : chan'[t] = chan[t]
    BY <1>0, <1>11 DEF AddNotice
  <2> QED
    BY <1>0, <2>1, <2>2 DEF ChanInv
<1>12. ASSUME NEW s \in Subs,
              Take(s) \/ \E x \in senders : Deliver(x) /\ x.to = s
       PROVE  ChanInv'
  <2>1. senders' \subseteq senders /\ UNCHANGED <<iface, stopper, status>>
    BY <1>12 DEF Take, Deliver, stopVars
  <2>2. \E n : chan' = [chan EXCEPT ![s].held = n]
    BY <1>12 DEF Take, Deliver
  <2>3. \A t \in Subs : chan'[t].is = chan[t].is /\ chan'[t].reader = chan[t].reader
    BY <1>0, <2>2 DEF Channels
  <2> QED
    BY <1>0, <2>1, <2>3 DEF ChanInv
<1>13. ASSUME NEW s \in Subs, ReaderEnds(s) PROVE ChanInv'
  <2>1. /\ UNCHANGED <<iface, stopper, status, senders>>
        /\ chan[s].is = "closed"
        /\ chan[s].reader = "on"
    BY <1>13 DEF ReaderEnds, stopVars
  <2>2. /\ chan'[s].is = chan[s].is /\ chan'[s].reader = "ended"
        /\ \A t \in Subs \ {s} : chan'[t] = chan[t]
    BY <1>0, <1>13 DEF ReaderEnds, Channels
  <2> QED
    BY <1>0, <2>1, <2>2 DEF ChanInv
<1>15. ASSUME NEW s \in Subs, ReaderStopped(s) PROVE ChanInv'
  <2>1. UNCHANGED <<iface, stopper, status, senders>>
    BY <1>15 DEF ReaderStopped, stopVars
  <2>2. /\ chan'[s].is = chan[s].is /\ chan'[s].reader = "stopped"
        /\ chan[s].reader = "on"
        /\ \A t \in Subs \ {s} : chan'[t] = chan[t]
    BY <1>0, <1>15 DEF ReaderStopped, Channels
  <2> QED
    BY <1>0, <2>1, <2>2 DEF ChanInv
<1>14. ASSUME NEW x \in senders, GiveUp(x) PROVE ChanInv'
  BY <1>14, ChanFrame DEF GiveUp, stopVars
<1> QED
  BY WatchSteps, <1>0, <1>1, <1>2, <1>3, <1>4, <1>5, <1>6, <1>7, <1>8, <1>9, <1>10, <1>11,
     <1>12, <1>13, <1>14, <1>15 DEF Deliver

(* The goroutines and the channels, for the theorems below.                *)
LEMMA StopInductive == Spec => [](StopInv /\ ChanInv)
<1>1. Init => StopInv /\ ChanInv
  <2>1. Init => StopInv
    BY DEF Init, StopInv
  <2>2. Init => ChanInv
    BY DEF Init, ChanInv
  <2> QED
    BY <2>1, <2>2
<1>2. TypeOK /\ StopInv /\ ChanInv /\ [Next]_vars => StopInv' /\ ChanInv'
  BY StopKept, ChanKept
<1> QED
  BY <1>1, <1>2, TypeCorrect, PTL DEF Spec

(* A subscriber reads on until its own group is told to stop.              *)
ReadsUnlessStopped(s) == chan[s].is = "open" /\ chan[s].reader \in {"on", "stopped"}

(* From Start until Stop is called both loops run, and every subscriber    *)
(* whose own group has not been stopped (ifaceNotifyStopchan, group.go     *)
(* 104, 224) reads: no error of a round, no full channel and no missing    *)
(* row ends the measuring.                                                 *)
MeasuresUntilStop ==
    stopper = "idle" /\ status # "Ready" =>
        /\ iface => collector = "on" /\ stats \in {"wait", "older", "oldest"}
        /\ \A s \in Subs : chan[s].is # "nil" => ReadsUnlessStopped(s)

(* Nothing but Stop ends a loop of the watcher, and nothing but that or    *)
(* the Stop of its own group ends a subscriber's.                          *)
THEOREM OnlyStopEnds == Spec => []MeasuresUntilStop
<1>1. TypeOK /\ StopInv /\ ChanInv => MeasuresUntilStop
  BY DEF TypeOK, Channels, StopInv, ChanInv, MeasuresUntilStop, ReadsUnlessStopped
<1> QED
  BY <1>1, TypeCorrect, StopInductive, PTL

(* Every goroutine blocked with a sample is blocked on a channel that has  *)
(* been closed, on which it gives up, on one whose reader still reads, or  *)
(* on one whose group has been stopped: there it stays until the watcher's *)
(* Stop closes the channel, which Stop does for one subscriber only.       *)
EverySampleHeard == \A x \in senders : chan[x.to].is = "closed" \/ ReadsUnlessStopped(x.to)

(* Before the group is stopped or the watcher has closed the channel no    *)
(* goroutine is blocked with a sample that nobody will take.               *)
THEOREM SomebodyReads == Spec => []EverySampleHeard
<1>1. TypeOK /\ ChanInv => EverySampleHeard
  BY DEF TypeOK, Channels, Samples, ChanInv, EverySampleHeard, ReadsUnlessStopped
<1> QED
  BY <1>1, TypeCorrect, StopInductive, PTL

(* Stop closes one channel and no more, because the callback of Range      *)
(* returns false: with several subscribers the readers of all the others   *)
(* stay until their own groups are stopped.  This version has one, which   *)
(* is why StopEndsAll is checked with one.                                 *)
StopLeavesTheOthers ==
    stopper \in {"sleep", "returned"} /\ iface /\ Subs # {} =>
        \E s \in Subs :
            /\ chan[s].is = "closed"
            /\ \A t \in Subs \ {s} : ReadsUnlessStopped(t)

(* The watcher's Stop ends one subscriber, however many there are.         *)
THEOREM StopClosesOne == Spec => []StopLeavesTheOthers
<1>1. TypeOK /\ StopInv /\ ChanInv => StopLeavesTheOthers
  <2> SUFFICES ASSUME TypeOK, ChanInv, stopper \in {"sleep", "returned"}, iface, Subs # {}
               PROVE  \E s \in Subs :
                         /\ chan[s].is = "closed"
                         /\ \A t \in Subs \ {s} : ReadsUnlessStopped(t)
    BY DEF StopLeavesTheOthers
  <2>1. PICK s \in Subs : chan[s].is = "closed"
    BY DEF ChanInv
  <2>2. \A t \in Subs : /\ chan[t].is \in {"nil", "open", "closed"}
                        /\ chan[t].reader \in {"off", "on", "ended", "stopped"}
    BY DEF TypeOK, Channels
  <2>3. \A t \in Subs \ {s} : ReadsUnlessStopped(t)
    BY <2>1, <2>2 DEF ChanInv, ReadsUnlessStopped
  <2> QED
    BY <2>1, <2>3
<1> QED
  BY <1>1, TypeCorrect, StopInductive, PTL
=============================================================================
