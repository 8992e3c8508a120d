-------------------------------- MODULE SshGate --------------------------------
(***************************************************************************)
(* The count rules of the SSH forwards: sshserver/group.go lets a client   *)
(* in or bans it by the attempts that sshserver/server.go has recorded in  *)
(* SQLite, redisserver/ssh.go keeps the ban, and database/clean.go deletes *)
(* the rows that are older than the retention period.  One client, neither *)
(* loopback nor always allowed, tries one target through several accept    *)
(* loops, each of which goes through the check and the recording alone.    *)
(***************************************************************************)
EXTENDS Integers, Sequences, FiniteSets

CONSTANTS
    Loops,        \* accept loops of the forwards to the target
    Rules,        \* Rules[l]: the count rules in force there, maybe none
    DefaultRule,  \* what CountRulesCheck does without rules,
    DefaultLimit, \* and how many records it reads then
    Retention,    \* how long a row is kept; no rule's window need fit in it
    MaxClock,     \* bound on the time
    MaxRecords    \* bound on the attempts

CountRule == [try : Nat, secs : Nat \ {0}, ban : Nat \ {0}]

(* What the checks of the configuration let through.                       *)
Sorted(rules) ==
    \A j, k \in DOMAIN rules :
        j < k => rules[k].try <= rules[j].try /\ rules[k].secs <= rules[j].secs

ASSUME ConstantsAssumption ==
    /\ IsFiniteSet(Loops)
    /\ Rules \in [Loops -> Seq(CountRule)]
    /\ \A l \in Loops : Sorted(Rules[l])
    /\ DefaultRule \in CountRule
    /\ DefaultLimit \in Nat /\ DefaultLimit > DefaultRule.try
    /\ Retention \in Nat \ {0}
    /\ MaxClock \in Nat \ {0}
    /\ MaxRecords \in Nat

VARIABLES
    clock,        \* the time
    pc,           \* pc[l]: how far loop l is with the attempt in hand
    at,           \* at[l]: when that attempt was accepted
    now,          \* now[l]: when CountRulesCheck began
    ban,          \* ban[l]: the duration of the ban it imposes
    records,      \* the times of all SshConnectRecord rows written, in key order
    purged,       \* the keys of those that the cleaner has deleted
    held,         \* the keys of those whose forward has still to save them
    bannedUntil,  \* when the key in Redis expires, 0 if there was none
    overtaken,    \* history: loops that hold a TTL older than the last Set
    served        \* history: when the attempts let in were accepted

loopVars == <<pc, at, now, ban>>
rowVars == <<records, purged, held>>
vars == <<clock, loopVars, rowVars, bannedUntil, overtaken, served>>

Init ==
    /\ clock = 1
    /\ pc = [l \in Loops |-> "idle"]
    /\ at = [l \in Loops |-> 0]
    /\ now = [l \in Loops |-> 0]
    /\ ban = [l \in Loops |-> 0]
    /\ records = <<>>
    /\ purged = {}
    /\ held = {}
    /\ bannedUntil = 0
    /\ overtaken = {}
    /\ served = <<>>

-----------------------------------------------------------------------------
(*                          The count rules                                *)

RulesOf(l) == IF Rules[l] = <<>> THEN <<DefaultRule>> ELSE Rules[l]

(* One record more than the first rule allows.                             *)
Limit(l) == IF Rules[l] = <<>> THEN DefaultLimit ELSE Rules[l][1].try + 1

(* The rows there are.                                                     *)
Rows == DOMAIN records \ purged

(* The rows of S in the window of r that ends at t.                        *)
Within(S, t, r) == {i \in S : records[i] > t - r.secs}

Older(i, j) == \/ records[i] < records[j]
               \/ records[i] = records[j] /\ i < j

(* FindSshConnectRecord: the oldest rows of the first rule's window.       *)
Found(l) ==
    LET W == Within(Rows, now[l], RulesOf(l)[1])
    IN  {j \in W : Cardinality({i \in W : Older(i, j)}) < Limit(l)}

(* Slip: only the last rule, the one with the smallest window, counts.     *)
HitsLastOnly(l) ==
    LET k == Len(RulesOf(l))
    IN  IF Cardinality(Within(Found(l), now[l], RulesOf(l)[k])) > RulesOf(l)[k].try
        THEN {k} ELSE {}

(* _countRulesCheck counts from the first row in the rule's window on, and *)
(* all of them when no row is in it: index is still 0.                     *)
Counted(S, t, r) == IF Within(S, t, r) = {} THEN S ELSE Within(S, t, r)

Hits(l) ==
    {k \in DOMAIN RulesOf(l) :
        Cardinality(Counted(Found(l), now[l], RulesOf(l)[k])) > RulesOf(l)[k].try}

FirstHit(l) == CHOOSE k \in Hits(l) : \A j \in Hits(l) : k <= j

-----------------------------------------------------------------------------
(*                        An attempt, step by step                         *)

Goes(l, from, to) ==
    /\ pc[l] = from
    /\ pc' = [pc EXCEPT ![l] = to]
    /\ UNCHANGED clock

Moves(l, from, to) == Goes(l, from, to) /\ UNCHANGED served

StoresUnchanged == UNCHANGED <<rowVars, bannedUntil, overtaken>>

Accept(l) ==
    /\ Len(records) < MaxRecords
    /\ Moves(l, "idle", "query")
    /\ at' = [at EXCEPT ![l] = clock]
    /\ UNCHANGED <<now, ban>> /\ StoresUnchanged

Banned == bannedUntil > clock

(* SshCheckIP lets the address through and Redis has no ban for it.        *)
Query(l) ==
    /\ ~Banned
    /\ Moves(l, "query", "count")
    /\ now' = [now EXCEPT ![l] = clock]
    /\ UNCHANGED <<at, ban>> /\ StoresUnchanged

(* The address is banned in SQLite or in Redis, or Redis does not answer.  *)
QueryRefuses(l) ==
    /\ Moves(l, "query", "deny")
    /\ UNCHANGED <<at, now, ban>> /\ StoresUnchanged

Pass(l) ==
    /\ Hits(l) = {}
    /\ Moves(l, "count", "rules")
    /\ now' = [now EXCEPT ![l] = 0]
    /\ UNCHANGED <<at, ban>> /\ StoresUnchanged

Hit(l) ==
    /\ Hits(l) # {}
    /\ Moves(l, "count", "ttl")
    /\ now' = [now EXCEPT ![l] = 0]
    /\ ban' = [ban EXCEPT ![l] = RulesOf(l)[FirstHit(l)].ban]
    /\ UNCHANGED at /\ StoresUnchanged

(* The records cannot be read: the attempt is refused without a ban.       *)
CountFails(l) ==
    /\ Moves(l, "count", "deny")
    /\ now' = [now EXCEPT ![l] = 0]
    /\ UNCHANGED <<at, ban>> /\ StoresUnchanged

(* Slip: SetSSHIpBanned does not compare with the ban in force.            *)
TTLIgnored(l) ==
    /\ Moves(l, "ttl", "set")
    /\ UNCHANGED <<at, now, ban>> /\ StoresUnchanged

(* SetSSHIpBanned reads the time to live first and writes in a second step.*)
TTL(l) ==
    /\ bannedUntil - clock <= ban[l]
    /\ Moves(l, "ttl", "set")
    /\ UNCHANGED <<at, now, ban>> /\ StoresUnchanged

Settle(l) == ban' = [ban EXCEPT ![l] = 0] /\ overtaken' = overtaken \ {l}

(* The ban in force is longer, or Redis does not answer.                   *)
TTLKeeps(l) ==
    /\ Moves(l, "ttl", "deny")
    /\ Settle(l)
    /\ UNCHANGED <<at, now, rowVars, bannedUntil>>

(* Slip: a key without a time to live, which Redis reports as -1.          *)
SetForever(l) ==
    /\ Moves(l, "set", "deny")
    /\ bannedUntil' = -1
    /\ Settle(l)
    /\ UNCHANGED <<at, now, rowVars>>

Set(l) ==
    /\ Moves(l, "set", "deny")
    /\ ban' = [ban EXCEPT ![l] = 0]
    /\ bannedUntil' = clock + ban[l]
    /\ overtaken' = (overtaken \cup {m \in Loops : pc[m] = "set"}) \ {l}
    /\ UNCHANGED <<at, now, rowVars>>

SetFails(l) ==
    /\ Moves(l, "set", "deny")
    /\ Settle(l)
    /\ UNCHANGED <<at, now, rowVars, bannedUntil>>

(* Location tables, rules, dialling or the header end the attempt.         *)
Refuse(l) ==
    /\ Moves(l, "rules", "deny")
    /\ UNCHANGED <<at, now, ban>> /\ StoresUnchanged

(* The row of the attempt, which a forward holds or nobody; what it says   *)
(* of the outcome nobody reads.                                            *)
RecordedFor(l, forward) ==
    /\ records' = Append(records, at[l])
    /\ held' = held \cup forward
    /\ at' = [at EXCEPT ![l] = 0]
    /\ UNCHANGED <<now, ban, purged, bannedUntil, overtaken>>

Recorded(l) == RecordedFor(l, {})

NotRecorded(l) ==
    /\ at' = [at EXCEPT ![l] = 0]
    /\ UNCHANGED <<now, ban, rowVars, bannedUntil, overtaken>>

Deny(l) == Moves(l, "deny", "idle") /\ (Recorded(l) \/ NotRecorded(l))

LetsIn(l) == Goes(l, "rules", "idle") /\ served' = Append(served, at[l])

Admit(l) == LetsIn(l) /\ RecordedFor(l, {Len(records) + 1})

(* The row cannot be saved: no connection, though the second try at 447    *)
(* may still leave a row.                                                  *)
AdmitFails(l) == Moves(l, "rules", "idle") /\ (Recorded(l) \/ NotRecorded(l))

Deletes(limit) ==
    /\ purged' = purged \cup {i \in DOMAIN records : records[i] < limit}
    /\ UNCHANGED <<clock, loopVars, records, held, bannedUntil, overtaken, served>>

(* Slip: the cleaner adds the retention period instead of taking it off.   *)
CleanAhead == Deletes(clock + Retention)

(* The cleaner deletes the rows that are older than the retention period.  *)
Clean == Deletes(clock - Retention)

(* A forward ends and saves its row, which brings it back if it was        *)
(* deleted, or fails to.                                                   *)
ForwardEnds(i) ==
    /\ i \in held
    /\ held' = held \ {i}
    /\ purged' \in {purged, purged \ {i}}
    /\ UNCHANGED <<clock, loopVars, records, bannedUntil, overtaken, served>>

Tick ==
    /\ clock < MaxClock
    /\ clock' = clock + 1
    /\ UNCHANGED <<loopVars, rowVars, bannedUntil, overtaken, served>>

-----------------------------------------------------------------------------
Attempt(l) ==
    \/ Accept(l) \/ Query(l) \/ QueryRefuses(l) \/ Pass(l) \/ Hit(l) \/ CountFails(l)
    \/ TTL(l) \/ TTLKeeps(l) \/ Set(l) \/ SetFails(l)
    \/ Refuse(l) \/ Deny(l) \/ Admit(l) \/ AdmitFails(l)

Next ==
    \/ Tick \/ Clean
    \/ \E i \in DOMAIN records : ForwardEnds(i)
    \/ \E l \in Loops : Attempt(l)

Spec == Init /\ [][Next]_vars

-----------------------------------------------------------------------------
(*                              Properties                                 *)

Times == 0 .. MaxClock

(* Clock, loops, rows and ban keep their shape; only a loop that has begun *)
(* an attempt remembers anything of one.                                   *)
TypeOK ==
    /\ clock \in Times
    /\ pc \in [Loops -> {"idle", "query", "count", "rules", "ttl", "set", "deny"}]
    /\ at \in [Loops -> Times] /\ now \in [Loops -> Times]
    /\ ban \in [Loops -> Nat]
    /\ records \in Seq(Times)
    /\ purged \subseteq DOMAIN records /\ held \subseteq DOMAIN records
    /\ bannedUntil \in Nat
    /\ overtaken \subseteq {l \in Loops : pc[l] = "set"}
    /\ served \in Seq(Times)
    /\ \A l \in Loops : pc[l] \notin {"ttl", "set"} => ban[l] = 0

(* Reading the oldest Limit rows of the largest window is enough for every *)
(* rule (251-272): an attempt passes only if no rule, over all the rows    *)
(* there are, has been exceeded.                                           *)
Exceeded(l, r) == Cardinality(Within(Rows, now[l], r)) > r.try
NeverUndercounts ==
    [][\A l \in Loops : (pc[l] = "count" /\ pc'[l] = "rules")
          => \A k \in DOMAIN RulesOf(l) : ~Exceeded(l, RulesOf(l)[k])]_vars

(* Check and record are separate (416 against 444 of server.go), so the    *)
(* loops may let in more than a rule allows, but never more than one each, *)
(* wherever the window lies.  A window reaches as far back as the rule     *)
(* says or as rows are kept, whichever is less: what the cleaner deletes   *)
(* (345 of db.go) counts no more, and nothing holds the retention period   *)
(* (52 of dbcleanconfig.go) against the windows of the rules.              *)
Reach(r) == IF r.secs <= Retention THEN r.secs ELSE Retention
InForce(r) == \A l \in Loops : \E k \in DOMAIN RulesOf(l) :
                  RulesOf(l)[k].try <= r.try /\ Reach(RulesOf(l)[k]) >= Reach(r)
ServedBounded ==
    \A m \in Loops : \A k \in DOMAIN RulesOf(m) :
        InForce(RulesOf(m)[k]) =>
            Cardinality({i \in DOMAIN served : served[i] > clock - Reach(RulesOf(m)[k])})
                <= RulesOf(m)[k].try + Cardinality(Loops)

(* A longer ban stays (21-23 of ssh.go): a ban is cut short only by a loop *)
(* that another one has overtaken between its TTL and its Set.             *)
BanCutOnlyIfOvertaken ==
    [][bannedUntil' < bannedUntil
          => \E l \in overtaken : pc[l] = "set" /\ pc'[l] = "deny"]_vars

(* "More than try-count visits within seconds are banned": a client that   *)
(* is banned has exceeded one of the rules.                                *)
BannedMeansExceeded ==
    [][\A l \in Loops : (pc[l] = "count" /\ pc'[l] = "ttl")
          => \E k \in DOMAIN RulesOf(l) : Exceeded(l, RulesOf(l)[k])]_vars
=============================================================================
