------------------------------ MODULE AddrCheck ------------------------------
(***************************************************************************)
(* Which addresses are let in: the RemoteAddrCheck of tcpserver/group.go   *)
(* and of sshserver/group.go, with the ban tables of database/db.go, the   *)
(* location behind redisserver/iplocation.go and api/apiip/ip.go, and the  *)
(* rules of config/ruleconfig.go.  The check reads the configuration anew  *)
(* wherever it needs it, so a reload may come between.  A text is a set of *)
(* letters: the empty one says nothing, and one contains another's.        *)
(***************************************************************************)
EXTENDS Integers, Sequences, FiniteSets, FiniteSetsExt

CONSTANTS
    Asks,       \* what is asked: the service, the client, what the stores hold
    Configs,    \* the configurations to begin with,
    Reloads,    \* and those a reload may bring
    NoLoc       \* no location

Fields == {"nation", "province", "city", "isp"}
Kinds  == {"loopback", "private", "linklocal", "public"}

ASSUME AsksAssumption ==
    \A a \in Asks : /\ a.service \in {"tcp", "ssh"} /\ a.kind \in Kinds
                    /\ a.tables \subseteq Fields

(* What check requires of a rule: some address, so that its entries match  *)
(* the client (TRUE) or not (FALSE).  The location is optional.            *)
CheckedRule(r) == r.ips # {}

ASSUME RulesAssumption ==
    /\ Reloads \subseteq Configs
    /\ \A c \in Configs : /\ DOMAIN c.rules \subseteq Nat   \* a list
                            /\ \A i \in DOMAIN c.rules : CheckedRule(c.rules[i])

VARIABLES
    ask,      \* what is asked
    config,   \* what GetConfig would return
    reloaded, \* it has changed since the check began
    step,     \* where the check is
    loc,      \* the location it goes by
    verdict   \* the client is let in

addrVars == <<ask, config, reloaded, step, loc, verdict>>

AddrInit ==
    /\ ask \in Asks /\ config \in Configs
    /\ reloaded = FALSE /\ step = "loopback" /\ loc = NoLoc /\ verdict = FALSE

-----------------------------------------------------------------------------
(*                       Ban tables and location                           *)

(* A row holds from start to stop; 0 is NULL.  The time is 2.              *)
Effective(row) == (row.start = 0 \/ row.start <= 2) /\ (row.stop = 0 \/ 2 <= row.stop)

(* Of several rows the newest decides; a database that fails bans nobody.  *)
IpBanned(a) ==
    /\ ~a.dbFails /\ a.ipRows # <<>>
    /\ Effective(a.ipRows[Len(a.ipRows)])

(* The tables of TCP, for both services; tables: the fields whose value is *)
(* banned by its newest row.                                               *)
LocationBanned(a, l) == ~a.dbFails /\ \E f \in a.tables : l[f] # {}

(* Redis first, whatever it holds for the address; then the API.           *)
QueryIpLocation(a) == IF a.cached # NoLoc THEN a.cached ELSE a.api

(* TCP takes a location that calls the address a local one for none.       *)
Location(a) ==
    LET q == QueryIpLocation(a) IN
    CASE q = NoLoc -> NoLoc
      [] q # NoLoc -> IF a.service = "tcp" /\ "local" \in q.isp THEN NoLoc ELSE q

Intranet(a) == a.kind # "public"

-----------------------------------------------------------------------------
(*                              The rules                                  *)

HasLocation(r) == \E f \in Fields : r.exact[f] # {} \/ r.vague[f] # {}

(* A vague city and a vague ISP are looked for in the province.            *)
VagueField(f) == IF f \in {"city", "isp"} THEN "province" ELSE f

CheckLocation(l, r) ==
    \A f \in Fields : /\ r.exact[f] # {} => l[f] = r.exact[f]
                      /\ r.vague[f] # {} => r.vague[f] \subseteq l[VagueField(f)]

CheckIP(r) == TRUE \in r.ips

Applies(r, l) ==
    /\ IF l = NoLoc THEN ~HasLocation(r) ELSE CheckLocation(l, r)
    /\ CheckIP(r)

Applying(c, l) == {i \in DOMAIN c.rules : Applies(c.rules[i], l)}

-----------------------------------------------------------------------------
(*                         The check, step by step                         *)

GoesOn(from, to) ==
    /\ step = from /\ step' = to
    /\ UNCHANGED <<ask, config, reloaded, verdict>>

Decides(from, ok) ==
    /\ step = from /\ step' = "decided"
    /\ verdict' = ok
    /\ UNCHANGED <<ask, config, reloaded, loc>>

(* Slip: an allowed intranet needs no database.                            *)
CheckLoopbackIntranet ==
    IF Intranet(ask) /\ (config.allowIntranet \/ config.allowLoopback)
    THEN Decides("loopback", TRUE)
    ELSE GoesOn("loopback", "ip") /\ UNCHANGED loc

CheckLoopback ==
    IF ask.kind = "loopback" /\ (config.allowIntranet \/ config.allowLoopback)
    THEN Decides("loopback", TRUE)
    ELSE GoesOn("loopback", "ip") /\ UNCHANGED loc

CheckIpTable ==
    IF IpBanned(ask)
    THEN Decides("ip", FALSE)
    ELSE GoesOn("ip", "intranet") /\ UNCHANGED loc

(* For SSH only the private addresses count as intranet here.              *)
Skips(a) == IF a.service = "tcp" THEN Intranet(a) ELSE a.kind = "private"

CheckIntranet ==
    IF Skips(ask) /\ config.allowIntranet
    THEN Decides("intranet", TRUE)
    ELSE GoesOn("intranet", IF ask.service = "ssh" THEN "count" ELSE "locate") /\ UNCHANGED loc

(* CountRulesCheck: see SshGate.                                           *)
CheckCount ==
    IF ask.counted THEN Decides("count", FALSE)
                   ELSE GoesOn("count", "locate") /\ UNCHANGED loc

(* TCP does without a location; SSH refuses whom it cannot locate.         *)
Locate ==
    \/ /\ Intranet(ask) \/ (ask.service = "tcp" /\ Location(ask) = NoLoc)
       /\ GoesOn("locate", "rules") /\ UNCHANGED loc
    \/ /\ ~Intranet(ask) /\ ask.service = "ssh" /\ Location(ask) = NoLoc
       /\ Decides("locate", FALSE)
    \/ /\ ~Intranet(ask) /\ Location(ask) # NoLoc
       /\ IF LocationBanned(ask, Location(ask))
          THEN Decides("locate", FALSE)
          ELSE GoesOn("locate", "rules") /\ loc' = Location(ask)

(* Slip: the last rule that applies decides.                               *)
CheckRulesLast ==
    IF Applying(config, loc) # {}
    THEN Decides("rules", ~config.rules[Max(Applying(config, loc))].banned)
    ELSE GoesOn("rules", "default") /\ UNCHANGED loc

CheckRules ==
    IF Applying(config, loc) # {}
    THEN Decides("rules", ~config.rules[Min(Applying(config, loc))].banned)
    ELSE GoesOn("rules", "default") /\ UNCHANGED loc

CheckDefault == Decides("default", ~config.defaultBanned)

Reload ==
    /\ step # "decided" /\ config \in Reloads
    /\ config' \in Reloads \ {config}
    /\ reloaded' = TRUE
    /\ UNCHANGED <<ask, step, loc, verdict>>

AddrNext ==
    \/ CheckLoopback \/ CheckIpTable \/ CheckIntranet \/ CheckCount
    \/ Locate \/ CheckRules \/ CheckDefault \/ Reload

AddrSpec == AddrInit /\ [][AddrNext]_addrVars

-----------------------------------------------------------------------------
(*                              Properties                                 *)

(* What the README says of a rule (71, 80-81): each location entry on its  *)
(* own field, and one address.                                             *)
Describes(r, l) ==
    /\ TRUE \in r.ips
    /\ \A f \in Fields :
          /\ r.exact[f] # {} => l # NoLoc /\ l[f] = r.exact[f]
          /\ r.vague[f] # {} => l # NoLoc /\ r.vague[f] \subseteq l[f]

(* ... of a list and its default (83): no ban before the first that fits,  *)
(* and without any the default.                                            *)
ListLetsIn(c, l) ==
    LET fits == {i \in DOMAIN c.rules : Describes(c.rules[i], l)} IN
    \/ \E i \in fits : ~c.rules[i].banned /\ \A j \in fits : i <= j
    \/ fits = {} /\ ~c.defaultBanned

(* ... and of who needs no rule, and who not even the database (84-85).    *)
Documented(a, c) ==
    LET q == IF Intranet(a) THEN NoLoc ELSE QueryIpLocation(a) IN
    \/ a.kind = "loopback" /\ c.allowLoopback
    \/ /\ ~IpBanned(a)
       /\ \/ Intranet(a) /\ c.allowIntranet
          \/ /\ a.service = "ssh" => ~a.counted
             /\ q # NoLoc => ~LocationBanned(a, q)
             /\ ListLetsIn(c, q)

(* Where the code departs from it: a vague city or ISP is compared with    *)
(* the province (ip.go 89, 97); allowing the intranet spares a loopback    *)
(* address the database (group.go 264, 156); SSH refuses whom it cannot    *)
(* locate, and its intranet is the private addresses (164, 180); TCP drops *)
(* a location that calls the address a local one (group.go 283).           *)
Departs(a, c) ==
    \/ \E i \in DOMAIN c.rules : \E f \in {"city", "isp"} : c.rules[i].vague[f] # {}
    \/ a.kind = "loopback" /\ ~c.allowLoopback /\ c.allowIntranet
    \/ a.service = "ssh" /\ a.kind = "linklocal" /\ c.allowIntranet
    \/ a.kind = "public" /\ a.service = "ssh" /\ Location(a) = NoLoc
    \/ a.kind = "public" /\ Location(a) # QueryIpLocation(a)

(* A check that no reload interrupts decides as the README says, except in *)
(* these five cases.                                                       *)
VerdictAsDocumented ==
    step = "decided" /\ ~reloaded /\ ~Departs(ask, config)
        => verdict = Documented(ask, config)

(* Whatever a reload changes meanwhile: an address whose newest row bans   *)
(* it gets in only as a loopback address; a public one whose location is   *)
(* banned never does; and a client the count rules ban only if it needs no *)
(* rules.                                                                  *)
BansHold ==
    step = "decided" /\ verdict =>
        /\ IpBanned(ask) => ask.kind = "loopback"
        /\ ask.kind = "public" /\ Location(ask) # NoLoc
              => ~LocationBanned(ask, Location(ask))
        /\ ask.counted /\ ask.service = "ssh" => ask.kind \in {"loopback", "private"}
=============================================================================
