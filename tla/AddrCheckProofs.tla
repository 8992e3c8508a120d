---------------------------- MODULE AddrCheckProofs ----------------------------
(***************************************************************************)
(* Proofs about AddrCheck, for any clients, any rules and any reloads: no  *)
(* order of the stages and no reload between two of them lets a banned     *)
(* client in, and a check that no reload disturbs decides as documented.   *)
(***************************************************************************)
EXTENDS AddrCheck, NaturalsInduction, WellFoundedInduction, TLAPS

Stages == {"loopback", "ip", "intranet", "count", "locate", "rules", "default", "decided"}

(* What a check that has got to a stage has found out on its way.          *)
Passed ==
    /\ step \in Stages
    /\ step \in {"intranet", "count", "locate", "rules", "default"} => ~IpBanned(ask)
    /\ step \in {"locate", "rules", "default"} /\ ask.service = "ssh" => ~ask.counted
    /\ step \in {"rules", "default"} /\ ~Intranet(ask) /\ Location(ask) # NoLoc
          => ~LocationBanned(ask, Location(ask))

AddrInv == Passed /\ BansHold

(* Every stage either decides or hands on what it has found out; a reload  *)
(* changes none of it, for the bans are not in the configuration.          *)
LEMMA AddrStep ==
    ASSUME AddrInv, [AddrNext]_addrVars
    PROVE  AddrInv'
<1> USE DEF AddrInv, Passed, BansHold, Stages, Intranet, GoesOn, Decides
<1>1. CASE UNCHANGED addrVars
  BY <1>1 DEF addrVars
<1>2. CASE CheckLoopback
  BY <1>2 DEF CheckLoopback
<1>3. CASE CheckIpTable
  BY <1>3 DEF CheckIpTable
<1>4. CASE CheckIntranet
  BY <1>4 DEF CheckIntranet, Skips
<1>5. CASE CheckCount
  BY <1>5 DEF CheckCount
<1>6. CASE Locate
  BY <1>6 DEF Locate
<1>7. CASE CheckRules
  BY <1>7 DEF CheckRules
<1>8. CASE CheckDefault
  BY <1>8 DEF CheckDefault
<1>9. CASE Reload
  BY <1>9 DEF Reload
<1> QED
  BY <1>1, <1>2, <1>3, <1>4, <1>5, <1>6, <1>7, <1>8, <1>9 DEF AddrNext

(* No banned client gets in, whatever a reload changes meanwhile.          *)
THEOREM NoBannedClient == AddrSpec => []BansHold
<1>1. AddrInit => AddrInv
  BY DEF AddrInit, AddrInv, Passed, Stages, BansHold
<1>2. AddrInv /\ [AddrNext]_addrVars => AddrInv'
  BY AddrStep
<1>3. AddrInv => BansHold
  BY DEF AddrInv
<1> QED
  BY <1>1, <1>2, <1>3, PTL DEF AddrSpec

-----------------------------------------------------------------------------
(*                The verdict is the one that is documented                *)

(* The location the documentation goes by.                                 *)
Place(a) == IF Intranet(a) THEN NoLoc ELSE QueryIpLocation(a)

(* What an undisturbed check knows when it has got to a stage: no earlier  *)
(* sentence of the documentation has decided.                              *)
Undecided ==
    /\ step \notin {"rules", "default", "decided"} => loc = NoLoc
    /\ step \notin {"loopback", "decided"} =>
          ~(ask.kind = "loopback" /\ (config.allowIntranet \/ config.allowLoopback))
    /\ step \in {"intranet", "count", "locate", "rules", "default"} => ~IpBanned(ask)
    /\ step = "count" => ask.service = "ssh"
    /\ step \in {"count", "locate", "rules", "default"} =>
          ~(Intranet(ask) /\ config.allowIntranet)
    /\ step \in {"locate", "rules", "default"} => (ask.service = "ssh" => ~ask.counted)
    /\ step \in {"rules", "default"} =>
          loc = Place(ask) /\ (loc # NoLoc => ~LocationBanned(ask, loc))
    /\ step = "default" => Applying(config, loc) = {}

DocInv ==
    /\ step \in Stages /\ ask \in Asks /\ config \in Configs
    /\ reloaded \in BOOLEAN /\ verdict \in BOOLEAN
    /\ ~reloaded /\ ~Departs(ask, config) =>
          /\ Undecided
          /\ step = "decided" => (verdict <=> Documented(ask, config))

(* Without a vague city or ISP the code's reading of a rule is the         *)
(* documentation's.                                                        *)
LEMMA SameReading ==
    ASSUME NEW r, NEW l, r.vague["city"] = {}, r.vague["isp"] = {}
    PROVE  Applies(r, l) <=> Describes(r, l)
<1>1. CASE l = NoLoc
  BY <1>1 DEF Applies, Describes, HasLocation, CheckIP
<1>2. CASE l # NoLoc
  <2>1. CheckLocation(l, r) <=>
           \A f \in Fields : /\ r.exact[f] # {} => l[f] = r.exact[f]
                             /\ r.vague[f] # {} => r.vague[f] \subseteq l[f]
    BY DEF CheckLocation, VagueField, Fields
  <2> QED
    BY <1>2, <2>1 DEF Applies, Describes, CheckIP
<1> QED
  BY <1>1, <1>2

(* A set of places in a list has a first one: Min is in its set.           *)
LEMMA FirstPlace ==
    ASSUME NEW T \in SUBSET Nat, T # {}
    PROVE  Min(T) \in T /\ \A i \in T : Min(T) <= i
<1> DEFINE Less == {p \in Nat \X Nat : p[1] < p[2]}
<1>1. PICK x \in T : \A y \in T : <<y, x>> \notin Less
  <2>1. Less = OpToRel(<, Nat)
    BY DEF OpToRel
  <2>2. IsWellFoundedOn(Less, Nat)
    <3> HIDE DEF Less
    <3> QED
      BY <2>1, NatLessThanWellFounded, Zenon
  <2> HIDE DEF Less
  <2> QED
    BY <2>2, WFMin
<1>2. \A y \in T : x <= y
  <2> SUFFICES ASSUME NEW y \in T PROVE x <= y
    OBVIOUS
  <2>1. x \in Nat /\ y \in Nat /\ <<y, x>> \notin Less
    BY <1>1
  <2> QED
    BY <2>1
<1> QED
  BY <1>2 DEF Min

(* So the first rule that applies, or the default, decides as documented.  *)
LEMMA SameList ==
    ASSUME NEW c \in Configs, NEW l, NEW a, ~Departs(a, c)
    PROVE  /\ Applying(c, l) # {} =>
                 (ListLetsIn(c, l) <=> ~c.rules[Min(Applying(c, l))].banned)
           /\ Applying(c, l) = {} => (ListLetsIn(c, l) <=> ~c.defaultBanned)
<1> DEFINE A == Applying(c, l)
           fits == {i \in DOMAIN c.rules : Describes(c.rules[i], l)}
<1>1. A = fits
  <2>1. \A i \in DOMAIN c.rules : c.rules[i].vague["city"] = {} /\ c.rules[i].vague["isp"] = {}
    BY DEF Departs
  <2> QED
    BY <2>1, SameReading DEF Applying
<1>2. ListLetsIn(c, l) <=> \/ \E i \in A : ~c.rules[i].banned /\ \A j \in A : i <= j
                           \/ A = {} /\ ~c.defaultBanned
  BY <1>1 DEF ListLetsIn
<1>3. A \subseteq Nat
  BY RulesAssumption DEF Applying
<1>4. ASSUME A # {}
      PROVE  (\E i \in A : ~c.rules[i].banned /\ \A j \in A : i <= j)
                <=> ~c.rules[Min(A)].banned
  <2> HIDE DEF A
  <2>1. Min(A) \in A /\ \A i \in A : Min(A) <= i
    BY <1>3, <1>4, FirstPlace
  <2>2. ASSUME NEW i \in A, \A j \in A : i <= j
        PROVE  i = Min(A)
    <3>1. i <= Min(A) /\ Min(A) <= i /\ i \in Nat /\ Min(A) \in Nat
      BY <1>3, <2>1, <2>2
    <3> QED
      BY <3>1
  <2> QED
    BY <2>1, <2>2
<1> QED
  BY <1>2, <1>4

LEMMA DocInit == ASSUME AddrInit PROVE DocInv
BY DEF AddrInit, DocInv, Undecided, Stages

(* Stage by stage.                                                         *)
LEMMA DocStep ==
    ASSUME DocInv, [AddrNext]_addrVars
    PROVE  DocInv'
<1> USE DEF DocInv, Stages, GoesOn, Decides
<1>1. CASE UNCHANGED addrVars
  BY <1>1 DEF addrVars, Undecided
<1>2. CASE CheckLoopback
  BY <1>2 DEF CheckLoopback, Undecided, Documented, Departs
<1>3. CASE CheckIpTable
  BY <1>3 DEF CheckIpTable, Undecided, Documented
<1>4. CASE CheckIntranet
  <2>1. ask.kind \in Kinds /\ ask.service \in {"tcp", "ssh"}
    BY AsksAssumption
  <2> QED
    BY <1>4, <2>1 DEF CheckIntranet, Skips, Undecided, Documented, Departs, Intranet, Kinds
<1>5. CASE CheckCount
  BY <1>5 DEF CheckCount, Undecided, Documented
<1>6. CASE Locate
  <2>1. ask.kind \in Kinds /\ ask.service \in {"tcp", "ssh"}
    BY AsksAssumption
  <2>2. ~Departs(ask, config) /\ ~Intranet(ask) =>
           Place(ask) = Location(ask) /\ (Location(ask) = NoLoc => ask.service = "tcp")
    BY <2>1 DEF Departs, Place, Intranet
  <2>3. Intranet(ask) => Place(ask) = NoLoc
    BY DEF Place
  <2> QED
    BY <1>6, <2>2, <2>3 DEF Locate, Undecided, Documented, Place
<1>7. CASE CheckRules
  <2>1. CASE Applying(config, loc) = {}
    BY <1>7, <2>1 DEF CheckRules, Undecided
  <2>2. CASE Applying(config, loc) # {}
    <3>1. /\ step = "rules" /\ step' = "decided"
          /\ verdict' = ~config.rules[Min(Applying(config, loc))].banned
          /\ UNCHANGED <<ask, config, reloaded, loc>>
      BY <1>7, <2>2 DEF CheckRules
    <3>2. ASSUME ~reloaded, ~Departs(ask, config)
          PROVE  verdict' <=> Documented(ask, config)
      <4>1. Undecided
        BY <3>2
      <4>2. Documented(ask, config) <=> ListLetsIn(config, loc)
        BY <3>1, <4>1 DEF Undecided, Documented, Place
      <4> QED
        BY <2>2, <3>1, <3>2, <4>2, SameList
    <3> QED
      BY <3>1, <3>2 DEF Undecided
  <2> QED
    BY <2>1, <2>2
<1>8. CASE CheckDefault
  <2>1. /\ step = "default" /\ step' = "decided" /\ verdict' = ~config.defaultBanned
        /\ UNCHANGED <<ask, config, reloaded, loc>>
    BY <1>8 DEF CheckDefault
  <2>2. ASSUME ~reloaded, ~Departs(ask, config)
        PROVE  verdict' <=> Documented(ask, config)
    <3>1. Undecided
      BY <2>2
    <3>2. Documented(ask, config) <=> ListLetsIn(config, loc)
      BY <2>1, <3>1 DEF Undecided, Documented, Place
    <3> QED
      BY <2>1, <2>2, <3>1, <3>2, SameList DEF Undecided
  <2> QED
    BY <2>1, <2>2 DEF Undecided
<1>9. CASE Reload
  BY <1>9, RulesAssumption DEF Reload
<1> QED
  BY <1>1, <1>2, <1>3, <1>4, <1>5, <1>6, <1>7, <1>8, <1>9 DEF AddrNext

(* A check that no reload interrupts decides as the README says, but for   *)
(* the five departures, whatever the rules (VerdictAsDocumented).          *)
THEOREM DecidesAsDocumented == AddrSpec => []VerdictAsDocumented
<1>1. DocInv => VerdictAsDocumented
  BY DEF DocInv, VerdictAsDocumented, Documented
<1> QED
  BY <1>1, DocInit, DocStep, PTL DEF AddrSpec
=============================================================================
