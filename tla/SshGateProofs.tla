----------------------------- MODULE SshGateProofs -----------------------------
(***************************************************************************)
(* Proofs about SshGate, for any accept loops, any sorted lists of count   *)
(* rules, any retention period and any number of attempts: the limit of    *)
(* the SQL query hides no row from the rules, no window that rows are kept *)
(* for overruns by more than one attempt a loop, and a ban is cut short    *)
(* only by a loop that was overtaken.                                      *)
(***************************************************************************)
EXTENDS SshGate, FiniteSetTheorems, WellFoundedInduction, TLAPS

-----------------------------------------------------------------------------
(*                     Least elements and finite sets                      *)

(* A set of numbers that is not empty has a least one.                     *)
LEMMA LeastNumber ==
    ASSUME NEW X \in SUBSET Nat, X # {}
    PROVE  \E k \in X : \A j \in X : k <= j
<1> DEFINE T == {1 .. k : k \in X}
<1>1. T \subseteq FiniteSubsetsOf(Nat) /\ T # {}
  <2>1. \A k \in X : IsFiniteSet(1 .. k) /\ 1 .. k \in SUBSET Nat
    BY FS_Interval
  <2> QED
    BY <2>1, Zenon DEF FiniteSubsetsOf
<1>2. PICK A \in T : \A B \in T : <<B, A>> \notin StrictSubsetOrdering(Nat)
  <2> HIDE DEF T
  <2> QED
    BY <1>1, WFMin, FS_StrictSubsetOrderingWellFounded, Zenon
<1>3. PICK k \in X : A = 1 .. k
  OBVIOUS
<1>4. ASSUME NEW j \in X, ~(k <= j)
      PROVE  FALSE
  <2>1. k \in 1 .. k /\ k \notin 1 .. j /\ 1 .. j \subseteq 1 .. k
    BY <1>4
  <2>2. 1 .. j # 1 .. k
    BY <2>1
  <2>3. 1 .. j \in SUBSET Nat /\ 1 .. k \in SUBSET Nat
    OBVIOUS
  <2>4. <<1 .. j, 1 .. k>> \in StrictSubsetOrdering(Nat)
    BY <2>1, <2>2, <2>3, Zenon DEF StrictSubsetOrdering
  <2> QED
    BY <2>4, <1>2, <1>3
<1> QED
  BY <1>4

(* The rows of S that are older than row j.                                *)
Before(S, j) == {i \in S : Older(i, j)}

(* Some row of X has no older one in X.                                    *)
LEMMA OldestRow ==
    ASSUME NEW S, IsFiniteSet(S), NEW X \in SUBSET S, X # {},
           S \subseteq Nat, \A i \in S : records[i] \in Nat
    PROVE  \E j \in X : Before(S, j) \cap X = {}
<1> DEFINE T == {Before(S, j) : j \in X}
<1>1. T \subseteq FiniteSubsetsOf(S) /\ T # {}
  <2>1. \A j \in X : Before(S, j) \in SUBSET S
    BY DEF Before
  <2>2. \A j \in X : IsFiniteSet(Before(S, j))
    BY <2>1, FS_Subset
  <2> QED
    BY <2>1, <2>2 DEF FiniteSubsetsOf
<1>2. PICK A \in T : \A B \in T : <<B, A>> \notin StrictSubsetOrdering(S)
  <2> HIDE DEF T
  <2> QED
    BY <1>1, WFMin, FS_StrictSubsetOrderingWellFounded, Zenon
<1>3. PICK j \in X : A = Before(S, j)
  OBVIOUS
<1>4. ASSUME NEW i \in Before(S, j) \cap X
      PROVE  FALSE
  <2>1. i \in S /\ j \in S /\ i \in Nat /\ j \in Nat /\ Older(i, j)
    BY <1>4 DEF Before
  <2>2. Before(S, i) \subseteq Before(S, j)
    <3> SUFFICES ASSUME NEW m \in S, Older(m, i) PROVE Older(m, j)
      BY DEF Before
    <3> QED
      BY <2>1 DEF Older
  <2>3. i \in Before(S, j) /\ i \notin Before(S, i)
    BY <2>1 DEF Before, Older
  <2>4. Before(S, i) \in SUBSET S /\ Before(S, j) \in SUBSET S
    BY DEF Before
  <2>5. Before(S, i) # Before(S, j)
    BY <2>3
  <2>6. <<Before(S, i), Before(S, j)>> \in StrictSubsetOrdering(S)
    BY <2>2, <2>4, <2>5, Zenon DEF StrictSubsetOrdering
  <2> QED
    BY <2>6, <1>2, <1>3, <1>4
<1> QED
  BY <1>4

(* The rows later than t in a sequence of times; a row more is a row more. *)
After(s, t) == {i \in DOMAIN s : s[i] > t}

(* There are finitely many.                                                *)
LEMMA AfterFinite ==
    ASSUME NEW s \in Seq(Times), NEW t
    PROVE  IsFiniteSet(After(s, t)) /\ Cardinality(After(s, t)) \in Nat
<1>1. IsFiniteSet(DOMAIN s)
  BY FS_Interval
<1>2. After(s, t) \in SUBSET (DOMAIN s)
  BY DEF After
<1> QED
  BY <1>1, <1>2, FS_Subset, FS_CardinalityType

(* A row appended is counted if it is late enough.                         *)
LEMMA AfterAppend ==
    ASSUME NEW s \in Seq(Times), NEW x \in Times, NEW t \in Int
    PROVE  Cardinality(After(Append(s, x), t)) =
               Cardinality(After(s, t)) + (IF x > t THEN 1 ELSE 0)
<1> DEFINE n == Len(s) + 1
<1>1. n \notin After(s, t) /\ IsFiniteSet(After(s, t))
  <2>1. DOMAIN s = 1 .. Len(s) /\ Len(s) \in Nat
    OBVIOUS
  <2>2. n \notin DOMAIN s
    BY <2>1
  <2> QED
    BY <2>2, AfterFinite, Zenon DEF After
<1>2. After(Append(s, x), t) = IF x > t THEN After(s, t) \cup {n} ELSE After(s, t)
  <2>1. DOMAIN Append(s, x) = 1 .. n /\ DOMAIN s = 1 .. Len(s) /\ Len(s) \in Nat
    OBVIOUS
  <2>2. \A i \in 1 .. Len(s) : Append(s, x)[i] = s[i]
    OBVIOUS
  <2>3. Append(s, x)[n] = x
    OBVIOUS
  <2>4. \A i : i \in 1 .. n <=> i \in 1 .. Len(s) \/ i = n
    BY <2>1
  <2>5. \A i : i \in After(Append(s, x), t) <=> i \in After(s, t) \/ (i = n /\ x > t)
    <3> HIDE DEF n
    <3> QED
      BY <2>1, <2>2, <2>3, <2>4, <1>1 DEF After
  <2> QED
    BY <2>5
<1> HIDE DEF n
<1>3. Cardinality(After(s, t) \cup {n}) = Cardinality(After(s, t)) + 1
  BY <1>1, FS_AddElement
<1>4. Cardinality(After(s, t)) \in Nat
  BY AfterFinite
<1> QED
  BY <1>2, <1>3, <1>4

(* An earlier moment has no fewer rows after it.                           *)
LEMMA AfterEarlier ==
    ASSUME NEW s \in Seq(Times), NEW t \in Int, NEW u \in Int, u <= t
    PROVE  Cardinality(After(s, t)) <= Cardinality(After(s, u))
<1>1. After(s, t) \in SUBSET After(s, u)
  <2>1. \A i \in DOMAIN s : s[i] \in Times
    OBVIOUS
  <2>2. Times \subseteq Int
    BY DEF Times
  <2>3. \A i \in DOMAIN s : s[i] \in Int
    BY <2>1, <2>2
  <2>4. \A i \in DOMAIN s : s[i] > t => s[i] > u
    BY <2>3
  <2> QED
    BY <2>4, Zenon DEF After
<1> QED
  BY <1>1, AfterFinite, FS_Subset

-----------------------------------------------------------------------------
(*                 The limit of the query hides nothing                    *)

(* A list in force has a first rule, whose window is the largest and which *)
(* the limit of the query exceeds.                                         *)
LEMMA RulesInForce ==
    ASSUME NEW l \in Loops
    PROVE  /\ 1 \in DOMAIN RulesOf(l)
           /\ DOMAIN RulesOf(l) \subseteq Nat
           /\ \A k \in DOMAIN RulesOf(l) :
                 /\ RulesOf(l)[k].try \in Nat
                 /\ RulesOf(l)[k].secs \in Nat
                 /\ RulesOf(l)[k].ban \in Nat
                 /\ RulesOf(l)[k].secs <= RulesOf(l)[1].secs
           /\ Limit(l) \in Nat /\ Limit(l) > RulesOf(l)[1].try
<1>1. CASE Rules[l] = <<>>
  <2>1. RulesOf(l) = <<DefaultRule>> /\ Limit(l) = DefaultLimit
    BY <1>1 DEF RulesOf, Limit
  <2> QED
    BY <2>1, ConstantsAssumption DEF CountRule
<1>2. CASE Rules[l] # <<>>
  <2>1. RulesOf(l) = Rules[l] /\ Limit(l) = Rules[l][1].try + 1
    BY <1>2 DEF RulesOf, Limit
  <2>2. Rules[l] \in Seq(CountRule) /\ Sorted(Rules[l])
    BY ConstantsAssumption
  <2>3. DOMAIN Rules[l] = 1 .. Len(Rules[l]) /\ Len(Rules[l]) \in Nat \ {0}
    BY <1>2, <2>2
  <2>4. \A k \in DOMAIN Rules[l] : Rules[l][k] \in CountRule
    BY <2>2, <2>3
  <2>5. \A k \in DOMAIN Rules[l] : Rules[l][k].secs <= Rules[l][1].secs
    <3> TAKE k \in DOMAIN Rules[l]
    <3>1. CASE k = 1
      BY <3>1, <2>4 DEF CountRule
    <3>2. CASE k # 1
      BY <3>2, <2>2, <2>3 DEF Sorted
    <3> QED
      BY <3>1, <3>2
  <2> QED
    BY <2>1, <2>3, <2>4, <2>5 DEF CountRule
<1> QED
  BY <1>1, <1>2

(* The rows of the largest window: what every rule counts lies in it.      *)
Window(l) == Within(Rows, now[l], RulesOf(l)[1])

(* There are finitely many rows, the times in them are numbers, and the    *)
(* query finds rows of the largest window.                                 *)
LEMMA RowsFinite ==
    ASSUME TypeOK, NEW l \in Loops
    PROVE  /\ IsFiniteSet(Rows) /\ Rows \subseteq Nat
           /\ \A i \in Rows : records[i] \in Nat
           /\ now[l] \in Nat
           /\ Window(l) \in SUBSET Rows /\ IsFiniteSet(Window(l))
           /\ Cardinality(Window(l)) \in Nat
           /\ Found(l) = {j \in Window(l) : Cardinality(Before(Window(l), j)) < Limit(l)}
           /\ Found(l) \in SUBSET Window(l) /\ IsFiniteSet(Found(l))
           /\ Cardinality(Found(l)) \in Nat
           /\ Cardinality(Found(l)) <= Cardinality(Window(l))
<1>1. records \in Seq(Times) /\ now[l] \in Times /\ Times \subseteq Nat
  BY DEF TypeOK, Times
<1>2. DOMAIN records = 1 .. Len(records) /\ Len(records) \in Nat
  BY <1>1
<1>3. \A i \in DOMAIN records : records[i] \in Times
  BY <1>1
<1>4. IsFiniteSet(Rows)
  <2>1. IsFiniteSet(DOMAIN records) /\ Rows \in SUBSET (DOMAIN records)
    BY <1>2, FS_Interval DEF Rows
  <2> QED
    BY <2>1, FS_Subset
<1>5. Rows \subseteq Nat /\ Rows \subseteq DOMAIN records
  BY <1>2 DEF Rows
<1>6. Window(l) \in SUBSET Rows
  BY DEF Window, Within
<1>7. IsFiniteSet(Window(l)) /\ Cardinality(Window(l)) \in Nat
  BY <1>4, <1>6, FS_Subset, FS_CardinalityType
<1>8. Found(l) = {j \in Window(l) : Cardinality(Before(Window(l), j)) < Limit(l)}
  BY DEF Found, Before, Window
<1>9. Found(l) \in SUBSET Window(l)
  BY <1>8
<1>10. /\ IsFiniteSet(Found(l)) /\ Cardinality(Found(l)) \in Nat
       /\ Cardinality(Found(l)) <= Cardinality(Window(l))
  BY <1>7, <1>9, FS_Subset, FS_CardinalityType
<1> QED
  BY <1>1, <1>3, <1>4, <1>5, <1>6, <1>7, <1>8, <1>9, <1>10

(* A row of the largest window that the query has not found has at least   *)
(* Limit older ones that it has.                                           *)
LEMMA AllOrLimitFound ==
    ASSUME TypeOK, NEW l \in Loops
    PROVE  Found(l) = Window(l) \/ Cardinality(Found(l)) >= Limit(l)
<1> DEFINE W == Window(l)
<1> SUFFICES ASSUME W \ Found(l) # {} PROVE Cardinality(Found(l)) >= Limit(l)
  BY RowsFinite
<1>1. /\ IsFiniteSet(W) /\ W \subseteq Nat /\ \A i \in W : records[i] \in Nat
      /\ Found(l) \in SUBSET W /\ IsFiniteSet(Found(l)) /\ Cardinality(Found(l)) \in Nat
      /\ Found(l) = {j \in W : Cardinality(Before(W, j)) < Limit(l)}
  BY RowsFinite
<1> HIDE DEF W
<1>2. PICK j \in W \ Found(l) : Before(W, j) \cap (W \ Found(l)) = {}
  BY <1>1, OldestRow
<1>3. Before(W, j) \in SUBSET Found(l)
  BY <1>2 DEF Before
<1>4. /\ Cardinality(Before(W, j)) <= Cardinality(Found(l))
      /\ Cardinality(Before(W, j)) \in Nat
  BY <1>1, <1>3, FS_Subset, FS_CardinalityType
<1> QED
  BY <1>1, <1>2, <1>4, RulesInForce

(* No rule counts a row outside the largest window.                        *)
LEMMA WindowHoldsAll ==
    ASSUME TypeOK, NEW l \in Loops, NEW k \in DOMAIN RulesOf(l)
    PROVE  Within(Rows, now[l], RulesOf(l)[k])
               = Within(Window(l), now[l], RulesOf(l)[k])
<1> DEFINE R == RulesOf(l)
<1>1. R[k].secs <= R[1].secs /\ R[k].secs \in Nat /\ R[1].secs \in Nat
  BY RulesInForce
<1>2. \A i \in Rows :
         records[i] > now[l] - R[k].secs => records[i] > now[l] - R[1].secs
  BY <1>1, RowsFinite
<1>3. Window(l) \in SUBSET Rows
  BY RowsFinite
<1> QED
  BY <1>2, <1>3, Zenon DEF Within, Window

(* An attempt that the rows found by the query let pass exceeds no rule    *)
(* over all the rows: rows the query has not found would make those it has *)
(* exceed the first rule.                                                  *)
LEMMA QueryIsEnough ==
    ASSUME TypeOK, NEW l \in Loops, Hits(l) = {}
    PROVE  \A k \in DOMAIN RulesOf(l) : ~Exceeded(l, RulesOf(l)[k])
<1> DEFINE R == RulesOf(l)
           W == Window(l)
<1>1. \A k \in DOMAIN R : ~(Cardinality(Counted(Found(l), now[l], R[k])) > R[k].try)
  BY DEF Hits
<1>2. Found(l) \in SUBSET W /\ Cardinality(Found(l)) \in Nat
  BY RowsFinite
<1>3. Found(l) = W
  <2>1. Counted(Found(l), now[l], R[1]) = Found(l)
    BY <1>2 DEF Counted, Within, Window
  <2> QED
    BY <2>1, <1>1, <1>2, AllOrLimitFound, RulesInForce
<1> HIDE DEF W
<1> SUFFICES ASSUME NEW k \in DOMAIN R PROVE ~Exceeded(l, R[k])
  OBVIOUS
<1>4. Within(Rows, now[l], R[k]) = Within(W, now[l], R[k])
  BY WindowHoldsAll DEF W
<1>5. R[k].try \in Nat
  BY RulesInForce
<1>6. CASE Within(W, now[l], R[k]) = {}
  BY <1>4, <1>5, <1>6, FS_EmptySet DEF Exceeded
<1>7. CASE Within(W, now[l], R[k]) # {}
  <2>1. Counted(Found(l), now[l], R[k]) = Within(W, now[l], R[k])
    BY <1>3, <1>7 DEF Counted
  <2> QED
    BY <2>1, <1>1, <1>4 DEF Exceeded
<1> QED
  BY <1>6, <1>7

(* A rule is hit because some rule is exceeded, or because nothing at all  *)
(* lies in its window: index stays 0 then, and the rows of the largest     *)
(* window are held against it.                                             *)
HitForNothing(l, r) ==
    Within(Rows, now[l], r) = {} /\ Cardinality(Window(l)) > r.try

LEMMA HitHasReason ==
    ASSUME TypeOK, NEW l \in Loops, Hits(l) # {}
    PROVE  \E k \in DOMAIN RulesOf(l) :
              Exceeded(l, RulesOf(l)[k]) \/ HitForNothing(l, RulesOf(l)[k])
<1> DEFINE R == RulesOf(l)
<1>1. PICK k \in DOMAIN R : Cardinality(Counted(Found(l), now[l], R[k])) > R[k].try
  BY DEF Hits
<1>2. /\ R[k].try \in Nat /\ 1 \in DOMAIN R /\ R[1].try \in Nat
      /\ Limit(l) \in Nat /\ Limit(l) > R[1].try
  BY RulesInForce
<1>3. /\ IsFiniteSet(Rows) /\ IsFiniteSet(Window(l)) /\ IsFiniteSet(Found(l))
      /\ Found(l) \in SUBSET Window(l) /\ Window(l) \in SUBSET Rows
      /\ Cardinality(Found(l)) \in Nat /\ Cardinality(Window(l)) \in Nat
      /\ Cardinality(Found(l)) <= Cardinality(Window(l))
  BY RowsFinite
<1>4. CASE Within(Found(l), now[l], R[k]) # {}
  <2>1. Within(Found(l), now[l], R[k]) \in SUBSET Within(Rows, now[l], R[k])
    BY <1>3 DEF Within
  <2>2. Within(Rows, now[l], R[k]) \in SUBSET Rows
    BY DEF Within
  <2>3. IsFiniteSet(Within(Rows, now[l], R[k]))
    BY <1>3, <2>2, FS_Subset
  <2>4. /\ Cardinality(Within(Found(l), now[l], R[k])) \in Nat
        /\ Cardinality(Within(Rows, now[l], R[k])) \in Nat
        /\ Cardinality(Within(Found(l), now[l], R[k]))
               <= Cardinality(Within(Rows, now[l], R[k]))
    BY <2>1, <2>3, FS_Subset, FS_CardinalityType
  <2>5. Exceeded(l, R[k])
    BY <1>1, <1>2, <1>4, <2>4 DEF Counted, Exceeded
  <2> QED
    BY <2>5
<1>5. CASE Within(Found(l), now[l], R[k]) = {} /\ Found(l) = Window(l)
  <2>1. Within(Rows, now[l], R[k]) = {}
    BY <1>5, WindowHoldsAll
  <2>2. Cardinality(Window(l)) > R[k].try
    BY <1>1, <1>5 DEF Counted
  <2> QED
    BY <2>1, <2>2 DEF HitForNothing
<1>6. CASE Cardinality(Found(l)) >= Limit(l)
  <2>1. Cardinality(Window(l)) > R[1].try
    BY <1>2, <1>3, <1>6
  <2>2. Exceeded(l, R[1])
    BY <2>1 DEF Exceeded, Window
  <2> QED
    BY <1>2, <2>2
<1> QED
  BY <1>4, <1>5, <1>6, AllOrLimitFound

-----------------------------------------------------------------------------
(*                          The invariant                                  *)

(* The first rule that is hit is one that is hit.                          *)
LEMMA FirstHitHits ==
    ASSUME NEW l \in Loops, Hits(l) # {}
    PROVE  FirstHit(l) \in DOMAIN RulesOf(l)
<1>1. Hits(l) \in SUBSET Nat /\ Hits(l) \subseteq DOMAIN RulesOf(l)
  BY RulesInForce DEF Hits
<1>2. \E k \in Hits(l) : \A j \in Hits(l) : k <= j
  BY <1>1, LeastNumber
<1>3. FirstHit(l) \in Hits(l)
  BY <1>2 DEF FirstHit
<1> QED
  BY <1>1, <1>3

(* CountRulesCheck does not begin in the future.                           *)
NowInv == \A l \in Loops : now[l] <= clock

(* A loop about to set a ban has seen that no longer one is in force, and  *)
(* none has come unless it was overtaken.                                  *)
BanInv == \A l \in Loops :
    pc[l] = "set" /\ l \notin overtaken => bannedUntil <= clock + ban[l]

(* Every attempt let in has its row.                                       *)
ServedRecorded ==
    \A t \in Int : Cardinality(After(served, t)) <= Cardinality(After(records, t))

(* The cleaner deletes only what the retention period has left behind.     *)
PurgedInv == \A i \in purged : records[i] < clock - Retention

(* What has been let in and what is about to be.                           *)
Passing == {l \in Loops : pc[l] = "rules"}
Overrun ==
    \A m \in Loops : \A k \in DOMAIN RulesOf(m) :
        InForce(RulesOf(m)[k]) =>
            Cardinality(After(served, clock - Reach(RulesOf(m)[k]))) + Cardinality(Passing)
                <= RulesOf(m)[k].try + Cardinality(Loops)

GateInv == TypeOK /\ NowInv /\ BanInv /\ PurgedInv /\ ServedRecorded /\ Overrun

USE DEF Attempt, Moves, Goes, StoresUnchanged, rowVars

(* A row more keeps the types of the rows, and their keys in range.        *)
LEMMA RowAdded ==
    ASSUME TypeOK, NEW l \in Loops, NEW forward, forward \subseteq {Len(records) + 1},
           RecordedFor(l, forward)
    PROVE  /\ records' \in Seq(Times) /\ at' \in [Loops -> Times]
           /\ purged' \subseteq DOMAIN records' /\ held' \subseteq DOMAIN records'
           /\ UNCHANGED <<now, ban, bannedUntil, overtaken>>
<1>1. records \in Seq(Times) /\ at \in [Loops -> Times]
  BY DEF TypeOK
<1>2. records' = Append(records, at[l]) /\ held' = held \cup forward /\ purged' = purged
  BY DEF RecordedFor
<1>3. DOMAIN records = 1 .. Len(records) /\ Len(records) \in Nat
  BY <1>1
<1>4. records' \in Seq(Times) /\ DOMAIN records' = 1 .. Len(records) + 1
  BY <1>1, <1>2
<1>5. purged \subseteq DOMAIN records /\ held \subseteq DOMAIN records
  BY DEF TypeOK
<1>6. DOMAIN records \cup {Len(records) + 1} \subseteq DOMAIN records'
  BY <1>3, <1>4
<1>7. at' \in [Loops -> Times]
  <2>1. 0 \in Times
    BY ConstantsAssumption DEF Times
  <2> QED
    BY <1>1, <2>1 DEF RecordedFor
<1> QED
  BY <1>2, <1>4, <1>5, <1>6, <1>7 DEF RecordedFor

(* The types.                                                              *)
LEMMA TypesKept ==
    ASSUME TypeOK, [Next]_vars
    PROVE  TypeOK'
<1> USE DEF TypeOK
<1>1. CASE UNCHANGED vars
  BY <1>1 DEF vars, loopVars
<1>2. CASE Tick
  BY <1>2, ConstantsAssumption DEF Tick, loopVars, Times
<1>4. CASE Clean
  BY <1>4 DEF Clean, Deletes, loopVars
<1>5. ASSUME NEW i \in DOMAIN records, ForwardEnds(i)
      PROVE  TypeOK'
  BY <1>5 DEF ForwardEnds, loopVars
<1>3. ASSUME NEW l \in Loops, Attempt(l)
      PROVE  TypeOK'
  <2>1. 0 \in Times
    BY ConstantsAssumption DEF Times
  <2>2. CASE Accept(l)
    BY <2>2 DEF Accept
  <2>3. CASE Query(l)
    BY <2>3 DEF Query
  <2>4. CASE QueryRefuses(l)
    BY <2>4 DEF QueryRefuses
  <2>5. CASE Pass(l)
    BY <2>1, <2>5 DEF Pass
  <2>6. CASE Hit(l)
    <3>1. RulesOf(l)[FirstHit(l)].ban \in Nat
      BY <2>6, FirstHitHits, RulesInForce DEF Hit
    <3> QED
      BY <3>1, <2>1, <2>6 DEF Hit
  <2>7. CASE CountFails(l)
    BY <2>1, <2>7 DEF CountFails
  <2>8. CASE TTL(l)
    BY <2>8 DEF TTL
  <2>9. CASE TTLKeeps(l)
    BY <2>9 DEF TTLKeeps, Settle
  <2>10. CASE Set(l)
    BY <2>10 DEF Set, Times
  <2>11. CASE SetFails(l)
    BY <2>11 DEF SetFails, Settle
  <2>12. CASE Refuse(l)
    BY <2>12 DEF Refuse
  <2>13. CASE Deny(l)
    <3>1. CASE Recorded(l)
      BY <2>13, <3>1, RowAdded DEF Deny, Recorded
    <3>2. CASE NotRecorded(l)
      BY <2>1, <2>13, <3>2 DEF Deny, NotRecorded
    <3> QED
      BY <2>13, <3>1, <3>2 DEF Deny
  <2>14. CASE Admit(l)
    BY <2>14, RowAdded DEF Admit, LetsIn
  <2>15. CASE AdmitFails(l)
    <3>1. CASE Recorded(l)
      BY <2>15, <3>1, RowAdded DEF AdmitFails, Recorded
    <3>2. CASE NotRecorded(l)
      BY <2>1, <2>15, <3>2 DEF AdmitFails, NotRecorded
    <3> QED
      BY <2>15, <3>1, <3>2 DEF AdmitFails
  <2> QED
    BY <1>3, <2>2, <2>3, <2>4, <2>5, <2>6, <2>7, <2>8, <2>9, <2>10, <2>11, <2>12,
       <2>13, <2>14, <2>15
<1> QED
  BY <1>1, <1>2, <1>3, <1>4, <1>5 DEF Next

(* An attempt takes its time from the clock.                               *)
LEMMA NowKept ==
    ASSUME TypeOK, NowInv, [Next]_vars
    PROVE  NowInv'
<1> USE DEF TypeOK, NowInv
<1>0. clock \in Nat /\ \A l \in Loops : now[l] \in Nat
  BY DEF Times
<1>1. CASE UNCHANGED vars
  BY <1>1 DEF vars, loopVars
<1>2. CASE Tick \/ Clean \/ \E i \in DOMAIN records : ForwardEnds(i)
  BY <1>0, <1>2 DEF Tick, Clean, Deletes, ForwardEnds, loopVars
<1>3. ASSUME NEW l \in Loops, Attempt(l)
      PROVE  NowInv'
  <2>1. clock' = clock
    BY <1>3 DEF Accept, Query, QueryRefuses, Pass, Hit, CountFails, TTL, TTLKeeps, Set,
                SetFails, Refuse, Deny, Admit, AdmitFails, LetsIn
  <2>2. \E x \in {0, clock, now[l]} : now' = [now EXCEPT ![l] = x]
    BY <1>3 DEF Accept, Query, QueryRefuses, Pass, Hit, CountFails, TTL, TTLKeeps, Set,
                SetFails, Refuse, Deny, Admit, AdmitFails, LetsIn, Recorded,
                RecordedFor, NotRecorded
  <2> QED
    BY <1>0, <2>1, <2>2
<1> QED
  BY <1>1, <1>2, <1>3 DEF Next

(* Only Set writes a ban, and overtakes whoever is about to.               *)
LEMMA BanKept ==
    ASSUME TypeOK, BanInv, [Next]_vars
    PROVE  BanInv'
<1> USE DEF TypeOK, BanInv
<1>0. clock \in Nat
  BY DEF Times
<1>1. CASE UNCHANGED vars
  BY <1>1 DEF vars, loopVars
<1>2. CASE Tick \/ Clean \/ \E i \in DOMAIN records : ForwardEnds(i)
  BY <1>0, <1>2 DEF Tick, Clean, Deletes, ForwardEnds, loopVars
<1>3. ASSUME NEW l \in Loops, Attempt(l)
      PROVE  BanInv'
  <2>1. CASE TTL(l)
    BY <1>0, <2>1 DEF TTL
  <2>2. CASE Set(l)
    BY <1>0, <2>2 DEF Set
  <2>3. CASE TTLKeeps(l) \/ SetFails(l)
    BY <1>0, <2>3 DEF TTLKeeps, SetFails, Settle
  <2>4. CASE Hit(l)
    BY <1>0, <2>4 DEF Hit
  <2>5. CASE Accept(l) \/ Query(l) \/ QueryRefuses(l) \/ Pass(l) \/ CountFails(l)
             \/ Refuse(l) \/ Deny(l) \/ Admit(l) \/ AdmitFails(l)
    BY <1>0, <2>5 DEF Accept, Query, QueryRefuses, Pass, CountFails, Refuse, Deny, Admit,
                      AdmitFails, LetsIn, Recorded, RecordedFor, NotRecorded
  <2> QED
    BY <1>3, <2>1, <2>2, <2>3, <2>4, <2>5
<1> QED
  BY <1>1, <1>2, <1>3 DEF Next

(* The cleaner deletes by the clock, which only moves on; a row that a     *)
(* forward brings back is deleted no more.                                 *)
LEMMA PurgedKept ==
    ASSUME TypeOK, PurgedInv, [Next]_vars
    PROVE  PurgedInv'
<1> USE DEF PurgedInv
<1>0. /\ records \in Seq(Times) /\ purged \subseteq DOMAIN records
      /\ clock \in Nat /\ Retention \in Nat /\ \A l \in Loops : at[l] \in Times
      /\ \A i \in DOMAIN records : records[i] \in Nat
  BY ConstantsAssumption DEF TypeOK, Times
<1>1. CASE UNCHANGED vars
  BY <1>1 DEF vars
<1>2. CASE Tick
  BY <1>0, <1>2 DEF Tick
<1>3. CASE Clean
  BY <1>0, <1>3 DEF Clean, Deletes
<1>4. CASE \E i \in DOMAIN records : ForwardEnds(i)
  BY <1>0, <1>4 DEF ForwardEnds
<1>5. ASSUME NEW l \in Loops, Attempt(l)
      PROVE  PurgedInv'
  <2>1. clock' = clock /\ purged' = purged
    BY <1>5 DEF Accept, Query, QueryRefuses, Pass, Hit, CountFails, TTL, TTLKeeps, Set,
                SetFails, Refuse, Deny, Admit, AdmitFails, LetsIn, Recorded, RecordedFor,
                NotRecorded, Settle
  <2>2. records' = records \/ records' = Append(records, at[l])
    BY <1>5 DEF Accept, Query, QueryRefuses, Pass, Hit, CountFails, TTL, TTLKeeps, Set,
                SetFails, Refuse, Deny, Admit, AdmitFails, LetsIn, Recorded, RecordedFor,
                NotRecorded, Settle
  <2>3. \A i \in DOMAIN records : records'[i] = records[i]
    BY <1>0, <2>2
  <2> QED
    BY <1>0, <2>1, <2>3
<1> QED
  BY <1>1, <1>2, <1>3, <1>4, <1>5 DEF Next

(* Rows are only added, and an attempt that is let in adds its own.        *)
LEMMA RecordedKept ==
    ASSUME TypeOK, ServedRecorded, [Next]_vars
    PROVE  ServedRecorded'
<1> USE DEF ServedRecorded
<1>0. /\ records \in Seq(Times) /\ served \in Seq(Times)
      /\ \A l \in Loops : at[l] \in Times
  BY DEF TypeOK
<1>1. CASE records' = records /\ served' = served
  BY <1>1 DEF After
<1>2. ASSUME NEW l \in Loops, records' = Append(records, at[l]),
             served' = served \/ served' = Append(served, at[l])
      PROVE  ServedRecorded'
  <2> SUFFICES ASSUME NEW t \in Int
               PROVE  Cardinality(After(served', t)) <= Cardinality(After(records', t))
    BY DEF After
  <2>1. Cardinality(After(records', t))
            = Cardinality(After(records, t)) + (IF at[l] > t THEN 1 ELSE 0)
    BY <1>0, <1>2, AfterAppend
  <2>2. \/ served' = served
        \/ Cardinality(After(served', t))
                = Cardinality(After(served, t)) + (IF at[l] > t THEN 1 ELSE 0)
    BY <1>0, <1>2, AfterAppend
  <2>3. Cardinality(After(served, t)) \in Nat /\ Cardinality(After(records, t)) \in Nat
    BY <1>0, AfterFinite
  <2> QED
    BY <2>1, <2>2, <2>3
<1>3. ASSUME NEW l \in Loops, Attempt(l)
      PROVE  \/ records' = records /\ served' = served
             \/ /\ records' = Append(records, at[l])
                /\ served' = served \/ served' = Append(served, at[l])
  BY <1>3 DEF Accept, Query, QueryRefuses, Pass, Hit, CountFails, TTL, TTLKeeps, Set,
              SetFails, Refuse, Deny, Admit, AdmitFails, LetsIn, Recorded, RecordedFor,
              NotRecorded, Settle
<1>4. CASE \/ Tick \/ Clean \/ UNCHANGED vars
           \/ \E i \in DOMAIN records : ForwardEnds(i)
  BY <1>1, <1>4 DEF Tick, Clean, Deletes, ForwardEnds, vars
<1> QED
  BY <1>1, <1>2, <1>3, <1>4 DEF Next

(* A window reaches no further back than its rule and the retention say.   *)
LEMMA ReachBounded ==
    ASSUME NEW l \in Loops, NEW k \in DOMAIN RulesOf(l)
    PROVE  /\ Reach(RulesOf(l)[k]) \in Nat
           /\ Reach(RulesOf(l)[k]) <= RulesOf(l)[k].secs
           /\ Reach(RulesOf(l)[k]) <= Retention
BY RulesInForce, ConstantsAssumption DEF Reach

(* The rows hold times.                                                    *)
LEMMA RecordTimes ==
    ASSUME TypeOK
    PROVE  records \in Seq(Times) /\ \A i \in DOMAIN records : records[i] \in Nat
<1>1. records \in Seq(Times)
  BY DEF TypeOK
<1>2. Times \subseteq Nat
  BY DEF Times
<1>3. \A i \in DOMAIN records : records[i] \in Times
  BY <1>1
<1> QED
  BY <1>1, <1>2, <1>3

(* A row as young as the reach of a rule has not been deleted, and an      *)
(* attempt that passes has counted it.                                     *)
LEMMA ReachIsCounted ==
    ASSUME TypeOK, NowInv, PurgedInv, NEW l \in Loops, Hits(l) = {},
           NEW j \in DOMAIN RulesOf(l)
    PROVE  Cardinality(After(records, clock - Reach(RulesOf(l)[j]))) <= RulesOf(l)[j].try
<1> DEFINE q == RulesOf(l)[j]
           A == After(records, clock - Reach(q))
           W == Within(Rows, now[l], q)
<1>1. /\ q.try \in Nat /\ q.secs \in Nat /\ Reach(q) \in Nat
      /\ Reach(q) <= q.secs /\ Reach(q) <= Retention /\ Retention \in Nat
  BY RulesInForce, ReachBounded, ConstantsAssumption
<1>2. clock \in Nat /\ now[l] \in Nat /\ now[l] <= clock
  BY DEF TypeOK, NowInv, Times
<1>3. records \in Seq(Times) /\ \A i \in DOMAIN records : records[i] \in Nat
  BY RecordTimes
<1>4. A \in SUBSET W
  <2> SUFFICES ASSUME NEW i \in DOMAIN records, records[i] > clock - Reach(q)
               PROVE  i \notin purged /\ records[i] > now[l] - q.secs
    BY DEF After, Within, Rows
  <2> HIDE DEF q
  <2> QED
    BY <1>1, <1>2, <1>3 DEF PurgedInv
<1>5. IsFiniteSet(W)
  <2>1. W \in SUBSET Rows
    BY DEF Within
  <2> QED
    BY <2>1, RowsFinite, FS_Subset
<1>6. ~(Cardinality(W) > q.try)
  BY QueryIsEnough DEF Exceeded
<1> HIDE DEF A, W, q
<1>7. Cardinality(A) <= Cardinality(W) /\ Cardinality(A) \in Nat /\ Cardinality(W) \in Nat
  BY <1>4, <1>5, FS_Subset, FS_CardinalityType
<1>8. Cardinality(A) <= q.try
  BY <1>1, <1>6, <1>7
<1> QED
  BY <1>8 DEF A, q

(* An attempt passes only if, in every window that is in force for it,     *)
(* what has been let in does not exceed the rule.                          *)
LEMMA PassWithinRules ==
    ASSUME TypeOK, NowInv, PurgedInv, ServedRecorded, NEW l \in Loops, Hits(l) = {},
           NEW m \in Loops, NEW k \in DOMAIN RulesOf(m), InForce(RulesOf(m)[k])
    PROVE  Cardinality(After(served, clock - Reach(RulesOf(m)[k]))) <= RulesOf(m)[k].try
<1> DEFINE r == RulesOf(m)[k]
<1>1. PICK j \in DOMAIN RulesOf(l) :
         RulesOf(l)[j].try <= r.try /\ Reach(RulesOf(l)[j]) >= Reach(r)
  BY DEF InForce
<1> DEFINE q == RulesOf(l)[j]
           t == clock - Reach(r)
           u == clock - Reach(q)
<1>2. q.try \in Nat /\ Reach(q) \in Nat /\ r.try \in Nat /\ Reach(r) \in Nat
  BY RulesInForce, ReachBounded
<1>3. clock \in Nat /\ records \in Seq(Times) /\ served \in Seq(Times)
  BY DEF TypeOK, Times
<1>4. t \in Int /\ u \in Int /\ u <= t
  BY <1>1, <1>2, <1>3
<1>5. Cardinality(After(records, u)) <= q.try
  BY ReachIsCounted
<1> HIDE DEF t, u, q, r
<1>6. Cardinality(After(served, t)) <= Cardinality(After(served, u))
  BY <1>3, <1>4, AfterEarlier
<1>7. Cardinality(After(served, u)) <= Cardinality(After(records, u))
  BY <1>4 DEF ServedRecorded
<1>8. /\ Cardinality(After(served, t)) \in Nat
      /\ Cardinality(After(served, u)) \in Nat
      /\ Cardinality(After(records, u)) \in Nat
  BY <1>3, AfterFinite
<1>9. Cardinality(After(served, t)) <= r.try
  BY <1>1, <1>2, <1>5, <1>6, <1>7, <1>8 DEF q, r
<1> QED
  BY <1>9 DEF t, r

(* Loops about to let in are counted by Loops; what a loop lets in moves   *)
(* from one side of the count to the other.                                *)
LEMMA PassingFinite ==
    /\ IsFiniteSet(Passing) /\ Cardinality(Passing) \in Nat
    /\ Cardinality(Loops) \in Nat /\ Cardinality(Passing) <= Cardinality(Loops)
<1>1. Passing \in SUBSET Loops /\ IsFiniteSet(Loops)
  BY ConstantsAssumption DEF Passing
<1> QED
  BY <1>1, FS_Subset, FS_CardinalityType

(* A window that moves on and fewer loops passing leave the bound alone.   *)
LEMMA FewerPassing ==
    ASSUME TypeOK, Overrun, served' = served, Passing' \subseteq Passing,
           clock' \in Nat, clock' >= clock
    PROVE  Overrun'
<1> SUFFICES ASSUME NEW m \in Loops, NEW k \in DOMAIN RulesOf(m), InForce(RulesOf(m)[k])
             PROVE  Cardinality(After(served', clock' - Reach(RulesOf(m)[k])))
                            + Cardinality(Passing')
                        <= RulesOf(m)[k].try + Cardinality(Loops)
  BY DEF Overrun, InForce, RulesOf, Reach, After
<1> DEFINE r == RulesOf(m)[k]
<1>1. /\ r.try \in Nat /\ Reach(r) \in Nat /\ clock \in Nat
      /\ served \in Seq(Times)
  BY RulesInForce, ReachBounded DEF TypeOK, Times
<1>2. Cardinality(After(served, clock - Reach(r))) + Cardinality(Passing)
          <= r.try + Cardinality(Loops)
  BY DEF Overrun
<1> DEFINE t == clock' - Reach(r)
           u == clock - Reach(r)
<1>3. t \in Int /\ u \in Int /\ u <= t
  BY <1>1
<1> HIDE DEF r, t, u
<1>4. Cardinality(After(served, t)) <= Cardinality(After(served, u))
  BY <1>1, <1>3, AfterEarlier
<1>5. Cardinality(Passing') <= Cardinality(Passing) /\ Cardinality(Passing') \in Nat
  <2>1. Passing' \in SUBSET Passing
    OBVIOUS
  <2> QED
    BY <2>1, PassingFinite, FS_Subset, FS_CardinalityType
<1>6. /\ Cardinality(After(served, t)) \in Nat /\ Cardinality(After(served, u)) \in Nat
      /\ Cardinality(Passing) \in Nat /\ Cardinality(Loops) \in Nat
  BY <1>1, AfterFinite, PassingFinite
<1>7. Cardinality(After(served, t)) + Cardinality(Passing') <= r.try + Cardinality(Loops)
  BY <1>1, <1>2, <1>4, <1>5, <1>6 DEF u
<1> QED
  BY <1>7 DEF r, t

(* To pass is to be within the rules, to be let in moves from one side of  *)
(* the sum to the other.                                                   *)
LEMMA OverrunKept ==
    ASSUME TypeOK, NowInv, PurgedInv, ServedRecorded, Overrun, TypeOK', [Next]_vars
    PROVE  Overrun'
<1>0. clock \in Nat /\ clock' \in Nat
  BY DEF TypeOK, Times
<1>1. CASE UNCHANGED vars
  BY <1>0, <1>1, FewerPassing DEF vars, loopVars, Passing
<1>2. CASE Tick \/ Clean \/ \E i \in DOMAIN records : ForwardEnds(i)
  BY <1>0, <1>2, FewerPassing DEF Tick, Clean, Deletes, ForwardEnds, loopVars, Passing
<1>3. ASSUME NEW l \in Loops, Attempt(l)
      PROVE  Overrun'
  <2>1. CASE Pass(l)
    <3>1. served' = served /\ clock' = clock /\ Hits(l) = {}
      BY <2>1 DEF Pass
    <3> SUFFICES ASSUME NEW m \in Loops, NEW k \in DOMAIN RulesOf(m), InForce(RulesOf(m)[k])
                 PROVE  Cardinality(After(served, clock - Reach(RulesOf(m)[k])))
                                + Cardinality(Passing')
                            <= RulesOf(m)[k].try + Cardinality(Loops)
      BY <3>1 DEF Overrun, InForce, RulesOf, Reach, After
    <3>2. Cardinality(After(served, clock - Reach(RulesOf(m)[k]))) <= RulesOf(m)[k].try
      BY <3>1, PassWithinRules
    <3>3. Cardinality(Passing') <= Cardinality(Loops) /\ Cardinality(Passing') \in Nat
      <4>1. Passing' \in SUBSET Loops /\ IsFiniteSet(Loops)
        BY ConstantsAssumption DEF Passing
      <4> QED
        BY <4>1, FS_Subset, FS_CardinalityType
    <3>4. /\ Cardinality(After(served, clock - Reach(RulesOf(m)[k]))) \in Nat
          /\ RulesOf(m)[k].try \in Nat /\ Cardinality(Loops) \in Nat
      BY AfterFinite, RulesInForce, PassingFinite DEF TypeOK
    <3> QED
      BY <3>2, <3>3, <3>4
  <2>2. CASE Admit(l)
    <3>1. /\ served' = Append(served, at[l]) /\ clock' = clock
          /\ l \in Passing /\ Passing' = Passing \ {l}
      BY <2>2 DEF Admit, LetsIn, Passing, TypeOK
    <3> SUFFICES ASSUME NEW m \in Loops, NEW k \in DOMAIN RulesOf(m), InForce(RulesOf(m)[k])
                 PROVE  Cardinality(After(Append(served, at[l]), clock - Reach(RulesOf(m)[k])))
                            + Cardinality(Passing \ {l})
                            <= RulesOf(m)[k].try + Cardinality(Loops)
      BY <3>1 DEF Overrun, InForce, RulesOf, Reach, After
    <3> DEFINE t == clock - Reach(RulesOf(m)[k])
    <3>2. RulesOf(m)[k].try \in Nat /\ t \in Int
      BY <1>0, RulesInForce, ReachBounded
    <3>3. served \in Seq(Times) /\ at[l] \in Times
      BY DEF TypeOK
    <3>4. Cardinality(After(served, t)) + Cardinality(Passing)
              <= RulesOf(m)[k].try + Cardinality(Loops)
      BY DEF Overrun
    <3> HIDE DEF t
    <3>5. Cardinality(After(Append(served, at[l]), t))
              = Cardinality(After(served, t)) + (IF at[l] > t THEN 1 ELSE 0)
      BY <3>2, <3>3, AfterAppend
    <3>6. Cardinality(Passing \ {l}) = Cardinality(Passing) - 1
      BY <3>1, PassingFinite, FS_RemoveElement
    <3>7. /\ Cardinality(After(served, t)) \in Nat /\ Cardinality(Passing) \in Nat
          /\ Cardinality(Loops) \in Nat
      BY <3>3, AfterFinite, PassingFinite
    <3>8. Cardinality(After(Append(served, at[l]), t)) + Cardinality(Passing \ {l})
              <= RulesOf(m)[k].try + Cardinality(Loops)
      BY <3>2, <3>4, <3>5, <3>6, <3>7
    <3> QED
      BY <3>8 DEF t
  <2>3. CASE \/ Accept(l) \/ Query(l) \/ QueryRefuses(l) \/ Hit(l) \/ CountFails(l)
             \/ TTL(l) \/ TTLKeeps(l) \/ Set(l) \/ SetFails(l)
             \/ Refuse(l) \/ Deny(l) \/ AdmitFails(l)
    <3>1. served' = served /\ clock' = clock
      BY <2>3 DEF Accept, Query, QueryRefuses, Hit, CountFails, TTL, TTLKeeps, Set,
                  SetFails, Refuse, Deny, AdmitFails
    <3>2. \E s \in {"query", "count", "deny", "ttl", "set", "idle"} : pc' = [pc EXCEPT ![l] = s]
      BY <2>3 DEF Accept, Query, QueryRefuses, Hit, CountFails, TTL, TTLKeeps, Set,
                  SetFails, Refuse, Deny, AdmitFails
    <3>3. Passing' \subseteq Passing
      BY <3>2 DEF Passing, TypeOK
    <3> QED
      BY <1>0, <3>1, <3>3, FewerPassing
  <2> QED
    BY <1>3, <2>1, <2>2, <2>3
<1> QED
  BY <1>1, <1>2, <1>3 DEF Next

-----------------------------------------------------------------------------
(*                             The theorems                                *)

(* The invariant holds before the first attempt.                           *)
LEMMA InitGateInv == Init => GateInv
<1> SUFFICES ASSUME Init PROVE GateInv
  OBVIOUS
<1> USE DEF Init
<1>1. TypeOK
  BY ConstantsAssumption DEF TypeOK, Times
<1>2. NowInv /\ BanInv /\ PurgedInv
  BY DEF NowInv, BanInv, PurgedInv
<1>3. \A t : Cardinality(After(served, t)) = 0 /\ Cardinality(After(records, t)) = 0
  <2>1. \A t : After(served, t) = {} /\ After(records, t) = {}
    BY DEF After
  <2> QED
    BY <2>1, FS_EmptySet, Zenon
<1>4. ServedRecorded
  BY <1>3 DEF ServedRecorded
<1>5. Cardinality(Passing) = 0
  <2>1. Passing = {}
    BY DEF Passing
  <2> QED
    BY <2>1, FS_EmptySet
<1>6. Overrun
  <2>1. \A m \in Loops : \A k \in DOMAIN RulesOf(m) : RulesOf(m)[k].try \in Nat
    BY RulesInForce
  <2> QED
    BY <1>3, <1>5, <2>1, PassingFinite DEF Overrun
<1> QED
  BY <1>1, <1>2, <1>4, <1>6 DEF GateInv

(* The invariant is inductive.                                             *)
THEOREM Inductive == Spec => []GateInv
<1>1. GateInv /\ [Next]_vars => GateInv'
  BY TypesKept, NowKept, BanKept, PurgedKept, RecordedKept, OverrunKept DEF GateInv
<1> QED
  BY <1>1, InitGateInv, PTL DEF Spec

(* The variables keep their types.                                         *)
THEOREM TypeCorrect == Spec => []TypeOK
<1>1. GateInv => TypeOK
  BY DEF GateInv
<1> QED
  BY <1>1, Inductive, PTL

(* As far back as a rule and the retention period reach, no window is      *)
(* overrun by more than one attempt a loop (ServedBounded).                *)
THEOREM BoundedOverrun == Spec => []ServedBounded
<1>1. GateInv => ServedBounded
  <2> SUFFICES ASSUME GateInv, NEW m \in Loops, NEW k \in DOMAIN RulesOf(m),
                      InForce(RulesOf(m)[k])
               PROVE  Cardinality(After(served, clock - Reach(RulesOf(m)[k])))
                          <= RulesOf(m)[k].try + Cardinality(Loops)
    BY DEF ServedBounded, After
  <2>1. Cardinality(After(served, clock - Reach(RulesOf(m)[k]))) + Cardinality(Passing)
            <= RulesOf(m)[k].try + Cardinality(Loops)
    BY DEF GateInv, Overrun
  <2>2. /\ Cardinality(After(served, clock - Reach(RulesOf(m)[k]))) \in Nat
        /\ Cardinality(Passing) \in Nat /\ Cardinality(Loops) \in Nat
        /\ RulesOf(m)[k].try \in Nat
    BY AfterFinite, PassingFinite, RulesInForce DEF GateInv, TypeOK
  <2> QED
    BY <2>1, <2>2
<1> QED
  BY <1>1, Inductive, PTL

(* The oldest Limit rows are enough for every rule (NeverUndercounts).     *)
THEOREM LimitHidesNothing == Spec => NeverUndercounts
<1>1. ASSUME GateInv, [Next]_vars, NEW l \in Loops, pc[l] = "count", pc'[l] = "rules"
      PROVE  Hits(l) = {}
  BY <1>1 DEF GateInv, TypeOK, Next, vars, loopVars, Tick, Accept, Query,
              QueryRefuses, Pass, Hit, CountFails, TTL,
              TTLKeeps, Set, SetFails, Refuse, Deny, Admit, AdmitFails, LetsIn,
              Clean, Deletes, ForwardEnds
<1>2. GateInv /\ [Next]_vars =>
        [\A l \in Loops : (pc[l] = "count" /\ pc'[l] = "rules")
          => \A k \in DOMAIN RulesOf(l) : ~Exceeded(l, RulesOf(l)[k])]_vars
  BY <1>1, QueryIsEnough DEF GateInv
<1> QED
  BY <1>2, Inductive, PTL DEF Spec, NeverUndercounts

(* A ban is cut short only by a loop that another has overtaken            *)
(* (BanCutOnlyIfOvertaken).                                                *)
THEOREM BanStays == Spec => BanCutOnlyIfOvertaken
<1>1. ASSUME GateInv, [Next]_vars, bannedUntil' < bannedUntil
      PROVE  \E l \in overtaken : pc[l] = "set" /\ pc'[l] = "deny"
  <2>1. PICK l \in Loops : Set(l)
    BY <1>1 DEF GateInv, TypeOK, Next, vars, loopVars, Tick, Accept, Query,
                QueryRefuses, Pass, Hit, CountFails,
                TTL, TTLKeeps, SetFails, Refuse, Deny, Admit, AdmitFails, LetsIn, Recorded,
                RecordedFor, NotRecorded, Settle, Clean, Deletes, ForwardEnds
  <2>2. pc[l] = "set" /\ pc'[l] = "deny" /\ bannedUntil' = clock + ban[l]
    BY <2>1, <1>1 DEF Set, GateInv, TypeOK
  <2>3. l \in overtaken
    BY <2>2, <1>1 DEF GateInv, BanInv, TypeOK, Times
  <2> QED
    BY <2>2, <2>3
<1>2. GateInv /\ [Next]_vars =>
        [bannedUntil' < bannedUntil
          => \E l \in overtaken : pc[l] = "set" /\ pc'[l] = "deny"]_vars
  BY <1>1
<1> QED
  BY <1>2, Inductive, PTL DEF Spec, BanCutOnlyIfOvertaken

(* A client that is banned may have exceeded no rule (BannedMeansExceeded  *)
(* fails), but in one way only: nothing at all lies in the window of the   *)
(* rule that bans it, and the largest window holds more than that rule's   *)
(* try-count.                                                              *)
BannedForOneReason ==
    [][\A l \in Loops : (pc[l] = "count" /\ pc'[l] = "ttl")
          => \E k \in DOMAIN RulesOf(l) :
                Exceeded(l, RulesOf(l)[k]) \/ HitForNothing(l, RulesOf(l)[k])]_vars

(* An unmerited ban comes from an empty window, and from nothing else.     *)
THEOREM OnlyEmptyWindows == Spec => BannedForOneReason
<1>1. ASSUME GateInv, [Next]_vars, NEW l \in Loops, pc[l] = "count", pc'[l] = "ttl"
      PROVE  Hits(l) # {}
  BY <1>1 DEF GateInv, TypeOK, Next, vars, loopVars, Tick, Accept, Query,
              QueryRefuses, Pass, Hit, CountFails, TTL,
              TTLKeeps, Set, SetFails, Refuse, Deny, Admit, AdmitFails, LetsIn,
              Clean, Deletes, ForwardEnds
<1>2. GateInv /\ [Next]_vars =>
        [\A l \in Loops : (pc[l] = "count" /\ pc'[l] = "ttl")
            => \E k \in DOMAIN RulesOf(l) :
                  Exceeded(l, RulesOf(l)[k]) \/ HitForNothing(l, RulesOf(l)[k])]_vars
  BY <1>1, HitHasReason DEF GateInv
<1> QED
  BY <1>2, Inductive, PTL DEF Spec, BannedForOneReason
=============================================================================
