--------------------------- MODULE OverridesProofs ---------------------------
(* Tables, what applies to a target, and schedule windows for weeks and days  *)
(* of every length.                                                           *)
EXTENDS Overrides, FiniteSetTheorems, SequenceTheorems, TLAPS

LEMMA DayAndMinute ==
    ASSUME NEW t \in Nat
    PROVE  /\ Day(t) \in Nat /\ Minute(t) \in 0..MinutesPerDay - 1
           /\ t = Day(t) * MinutesPerDay + Minute(t)
  BY OverridesAssumption DEF Day, Minute

LEMMA Remainder ==
    ASSUME NEW n \in Nat \ {0}, NEW q \in Int, NEW r \in 0..n - 1
    PROVE  (n * q + r) % n = r
<1>0. n * q \in Int /\ n * q + r \in Int
  OBVIOUS
<1>1. PICK x \in Int : x = n * q + r
  BY <1>0
<1>2. x % n \in 0..n - 1 /\ x = n * (x \div n) + (x % n) /\ x \div n \in Int
  BY <1>1
<1>3. n * (q - x \div n) = (x % n) - r
  BY <1>1, <1>2
<1> QED
  BY <1>1, <1>2, <1>3

LEMMA DayBefore ==
    ASSUME NEW d \in Nat
    PROVE  (Weekday(d) - 1) % DaysPerWeek = Weekday(d - 1)
<1> DEFINE D == DaysPerWeek
           r == d % D
           q == d \div D
<1>1. D \in Nat \ {0} /\ r \in 0..D - 1 /\ q \in Int /\ d = D * q + r
  BY OverridesAssumption
<1> HIDE DEF D, r, q
<1>2. CASE r # 0
  <2>1. d - 1 = D * q + (r - 1) /\ r - 1 = D * 0 + (r - 1) /\ r - 1 \in 0..D - 1
    BY <1>1, <1>2
  <2>2. (d - 1) % D = r - 1 /\ (r - 1) % D = r - 1
    BY <1>1, <2>1, Remainder
  <2> QED
    BY <2>2 DEF Weekday, D, r
<1>3. CASE r = 0
  <2>1. d - 1 = D * (q - 1) + (D - 1) /\ r - 1 = D * (-1) + (D - 1) /\ D - 1 \in 0..D - 1
    BY <1>1, <1>3
  <2>2. (d - 1) % D = D - 1 /\ (r - 1) % D = D - 1
    BY <1>1, <2>1, Remainder
  <2> QED
    BY <2>2 DEF Weekday, D, r
<1> QED
  BY <1>2, <1>3

-----------------------------------------------------------------------------

\* An opening still in force at t was today or yesterday.
LEMMA OpenedSinceYesterday ==
    ASSUME NEW w \in Window, NEW t \in Nat, NEW d \in Int, OpenFromDay(w, d, t)
    PROVE  d = Day(t) \/ d = Day(t) - 1
<1> DEFINE M == MinutesPerDay
           q == Day(t)
           r == Minute(t)
<1>1. M \in Nat \ {0} /\ q \in Nat /\ r \in 0..M - 1 /\ t = q * M + r
  BY OverridesAssumption, DayAndMinute
<1>2. w.start \in 0..M /\ Duration(w) \in 0..M
  BY <1>1 DEF Window, Duration
<1>3. d * M + w.start <= t /\ t < d * M + w.start + Duration(w)
  BY DEF OpenFromDay
<1> HIDE DEF M, q, r
<1>4. PICK k \in Int : k = q - d
  BY <1>1
<1>5. q * M - d * M = k * M /\ q * M \in Int /\ d * M \in Int /\ k * M \in Int
  BY <1>1, <1>4
<1>6. k * M + r >= w.start /\ k * M + r < w.start + Duration(w)
  BY <1>1, <1>2, <1>3, <1>5
<1>7. ~(k >= 2)
  <2> SUFFICES ASSUME k >= 2 PROVE FALSE
    OBVIOUS
  <2>1. k * M >= 2 * M
    BY <1>1
  <2> QED
    BY <1>1, <1>2, <1>5, <1>6, <2>1
<1>8. ~(k <= -1)
  <2> SUFFICES ASSUME k <= -1 PROVE FALSE
    OBVIOUS
  <2>1. k * M <= -M
    BY <1>1
  <2> QED
    BY <1>1, <1>2, <1>5, <1>6, <2>1
<1>9. d = q \/ d = q - 1
  BY <1>1, <1>4, <1>7, <1>8
<1> QED
  BY <1>9 DEF q

LEMMA ActiveIsOpen ==
    ASSUME NEW w \in Window, NEW t \in Nat
    PROVE  WindowActive(w, t) <=> OpenFromDay(w, Day(t), t) \/ OpenFromDay(w, Day(t) - 1, t)
<1> DEFINE M == MinutesPerDay
           q == Day(t)
           r == Minute(t)
<1>1. M \in Nat \ {0} /\ q \in Nat /\ r \in 0..M - 1 /\ t = q * M + r
  BY OverridesAssumption, DayAndMinute
<1>2. w.start \in 0..M /\ w.end \in 0..M
  BY DEF Window
<1>3. (Weekday(q) - 1) % DaysPerWeek = Weekday(q - 1)
  BY <1>1, DayBefore
<1>4. PICK x \in Int : x = q * M /\ (q - 1) * M = x - M
  <2>1. q * M \in Int /\ (q - 1) * M = q * M - M
    BY <1>1
  <2> QED
    BY <2>1
<1>5. OpenFromDay(w, q, t) <=>
        Weekday(q) \in w.days /\ w.start <= r /\ r < w.start + Duration(w)
  BY <1>1, <1>2, <1>4 DEF OpenFromDay, Duration
<1>6. OpenFromDay(w, q - 1, t) <=>
        /\ Weekday(q - 1) \in w.days
        /\ w.start <= M + r /\ M + r < w.start + Duration(w)
  BY <1>1, <1>2, <1>4 DEF OpenFromDay, Duration
<1> HIDE DEF M, q, r
<1>7. WindowActive(w, t) <=>
        \/ w.start < w.end /\ Weekday(q) \in w.days /\ w.start <= r /\ r < w.end
        \/ /\ w.start > w.end
           /\ \/ Weekday(q) \in w.days /\ r >= w.start
              \/ Weekday(q - 1) \in w.days /\ r < w.end
  BY <1>3 DEF WindowActive, q, r
<1>8. Duration(w) = IF w.start <= w.end THEN w.end - w.start ELSE M - w.start + w.end
  BY DEF Duration, M
<1>9. CASE w.start <= w.end
  <2>1. ~OpenFromDay(w, q - 1, t)
    BY <1>1, <1>2, <1>6, <1>8, <1>9
  <2> QED
    BY <1>1, <1>2, <1>5, <1>7, <1>8, <1>9, <2>1 DEF q
<1>10. CASE w.start > w.end
  <2>1. OpenFromDay(w, q, t) <=> Weekday(q) \in w.days /\ r >= w.start
    BY <1>1, <1>2, <1>5, <1>8, <1>10
  <2>2. OpenFromDay(w, q - 1, t) <=> Weekday(q - 1) \in w.days /\ r < w.end
    BY <1>1, <1>2, <1>6, <1>8, <1>10
  <2> QED
    BY <1>1, <1>2, <1>7, <1>10, <2>1, <2>2 DEF q
<1> QED
  BY <1>2, <1>9, <1>10

(* For days and weeks of every length, every window and every minute:
   schedule_window_active tells exactly whether an opening on an enabled day
   is less than the window's duration ago.                                   *)
THEOREM ActiveIsOpening ==
    ASSUME NEW w \in Window, NEW t \in Nat
    PROVE  WindowActive(w, t) <=> \E d \in -1..Day(t) : OpenFromDay(w, d, t)
<1>1. Day(t) \in Nat
  BY DayAndMinute
<1>2. \A d \in -1..Day(t) : OpenFromDay(w, d, t) => d = Day(t) \/ d = Day(t) - 1
  BY OpenedSinceYesterday
<1> QED
  BY <1>1, <1>2, ActiveIsOpen
-----------------------------------------------------------------------------
(* Rows are numbered without gaps, in the order of their ids. *)

LEMMA PlaceIsBijective ==
    ASSUME NEW n \in Nat, NEW ids \in SUBSET (1..n)
    PROVE  /\ Cardinality(ids) \in Nat
           /\ \A i \in ids : Place(ids, i) \in 1..Cardinality(ids)
           /\ \A i, j \in ids : i < j => Place(ids, i) < Place(ids, j)
           /\ \A m \in 1..Cardinality(ids) : \E i \in ids : Place(ids, i) = m
<1> DEFINE K == Cardinality(ids)
           upto(i) == {j \in ids : j <= i}
           place == [i \in ids |-> Place(ids, i)]
<1>1. IsFiniteSet(ids) /\ K \in Nat
  <2>1. IsFiniteSet(1..n)
    BY FS_Interval
  <2>2. IsFiniteSet(ids)
    BY <2>1, FS_Subset
  <2> QED
    BY <2>2, FS_CardinalityType
<1>2. \A i \in ids : Place(ids, i) \in 1..K
  <2> SUFFICES ASSUME NEW i \in ids PROVE Place(ids, i) \in 1..K
    OBVIOUS
  <2>1. upto(i) \in SUBSET ids /\ i \in upto(i)
    OBVIOUS
  <2>2. IsFiniteSet(upto(i)) /\ Cardinality(upto(i)) <= K
    BY <1>1, <2>1, FS_Subset
  <2>3. Cardinality(upto(i)) \in Nat /\ Cardinality(upto(i)) # 0
    BY <2>1, <2>2, FS_CardinalityType, FS_EmptySet
  <2> QED
    BY <1>1, <2>2, <2>3 DEF Place
<1>3. \A i, j \in ids : i < j => Place(ids, i) < Place(ids, j)
  <2> SUFFICES ASSUME NEW i \in ids, NEW j \in ids, i < j
               PROVE  Place(ids, i) < Place(ids, j)
    OBVIOUS
  <2>0. i < j
    OBVIOUS
  <2>1. upto(j) \in SUBSET ids
    OBVIOUS
  <2>5. upto(i) \in SUBSET upto(j)
    <3>1. ASSUME NEW x \in ids, x <= i PROVE x <= j
      <4>1. x \in Int /\ i \in Int /\ j \in Int
        OBVIOUS
      <4> HIDE DEF K, upto
      <4> QED
        BY <2>0, <3>1, <4>1
    <3> QED
      BY <3>1
  <2>2. j \in upto(j) /\ j \notin upto(i)
    OBVIOUS
  <2>3. IsFiniteSet(upto(j))
    BY <1>1, <2>1, FS_Subset
  <2>4. Cardinality(upto(i)) <= Cardinality(upto(j)) /\ Cardinality(upto(j)) # Cardinality(upto(i))
    BY <2>2, <2>3, <2>5, FS_Subset
  <2> QED
    BY <1>2, <2>4 DEF Place
<1>4. ids = {} => K = 0
  BY FS_EmptySet
<1> HIDE DEF K, upto
<1>5. place \in Injection(ids, 1..K)
  <2>1. place \in [ids -> 1..K]
    BY <1>2
  <2>2. ASSUME NEW i \in ids, NEW j \in ids, i # j PROVE place[i] # place[j]
    <3>1. i < j \/ j < i
      BY <2>2
    <3> QED
      BY <1>2, <1>3, <3>1
  <2> QED
    BY <2>1, <2>2 DEF Injection, IsInjective
<1>6. IsFiniteSet(1..K) /\ Cardinality(1..K) = K
  BY <1>1, FS_Interval
<1>7. place \in Surjection(ids, 1..K)
  BY <1>5, <1>6, FS_Injection DEF K
<1>8. \A m \in 1..K : \E i \in ids : place[i] = m
  BY <1>7 DEF Surjection
<1> QED
  BY <1>1, <1>2, <1>3, <1>8 DEF K

(* A DELETE keeps the rows in ids, all of them, none twice, in their order. *)
LEMMA OnlyRows ==
    ASSUME NEW S, NEW table \in Seq(S), NEW ids \in SUBSET (1..Len(table))
    PROVE  /\ Only(table, ids) \in Seq(S)
           /\ \E at \in [1..Len(Only(table, ids)) -> ids] :
                 /\ \A m \in 1..Len(Only(table, ids)) : Only(table, ids)[m] = table[at[m]]
                 /\ \A l, m \in 1..Len(Only(table, ids)) : l < m => at[l] < at[m]
                 /\ \A i \in ids : \E m \in 1..Len(Only(table, ids)) : at[m] = i
<1> DEFINE K == Cardinality(ids)
           nth(m) == CHOOSE i \in ids : Place(ids, i) = m
           at == [m \in 1..K |-> nth(m)]
<1>0. ids \subseteq 1..Len(table) /\ Len(table) \in Nat /\ ids \subseteq Int
  BY LenProperties
<1>1. /\ K \in Nat
      /\ \A i \in ids : Place(ids, i) \in 1..K
      /\ \A i, j \in ids : i < j => Place(ids, i) < Place(ids, j)
      /\ \A m \in 1..K : \E i \in ids : Place(ids, i) = m
  BY <1>0, PlaceIsBijective
<1>2. \A m \in 1..K : nth(m) \in ids /\ Place(ids, nth(m)) = m
  BY <1>1
<1>3. \A m \in 1..K : Only(table, ids)[m] = table[nth(m)]
  BY DEF Only
<1>4. Only(table, ids) \in Seq(S) /\ Len(Only(table, ids)) = K
  <2>1. \A m \in 1..K : table[nth(m)] \in S
    <3>1. \A i \in ids : table[i] \in S
      BY <1>0, ElementOfSeq
    <3> QED
      BY <1>2, <3>1
  <2> HIDE DEF nth
  <2>2. Only(table, ids) = [m \in 1..K |-> table[nth(m)]]
    BY DEF Only, nth
  <2> QED
    BY <1>1, <2>1, <2>2
<1>5. \A l, m \in 1..K : l < m => nth(l) < nth(m)
  <2> SUFFICES ASSUME NEW l \in 1..K, NEW m \in 1..K, l < m PROVE nth(l) < nth(m)
    OBVIOUS
  <2>1. nth(l) \in ids /\ nth(m) \in ids /\ Place(ids, nth(l)) = l /\ Place(ids, nth(m)) = m
    BY <1>2
  <2> HIDE DEF nth
  <2>3. nth(l) \in Int /\ nth(m) \in Int
    BY <1>0, <2>1
  <2>2. \A x, y \in ids : Place(ids, x) = l /\ Place(ids, y) = m => ~(y < x) /\ x # y
    BY <1>1
  <2> QED
    BY <2>1, <2>2, <2>3
<1>6. \A i \in ids : \E m \in 1..K : nth(m) = i
  <2> SUFFICES ASSUME NEW i \in ids PROVE nth(Place(ids, i)) = i
    BY <1>1
  <2>1. nth(Place(ids, i)) \in ids /\ Place(ids, nth(Place(ids, i))) = Place(ids, i)
    BY <1>1, <1>2
  <2> HIDE DEF nth
  <2>3. nth(Place(ids, i)) \in Int /\ i \in Int
    BY <1>0, <2>1
  <2>2. \A x \in ids : Place(ids, x) = Place(ids, i) => ~(x < i) /\ ~(i < x)
    BY <1>1
  <2> QED
    BY <2>1, <2>2, <2>3
<1> HIDE DEF nth
<1>7. at \in [1..K -> ids] /\ \A m \in 1..K : at[m] = nth(m)
  BY <1>2
<1> HIDE DEF at, K
<1>8. /\ \A m \in 1..K : Only(table, ids)[m] = table[at[m]]
      /\ \A l, m \in 1..K : l < m => at[l] < at[m]
      /\ \A i \in ids : \E m \in 1..K : at[m] = i
  BY <1>3, <1>5, <1>6, <1>7
<1> QED
  BY <1>4, <1>7, <1>8

LEMMA LatestRow ==
    ASSUME NEW n \in Nat, NEW ids \in SUBSET (1..n), ids # {}
    PROVE  Latest(ids) \in ids /\ \A j \in ids : Latest(ids) >= j
<1> DEFINE K == Cardinality(ids)
<1>1. /\ K \in Nat
      /\ \A i \in ids : Place(ids, i) \in 1..K
      /\ \A i, j \in ids : i < j => Place(ids, i) < Place(ids, j)
      /\ \A m \in 1..K : \E i \in ids : Place(ids, i) = m
  BY PlaceIsBijective
<1> HIDE DEF K
<1>2. K \in 1..K
  <2>1. PICK i \in ids : TRUE
    OBVIOUS
  <2>2. Place(ids, i) \in 1..K
    BY <1>1
  <2> QED
    BY <1>1, <2>2
<1>3. PICK top \in ids : Place(ids, top) = K
  BY <1>1, <1>2
<1>4. \A j \in ids : top >= j
  BY <1>1, <1>3
<1> QED
  BY <1>4 DEF Latest

LEMMA EarliestRow ==
    ASSUME NEW n \in Nat, NEW ids \in SUBSET (1..n), ids # {}
    PROVE  Earliest(ids) \in ids /\ \A j \in ids : Earliest(ids) <= j
<1> DEFINE K == Cardinality(ids)
<1>1. /\ K \in Nat
      /\ \A i \in ids : Place(ids, i) \in 1..K
      /\ \A i, j \in ids : i < j => Place(ids, i) < Place(ids, j)
      /\ \A m \in 1..K : \E i \in ids : Place(ids, i) = m
  BY PlaceIsBijective
<1> HIDE DEF K
<1>2. 1 \in 1..K
  <2>1. PICK i \in ids : TRUE
    OBVIOUS
  <2>2. Place(ids, i) \in 1..K
    BY <1>1
  <2> QED
    BY <1>1, <2>2
<1>3. PICK top \in ids : Place(ids, top) = 1
  BY <1>1, <1>2
<1>4. \A j \in ids : top <= j
  BY <1>1, <1>3
<1> QED
  BY <1>4 DEF Earliest
-----------------------------------------------------------------------------
(* What is in force for a target. *)

\* Tables of overrides, whatever else their rows say.
Stored == {"manual", "family-pause"}
Sourced(overrides) == \A i \in 1..Len(overrides) : overrides[i].source \in Stored

LEMMA StrongestRow ==
    ASSUME NEW n \in Nat, NEW overrides, NEW ids \in SUBSET (1..n), ids # {},
           \A i \in ids : overrides[i].source \in Stored
    PROVE  LET prio(i) == Priority(overrides[i].source)
               top     == Strongest(overrides, ids)
           IN  /\ top \in ids
               /\ \A j \in ids : prio(j) <= prio(top)
               /\ \A j \in ids : prio(j) = prio(top) => j <= top
<1> DEFINE prio(i) == Priority(overrides[i].source)
           high == {i \in ids : \A j \in ids : prio(i) >= prio(j)}
<1>1. \A i \in ids : prio(i) \in {80, 100}
  BY DEF Priority, Stored
<1> HIDE DEF prio
<1>2. high # {}
  <2>1. CASE \E i \in ids : prio(i) = 100
    BY <1>1, <2>1
  <2>2. CASE \A i \in ids : prio(i) = 80
    BY <2>2
  <2> QED
    BY <1>1, <2>1, <2>2
<1>3. high \in SUBSET (1..n)
  OBVIOUS
<1>4. Latest(high) \in high /\ \A j \in high : Latest(high) >= j
  BY <1>2, <1>3, LatestRow
<1>5. Strongest(overrides, ids) = Latest(high)
  BY DEF Strongest, prio
<1>6. \A i \in ids : i \in Int
  OBVIOUS
<1>7. /\ Latest(high) \in ids
      /\ \A j \in ids : prio(j) <= prio(Latest(high))
      /\ \A j \in ids : prio(j) = prio(Latest(high)) => j <= Latest(high)
  <2>1. PICK top \in high : top = Latest(high)
    BY <1>4
  <2>2. \A j \in ids : prio(j) <= prio(top)
    BY <1>1
  <2>3. ASSUME NEW j \in ids, prio(j) = prio(top) PROVE j <= top
    <3>1. j \in high
      BY <2>2, <2>3, <1>1
    <3> QED
      BY <1>4, <1>6, <2>1, <3>1
  <2> QED
    BY <2>1, <2>2, <2>3
<1> QED
  BY <1>5, <1>7 DEF prio

(* Where what applies comes from. *)
LEMMA ResolvedFrom ==
    ASSUME NEW target, NEW base, NEW minutes, NEW t,
           NEW R, NEW overrides \in Seq(R), Sourced(overrides),
           NEW schedules, NEW quotas
    PROVE  LET trace == Resolve(target, base, minutes, overrides, schedules, quotas, t)
               live  == LiveOverrides(overrides, target, t)
               open  == OpenSchedules(schedules, target, t)
               spent == SpentQuotas(quotas, target, minutes, t)
           IN  /\ live # {} => trace.source \in Stored
               /\ live = {} /\ open # {} => trace.source = "schedule"
               /\ live = {} /\ open = {} /\ spent # {} => trace.source = "quota"
               /\ live = {} /\ open = {} /\ spent = {} =>
                    /\ trace.source \in {"base", "no-profile"}
                    /\ trace.profile = base
<1> DEFINE live  == LiveOverrides(overrides, target, t)
           open  == OpenSchedules(schedules, target, t)
           spent == SpentQuotas(quotas, target, minutes, t)
           top   == overrides[Strongest(overrides, live)]
<1>1. Len(overrides) \in Nat /\ live \in SUBSET (1..Len(overrides))
  BY LenProperties DEF LiveOverrides
<1>2. live # {} => top.source \in Stored
  <2>1. live # {} => Strongest(overrides, live) \in live
    BY <1>1, StrongestRow DEF Sourced
  <2> QED
    BY <1>1, <2>1 DEF Sourced
<1>3. Resolve(target, base, minutes, overrides, schedules, quotas, t) =
        IF live # {} THEN Trace(Chosen(top.profile), top.source)
        ELSE IF open # {} THEN Trace(Chosen(schedules[Latest(open)].profile), "schedule")
        ELSE IF spent # {} THEN Trace(Chosen(quotas[Earliest(spent)].profile), "quota")
        ELSE Trace(base, IF base = None THEN "no-profile" ELSE "base")
  BY DEF Resolve
<1> HIDE DEF live, open, spent, top
<1> QED
  BY <1>2, <1>3 DEF live, open, spent, Trace

(* Rows that are not in force can be deleted: what applies stays the same.  *)
THEOREM DroppingTheDead ==
    ASSUME NEW target, NEW base, NEW minutes, NEW t,
           NEW R, NEW overrides \in Seq(R), Sourced(overrides),
           NEW schedules, NEW quotas,
           NEW ids \in SUBSET (1..Len(overrides)),
           LiveOverrides(overrides, target, t) \subseteq ids
    PROVE  Resolve(target, base, minutes, Only(overrides, ids), schedules, quotas, t)
             = Resolve(target, base, minutes, overrides, schedules, quotas, t)
<1> DEFINE left  == Only(overrides, ids)
           live  == LiveOverrides(overrides, target, t)
           alive == LiveOverrides(left, target, t)
           N     == 1..Len(left)
<1>1. Len(overrides) \in Nat /\ ids \subseteq Int /\ live \in SUBSET (1..Len(overrides))
  BY LenProperties DEF LiveOverrides
<1>2. left \in Seq(R)
  BY OnlyRows
<1>3. PICK at \in [N -> ids] :
         /\ \A m \in N : left[m] = overrides[at[m]]
         /\ \A l, m \in N : l < m => at[l] < at[m]
         /\ \A i \in ids : \E m \in N : at[m] = i
  BY OnlyRows
<1>4. Len(left) \in Nat /\ alive \in SUBSET N
  BY <1>2, LenProperties DEF LiveOverrides
<1>5. \A m \in N : m \in alive <=> at[m] \in live
  <2>1. alive = {m \in N : left[m].target = target /\ left[m].expires > t}
    BY <1>2, LenProperties DEF LiveOverrides
  <2>2. live = {i \in 1..Len(overrides) : overrides[i].target = target /\ overrides[i].expires > t}
    BY LenProperties DEF LiveOverrides
  <2> HIDE DEF left, live, alive, N
  <2>3. \A m \in N : at[m] \in 1..Len(overrides)
    BY <1>3
  <2> QED
    BY <1>3, <2>1, <2>2, <2>3
<1>6. live \subseteq ids
  OBVIOUS
<1> HIDE DEF left, live, alive, N
<1>7. live = {} <=> alive = {}
  BY <1>3, <1>4, <1>5, <1>6
<1>8. ASSUME live # {} PROVE left[Strongest(left, alive)] = overrides[Strongest(overrides, live)]
  <2> DEFINE prio(i) == Priority(overrides[i].source)
             rank(m) == Priority(left[m].source)
             s == Strongest(overrides, live)
             z == Strongest(left, alive)
  <2>1. /\ s \in live
        /\ \A j \in live : prio(j) <= prio(s)
        /\ \A j \in live : prio(j) = prio(s) => j <= s
    BY <1>1, <1>8, StrongestRow DEF Sourced
  <2>2. \A m \in N : left[m].source \in Stored
    BY <1>1, <1>3 DEF Sourced
  <2>3. /\ z \in alive
        /\ \A j \in alive : rank(j) <= rank(z)
        /\ \A j \in alive : rank(j) = rank(z) => j <= z
    <3>1. alive # {} /\ \A m \in alive : left[m].source \in Stored
      BY <1>4, <1>7, <1>8, <2>2
    <3>2. alive \in SUBSET (1..Len(left))
      BY <1>4 DEF N
    <3> QED
      BY <1>4, <3>1, <3>2, StrongestRow
  <2>4. \A m \in N : rank(m) = prio(at[m])
    BY <1>3
  <2>5. \A i \in live : prio(i) \in {80, 100}
    BY <1>1 DEF Sourced, Priority, Stored
  <2> HIDE DEF prio, rank, s, z
  <2>6. PICK m \in N : at[m] = s
    BY <1>3, <1>6, <2>1
  <2>7. z \in N /\ at[z] \in live /\ m \in alive
    BY <1>4, <1>5, <2>1, <2>3, <2>6
  <2>8. rank(m) = prio(s) /\ rank(z) = prio(at[z])
    BY <2>4, <2>6, <2>7
  <2>9. rank(m) = rank(z)
    BY <2>1, <2>3, <2>5, <2>7, <2>8
  <2>10. m <= z /\ at[z] <= s
    BY <2>1, <2>3, <2>7, <2>8, <2>9
  <2>11. m \in Int /\ z \in Int /\ s \in Int /\ at[z] \in Int
    <3>1. N \subseteq Int
      BY <1>4 DEF N
    <3>2. m \in N /\ z \in N /\ s \in live /\ at[z] \in live
      BY <2>1, <2>6, <2>7
    <3> QED
      BY <1>1, <1>6, <3>1, <3>2
  <2>12. ~(m < z)
    BY <1>3, <2>6, <2>7, <2>10, <2>11
  <2>13. at[z] = s
    BY <2>6, <2>10, <2>11, <2>12
  <2> QED
    BY <1>3, <2>7, <2>13 DEF s, z
<1> QED
  BY <1>7, <1>8 DEF Resolve, left, live, alive
-----------------------------------------------------------------------------
(* From one minute to the next. *)

LEMMA NextMinute ==
    ASSUME NEW t \in Nat
    PROVE  \/ Day(t + 1) = Day(t) /\ Minute(t + 1) = Minute(t) + 1
           \/ /\ Day(t + 1) = Day(t) + 1 /\ Minute(t + 1) = 0
              /\ Minute(t) = MinutesPerDay - 1
<1> DEFINE M == MinutesPerDay
<1>1. /\ M \in Nat \ {0}
      /\ Day(t) \in Nat /\ Minute(t) \in 0..M - 1 /\ t = Day(t) * M + Minute(t)
      /\ Day(t + 1) \in Nat /\ Minute(t + 1) \in 0..M - 1
      /\ t + 1 = Day(t + 1) * M + Minute(t + 1)
  BY OverridesAssumption, DayAndMinute
<1>2. PICK k \in Int : k = Day(t + 1) - Day(t)
  BY <1>1
<1>3. Day(t + 1) * M - Day(t) * M = k * M
  BY <1>1, <1>2
<1> HIDE DEF M
<1>4. k * M = Minute(t) + 1 - Minute(t + 1)
  BY <1>1, <1>3
<1>5. ~(k >= 2) /\ ~(k <= -1)
  <2>1. k >= 2 => k * M >= 2 * M
    BY <1>1
  <2>2. k <= -1 => k * M <= -M
    BY <1>1
  <2> QED
    BY <1>1, <1>4, <2>1, <2>2
<1>6. k = 0 \/ k = 1
  BY <1>5
<1>7. CASE k = 0
  <2>1. k * M = 0
    BY <1>1, <1>7
  <2> QED
    BY <1>1, <1>2, <1>4, <1>7, <2>1
<1>8. CASE k = 1
  <2>1. k * M = M
    BY <1>1, <1>8
  <2>2. Minute(t + 1) = 0 /\ Minute(t) = M - 1
    BY <1>1, <1>4, <2>1
  <2> QED
    BY <1>1, <1>2, <1>8, <2>2 DEF M
<1> QED
  BY <1>6, <1>7, <1>8

(* A schedule starts or stops to apply only at a minute at which an opening
   begins or is over, for every window the editor can store: one across
   midnight does not stop for a moment there, and one that starts at 24:00
   begins the next day.                                                      *)
THEOREM ActiveUntilBoundary ==
    ASSUME NEW w \in Window, NEW t \in Nat, ~Opens(w, t + 1), ~Closes(w, t + 1)
    PROVE  WindowActive(w, t + 1) <=> WindowActive(w, t)
<1> DEFINE M == MinutesPerDay
           q == Day(t)
           z == Day(t + 1)
<1>0. t + 1 \in Nat /\ (t + 1) - 1 = t
  OBVIOUS
<1>1. M \in Nat \ {0} /\ q \in Nat /\ z \in Nat /\ t = q * M + Minute(t)
  BY <1>0, OverridesAssumption, DayAndMinute
<1>2. /\ WindowActive(w, t) <=> OpenFromDay(w, q, t) \/ OpenFromDay(w, q - 1, t)
      /\ WindowActive(w, t + 1) <=> OpenFromDay(w, z, t + 1) \/ OpenFromDay(w, z - 1, t + 1)
  BY <1>0, <1>1, ActiveIsOpen
<1>3. \A d \in {z - 1, z} : OpenFromDay(w, d, t) <=> OpenFromDay(w, d, t + 1)
  <2>1. \A d \in {z - 1, z} : OpenFromDay(w, d, t + 1) => OpenFromDay(w, d, (t + 1) - 1)
    BY Zenon DEF Opens
  <2>2. \A d \in {z - 1, z} : OpenFromDay(w, d, (t + 1) - 1) => OpenFromDay(w, d, t + 1)
    BY Zenon DEF Closes
  <2> QED
    BY <1>0, <2>1, <2>2
<1>4. z = q \/ (z = q + 1 /\ Minute(t) = M - 1)
  BY NextMinute
<1>5. z = q + 1 => ~OpenFromDay(w, q - 1, t)
  <2> SUFFICES ASSUME z = q + 1, OpenFromDay(w, q - 1, t) PROVE FALSE
    OBVIOUS
  <2>1. w.start \in 0..M /\ w.end \in 0..M
    BY DEF Window
  <2>2. t < (q - 1) * M + w.start + Duration(w)
    BY DEF OpenFromDay
  <2>3. (q - 1) * M = q * M - M /\ q * M \in Int
    BY <1>1
  <2> HIDE DEF M, q, z
  <2>4. Duration(w) = IF w.start <= w.end THEN w.end - w.start ELSE M - w.start + w.end
    BY DEF Duration, M
  <2>5. Minute(t) = M - 1
    BY <1>1, <1>4
  <2> QED
    BY <1>1, <2>1, <2>2, <2>3, <2>4, <2>5
<1>6. \A d \in Int : OpenFromDay(w, d, t) => d = q \/ d = q - 1
  BY OpenedSinceYesterday
<1> HIDE DEF M, q, z
<1>7. z - 1 \in Int /\ z \in Int
  BY <1>1
<1>8. WindowActive(w, t + 1) => WindowActive(w, t)
  BY <1>2, <1>3, <1>6, <1>7
<1>9. WindowActive(w, t) => WindowActive(w, t + 1)
  <2>1. CASE z = q
    BY <1>2, <1>3, <2>1
  <2>2. CASE z = q + 1
    <3>1. z - 1 = q
      BY <1>1, <2>2
    <3> QED
      BY <1>2, <1>3, <1>5, <2>2, <3>1
  <2> QED
    BY <1>4, <2>1, <2>2
<1> QED
  BY <1>8, <1>9
=============================================================================
