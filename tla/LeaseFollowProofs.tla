-------------------------- MODULE LeaseFollowProofs --------------------------
(* What module LeaseFollow guarantees for every set of addresses, devices    *)
(* and rules: one row per MAC, and profiles that stick to devices as long as *)
(* no address is taken over from another device.                             *)
EXTENDS LeaseFollow, FiniteSetTheorems, TLAPS

LEMMA RowAtType ==
    ASSUME TypeOK, NEW ip \in IPs
    PROVE  /\ RowAt(ip) \in Row
           /\ Known \in SUBSET IPs
           /\ ip \in Known => RowAt(ip) = rows[ip]
           /\ ip \notin Known => RowAt(ip) = Blank /\ rows[ip] = None
<1>1. Known \in SUBSET IPs /\ (ip \notin Known => rows[ip] = None)
  BY DEF Known
<1>2. Blank \in Row
  BY DEF Blank, Row
<1>3. ip \in Known => rows[ip] \in Row
  BY DEF TypeOK, Known
<1> QED
  BY <1>1, <1>2, <1>3 DEF RowAt

LEMMA NoneIsNoRow == None \notin Row
  BY LeaseAssumption

LEMMA MergedType ==
    ASSUME TypeOK, NEW old \in Known, NEW ip \in IPs
    PROVE  Merged(old, ip) \in Row
  BY RowAtType DEF Merged, TypeOK, Known, Row

LEMMA ReportsType ==
    ASSUME NEW s \in Reports
    PROVE  /\ s \in Seq(Client)
           /\ \A i, j \in 1..Len(s) : s[i].ip = s[j].ip => i = j
<1>1. PICK n \in 1..MaxClients : s \in [1..n -> Client]
  BY DEF Reports
<1>2. s \in Seq(Client) /\ DOMAIN s = 1..Len(s)
  BY <1>1
<1> QED
  BY <1>2 DEF Reports

-----------------------------------------------------------------------------
(* Types. *)

LEMMA TypeStep == TypeOK /\ [Next]_vars => TypeOK'
<1> SUFFICES ASSUME TypeOK, [Next]_vars PROVE TypeOK'
  OBVIOUS
<1> USE LeaseAssumption
<1>1. CASE ListClients
  BY <1>1, ReportsType DEF ListClients, TypeOK
<1>2. CASE Follow
  <2>1. Head(report) \in Client /\ Tail(report) \in Seq(Client)
    BY <1>2 DEF Follow, Idle, TypeOK
  <2>2. ASSUME NEW c \in Client, NEW old \in RowsOf(c.mac) \ {c.ip}, Move(old, c.ip)
        PROVE  /\ rows' \in [IPs -> Row \cup {None}]
               /\ target' \in [Rules -> IPs \cup {None}]
               /\ family' \in SUBSET IPs /\ usage' \in [IPs -> Nat]
    <3>1. c.ip \in IPs /\ old \in IPs /\ Merged(old, c.ip) \in Row
      BY <2>2, MergedType DEF Client, RowsOf, Known
    <3>2. rows' \in [IPs -> Row \cup {None}]
      BY <2>2, <3>1 DEF Move, TypeOK
    <3>3. usage' \in [IPs -> Nat]
      BY <2>2, <3>1 DEF Move, TypeOK
    <3> QED
      BY <2>2, <3>1, <3>2, <3>3 DEF Move, TypeOK
  <2>3. ASSUME NEW c \in Client, Stamp(c)
        PROVE  /\ rows' \in [IPs -> Row \cup {None}]
               /\ UNCHANGED <<target, family, usage>>
    BY <2>3, RowAtType DEF Stamp, TypeOK, Client, Row
  <2> QED
    BY <1>2, <2>1, <2>2, <2>3 DEF Follow, TypeOK
<1>3. ASSUME NEW ip \in IPs, AskFingerprint(ip) \/ StoreFingerprint(ip)
      PROVE  TypeOK'
  BY <1>3, RowAtType DEF AskFingerprint, StoreFingerprint, TypeOK
<1>4. ASSUME NEW ip \in IPs, Touch(ip) PROVE TypeOK'
  BY <1>4 DEF Touch, TypeOK, Blank, Row
<1>5. ASSUME NEW ip \in IPs, NEW p \in Profiles \cup {None}, SetProfile(ip, p)
      PROVE  TypeOK'
  <2>1. [RowAt(ip) EXCEPT !.base = p] \in Row
    BY RowAtType DEF Row
  <2> QED
    BY <1>5, <2>1 DEF SetProfile, TypeOK
<1>6. ASSUME NEW r \in Rules, DropRule(r) \/ \E ip \in IPs : AddRule(r, ip)
      PROVE  TypeOK'
  BY <1>6 DEF DropRule, AddRule, TypeOK
<1>7. CASE FamilyPause \/ FamilyResume
  BY <1>7 DEF FamilyPause, FamilyResume, TypeOK, Known
<1>8. ASSUME NEW ip \in IPs, Credit(ip) PROVE TypeOK'
  <2>1. credited' \in Nat /\ usage' \in [IPs -> Nat]
    BY <1>8 DEF Credit, TypeOK
  <2> QED
    BY <1>8, <2>1 DEF Credit, TypeOK
<1>9. CASE UNCHANGED vars
  BY <1>9 DEF vars, TypeOK
<1> QED
  BY <1>1, <1>2, <1>3, <1>4, <1>5, <1>6, <1>7, <1>8, <1>9
  DEF Next, Pass, People

LEMMA TypeInit == Init => TypeOK
  BY DEF Init, TypeOK

(* Every variable keeps its type. *)
THEOREM LeaseTypeCorrect == Spec => []TypeOK
  BY TypeInit, TypeStep, PTL DEF Spec

-----------------------------------------------------------------------------
(* Minutes. *)

LEMMA InRecord ==
    ASSUME NEW u
    PROVE  /\ \A x \in OnRecord(u) : \E ip \in IPs : \E n \in 1..u[ip] : x = <<ip, n>>
           /\ \A ip \in IPs : \A n \in 1..u[ip] : <<ip, n>> \in OnRecord(u)
  BY DEF OnRecord

(* A move takes the minutes of one address to another: each of them goes to
   the place after those that were on record there.                          *)
LEMMA MovedMinutes ==
    ASSUME NEW u \in [IPs -> Nat], NEW v \in [IPs -> Nat],
           NEW old \in IPs, NEW ip \in IPs, old # ip,
           v[old] = 0, v[ip] = u[ip] + u[old],
           \A jp \in IPs \ {old, ip} : v[jp] = u[jp],
           IsFiniteSet(OnRecord(u))
    PROVE  IsFiniteSet(OnRecord(v)) /\ Cardinality(OnRecord(v)) = Cardinality(OnRecord(u))
<1> DEFINE f == [x \in OnRecord(u) |-> IF x[1] = old THEN <<ip, u[ip] + x[2]>> ELSE x]
<1>1. ASSUME NEW x \in OnRecord(u) PROVE f[x] \in OnRecord(v)
  <2>1. PICK jp \in IPs, n \in Nat : n \in 1..u[jp] /\ x = <<jp, n>>
    BY InRecord
  <2>2. CASE jp = old
    <3>1. f[x] = <<ip, u[ip] + n>> /\ u[ip] + n \in 1..v[ip]
      BY <2>1, <2>2
    <3> QED
      BY <3>1, InRecord
  <2>3. CASE jp # old
    <3>1. f[x] = <<jp, n>> /\ n \in 1..v[jp]
      BY <2>1, <2>3
    <3> QED
      BY <3>1, InRecord
  <2> QED
    BY <2>2, <2>3
<1>2. ASSUME NEW x \in OnRecord(u), NEW y \in OnRecord(u), f[x] = f[y] PROVE x = y
  <2>1. PICK jp \in IPs, n \in Nat : n \in 1..u[jp] /\ x = <<jp, n>>
    BY InRecord
  <2>2. PICK kp \in IPs, m \in Nat : m \in 1..u[kp] /\ y = <<kp, m>>
    BY InRecord
  <2>3. /\ n \in Nat /\ m \in Nat /\ u[ip] \in Nat /\ n > 0 /\ m > 0
        /\ n <= u[jp] /\ m <= u[kp]
    BY <2>1, <2>2
  <2>4. /\ f[x] = IF jp = old THEN <<ip, u[ip] + n>> ELSE <<jp, n>>
        /\ f[y] = IF kp = old THEN <<ip, u[ip] + m>> ELSE <<kp, m>>
    BY <2>1, <2>2
  <2> HIDE DEF f
  <2>5. CASE jp = old /\ kp = old
    BY <1>2, <2>1, <2>2, <2>3, <2>4, <2>5
  <2>6. CASE jp = old /\ kp # old
    <3>2. <<ip, u[ip] + n>> = <<kp, m>>
      BY <1>2, <2>4, <2>6
    <3>1. kp = ip /\ m = u[ip] + n
      BY <3>2
    <3> QED
      BY <2>3, <3>1
  <2>7. CASE jp # old /\ kp = old
    <3>2. <<jp, n>> = <<ip, u[ip] + m>>
      BY <1>2, <2>4, <2>7
    <3>1. jp = ip /\ n = u[ip] + m
      BY <3>2
    <3> QED
      BY <2>3, <3>1
  <2>8. CASE jp # old /\ kp # old
    BY <1>2, <2>1, <2>2, <2>4, <2>8
  <2> QED
    BY <2>5, <2>6, <2>7, <2>8
<1>3. ASSUME NEW z \in OnRecord(v) PROVE \E x \in OnRecord(u) : f[x] = z
  <2>1. PICK jp \in IPs, n \in Nat : n \in 1..v[jp] /\ z = <<jp, n>>
    BY InRecord
  <2>2. jp # old
    BY <2>1
  <2>3. CASE jp = ip /\ n > u[ip]
    <3>1. n - u[ip] \in 1..u[old]
      BY <2>1, <2>3
    <3>2. <<old, n - u[ip]>> \in OnRecord(u)
      BY <3>1, InRecord
    <3>3. f[<<old, n - u[ip]>>] = <<ip, u[ip] + (n - u[ip])>> /\ u[ip] + (n - u[ip]) = n
      BY <2>1, <2>3, <3>2
    <3> QED
      BY <2>1, <2>3, <3>2, <3>3
  <2>4. CASE ~(jp = ip /\ n > u[ip])
    <3>1. n \in 1..u[jp]
      BY <2>1, <2>2, <2>4
    <3>2. z \in OnRecord(u)
      BY <2>1, <3>1, InRecord
    <3>3. f[z] = z
      BY <2>1, <2>2, <3>2
    <3> QED
      BY <3>2, <3>3
  <2> QED
    BY <2>3, <2>4
<1> HIDE DEF f
<1>4. f \in Bijection(OnRecord(u), OnRecord(v))
  <2>1. f \in [OnRecord(u) -> OnRecord(v)]
    BY <1>1 DEF f
  <2> QED
    BY <1>2, <1>3, <2>1 DEF Bijection, Injection, Surjection, IsInjective
<1> QED
  BY <1>4, FS_Bijection DEF ExistsBijection

MinutesInv == TypeOK /\ IsFiniteSet(OnRecord(usage)) /\ MinutesConserved

LEMMA MinutesStep == MinutesInv /\ [Next]_vars => MinutesInv'
<1> SUFFICES ASSUME MinutesInv, [Next]_vars PROVE MinutesInv'
  OBVIOUS
<1>1. TypeOK'
  BY TypeStep DEF MinutesInv
<1>2. usage \in [IPs -> Nat] /\ usage' \in [IPs -> Nat]
  BY <1>1 DEF MinutesInv, TypeOK
<1>3. CASE UNCHANGED <<usage, credited>>
  BY <1>1, <1>3 DEF MinutesInv, MinutesConserved
<1>4. ASSUME NEW ip \in IPs, Credit(ip) PROVE MinutesInv'
  <2>1. /\ usage' = [usage EXCEPT ![ip] = @ + 1]
        /\ credited' = credited + 1
    BY <1>4 DEF Credit
  <2>2. OnRecord(usage') = OnRecord(usage) \cup {<<ip, usage[ip] + 1>>}
    <3>1. ASSUME NEW x \in OnRecord(usage')
          PROVE  x \in OnRecord(usage) \/ x = <<ip, usage[ip] + 1>>
      <4>1. PICK jp \in IPs, n \in Nat : n \in 1..usage'[jp] /\ x = <<jp, n>>
        BY InRecord
      <4>2. n \in 1..usage[jp] \/ (jp = ip /\ n = usage[ip] + 1)
        BY <1>2, <2>1, <4>1
      <4> QED
        BY <4>1, <4>2, InRecord
    <3>2. ASSUME NEW x \in OnRecord(usage) PROVE x \in OnRecord(usage')
      <4>1. PICK jp \in IPs, n \in Nat : n \in 1..usage[jp] /\ x = <<jp, n>>
        BY InRecord
      <4>2. n \in 1..usage'[jp]
        BY <1>2, <2>1, <4>1
      <4> QED
        BY <4>1, <4>2, InRecord
    <3>3. <<ip, usage[ip] + 1>> \in OnRecord(usage')
      <4>1. usage[ip] + 1 \in 1..usage'[ip]
        BY <1>2, <2>1
      <4> QED
        BY <4>1, InRecord
    <3> QED
      BY <3>1, <3>2, <3>3
  <2>3. <<ip, usage[ip] + 1>> \notin OnRecord(usage)
    <3> SUFFICES ASSUME <<ip, usage[ip] + 1>> \in OnRecord(usage) PROVE FALSE
      OBVIOUS
    <3>1. PICK jp \in IPs, n \in Nat : n \in 1..usage[jp] /\ <<ip, usage[ip] + 1>> = <<jp, n>>
      BY InRecord
    <3>2. jp = ip /\ n = usage[ip] + 1
      BY <3>1
    <3> QED
      BY <1>2, <3>1, <3>2
  <2>4. /\ IsFiniteSet(OnRecord(usage'))
        /\ Cardinality(OnRecord(usage')) = credited'
    <3>1. IsFiniteSet(OnRecord(usage)) /\ Cardinality(OnRecord(usage)) = credited
      BY DEF MinutesInv, MinutesConserved
    <3>2. /\ IsFiniteSet(OnRecord(usage) \cup {<<ip, usage[ip] + 1>>})
          /\ Cardinality(OnRecord(usage) \cup {<<ip, usage[ip] + 1>>}) =
               IF <<ip, usage[ip] + 1>> \in OnRecord(usage) THEN Cardinality(OnRecord(usage))
               ELSE Cardinality(OnRecord(usage)) + 1
      BY <3>1, FS_AddElement, Zenon
    <3> QED
      BY <2>1, <2>2, <2>3, <3>1, <3>2
  <2> QED
    BY <1>1, <2>4 DEF MinutesInv, MinutesConserved
<1>5. CASE Follow
  <2>1. Head(report) \in Client
    BY <1>5 DEF Follow, Idle, MinutesInv, TypeOK
  <2>2. ASSUME NEW c \in Client, NEW old \in RowsOf(c.mac) \ {c.ip}, Move(old, c.ip)
        PROVE  MinutesInv'
    <3>1. c.ip \in IPs /\ old \in IPs /\ old # c.ip
      BY <2>2 DEF Client, RowsOf, Known
    <3>2. usage' = [usage EXCEPT ![c.ip] = @ + usage[old], ![old] = 0] /\ credited' = credited
      BY <1>5, <2>2 DEF Move, Follow
    <3>3. /\ usage'[old] = 0 /\ usage'[c.ip] = usage[c.ip] + usage[old]
          /\ \A jp \in IPs \ {old, c.ip} : usage'[jp] = usage[jp]
      BY <1>2, <3>1, <3>2
    <3>4. IsFiniteSet(OnRecord(usage'))
          /\ Cardinality(OnRecord(usage')) = Cardinality(OnRecord(usage))
      BY <1>2, <3>1, <3>3, MovedMinutes DEF MinutesInv
    <3> QED
      BY <1>1, <3>2, <3>4 DEF MinutesInv, MinutesConserved
  <2> QED
    BY <1>3, <1>5, <2>1, <2>2 DEF Follow, Stamp
<1> QED
  BY <1>3, <1>4, <1>5 DEF Next, Pass, People, ListClients, AskFingerprint, StoreFingerprint,
     Touch, SetProfile, AddRule, DropRule, FamilyPause, FamilyResume, vars

(* No minute is lost, and none counted twice, however often rows move and
   whichever migrations fail.                                                *)
THEOREM NoMinuteLost == Spec => []MinutesConserved
<1>1. Init => MinutesInv
  <2> SUFFICES ASSUME Init PROVE MinutesInv
    OBVIOUS
  <2>1. TypeOK /\ credited = 0 /\ \A ip \in IPs : usage[ip] = 0
    BY TypeInit DEF Init
  <2>2. OnRecord(usage) = {}
    <3> SUFFICES ASSUME NEW x \in OnRecord(usage) PROVE FALSE
      OBVIOUS
    <3>1. PICK ip \in IPs, n \in Nat : n \in 1..usage[ip] /\ x = <<ip, n>>
      BY InRecord
    <3> QED
      BY <2>1, <3>1
  <2> QED
    BY <2>1, <2>2, FS_EmptySet DEF MinutesInv, MinutesConserved
<1>2. MinutesInv => MinutesConserved
  BY DEF MinutesInv
<1> QED
  BY <1>1, <1>2, MinutesStep, PTL DEF Spec

-----------------------------------------------------------------------------
(* One row per MAC. *)

LEMMA UniqueStep == TypeOK /\ MacUnique /\ [Next]_vars => MacUnique'
<1> SUFFICES ASSUME TypeOK, MacUnique, [Next]_vars PROVE MacUnique'
  OBVIOUS
<1> USE LeaseAssumption
<1>1. CASE UNCHANGED rows
  BY <1>1 DEF MacUnique, Known
<1>2. ASSUME NEW ip \in IPs, NEW r \in Row, r.mac = RowAt(ip).mac,
             rows' = [rows EXCEPT ![ip] = r]
      PROVE  MacUnique'
  <2>1. \A jp \in IPs : rows'[jp] = IF jp = ip THEN r ELSE rows[jp]
    BY <1>2 DEF TypeOK
  <2>2. CASE r.mac = None
    BY <2>1, <2>2 DEF MacUnique, Known
  <2>3. CASE r.mac # None
    <3>1. ip \in Known /\ rows[ip].mac = r.mac
      BY <1>2, <2>3, RowAtType DEF Blank
    <3> QED
      BY <2>1, <3>1, NoneIsNoRow DEF MacUnique, Known
  <2> QED
    BY <2>2, <2>3
<1>3. CASE Follow
  <2> DEFINE c == Head(report)
  <2>0. c \in Client
    BY <1>3 DEF Follow, Idle, TypeOK
  <2>1. c \in Client /\ c.ip \in IPs /\ c.mac \in MACs
    BY <2>0 DEF Client
  <2>2. ASSUME NEW old \in RowsOf(c.mac) \ {c.ip}, Move(old, c.ip)
        PROVE  MacUnique'
    <3>1. old \in Known /\ old \in IPs /\ rows[old].mac = c.mac /\ old # c.ip
      BY <2>2 DEF RowsOf, Known
    <3>2. Merged(old, c.ip).mac = c.mac /\ Merged(old, c.ip) \in Row
      BY <2>1, <3>1, MergedType DEF Merged
    <3>3. \A jp \in IPs : rows'[jp] = IF jp = c.ip THEN Merged(old, c.ip)
                                     ELSE IF jp = old THEN None ELSE rows[jp]
      BY <2>1, <2>2, <3>1 DEF Move, TypeOK
    <3>4. \A jp \in Known \ {old} : rows[jp].mac # c.mac
      BY <2>1, <3>1 DEF MacUnique
    <3> HIDE DEF c
    <3> QED
      BY <2>1, <3>1, <3>2, <3>3, <3>4 DEF MacUnique, Known
  <2>3. CASE Stamp(c)
    <3>1. \A jp \in Known \ {c.ip} : rows[jp].mac # c.mac
      BY <2>3 DEF Stamp, RowsOf
    <3>2. [RowAt(c.ip) EXCEPT !.mac = c.mac].mac = c.mac
      BY <2>1, RowAtType DEF Row
    <3>3. \A jp \in IPs : rows'[jp] = IF jp = c.ip
                                     THEN [RowAt(c.ip) EXCEPT !.mac = c.mac]
                                     ELSE rows[jp]
      BY <2>1, <2>3 DEF Stamp, TypeOK
    <3> HIDE DEF c
    <3> QED
      BY <2>1, <3>1, <3>2, <3>3 DEF MacUnique, Known
  <2> QED
    BY <1>1, <1>3, <2>2, <2>3 DEF Follow
<1>4. ASSUME NEW ip \in IPs, Touch(ip) \/ StoreFingerprint(ip) PROVE MacUnique'
  <2>1. RowAt(ip) \in Row /\ (Touch(ip) => RowAt(ip) = Blank)
    BY RowAtType DEF Touch
  <2>2. rows' = [rows EXCEPT ![ip] = RowAt(ip)]
    BY <1>4, <2>1 DEF Touch, StoreFingerprint
  <2> QED
    BY <1>2, <2>1, <2>2
<1>5. ASSUME NEW ip \in IPs, NEW p \in Profiles \cup {None}, SetProfile(ip, p)
      PROVE  MacUnique'
  <2>1. /\ [RowAt(ip) EXCEPT !.base = p] \in Row
        /\ [RowAt(ip) EXCEPT !.base = p].mac = RowAt(ip).mac
    BY RowAtType DEF Row
  <2> QED
    BY <1>2, <1>5, <2>1 DEF SetProfile
<1> QED
  BY <1>1, <1>3, <1>4, <1>5
  DEF Next, Pass, People, ListClients, AskFingerprint, AddRule, DropRule,
      FamilyPause, FamilyResume, Credit, vars

(* At most one row is anchored to a MAC, whatever the router reports. *)
THEOREM OneRowPerMac == Spec => []MacUnique
<1>1. Init => MacUnique
  BY DEF Init, MacUnique, Known
<1>2. TypeOK /\ MacUnique /\ [Next]_vars => (TypeOK /\ MacUnique)'
  BY TypeStep, UniqueStep
<1> QED
  BY <1>1, <1>2, TypeInit, PTL DEF Spec

-----------------------------------------------------------------------------
(* A family pause can be ended from the rows. *)

(* Every family-pause override is for an address that has a row: moves take it
   along, and no row is ever dropped without another taking its address over. *)
THEOREM FamilyPauseCanEnd == Spec => []FamilyPauseEnds
<1>1. Init => FamilyPauseEnds
  BY DEF Init, FamilyPauseEnds
<1>2. TypeOK /\ FamilyPauseEnds /\ [Next]_vars => FamilyPauseEnds'
  <2> SUFFICES ASSUME TypeOK, FamilyPauseEnds, [Next]_vars PROVE FamilyPauseEnds'
    OBVIOUS
  <2> USE LeaseAssumption
  <2>1. CASE UNCHANGED <<rows, family>>
    BY <2>1 DEF FamilyPauseEnds, Known
  <2>2. ASSUME NEW ip \in IPs, NEW r \in Row, rows' = [rows EXCEPT ![ip] = r],
               UNCHANGED family
        PROVE  FamilyPauseEnds'
    BY <2>2 DEF FamilyPauseEnds, Known, TypeOK
  <2>3. CASE Follow
    <3> DEFINE c == Head(report)
    <3>1. c \in Client
      BY <2>3 DEF Follow, Idle, TypeOK
    <3>2. c.ip \in IPs /\ c.mac \in MACs
      BY <3>1 DEF Client
    <3>3. ASSUME NEW old \in RowsOf(c.mac) \ {c.ip}, Move(old, c.ip)
          PROVE  FamilyPauseEnds'
      <4>1. old \in Known /\ old \in IPs /\ Merged(old, c.ip) \in Row
        BY <3>2, <3>3, MergedType DEF RowsOf, Known
      <4>2. \A jp \in IPs : rows'[jp] = IF jp = c.ip THEN Merged(old, c.ip)
                                        ELSE IF jp = old THEN None ELSE rows[jp]
        BY <3>2, <3>3, <4>1 DEF Move, TypeOK
      <4>3. family' \subseteq (family \ {old}) \cup {c.ip}
        BY <3>3 DEF Move
      <4> HIDE DEF c
      <4> QED
        BY <3>2, <4>1, <4>2, <4>3 DEF FamilyPauseEnds, Known
    <3>4. CASE Stamp(c)
      <4>1. [RowAt(c.ip) EXCEPT !.mac = c.mac] \in Row
        BY <3>2, RowAtType DEF Row
      <4> QED
        BY <2>2, <3>2, <3>4, <4>1 DEF Stamp
    <3> QED
      BY <2>1, <2>3, <3>3, <3>4 DEF Follow
  <2>4. ASSUME NEW ip \in IPs, Touch(ip) \/ StoreFingerprint(ip)
        PROVE  FamilyPauseEnds'
    <3>1. RowAt(ip) \in Row /\ (Touch(ip) => RowAt(ip) = Blank)
      BY RowAtType DEF Touch
    <3> QED
      BY <2>2, <2>4, <3>1 DEF Touch, StoreFingerprint
  <2>5. ASSUME NEW ip \in IPs, NEW p \in Profiles \cup {None}, SetProfile(ip, p)
        PROVE  FamilyPauseEnds'
    <3>1. [RowAt(ip) EXCEPT !.base = p] \in Row
      BY RowAtType DEF Row
    <3> QED
      BY <2>2, <2>5, <3>1 DEF SetProfile
  <2>6. CASE FamilyPause \/ FamilyResume
    BY <2>6 DEF FamilyPause, FamilyResume, FamilyPauseEnds, Known
  <2> QED
    BY <2>1, <2>3, <2>4, <2>5, <2>6
    DEF Next, Pass, People, ListClients, AskFingerprint, AddRule, DropRule,
        Credit, vars
<1> QED
  BY <1>1, <1>2, TypeInit, TypeStep, PTL DEF Spec

-----------------------------------------------------------------------------
(* Profiles stick: LeaseFollow implements StickyDevices as long as the router
   reports no device at the address of another one.                          *)

\* What is left of a report can be followed without taking an address over.
ReportFree ==
    /\ \A i \in 1..Len(report) : Free(report[i])
    /\ \A i, j \in 1..Len(report) : report[i].ip = report[j].ip => i = j

LEMMA ReportFreeStep ==
    ASSUME AddressReuse = FALSE
    PROVE  TypeOK /\ ReportFree /\ [Next]_vars => ReportFree'
<1> SUFFICES ASSUME TypeOK, ReportFree, [Next]_vars PROVE ReportFree'
  OBVIOUS
<1> USE LeaseAssumption
<1>1. CASE ListClients
  BY <1>1, ReportsType DEF ListClients, ReportFree, Free, RowAt, Known
<1>2. CASE Follow
  <2> DEFINE c == Head(report)
  <2>1. c \in Client /\ report' = Tail(report) /\ report # <<>>
    BY <1>2 DEF Follow, Idle, TypeOK
  <2>2. c.ip \in IPs /\ c.mac \in MACs
    BY <2>1 DEF Client
  <2>3. /\ Len(report') = Len(report) - 1
        /\ \A i \in 1..Len(report') :
              /\ i + 1 \in 1..Len(report) /\ report'[i] = report[i + 1]
              /\ report[i + 1] \in Client
    BY <2>1 DEF TypeOK
  <2>4. c = report[1] /\ 1 \in 1..Len(report)
    BY <2>1 DEF TypeOK
  <2>5. \A i \in 1..Len(report') : report'[i].ip # c.ip
    BY <2>3, <2>4 DEF ReportFree
  <2>6. \A i, j \in 1..Len(report') : report'[i].ip = report'[j].ip => i = j
    BY <2>3 DEF ReportFree
  <2>7. \A ip \in IPs \ {c.ip} : rows'[ip] = rows[ip] \/ rows'[ip] = None
    <3>1. ASSUME NEW old \in RowsOf(c.mac) \ {c.ip}, Move(old, c.ip)
          PROVE  \A ip \in IPs \ {c.ip} : rows'[ip] = rows[ip] \/ rows'[ip] = None
      <4>1. old \in IPs
        BY <3>1 DEF RowsOf, Known
      <4> QED
        BY <2>2, <3>1, <4>1 DEF Move, TypeOK
    <3>2. CASE Stamp(c)
      BY <2>2, <3>2 DEF Stamp, TypeOK
    <3> QED
      BY <1>2, <3>1, <3>2 DEF Follow
  <2>8. ASSUME NEW i \in 1..Len(report') PROVE Free(report[i])'
    <3> DEFINE d == report'[i]
    <3>1. d \in Client /\ Free(d) /\ d.ip # c.ip
      BY <2>3, <2>5 DEF ReportFree
    <3>2. d.ip \in IPs
      BY <3>1 DEF Client
    <3>3. rows'[d.ip] = rows[d.ip] \/ rows'[d.ip] = None
      BY <2>7, <3>1, <3>2
    <3> HIDE DEF d
    <3>4. (IF d.ip \in Known' THEN rows'[d.ip] ELSE Blank).mac \in {None, d.mac}
      BY <3>1, <3>2, <3>3 DEF Free, RowAt, Known, Blank
    <3> QED
      BY <3>4 DEF d, Free, RowAt
  <2> QED
    BY <2>6, <2>8 DEF ReportFree
<1>3. CASE Idle /\ UNCHANGED report
  BY <1>3 DEF Idle, ReportFree
<1>4. CASE UNCHANGED vars
  BY <1>4 DEF vars, ReportFree, Free, RowAt, Known
<1> QED
  BY <1>1, <1>2, <1>3, <1>4
  DEF Next, Pass, People, AskFingerprint, StoreFingerprint, Touch, SetProfile,
      AddRule, DropRule, FamilyPause, FamilyResume, Credit

\* What the abstract specification sees of a device, read off its row.
View ==
    \A m \in MACs :
        /\ \A ip \in RowsOf(m) : /\ profileOf[m] = rows[ip].base
                                 /\ ruledOf[m] = RulesAt(ip)
                                 /\ minutesOf[m] = usage[ip]
        /\ RowsOf(m) = {} => /\ profileOf[m] = None
                             /\ ruledOf[m] = {} /\ minutesOf[m] = 0

LEMMA ViewHolds == TypeOK /\ MacUnique => View
<1> SUFFICES ASSUME TypeOK, MacUnique, NEW m \in MACs
             PROVE  /\ \A ip \in RowsOf(m) : /\ profileOf[m] = rows[ip].base
                                             /\ ruledOf[m] = RulesAt(ip)
                                             /\ minutesOf[m] = usage[ip]
                    /\ RowsOf(m) = {} => /\ profileOf[m] = None
                                         /\ ruledOf[m] = {} /\ minutesOf[m] = 0
  BY DEF View
<1>1. CASE RowsOf(m) = {}
  BY <1>1 DEF profileOf, ruledOf, minutesOf, Tracked
<1>2. ASSUME NEW ip \in RowsOf(m)
      PROVE  /\ profileOf[m] = rows[ip].base
             /\ ruledOf[m] = RulesAt(ip) /\ minutesOf[m] = usage[ip]
  <2>1. ip \in IPs /\ Tracked(m)
    BY <1>2 DEF RowsOf, Known, Tracked
  <2>2. RowOf(m) \in RowsOf(m)
    BY <1>2, <2>1 DEF RowOf
  <2>3. RowOf(m) = ip
    <3>1. m # None
      BY LeaseAssumption
    <3> QED
      BY <1>2, <2>2, <3>1 DEF RowsOf, MacUnique
  <2> QED
    BY <2>1, <2>3 DEF profileOf, ruledOf, minutesOf
<1> QED
  BY <1>1, <1>2

\* A step that leaves the row of a device, its rules and its minutes alone.
Untouched(m) ==
    /\ RowsOf(m)' = RowsOf(m)
    /\ \A ip \in RowsOf(m) : /\ rows'[ip].base = rows[ip].base
                             /\ RulesAt(ip)' = RulesAt(ip)
                             /\ usage'[ip] = usage[ip]

SameView(m) ==
    /\ profileOf'[m] = profileOf[m]
    /\ ruledOf'[m] = ruledOf[m]
    /\ minutesOf'[m] = minutesOf[m]

LEMMA UntouchedView ==
    ASSUME View, View', NEW m \in MACs, Untouched(m)
    PROVE  SameView(m)
<1>1. CASE RowsOf(m) = {}
  <2>1. /\ profileOf[m] = None /\ ruledOf[m] = {} /\ minutesOf[m] = 0
    BY <1>1 DEF View
  <2>2. /\ profileOf'[m] = None /\ ruledOf'[m] = {} /\ minutesOf'[m] = 0
    BY <1>1 DEF View, Untouched
  <2> QED
    BY <2>1, <2>2 DEF SameView
<1>2. CASE RowsOf(m) # {}
  <2>1. PICK ip \in RowsOf(m) : TRUE
    BY <1>2
  <2>2. /\ profileOf[m] = rows[ip].base
        /\ ruledOf[m] = RulesAt(ip) /\ minutesOf[m] = usage[ip]
    BY <2>1 DEF View
  <2>3. /\ profileOf'[m] = rows'[ip].base
        /\ ruledOf'[m] = RulesAt(ip)' /\ minutesOf'[m] = usage'[ip]
    BY <2>1 DEF View, Untouched
  <2> QED
    BY <2>1, <2>2, <2>3 DEF SameView, Untouched
<1> QED
  BY <1>1, <1>2

LEMMA AllUntouched ==
    ASSUME View, View', \A m \in MACs : Untouched(m)
    PROVE  UNCHANGED <<profileOf, ruledOf, minutesOf>>
<1>1. \A m \in MACs : SameView(m)
  BY UntouchedView
<1>2. profileOf' = profileOf
  BY <1>1 DEF SameView, profileOf
<1>3. ruledOf' = ruledOf
  BY <1>1 DEF SameView, ruledOf
<1>4. minutesOf' = minutesOf
  BY <1>1 DEF SameView, minutesOf
<1> QED
  BY <1>2, <1>3, <1>4

\* A step that changes the row at ip and no MAC is a step of one device.
LEMMA AtOneAddress ==
    ASSUME TypeOK, NEW ip \in IPs, NEW r \in Row, r.mac = RowAt(ip).mac,
           rows' = [rows EXCEPT ![ip] = r],
           \A jp \in IPs \ {ip} : RulesAt(jp)' = RulesAt(jp) /\ usage'[jp] = usage[jp],
           NEW n \in MACs
    PROVE  /\ RowsOf(n)' = RowsOf(n)
           /\ n # RowAt(ip).mac => Untouched(n)
           /\ n = RowAt(ip).mac => RowsOf(n)' # {} /\ ip \in RowsOf(n)
<1> USE LeaseAssumption
<1>1. \A jp \in IPs : rows'[jp] = IF jp = ip THEN r ELSE rows[jp]
  BY DEF TypeOK
<1>2. n # None /\ None \notin Row
  OBVIOUS
<1>3. RowAt(ip).mac = n <=> ip \in RowsOf(n)
  BY <1>2 DEF RowAt, RowsOf, Known, Blank
<1>4. RowsOf(n)' = RowsOf(n)
  BY <1>1, <1>2, <1>3 DEF RowsOf, Known
<1>5. ASSUME n # RowAt(ip).mac PROVE Untouched(n)
  <2>1. \A jp \in RowsOf(n) : jp \in IPs /\ jp # ip
    BY <1>3, <1>5 DEF RowsOf, Known
  <2> QED
    BY <1>1, <1>4, <2>1 DEF Untouched
<1> QED
  BY <1>3, <1>4, <1>5

\* The rest of the step is one device's, so the other devices see nothing.
LEMMA OthersUntouched ==
    ASSUME View, View', NEW m \in MACs, \A n \in MACs \ {m} : Untouched(n)
    PROVE  /\ Devices!OnlyAt(profileOf, m)
           /\ Devices!OnlyAt(ruledOf, m)
           /\ Devices!OnlyAt(minutesOf, m)
<1>1. \A n \in MACs \ {m} : SameView(n)
  BY UntouchedView
<1> QED
  BY <1>1 DEF SameView, Devices!OnlyAt

LEMMA FollowSticks ==
    ASSUME TypeOK, MacUnique, View, View', ReportFree, Follow
    PROVE  [Devices!Next]_(Devices!vars)
<1> USE LeaseAssumption
<1>1. PICK c \in Client : c = Head(report) /\ Free(c)
  <2>1. Head(report) \in Client /\ 1 \in 1..Len(report) /\ Head(report) = report[1]
    BY DEF Follow, Idle, TypeOK
  <2> QED
    BY <2>1 DEF ReportFree
<1>2. c.ip \in IPs /\ c.mac \in MACs /\ c.mac # None
  BY <1>1 DEF Client
<1>3. ASSUME NEW old \in RowsOf(c.mac) \ {c.ip}, Move(old, c.ip)
      PROVE  Devices!Find(c.mac)
  <2>1. old \in Known /\ old \in IPs /\ rows[old].mac = c.mac /\ old # c.ip
    BY <1>3 DEF RowsOf, Known
  <2>2. /\ Merged(old, c.ip) \in Row /\ Merged(old, c.ip).mac = c.mac
        /\ rows[old].base # None => Merged(old, c.ip).base = rows[old].base
    BY <1>2, <2>1, MergedType DEF Merged
  <2>3. \A jp \in IPs : rows'[jp] = IF jp = c.ip THEN Merged(old, c.ip)
                                    ELSE IF jp = old THEN None ELSE rows[jp]
    BY <1>2, <1>3, <2>1 DEF Move, TypeOK
  <2>4. \A jp \in IPs \ {old, c.ip} : RulesAt(jp)' = RulesAt(jp) /\ usage'[jp] = usage[jp]
    <3> SUFFICES ASSUME NEW jp \in IPs \ {old, c.ip}
                 PROVE  RulesAt(jp)' = RulesAt(jp) /\ usage'[jp] = usage[jp]
      OBVIOUS
    <3>1. usage'[jp] = usage[jp]
      BY <1>2, <1>3, <2>1 DEF Move, TypeOK
    <3>2. \A r \in Rules : target'[r] = jp <=> target[r] = jp
      BY <1>2, <1>3, <2>1 DEF Move, TypeOK
    <3> QED
      BY <3>1, <3>2 DEF RulesAt
  <2>5. RulesAt(old) \subseteq RulesAt(c.ip)' /\ usage[old] <= usage'[c.ip]
    <3>1. \A r \in Rules : target[r] = old => target'[r] = c.ip
      BY <1>2, <1>3, <2>1 DEF Move, TypeOK
    <3>2. usage'[c.ip] = usage[c.ip] + usage[old]
      BY <1>2, <1>3, <2>1 DEF Move, TypeOK
    <3>3. usage[c.ip] \in Nat /\ usage[old] \in Nat
      BY <1>2, <2>1 DEF TypeOK
    <3>4. RulesAt(old) \subseteq RulesAt(c.ip)'
      BY <3>1 DEF RulesAt
    <3> QED
      BY <3>2, <3>3, <3>4
  <2>6. \A n \in MACs \ {c.mac} : Untouched(n)
    <3> SUFFICES ASSUME NEW n \in MACs \ {c.mac} PROVE Untouched(n)
      OBVIOUS
    <3>1. n # None /\ None \notin Row
      OBVIOUS
    <3>2. c.ip \notin RowsOf(n) /\ old \notin RowsOf(n)
      BY <1>1, <1>2, <2>1, <3>1 DEF Free, RowAt, RowsOf, Known
    <3>3. RowsOf(n)' = RowsOf(n)
      BY <1>2, <2>2, <2>3, <3>1, <3>2 DEF RowsOf, Known
    <3>4. \A jp \in RowsOf(n) : jp \in IPs \ {old, c.ip}
      BY <3>2 DEF RowsOf, Known
    <3> QED
      BY <2>3, <2>4, <3>3, <3>4 DEF Untouched
  <2>7. c.ip \in RowsOf(c.mac)'
    BY <1>2, <2>2, <2>3 DEF RowsOf, Known
  <2>8. /\ profileOf[c.mac] = rows[old].base
        /\ ruledOf[c.mac] = RulesAt(old) /\ minutesOf[c.mac] = usage[old]
    BY <1>2, <1>3 DEF View
  <2>9. /\ profileOf'[c.mac] = rows'[c.ip].base
        /\ ruledOf'[c.mac] = RulesAt(c.ip)' /\ minutesOf'[c.mac] = usage'[c.ip]
    BY <1>2, <2>7 DEF View
  <2>10. rows'[c.ip].base \in Profiles \cup {None}
    BY <1>2, <2>2, <2>3 DEF Row
  <2>11. rows[old].base # None => rows'[c.ip].base = rows[old].base
    BY <1>2, <2>2, <2>3
  <2> QED
    BY <1>2, <2>5, <2>6, <2>8, <2>9, <2>10, <2>11, OthersUntouched DEF Devices!Find
<1>4. ASSUME Stamp(c) PROVE Devices!Find(c.mac)
  <2> DEFINE r == [RowAt(c.ip) EXCEPT !.mac = c.mac]
  <2>1. /\ r \in Row /\ r.mac = c.mac /\ r.base = RowAt(c.ip).base
        /\ r.base \in Profiles \cup {None}
    BY <1>2, RowAtType DEF Row
  <2>2. \A jp \in IPs : rows'[jp] = IF jp = c.ip THEN r ELSE rows[jp]
    BY <1>2, <1>4 DEF Stamp, TypeOK
  <2> HIDE DEF r
  <2>3. UNCHANGED <<target, usage>>
    BY <1>4 DEF Stamp
  <2>4. RowsOf(c.mac) \subseteq {c.ip} /\ RowAt(c.ip).mac \in {None, c.mac}
    BY <1>1, <1>4 DEF Stamp, Free
  <2>5. \A n \in MACs \ {c.mac} : Untouched(n)
    <3> SUFFICES ASSUME NEW n \in MACs \ {c.mac} PROVE Untouched(n)
      OBVIOUS
    <3>1. n # None /\ None \notin Row
      OBVIOUS
    <3>2. c.ip \notin RowsOf(n)
      BY <2>4, <3>1 DEF RowAt, RowsOf, Known
    <3>3. RowsOf(n)' = RowsOf(n)
      BY <1>2, <2>1, <2>2, <3>1, <3>2 DEF RowsOf, Known
    <3>4. \A jp \in RowsOf(n) : jp \in IPs \ {c.ip}
      BY <3>2 DEF RowsOf, Known
    <3> QED
      BY <2>2, <2>3, <3>3, <3>4 DEF Untouched, RulesAt
  <2>6. c.ip \in RowsOf(c.mac)'
    BY <1>2, <2>1, <2>2 DEF RowsOf, Known
  <2>7. /\ profileOf'[c.mac] = r.base
        /\ ruledOf'[c.mac] = RulesAt(c.ip) /\ minutesOf'[c.mac] = usage[c.ip]
    BY <1>2, <2>2, <2>3, <2>6 DEF View, RulesAt
  <2>8. CASE c.ip \in RowsOf(c.mac)
    <3>1. /\ profileOf[c.mac] = rows[c.ip].base /\ rows[c.ip].base = r.base
          /\ ruledOf[c.mac] = RulesAt(c.ip) /\ minutesOf[c.mac] = usage[c.ip]
      BY <1>2, <2>1, <2>8 DEF View, RowAt, RowsOf
    <3>2. usage[c.ip] \in Nat
      BY <1>2 DEF TypeOK
    <3> QED
      BY <1>2, <2>1, <2>5, <2>7, <3>1, <3>2, OthersUntouched DEF Devices!Find
  <2>9. CASE RowsOf(c.mac) = {}
    <3>1. /\ profileOf[c.mac] = None /\ ruledOf[c.mac] = {} /\ minutesOf[c.mac] = 0
      BY <1>2, <2>9 DEF View
    <3>2. usage[c.ip] \in Nat
      BY <1>2 DEF TypeOK
    <3> QED
      BY <1>2, <2>1, <2>5, <2>7, <3>1, <3>2, OthersUntouched DEF Devices!Find
  <2> QED
    BY <2>4, <2>8, <2>9
<1>5. CASE UNCHANGED <<rows, target, family, usage>>
  <2>1. \A n \in MACs : Untouched(n)
    BY <1>5 DEF Untouched, RowsOf, Known, RulesAt
  <2> QED
    BY <2>1, AllUntouched DEF Devices!vars
<1> QED
  BY <1>1, <1>2, <1>3, <1>4, <1>5 DEF Follow, Devices!Next

\* What the abstract specification sees when only the device at ip changes.
ChangesOnly(m, ip) ==
    /\ Devices!OnlyAt(profileOf, m) /\ Devices!OnlyAt(ruledOf, m)
    /\ Devices!OnlyAt(minutesOf, m)
    /\ profileOf[m] = rows[ip].base   /\ profileOf'[m] = rows'[ip].base
    /\ ruledOf[m]   = RulesAt(ip)     /\ ruledOf'[m] = RulesAt(ip)'
    /\ minutesOf[m] = usage[ip]       /\ minutesOf'[m] = usage'[ip]

LEMMA OneDeviceChanges ==
    ASSUME View, View', NEW m \in MACs, NEW ip \in RowsOf(m), RowsOf(m)' = RowsOf(m),
           \A n \in MACs \ {m} : Untouched(n)
    PROVE  ChangesOnly(m, ip)
<1>1. /\ profileOf[m] = rows[ip].base
      /\ ruledOf[m] = RulesAt(ip) /\ minutesOf[m] = usage[ip]
  BY DEF View
<1>2. /\ profileOf'[m] = rows'[ip].base
      /\ ruledOf'[m] = RulesAt(ip)' /\ minutesOf'[m] = usage'[ip]
  BY DEF View
<1> QED
  BY <1>1, <1>2, OthersUntouched DEF ChangesOnly

LEMMA SameEverywhere ==
    ASSUME NEW m \in MACs
    PROVE  /\ Devices!OnlyAt(profileOf, m) /\ profileOf'[m] = profileOf[m]
              => profileOf' = profileOf
           /\ Devices!OnlyAt(ruledOf, m) /\ ruledOf'[m] = ruledOf[m]
              => ruledOf' = ruledOf
           /\ Devices!OnlyAt(minutesOf, m) /\ minutesOf'[m] = minutesOf[m]
              => minutesOf' = minutesOf
<1>1. ASSUME \A n \in MACs : profileOf'[n] = profileOf[n] PROVE profileOf' = profileOf
  BY <1>1 DEF profileOf
<1>2. ASSUME \A n \in MACs : ruledOf'[n] = ruledOf[n] PROVE ruledOf' = ruledOf
  BY <1>2 DEF ruledOf
<1>3. ASSUME \A n \in MACs : minutesOf'[n] = minutesOf[n] PROVE minutesOf' = minutesOf
  BY <1>3 DEF minutesOf
<1> QED
  BY <1>1, <1>2, <1>3 DEF Devices!OnlyAt

LEMMA PeopleStick ==
    ASSUME TypeOK, MacUnique, View, View', People \/ \E ip \in IPs : Credit(ip)
    PROVE  [Devices!Next]_(Devices!vars)
<1> USE LeaseAssumption
<1>1. ASSUME NEW ip \in IPs, NEW r \in Row, r.mac = RowAt(ip).mac,
             rows' = [rows EXCEPT ![ip] = r],
             \A jp \in IPs \ {ip} : RulesAt(jp)' = RulesAt(jp) /\ usage'[jp] = usage[jp]
      PROVE  \/ UNCHANGED <<profileOf, ruledOf, minutesOf>>
             \/ \E m \in MACs : ip \in RowsOf(m) /\ ChangesOnly(m, ip)
  <2>1. RowAt(ip).mac \in MACs \cup {None}
    BY RowAtType DEF Row
  <2>2. \A n \in MACs \ {RowAt(ip).mac} : Untouched(n)
    BY <1>1, AtOneAddress
  <2>3. CASE RowAt(ip).mac = None
    <3>1. \A n \in MACs : Untouched(n)
      BY <2>2, <2>3
    <3> QED
      BY <3>1, AllUntouched
  <2>4. CASE RowAt(ip).mac \in MACs
    <3>1. PICK m \in MACs : m = RowAt(ip).mac
      BY <2>4
    <3>2. RowsOf(m)' = RowsOf(m) /\ ip \in RowsOf(m)
      BY <1>1, <3>1, AtOneAddress
    <3> QED
      BY <2>2, <2>4, <3>1, <3>2, OneDeviceChanges
  <2> QED
    BY <2>1, <2>3, <2>4
<1>2. ASSUME NEW ip \in IPs, Touch(ip) PROVE [Devices!Next]_(Devices!vars)
  <2>1. Blank \in Row /\ Blank.mac = RowAt(ip).mac /\ Blank.mac = None
    BY <1>2, RowAtType DEF Touch, Blank
  <2>2. \A n \in MACs : Untouched(n)
    BY <1>2, <2>1, AtOneAddress DEF Touch, RulesAt
  <2> QED
    BY <2>2, AllUntouched DEF Devices!vars
<1>3. ASSUME NEW ip \in IPs, NEW p \in Profiles \cup {None}, SetProfile(ip, p)
      PROVE  [Devices!Next]_(Devices!vars)
  <2> DEFINE r == [RowAt(ip) EXCEPT !.base = p]
  <2>1. r \in Row /\ r.mac = RowAt(ip).mac /\ r.base = p
    BY RowAtType DEF Row
  <2> HIDE DEF r
  <2>2. rows' = [rows EXCEPT ![ip] = r] /\ UNCHANGED <<target, usage>>
    BY <1>3 DEF SetProfile, r
  <2>3. ASSUME NEW m \in MACs, ip \in RowsOf(m), ChangesOnly(m, ip)
        PROVE  Devices!Choose(m)
    <3>1. rows'[ip].base = p
      BY <2>1, <2>2 DEF TypeOK
    <3> QED
      BY <2>2, <2>3, <3>1, SameEverywhere DEF ChangesOnly, Devices!Choose, RulesAt
  <2> QED
    BY <1>1, <2>1, <2>2, <2>3 DEF RulesAt, Devices!Next, Devices!vars
<1>4. ASSUME NEW r \in Rules, NEW ip \in IPs,
             AddRule(r, ip) \/ (DropRule(r) /\ target[r] = ip)
      PROVE  [Devices!Next]_(Devices!vars)
  <2>1. \A jp \in IPs \ {ip} : RulesAt(jp)' = RulesAt(jp)
    <3> SUFFICES ASSUME NEW jp \in IPs \ {ip} PROVE RulesAt(jp)' = RulesAt(jp)
      OBVIOUS
    <3>1. \A q \in Rules : target'[q] = jp <=> target[q] = jp
      BY <1>4 DEF AddRule, DropRule, TypeOK
    <3> QED
      BY <3>1 DEF RulesAt
  <2>2. UNCHANGED <<rows, usage>>
    BY <1>4 DEF AddRule, DropRule
  <2>3. ASSUME NEW m \in MACs, ip \in RowsOf(m), ChangesOnly(m, ip)
        PROVE  Devices!Rule(m)
    BY <2>2, <2>3, SameEverywhere DEF ChangesOnly, Devices!Rule, RulesAt
  <2>4. CASE ip \in Known
    <3>1. rows' = [rows EXCEPT ![ip] = RowAt(ip)] /\ RowAt(ip) \in Row
      BY <2>2, <2>4, RowAtType DEF TypeOK
    <3> QED
      BY <1>1, <2>1, <2>2, <2>3, <3>1 DEF Devices!Next, Devices!vars
  <2>5. CASE ip \notin Known
    <3>1. \A n \in MACs : Untouched(n)
      BY <2>1, <2>2, <2>5 DEF Untouched, RowsOf, Known
    <3> QED
      BY <3>1, AllUntouched DEF Devices!vars
  <2> QED
    BY <2>4, <2>5
<1>5. ASSUME NEW ip \in IPs, Credit(ip) PROVE [Devices!Next]_(Devices!vars)
  <2>1. /\ UNCHANGED <<rows, target>>
        /\ \A jp \in IPs \ {ip} : usage'[jp] = usage[jp]
        /\ usage'[ip] = usage[ip] + 1 /\ usage[ip] \in Nat
    BY <1>5 DEF Credit, TypeOK
  <2>2. ASSUME NEW m \in MACs, ip \in RowsOf(m), ChangesOnly(m, ip)
        PROVE  Devices!Find(m)
    <3>1. rows[ip].base \in Profiles \cup {None}
      BY <2>2, RowAtType DEF RowsOf, Known, RowAt, Row
    <3> QED
      BY <2>1, <2>2, <3>1 DEF ChangesOnly, Devices!Find, RulesAt
  <2>3. CASE ip \in Known
    <3>1. rows' = [rows EXCEPT ![ip] = RowAt(ip)] /\ RowAt(ip) \in Row
      BY <2>1, <2>3, RowAtType DEF TypeOK
    <3> QED
      BY <1>1, <2>1, <2>2, <3>1 DEF RulesAt, Devices!Next, Devices!vars
  <2>4. CASE ip \notin Known
    <3>1. \A n \in MACs : Untouched(n)
      BY <2>1, <2>4 DEF Untouched, RowsOf, Known, RulesAt
    <3> QED
      BY <3>1, AllUntouched DEF Devices!vars
  <2> QED
    BY <2>3, <2>4
<1>6. CASE FamilyPause \/ FamilyResume
  <2>1. \A n \in MACs : Untouched(n)
    BY <1>6 DEF FamilyPause, FamilyResume, Untouched, RowsOf, Known, RulesAt
  <2> QED
    BY <2>1, AllUntouched DEF Devices!vars
<1>7. ASSUME NEW r \in Rules, DropRule(r) PROVE [Devices!Next]_(Devices!vars)
  <2>1. target[r] \in IPs
    BY <1>7 DEF DropRule, TypeOK
  <2> QED
    BY <1>4, <1>7, <2>1
<1> QED
  BY <1>2, <1>3, <1>4, <1>5, <1>6, <1>7 DEF People

LEMMA PassSticks ==
    ASSUME TypeOK, MacUnique, View, View', ReportFree, Pass \/ UNCHANGED vars
    PROVE  [Devices!Next]_(Devices!vars)
<1>1. CASE Follow
  BY <1>1, FollowSticks
<1>2. CASE UNCHANGED <<rows, target, usage>>
  <2>1. \A n \in MACs : Untouched(n)
    BY <1>2 DEF Untouched, RowsOf, Known, RulesAt
  <2> QED
    BY <2>1, AllUntouched DEF Devices!vars
<1>3. ASSUME NEW ip \in IPs, StoreFingerprint(ip) PROVE [Devices!Next]_(Devices!vars)
  <2>1. RowAt(ip) \in Row
    BY RowAtType
  <2>2. \A n \in MACs : RowsOf(n)' = RowsOf(n) /\ (n # RowAt(ip).mac => Untouched(n))
    BY <1>3, <2>1, AtOneAddress DEF StoreFingerprint, RulesAt
  <2>3. \A n \in MACs : \A jp \in RowsOf(n) : rows'[jp] = rows[jp]
    BY <1>3, RowAtType DEF StoreFingerprint, RowsOf, Known, TypeOK
  <2>4. \A n \in MACs : Untouched(n)
    BY <1>3, <2>2, <2>3 DEF Untouched, StoreFingerprint, RulesAt
  <2> QED
    BY <2>4, AllUntouched DEF Devices!vars
<1> QED
  BY <1>1, <1>2, <1>3 DEF Pass, ListClients, AskFingerprint, vars

(* As long as the router reports no device at an address whose row is another
   device's, a device keeps its profile, its rules and its minutes whatever
   lease it gets.                                                           *)
THEOREM ProfilesStickToDevices ==
    ASSUME AddressReuse = FALSE
    PROVE  Spec => ProfilesStick
<1> DEFINE Inv == TypeOK /\ MacUnique /\ ReportFree
<1>1. Init => Inv
  BY TypeInit DEF Init, MacUnique, Known, ReportFree
<1>2. Inv /\ [Next]_vars => Inv'
  BY TypeStep, UniqueStep, ReportFreeStep
<1>3. Init => Devices!Init
  BY DEF Init, Devices!Init, profileOf, ruledOf, minutesOf, Tracked, RowsOf, Known
<1>4. TypeOK' /\ MacUnique' => View'
  BY ViewHolds, PTL
<1>5. Inv /\ Inv' /\ [Next]_vars => [Devices!Next]_(Devices!vars)
  BY <1>4, ViewHolds, PassSticks, PeopleStick DEF Next
<1> QED
  BY <1>1, <1>2, <1>3, <1>5, PTL DEF Spec, ProfilesStick, Devices!Spec
=============================================================================
