--------------------------- MODULE HouseholdProofs ---------------------------
(* Deleting a person whatever crashes, windows whatever the hour, and what  *)
(* applies to whom when the clock ticks and expired rows are dropped.       *)
EXTENDS Household, OverridesProofs

\* What can be left of the deletion's statements.
Remainders ==
    {DeleteOrder, <<"row", "overrides", "schedules", "quotas">>,
     <<"overrides", "schedules", "quotas">>, <<"schedules", "quotas">>, <<"quotas">>}

(* NoDanglingMember is not inductive: the statement that deletes the person's
   row keeps it only because no device refers to the person any more, from the
   first statement on.                                                       *)
MemberInv ==
    /\ device \in [Devices -> DeviceRow]
    /\ person \in [People -> PersonRow]
    /\ NoDanglingMember
    /\ ~Idle =>
         /\ deleting \in [person : People, left : Remainders]
         /\ Head(deleting.left) # "detach" =>
                \A d \in Devices : device[d].person # deleting.person

\* Most actions leave the devices, the people and the deletion alone.
LEMMA ElsewhereMember ==
    ASSUME MemberInv, UNCHANGED <<device, person, deleting>>
    PROVE  MemberInv'
  BY DEF MemberInv, NoDanglingMember, Here, Idle

LEMMA RemaindersShrink ==
    ASSUME NEW s \in Remainders
    PROVE  Len(s) # 1 => Tail(s) \in Remainders
<1>1. CASE s = DeleteOrder
  <2>1. Tail(<<"detach", "row", "overrides", "schedules", "quotas">>) = <<"row", "overrides", "schedules", "quotas">>
    OBVIOUS
  <2>2. Head(<<"detach", "row", "overrides", "schedules", "quotas">>) = "detach" /\ Head(<<"row", "overrides", "schedules", "quotas">>) = "row"
    OBVIOUS
  <2>3. Tail(s) = <<"row", "overrides", "schedules", "quotas">> /\ Head(s) = "detach"
    BY <1>1, <2>1, <2>2 DEF DeleteOrder
  <2> QED
    BY <2>2, <2>3 DEF Remainders
<1>2. CASE s = <<"row", "overrides", "schedules", "quotas">>
  <2>1. Tail(<<"row", "overrides", "schedules", "quotas">>) = <<"overrides", "schedules", "quotas">>
    OBVIOUS
  <2>2. Head(<<"row", "overrides", "schedules", "quotas">>) = "row" /\ Head(<<"overrides", "schedules", "quotas">>) = "overrides"
    OBVIOUS
  <2>3. Tail(s) = <<"overrides", "schedules", "quotas">> /\ Head(s) = "row"
    BY <1>2, <2>1, <2>2
  <2> QED
    BY <2>2, <2>3 DEF Remainders
<1>3. CASE s = <<"overrides", "schedules", "quotas">>
  <2>1. Tail(<<"overrides", "schedules", "quotas">>) = <<"schedules", "quotas">>
    OBVIOUS
  <2>2. Head(<<"overrides", "schedules", "quotas">>) = "overrides" /\ Head(<<"schedules", "quotas">>) = "schedules"
    OBVIOUS
  <2>3. Tail(s) = <<"schedules", "quotas">> /\ Head(s) = "overrides"
    BY <1>3, <2>1, <2>2
  <2> QED
    BY <2>2, <2>3 DEF Remainders
<1>4. CASE s = <<"schedules", "quotas">>
  <2>1. Tail(<<"schedules", "quotas">>) = <<"quotas">>
    OBVIOUS
  <2>2. Head(<<"schedules", "quotas">>) = "schedules" /\ Head(<<"quotas">>) = "quotas"
    OBVIOUS
  <2>3. Tail(s) = <<"quotas">> /\ Head(s) = "schedules"
    BY <1>4, <2>1, <2>2
  <2> QED
    BY <2>2, <2>3 DEF Remainders
<1>5. CASE s = <<"quotas">>
  <2>1. Len(s) = 1 /\ Head(s) = "quotas"
    BY <1>5
  <2> QED
    BY <2>1
<1> QED
  BY <1>1, <1>2, <1>3, <1>4, <1>5 DEF Remainders

LEMMA StatementMember ==
    ASSUME MemberInv, Statement
    PROVE  MemberInv'
<1> DEFINE p == deleting.person
           s == Head(deleting.left)
<1>1. /\ deleting \in [person : People, left : Remainders]
      /\ s # "detach" => \A d \in Devices : device[d].person # p
      /\ device \in [Devices -> DeviceRow] /\ person \in [People -> PersonRow]
      /\ \A d \in Devices : device[d].person \in Here \cup {None}
  BY DEF MemberInv, NoDanglingMember, Statement
<1>2. /\ device' = IF s # "detach" THEN device
                   ELSE [d \in Devices |-> IF device[d].person # p THEN device[d]
                                           ELSE [device[d] EXCEPT !.person = None]]
      /\ person' = IF s = "row" THEN [person EXCEPT ![p] = [status |-> "gone", base |-> None]]
                   ELSE person
      /\ deleting' = IF Len(deleting.left) = 1 THEN None
                     ELSE [deleting EXCEPT !.left = Tail(@)]
  BY DEF Statement
<1> HIDE DEF p, s
<1>3. p \in People /\ p # None
  BY <1>1, HouseholdAssumption DEF p
<1>4. CASE s = "detach"
  <2>1. /\ person' = person
        /\ \A d \in Devices : /\ device'[d].person # p
                              /\ device'[d].person \in {device[d].person, None}
    BY <1>1, <1>2, <1>3, <1>4 DEF DeviceRow
  <2>2. device' \in [Devices -> DeviceRow]
    BY <1>1, <1>2, <1>4 DEF DeviceRow
  <2>3. NoDanglingMember'
    BY <1>1, <2>1 DEF NoDanglingMember, Here
  <2>4. Len(deleting.left) # 1 => /\ deleting'.person = p
                                  /\ deleting' \in [person : People, left : Remainders]
    BY <1>1, <1>2, RemaindersShrink DEF p
  <2>5. Len(deleting.left) = 1 => deleting' = None
    BY <1>2
  <2> QED
    BY <1>1, <2>1, <2>2, <2>3, <2>4, <2>5 DEF MemberInv, Idle
<1>5. CASE s # "detach"
  <2>1. device' = device
    BY <1>2, <1>5
  <2>2. person' \in [People -> PersonRow]
    BY <1>1, <1>2, <1>3 DEF PersonRow, Choice
  <2>3. \A q \in People : q # p \/ s # "row" => person'[q] = person[q]
    BY <1>1, <1>2, <1>3
  <2>4. NoDanglingMember'
    BY <1>1, <2>1, <2>3 DEF NoDanglingMember, Here
  <2>5. ~Idle' => /\ deleting' \in [person : People, left : Remainders]
                  /\ deleting'.person = p
    BY <1>1, <1>2, RemaindersShrink DEF Idle, p
  <2> QED
    BY <1>1, <1>5, <2>1, <2>2, <2>4, <2>5 DEF MemberInv
<1> QED
  BY <1>4, <1>5

LEMMA HandlersMember ==
    ASSUME MemberInv, Handlers
    PROVE  MemberInv'
<1> USE DEF MemberInv, NoDanglingMember, Here, Idle
<1>1. ASSUME NEW d \in Devices, NEW p \in Choice, SetDeviceProfile(d, p) PROVE MemberInv'
  <2>1. device' \in [Devices -> DeviceRow]
        /\ \A e \in Devices : device'[e].person = device[e].person
    BY <1>1 DEF SetDeviceProfile, DeviceRow
  <2> QED
    BY <1>1, <2>1 DEF SetDeviceProfile
<1>2. ASSUME NEW d \in Devices, NEW p \in People \cup {None}, AttachPerson(d, p) PROVE MemberInv'
  <2>1. device' \in [Devices -> DeviceRow]
        /\ \A e \in Devices : device'[e].person \in {device[e].person, p}
    BY <1>2 DEF AttachPerson, DeviceRow
  <2> QED
    BY <1>2, <2>1 DEF AttachPerson
<1>3. ASSUME NEW p \in People, NEW b \in Choice, CreatePerson(p, b) PROVE MemberInv'
  <2>1. person' \in [People -> PersonRow]
        /\ \A q \in Here : person'[q] = person[q]
    BY <1>3 DEF CreatePerson, PersonRow
  <2> QED
    BY <1>3, <2>1 DEF CreatePerson
<1>4. ASSUME NEW p \in People, NEW b \in Choice, UpdatePerson(p, b) PROVE MemberInv'
  <2>1. person' \in [People -> PersonRow]
        /\ \A q \in People : person'[q].status = person[q].status
    BY <1>4 DEF UpdatePerson, PersonRow
  <2> QED
    BY <1>4, <2>1 DEF UpdatePerson
<1>5. ASSUME NEW p \in People, DeletePerson(p) PROVE MemberInv'
  <2>1. deleting' = [person |-> p, left |-> DeleteOrder] /\ UNCHANGED <<device, person>>
    BY <1>5 DEF DeletePerson
  <2>2. DeleteOrder \in Remainders /\ Head(DeleteOrder) = "detach"
    BY DEF Remainders, DeleteOrder
  <2> QED
    BY <2>1, <2>2
<1>6. CASE Statement
  BY <1>6, StatementMember
<1>7. CASE Crash
  BY <1>7 DEF Crash
<1>8. ASSUME NEW k, Resume(k) PROVE MemberInv'
  BY <1>8, ElsewhereMember DEF Resume
<1>9. ASSUME NEW k, NEW p \in Choice, NEW n \in PauseLengths, Pause(k, p, n)
      PROVE  MemberInv'
  BY <1>9, ElsewhereMember DEF Pause
<1>10. ASSUME NEW p \in Choice, NEW n \in PauseLengths, FamilyPause(p, n) PROVE MemberInv'
  BY <1>10, ElsewhereMember DEF FamilyPause
<1>11. CASE FamilyResume
  BY <1>11, ElsewhereMember DEF FamilyResume
<1>12. ASSUME NEW row \in ScheduleRow, NEW i \in DOMAIN schedules,
              CreateSchedule(row) \/ UpdateSchedule(i, row) \/ DeleteSchedule(i)
       PROVE  MemberInv'
  BY <1>12, ElsewhereMember DEF CreateSchedule, UpdateSchedule, DeleteSchedule
<1>13. ASSUME NEW row \in ScheduleRow, CreateSchedule(row) PROVE MemberInv'
  BY <1>13, ElsewhereMember DEF CreateSchedule
<1>14. ASSUME NEW i \in DOMAIN schedules, DeleteSchedule(i) PROVE MemberInv'
  BY <1>14, ElsewhereMember DEF DeleteSchedule
<1>15. ASSUME NEW row \in QuotaRow, CreateQuota(row) PROVE MemberInv'
  BY <1>15, ElsewhereMember DEF CreateQuota
<1>16. ASSUME NEW row \in QuotaRow, NEW i \in DOMAIN quotas, UpdateQuota(i, row)
       PROVE  MemberInv'
  BY <1>16, ElsewhereMember DEF UpdateQuota
<1>17. ASSUME NEW i \in DOMAIN quotas, DeleteQuota(i) PROVE MemberInv'
  BY <1>17, ElsewhereMember DEF DeleteQuota
<1> HIDE DEF MemberInv
<1> QED
  BY <1>1, <1>2, <1>3, <1>4, <1>5, <1>6, <1>7, <1>8, <1>9, <1>10, <1>11, <1>12,
     <1>13, <1>14, <1>15, <1>16, <1>17
  DEF Handlers, PauseDevice, PausePerson, ResumeDevice, ResumePerson

LEMMA MemberInit == Init => MemberInv
  BY HouseholdAssumption DEF Init, MemberInv, NoDanglingMember, Idle, DeviceRow, PersonRow, Choice

LEMMA MemberStep ==
    ASSUME MemberInv, [Next]_vars
    PROVE  MemberInv'
<1>1. CASE Handlers
  BY <1>1, HandlersMember
<1>2. CASE Tick \/ Sample \/ Purge \/ UNCHANGED vars
  BY <1>2, ElsewhereMember DEF Tick, Sample, Purge, vars
<1> QED
  BY <1>1, <1>2 DEF Next

(* However handlers, crashes, the sampler and the clock follow one another, and
   after whichever statement of a deletion the service dies, no device belongs
   to a person who is not there.                                             *)
THEOREM NobodyDangles == Spec => []NoDanglingMember
<1>1. MemberInv => NoDanglingMember
  BY DEF MemberInv
<1> QED
  BY <1>1, MemberInit, MemberStep, PTL DEF Spec

-----------------------------------------------------------------------------
(* Types. *)

LEMMA OnlyType ==
    ASSUME NEW S, NEW table \in Seq(S), NEW ids \in SUBSET (DOMAIN table)
    PROVE  Only(table, ids) \in Seq(S)
  BY LenProperties, OnlyRows

LEMMA RemoveAtType ==
    ASSUME NEW S, NEW table \in Seq(S), NEW i \in DOMAIN table
    PROVE  RemoveAt(table, i) \in Seq(S)
<1>1. /\ Len(table) \in Nat /\ i \in 1..Len(table)
      /\ \A j \in 1..Len(table) : table[j] \in S
  BY LenProperties, ElementOfSeq
<1>2. SubSeq(table, 1, i - 1) \in Seq(S) /\ SubSeq(table, i + 1, Len(table)) \in Seq(S)
  BY <1>1, SubSeqProperties
<1> QED
  BY <1>2, ConcatProperties DEF RemoveAt

LEMMA SetToSeqType ==
    ASSUME NEW S, IsFiniteSet(S)
    PROVE  SetToSeq(S) \in Seq(S)
<1>1. Cardinality(S) \in Nat /\ ExistsBijection(1..Cardinality(S), S)
  BY FS_CardinalityType
<1>2. \E f \in [1..Cardinality(S) -> S] : IsInjective(f)
  BY <1>1 DEF ExistsBijection, Bijection, Injection
<1>3. SetToSeq(S) \in [1..Cardinality(S) -> S]
  BY <1>2 DEF SetToSeq
<1> QED
  BY <1>1, <1>3, IsASeq

TypeInv == TypeOK /\ MemberInv

LEMMA OverridesType ==
    ASSUME TypeOK
    PROVE  /\ \A ids \in SUBSET (DOMAIN overrides) : Only(overrides, ids) \in Seq(OverrideRow)
           /\ \A ids \in SUBSET (DOMAIN schedules) : Only(schedules, ids) \in Seq(ScheduleRow)
           /\ \A ids \in SUBSET (DOMAIN quotas) : Only(quotas, ids) \in Seq(QuotaRow)
  BY OnlyType DEF TypeOK

LEMMA FamilyPauseType ==
    ASSUME TypeOK, NEW p \in Choice, NEW n \in PauseLengths, FamilyPause(p, n)
    PROVE  overrides' \in Seq(OverrideRow)
<1>1. PICK excluded \in SUBSET Targets, unassigned \in BOOLEAN :
         LET paused == {d \in Devices \ excluded :
                           /\ device[d].person \notin excluded
                           /\ device[d].person = None => unassigned}
             kept   == Without(overrides, LAMBDA o : o.target \in paused
                                                     /\ o.source = "family-pause")
             row(d) == [target |-> d, source |-> "family-pause", profile |-> p,
                        expires |-> now + n]
         IN  overrides' = kept \o SetToSeq({row(d) : d \in paused})
  BY DEF FamilyPause
<1> DEFINE paused == {d \in Devices \ excluded :
                         /\ device[d].person \notin excluded
                         /\ device[d].person = None => unassigned}
           ids == {i \in DOMAIN overrides : ~(/\ overrides[i].target \in paused
                                              /\ overrides[i].source = "family-pause")}
           row(d) == [target |-> d, source |-> "family-pause", profile |-> p,
                      expires |-> now + n]
           rows == {row(d) : d \in paused}
<1>2. overrides' = Only(overrides, ids) \o SetToSeq(rows)
  BY <1>1 DEF Without
<1>3. Only(overrides, ids) \in Seq(OverrideRow)
  BY OverridesType
<1>4. IsFiniteSet(rows)
  <2>1. IsFiniteSet(paused)
    BY HouseholdAssumption, FS_Subset
  <2>2. [d \in paused |-> row(d)] \in Surjection(paused, rows)
    BY DEF Surjection
  <2> QED
    BY <2>1, <2>2, FS_Surjection
<1>5. rows \subseteq OverrideRow
  <2>1. now + n \in Nat
    BY HouseholdAssumption DEF TypeOK
  <2>2. \A d \in paused : row(d) \in OverrideRow
    BY <2>1 DEF OverrideRow, Targets
  <2> QED
    BY <2>2
<1> HIDE DEF rows, ids
<1>6. SetToSeq(rows) \in Seq(OverrideRow)
  <2>1. SetToSeq(rows) \in Seq(rows)
    BY <1>4, SetToSeqType
  <2> QED
    BY <1>5, <2>1, SeqMonotonic
<1> QED
  BY <1>2, <1>3, <1>6, ConcatProperties

LEMMA StatementType ==
    ASSUME TypeInv, Statement
    PROVE  TypeOK'
<1> DEFINE p == deleting.person
           s == Head(deleting.left)
           Left == Seq({DeleteOrder[i] : i \in 1..5})
<1>1. MemberInv' /\ MemberInv
  BY StatementMember DEF TypeInv
<1>2. device' \in [Devices -> DeviceRow] /\ person' \in [People -> PersonRow]
  BY <1>1 DEF MemberInv
<1>3. overrides' \in Seq(OverrideRow)
  <2>1. CASE s = "overrides"
    <3>1. overrides' = Only(overrides, {i \in DOMAIN overrides : ~(overrides[i].target = p)})
      BY <2>1 DEF Statement, Without
    <3> QED
      BY <3>1, OverridesType DEF TypeInv
  <2>2. CASE s # "overrides"
    BY <2>2 DEF Statement, TypeInv, TypeOK
  <2> QED
    BY <2>1, <2>2
<1>4. schedules' \in Seq(ScheduleRow)
  <2>1. CASE s = "schedules"
    <3>1. schedules' = Only(schedules, {i \in DOMAIN schedules : ~(schedules[i].target = p)})
      BY <2>1 DEF Statement, Without
    <3> QED
      BY <3>1, OverridesType DEF TypeInv
  <2>2. CASE s # "schedules"
    BY <2>2 DEF Statement, TypeInv, TypeOK
  <2> QED
    BY <2>1, <2>2
<1>5. quotas' \in Seq(QuotaRow)
  <2>1. CASE s = "quotas"
    <3>1. quotas' = Only(quotas, {i \in DOMAIN quotas : ~(quotas[i].target = p)})
      BY <2>1 DEF Statement, Without
    <3> QED
      BY <3>1, OverridesType DEF TypeInv
  <2>2. CASE s # "quotas"
    BY <2>2 DEF Statement, TypeInv, TypeOK
  <2> QED
    BY <2>1, <2>2
<1>6. deleting' \in {None} \cup [person : People, left : Left]
  <2>1. ~Idle /\ deleting \in {None} \cup [person : People, left : Left]
    BY DEF Statement, TypeInv, TypeOK
  <2> HIDE DEF Left
  <2>2. deleting \in [person : People, left : Left] /\ deleting.left \in Remainders
    <3>1. deleting \in [person : People, left : Remainders]
      BY <1>1, <2>1 DEF MemberInv
    <3> QED
      BY <2>1, <3>1 DEF Idle
  <2>3. deleting.left # <<>>
    BY <2>2 DEF Remainders, DeleteOrder
  <2>4. Tail(deleting.left) \in Left
    BY <2>2, <2>3, HeadTailProperties DEF Left
  <2>5. deleting' = None \/ deleting' = [deleting EXCEPT !.left = Tail(@)]
    BY DEF Statement
  <2> QED
    BY <2>2, <2>4, <2>5
<1>7. now' = now /\ usage' = usage
  BY DEF Statement
<1> QED
  BY <1>2, <1>3, <1>4, <1>5, <1>6, <1>7 DEF TypeOK, TypeInv
LEMMA TablesType ==
    ASSUME TypeOK,
           \/ \E k \in Targets : Resume(k) \/ \E p \in Choice, n \in PauseLengths : Pause(k, p, n)
           \/ \E p \in Choice, n \in PauseLengths : FamilyPause(p, n)
           \/ FamilyResume
           \/ Purge
    PROVE  TypeOK'
<1>1. UNCHANGED <<now, device, person, schedules, quotas, usage, deleting>>
  BY DEF Resume, Pause, FamilyPause, FamilyResume, Purge
<1>2. overrides' \in Seq(OverrideRow)
  <2>1. ASSUME NEW k \in Targets, Resume(k) PROVE overrides' \in Seq(OverrideRow)
    <3>1. overrides' = Only(overrides, {i \in DOMAIN overrides :
                          ~(overrides[i].target = k /\ overrides[i].source = "manual")})
      BY <2>1 DEF Resume, Without
    <3> QED
      BY <3>1, OverridesType
  <2>2. ASSUME NEW k \in Targets, NEW p \in Choice, NEW n \in PauseLengths, Pause(k, p, n)
        PROVE  overrides' \in Seq(OverrideRow)
    <3> DEFINE ids == {i \in DOMAIN overrides :
                          ~(overrides[i].target = k /\ overrides[i].source = "manual")}
               row == [target |-> k, source |-> "manual", profile |-> p, expires |-> now + n]
    <3>1. overrides' = Append(Only(overrides, ids), row)
      BY <2>2 DEF Pause, Overridden, Without
    <3>2. row \in OverrideRow
      BY HouseholdAssumption DEF TypeOK, OverrideRow
    <3>3. Only(overrides, ids) \in Seq(OverrideRow)
      BY OverridesType
    <3> QED
      BY <3>1, <3>2, <3>3, AppendProperties
  <2>3. CASE FamilyResume
    <3>1. overrides' = Only(overrides, {i \in DOMAIN overrides :
                          ~(overrides[i].source = "family-pause")})
      BY <2>3 DEF FamilyResume, Without
    <3> QED
      BY <3>1, OverridesType
  <2>4. CASE Purge
    <3>1. overrides' = Only(overrides, {i \in DOMAIN overrides :
                          ~(overrides[i].expires <= now)})
      BY <2>4 DEF Purge, Without
    <3> QED
      BY <3>1, OverridesType
  <2> QED
    BY <2>1, <2>2, <2>3, <2>4, FamilyPauseType
<1> QED
  BY <1>1, <1>2 DEF TypeOK

LEMMA RulesType ==
    ASSUME TypeOK,
           \/ \E row \in ScheduleRow : \/ CreateSchedule(row)
                                       \/ \E i \in DOMAIN schedules : UpdateSchedule(i, row)
           \/ \E row \in QuotaRow : \/ CreateQuota(row)
                                    \/ \E i \in DOMAIN quotas : UpdateQuota(i, row)
           \/ \E i \in DOMAIN schedules : DeleteSchedule(i)
           \/ \E i \in DOMAIN quotas : DeleteQuota(i)
    PROVE  TypeOK'
<1>1. UNCHANGED <<now, device, person, overrides, usage, deleting>>
  BY DEF CreateSchedule, UpdateSchedule, DeleteSchedule, CreateQuota, UpdateQuota, DeleteQuota
<1>2. schedules \in Seq(ScheduleRow) /\ quotas \in Seq(QuotaRow)
  BY DEF TypeOK
<1>3. schedules' \in Seq(ScheduleRow) /\ quotas' \in Seq(QuotaRow)
  <2>1. ASSUME NEW row \in ScheduleRow, CreateSchedule(row)
        PROVE  schedules' \in Seq(ScheduleRow) /\ quotas' \in Seq(QuotaRow)
    BY <1>2, <2>1, AppendProperties DEF CreateSchedule
  <2>2. ASSUME NEW row \in ScheduleRow, NEW i \in DOMAIN schedules, UpdateSchedule(i, row)
        PROVE  schedules' \in Seq(ScheduleRow) /\ quotas' \in Seq(QuotaRow)
    BY <1>2, <2>2, ExceptSeq DEF UpdateSchedule
  <2>3. ASSUME NEW row \in QuotaRow, CreateQuota(row)
        PROVE  schedules' \in Seq(ScheduleRow) /\ quotas' \in Seq(QuotaRow)
    BY <1>2, <2>3, AppendProperties DEF CreateQuota
  <2>4. ASSUME NEW row \in QuotaRow, NEW i \in DOMAIN quotas, UpdateQuota(i, row)
        PROVE  schedules' \in Seq(ScheduleRow) /\ quotas' \in Seq(QuotaRow)
    BY <1>2, <2>4, ExceptSeq DEF UpdateQuota
  <2>5. ASSUME NEW i \in DOMAIN schedules, DeleteSchedule(i)
        PROVE  schedules' \in Seq(ScheduleRow) /\ quotas' \in Seq(QuotaRow)
    BY <1>2, <2>5, RemoveAtType DEF DeleteSchedule
  <2>6. ASSUME NEW i \in DOMAIN quotas, DeleteQuota(i)
        PROVE  schedules' \in Seq(ScheduleRow) /\ quotas' \in Seq(QuotaRow)
    BY <1>2, <2>6, RemoveAtType DEF DeleteQuota
  <2> QED
    BY <2>1, <2>2, <2>3, <2>4, <2>5, <2>6
<1> QED
  BY <1>1, <1>3 DEF TypeOK

LEMMA PeopleType ==
    ASSUME TypeInv, MemberInv',
           \/ \E d \in Devices, p \in Choice : SetDeviceProfile(d, p)
           \/ \E d \in Devices, p \in People \cup {None} : AttachPerson(d, p)
           \/ \E p \in People, b \in Choice : CreatePerson(p, b) \/ UpdatePerson(p, b)
    PROVE  TypeOK'
<1>1. UNCHANGED <<now, overrides, schedules, quotas, usage, deleting>>
  BY DEF SetDeviceProfile, AttachPerson, CreatePerson, UpdatePerson
<1>2. device' \in [Devices -> DeviceRow] /\ person' \in [People -> PersonRow]
  BY DEF MemberInv
<1> QED
  BY <1>1, <1>2 DEF TypeInv, TypeOK

LEMMA ClockType ==
    ASSUME TypeOK, Tick \/ Sample
    PROVE  TypeOK'
<1>1. UNCHANGED <<device, person, overrides, schedules, quotas, deleting>>
  BY DEF Tick, Sample
<1>2. now' \in Nat
  BY DEF Tick, Sample, TypeOK
<1>3. usage' \in [Targets -> Nat]
  <2>1. CASE Tick
    BY <2>1 DEF Tick, TypeOK
  <2>2. CASE Sample
    <3>1. PICK active \in SUBSET Devices \ {{}} :
             usage' = [k \in Targets |->
                         IF k \in active \cup {device[d].person : d \in active}
                         THEN usage[k] + 1 ELSE usage[k]]
      BY <2>2 DEF Sample
    <3>2. usage \in [Targets -> Nat]
      BY DEF TypeOK
    <3> QED
      BY <3>1, <3>2
  <2> QED
    BY <2>1, <2>2
<1> QED
  BY <1>1, <1>2, <1>3 DEF TypeOK

LEMMA StopsType ==
    ASSUME TypeOK, (\E p \in People : DeletePerson(p)) \/ Crash \/ UNCHANGED vars
    PROVE  TypeOK'
<1>1. UNCHANGED <<now, device, person, overrides, schedules, quotas, usage>>
  BY DEF DeletePerson, Crash, vars
<1>2. deleting' \in {None} \cup [person : People, left : Seq({DeleteOrder[i] : i \in 1..5})]
  <2> DEFINE Left == Seq({DeleteOrder[i] : i \in 1..5})
  <2>1. DeleteOrder \in Left
    BY DEF DeleteOrder
  <2>2. deleting \in {None} \cup [person : People, left : Left]
    BY DEF TypeOK
  <2> HIDE DEF Left
  <2>3. deleting' \in {None} \cup [person : People, left : Left]
    BY <2>1, <2>2 DEF DeletePerson, Crash, vars
  <2> QED
    BY <2>3 DEF Left
<1> QED
  BY <1>1, <1>2 DEF TypeOK

LEMMA TypeStep ==
    ASSUME TypeInv, [Next]_vars
    PROVE  TypeInv'
<1>1. MemberInv'
  BY MemberStep DEF TypeInv
<1>2. TypeOK'
  <2>1. CASE Handlers
    BY <1>1, <2>1, StatementType, TablesType, RulesType, PeopleType, StopsType
       DEF Handlers, TypeInv, Targets, PauseDevice, PausePerson, ResumeDevice, ResumePerson
  <2>2. CASE Tick \/ Sample \/ Purge \/ UNCHANGED vars
    BY <2>2, ClockType, TablesType, StopsType DEF TypeInv
  <2> QED
    BY <2>1, <2>2 DEF Next
<1> QED
  BY <1>1, <1>2 DEF TypeInv

LEMMA TypeInit == Init => TypeInv
<1> SUFFICES ASSUME Init PROVE TypeOK
  BY MemberInit DEF TypeInv
<1>1. device \in [Devices -> DeviceRow] /\ person \in [People -> PersonRow]
  BY DEF Init, DeviceRow, PersonRow, Choice
<1>2. now \in Nat /\ usage \in [Targets -> Nat] /\ deleting = None
  BY HouseholdAssumption DEF Init
<1>3. overrides = <<>> /\ schedules = <<>> /\ quotas = <<>>
  BY DEF Init
<1>4. overrides \in Seq(OverrideRow) /\ schedules \in Seq(ScheduleRow) /\ quotas \in Seq(QuotaRow)
  BY <1>3
<1> QED
  BY <1>1, <1>2, <1>4 DEF TypeOK

LEMMA TypeAlways == Spec => []TypeInv
  BY TypeInit, TypeStep, PTL DEF Spec

(* Whatever handlers, crashes, the sampler and the clock do, every table holds
   rows of its kind, NULL profiles among them, and what is left of a deletion
   is a part of it.                                                          *)
THEOREM HouseholdTypeCorrect == Spec => []TypeOK
<1>1. TypeInv => TypeOK
  BY DEF TypeInv
<1> QED
  BY <1>1, TypeAlways, PTL

(* At every minute the service may look at the clock, a window is taken for
   open exactly while an opening on an enabled day is less than its duration
   ago.                                                                      *)
THEOREM WindowsAreOpenings == Spec => []WindowIsOpening
<1>1. TypeInv => WindowIsOpening
  BY ActiveIsOpening DEF TypeInv, TypeOK, WindowIsOpening
<1> QED
  BY <1>1, TypeAlways, PTL

-----------------------------------------------------------------------------
(* What applies. *)

LEMMA RowsTyped ==
    ASSUME TypeOK
    PROVE  /\ \A i \in DOMAIN overrides : overrides[i] \in OverrideRow
           /\ \A i \in DOMAIN schedules : schedules[i] \in ScheduleRow
           /\ \A i \in DOMAIN quotas : quotas[i] \in QuotaRow
<1>1. overrides \in Seq(OverrideRow) /\ schedules \in Seq(ScheduleRow) /\ quotas \in Seq(QuotaRow)
  BY DEF TypeOK
<1> QED
  BY <1>1, ElementOfSeq, LenProperties

LEMMA WellSourced ==
    ASSUME TypeOK
    PROVE  Sourced(overrides) /\ overrides \in Seq(OverrideRow)
<1>1. overrides \in Seq(OverrideRow) /\ DOMAIN overrides = 1..Len(overrides)
  BY LenProperties DEF TypeOK
<1>2. \A i \in DOMAIN overrides : overrides[i].source \in Stored
  BY RowsTyped DEF OverrideRow, Stored
<1> QED
  BY <1>1, <1>2 DEF Sourced

\* Nothing changes for anyone when every target's rules come to the same.
LEMMA SameTraces ==
    ASSUME TypeOK, UNCHANGED <<device, person>>,
           \A k \in Targets, b \in Choice :
              Resolve(k, b, usage'[k], overrides', schedules', quotas', now')
                = Resolve(k, b, usage[k], overrides, schedules, quotas, now)
    PROVE  UNCHANGED effective
<1>1. \A d \in Devices : DeviceTrace(d)' = DeviceTrace(d)
  <2> SUFFICES ASSUME NEW d \in Devices PROVE DeviceTrace(d)' = DeviceTrace(d)
    OBVIOUS
  <2>1. d \in Targets /\ device[d].base \in Choice
    BY DEF Targets, TypeOK, DeviceRow
  <2> QED
    BY <2>1 DEF DeviceTrace, TraceOf
<1>2. \A d \in Devices : Governed(d) => PersonTrace(device[d].person)' = PersonTrace(device[d].person)
  <2> SUFFICES ASSUME NEW d \in Devices, Governed(d)
               PROVE  PersonTrace(device[d].person)' = PersonTrace(device[d].person)
    OBVIOUS
  <2>1. device[d].person \in Targets /\ person[device[d].person].base \in Choice
    BY DEF Governed, Here, Targets, TypeOK, PersonRow
  <2> QED
    BY <2>1 DEF PersonTrace, TraceOf
<1>3. \A d \in Devices : Governed(d)' <=> Governed(d)
  BY DEF Governed, Here
<1>4. \A d \in Devices : Effective(d)' = Effective(d)
  BY <1>1, <1>2, <1>3 DEF Effective
<1> QED
  BY <1>4 DEF effective

LEMMA PurgeKeepsTraces ==
    ASSUME TypeOK, Purge, NEW k \in Targets, NEW b \in Choice
    PROVE  Resolve(k, b, usage[k], overrides', schedules, quotas, now)
             = Resolve(k, b, usage[k], overrides, schedules, quotas, now)
<1> DEFINE kept == {i \in DOMAIN overrides : ~(overrides[i].expires <= now)}
<1>1. overrides' = Only(overrides, kept)
  BY DEF Purge, Without
<1>2. kept \in SUBSET (1..Len(overrides))
  BY LenProperties DEF TypeOK
<1>3. LiveOverrides(overrides, k, now) \subseteq kept
  <2>1. \A i \in DOMAIN overrides : overrides[i].expires \in Nat
    BY RowsTyped DEF OverrideRow
  <2> QED
    BY <2>1 DEF LiveOverrides, TypeOK
<1> HIDE DEF kept
<1> QED
  BY <1>1, <1>2, <1>3, WellSourced, DroppingTheDead

(* Dropping expired rows changes what applies to no one, even if the pass that
   should have dropped them comes in the very minute they expire.            *)
THEOREM PurgeChangesNothing == Spec => PurgeIsInvisible
<1>1. TypeInv /\ [Next]_vars => [Purge => UNCHANGED effective]_vars
  <2> SUFFICES ASSUME TypeOK, Purge PROVE UNCHANGED effective
    BY DEF TypeInv
  <2>1. UNCHANGED <<now, device, person, schedules, quotas, usage>>
    BY DEF Purge
  <2>2. \A k \in Targets, b \in Choice :
           Resolve(k, b, usage'[k], overrides', schedules', quotas', now')
             = Resolve(k, b, usage[k], overrides, schedules, quotas, now)
    BY <2>1, PurgeKeepsTraces
  <2> QED
    BY <2>1, <2>2, SameTraces
<1> QED
  BY <1>1, TypeAlways, PTL DEF Spec, PurgeIsInvisible

LEMMA QuietMinute ==
    ASSUME TypeOK, Tick, ~Boundary(now'), NEW k \in Targets
    PROVE  /\ LiveOverrides(overrides, k, now') = LiveOverrides(overrides, k, now)
           /\ OpenSchedules(schedules, k, now') = OpenSchedules(schedules, k, now)
           /\ SpentQuotas(quotas, k, usage'[k], now') = SpentQuotas(quotas, k, usage[k], now)
<1>1. now \in Nat /\ now' = now + 1
  BY DEF TypeOK, Tick
<1>2. LiveOverrides(overrides, k, now') = LiveOverrides(overrides, k, now)
  <2>1. \A i \in DOMAIN overrides : overrides[i].expires \in Nat
    BY RowsTyped DEF OverrideRow
  <2>2. \A i \in DOMAIN overrides : overrides[i].expires # now'
    BY DEF Boundary
  <2>3. \A i \in DOMAIN overrides : overrides[i].expires > now' <=> overrides[i].expires > now
    BY <1>1, <2>1, <2>2
  <2> QED
    BY <2>3 DEF LiveOverrides
<1>3. OpenSchedules(schedules, k, now') = OpenSchedules(schedules, k, now)
  <2>1. ASSUME NEW i \in DOMAIN schedules
        PROVE  WindowActive(schedules[i].window, now') <=> WindowActive(schedules[i].window, now)
    <3>1. schedules[i].window \in Window
      BY RowsTyped, HouseholdAssumption DEF ScheduleRow
    <3>2. ~Opens(schedules[i].window, now + 1) /\ ~Closes(schedules[i].window, now + 1)
      BY <1>1 DEF Boundary
    <3> QED
      BY <1>1, <3>1, <3>2, ActiveUntilBoundary
  <2> QED
    BY <2>1 DEF OpenSchedules
<1>4. SpentQuotas(quotas, k, usage'[k], now') = SpentQuotas(quotas, k, usage[k], now)
  <2>1. CASE Minute(now') = 0
    <3>1. quotas = <<>>
      BY <2>1 DEF Boundary
    <3> QED
      BY <3>1 DEF SpentQuotas
  <2>2. CASE Minute(now') # 0
    <3>1. usage' = usage
      BY <2>2 DEF Tick
    <3>2. Day(now') = Day(now)
      BY <1>1, <2>2, NextMinute
    <3> QED
      BY <3>1, <3>2 DEF SpentQuotas
  <2> QED
    BY <2>1, <2>2
<1> QED
  BY <1>2, <1>3, <1>4

(* The clock alone changes what applies to a device only when a window opens
   or closes, an override expires or a new day refills the quotas.           *)
THEOREM NothingFlaps == Spec => NoFlapping
<1>1. TypeInv /\ [Next]_vars => [Tick /\ ~Boundary(now') => UNCHANGED effective]_vars
  <2> SUFFICES ASSUME TypeOK, Tick, ~Boundary(now') PROVE UNCHANGED effective
    BY DEF TypeInv
  <2>1. UNCHANGED <<device, person, overrides, schedules, quotas>>
    BY DEF Tick
  <2>2. \A k \in Targets, b \in Choice :
           Resolve(k, b, usage'[k], overrides', schedules', quotas', now')
             = Resolve(k, b, usage[k], overrides, schedules, quotas, now)
    BY <2>1, QuietMinute DEF Resolve
  <2> QED
    BY <2>1, <2>2, SameTraces
<1> QED
  BY <1>1, TypeAlways, PTL DEF Spec, NoFlapping

\* A target whose quota is spent is still cut off after the clock or the sampler.
LEMMA CutPersists ==
    ASSUME TypeOK, TypeOK', NEW k \in Targets, NEW base,
           Resolve(k, base, usage[k], overrides, schedules, quotas, now).source = "quota",
           Tick \/ Sample, Day(now') = Day(now)
    PROVE  Resolve(k, base, usage'[k], overrides, schedules, quotas, now').source
              \in {"quota", "schedule"}
<1> DEFINE pt == Resolve(k, base, usage[k], overrides, schedules, quotas, now)
           nt == Resolve(k, base, usage'[k], overrides, schedules, quotas, now')
<1>1. /\ now \in Nat /\ now' \in {now, now + 1}
      /\ UNCHANGED quotas
  BY DEF Tick, Sample, TypeOK
<1>2. pt = Resolve(k, base, usage[k], overrides, schedules, quotas, now)
  OBVIOUS
<1>3. nt = Resolve(k, base, usage'[k], overrides, schedules, quotas, now')
  OBVIOUS
<1>9. pt.source = "quota"
  OBVIOUS
<1> HIDE DEF pt, nt
<1>4. /\ LiveOverrides(overrides, k, now) = {}
      /\ SpentQuotas(quotas, k, usage[k], now) # {}
  <2>1. LiveOverrides(overrides, k, now) # {} => pt.source \in Stored
    BY <1>2, WellSourced, ResolvedFrom
  <2>2. LiveOverrides(overrides, k, now) = {} /\ SpentQuotas(quotas, k, usage[k], now) = {}
          => pt.source \in {"schedule", "base", "no-profile"}
    <3>1. CASE OpenSchedules(schedules, k, now) = {}
      BY <1>2, <3>1, WellSourced, ResolvedFrom
    <3>2. CASE OpenSchedules(schedules, k, now) # {}
      BY <1>2, <3>2, WellSourced, ResolvedFrom
    <3> QED
      BY <3>1, <3>2
  <2> QED
    BY <1>9, <2>1, <2>2 DEF Stored
<1>5. LiveOverrides(overrides, k, now') = {}
  <2>1. \A i \in DOMAIN overrides : overrides[i].expires \in Nat
    BY RowsTyped DEF OverrideRow
  <2>2. \A i \in DOMAIN overrides : overrides[i].expires > now' => overrides[i].expires > now
    BY <1>1, <2>1
  <2> QED
    BY <1>4, <2>2 DEF LiveOverrides
<1>6. /\ usage[k] \in Nat /\ usage'[k] \in Nat
      /\ usage'[k] >= usage[k]
  <2>1. usage \in [Targets -> Nat] /\ usage' \in [Targets -> Nat]
    BY DEF TypeOK
  <2>2. CASE Sample
    BY <2>1, <2>2 DEF Sample
  <2>3. CASE Tick
    <3>1. now' = now + 1
      BY <2>3 DEF Tick
    <3>2. Minute(now') # 0
      BY <1>1, <3>1, NextMinute, DayAndMinute
    <3> QED
      BY <2>1, <2>3, <3>2 DEF Tick
  <2> QED
    BY <2>1, <2>2, <2>3
<1>7. SpentQuotas(quotas, k, usage'[k], now') # {}
  <2>1. \A i \in DOMAIN quotas : quotas[i].max \in Nat
    BY RowsTyped, HouseholdAssumption DEF QuotaRow
  <2>2. \A i \in DOMAIN quotas : usage[k] >= quotas[i].max => usage'[k] >= quotas[i].max
    BY <1>6, <2>1
  <2> QED
    BY <1>4, <2>2 DEF SpentQuotas
<1>8. LiveOverrides(overrides, k, now') = {} /\ SpentQuotas(quotas, k, usage'[k], now') # {}
        => nt.source \in {"quota", "schedule"}
  <2>1. CASE OpenSchedules(schedules, k, now') = {}
    BY <1>3, <2>1, WellSourced, ResolvedFrom
  <2>2. CASE OpenSchedules(schedules, k, now') # {}
    BY <1>3, <2>2, WellSourced, ResolvedFrom
  <2> QED
    BY <2>1, <2>2
<1> QED
  BY <1>5, <1>7, <1>8 DEF nt, pt

LEMMA RulesResolved ==
    ASSUME TypeOK, NEW k \in Devices \cup Here, UNCHANGED <<device, person>>
    PROVE  \E base \in Choice :
              /\ RuleOf(k) = Resolve(k, base, usage[k], overrides, schedules, quotas, now)
              /\ RuleOf(k)' = Resolve(k, base, usage'[k], overrides', schedules', quotas', now')
<1>1. CASE k \in Devices
  <2>1. device[k].base \in Choice
    BY <1>1 DEF TypeOK, DeviceRow
  <2> QED
    BY <1>1, <2>1 DEF RuleOf, DeviceTrace, TraceOf
<1>2. CASE k \notin Devices
  <2>1. person[k].base \in Choice
    BY <1>2 DEF TypeOK, PersonRow, Here
  <2> QED
    BY <1>2, <2>1 DEF RuleOf, PersonTrace, TraceOf
<1> QED
  BY <1>1, <1>2

(* Once a quota has cut a person or a device off, neither time nor more activity
   lifts the cut before midnight: only a schedule can take over.             *)
THEOREM SpentStaysSpent == Spec => CutStaysCut
<1>1. TypeInv /\ TypeInv' /\ [Next]_vars =>
        [ \A k \in Devices \cup Here :
             /\ RuleOf(k).source = "quota"
             /\ Tick \/ Sample \/ Purge
             /\ Day(now') = Day(now)
             => RuleOf(k)'.source \in {"quota", "schedule"} ]_vars
  <2> SUFFICES ASSUME TypeOK, TypeOK', NEW k \in Devices \cup Here,
                      RuleOf(k).source = "quota",
                      Tick \/ Sample \/ Purge, Day(now') = Day(now)
               PROVE  RuleOf(k)'.source \in {"quota", "schedule"}
    BY DEF TypeInv
  <2>1. UNCHANGED <<device, person, schedules, quotas>> /\ k \in Targets
    BY DEF Tick, Sample, Purge, Targets, Here
  <2>2. PICK base \in Choice :
              /\ RuleOf(k) = Resolve(k, base, usage[k], overrides, schedules, quotas, now)
              /\ RuleOf(k)' = Resolve(k, base, usage'[k], overrides', schedules', quotas', now')
    BY <2>1, RulesResolved
  <2>3. CASE Tick \/ Sample
    <3>1. overrides' = overrides
      BY <2>3 DEF Tick, Sample
    <3>2. Resolve(k, base, usage'[k], overrides, schedules, quotas, now').source
             \in {"quota", "schedule"}
      BY <2>1, <2>2, <2>3, CutPersists
    <3> QED
      BY <2>1, <2>2, <3>1, <3>2
  <2>4. CASE Purge
    <3>1. now' = now /\ usage' = usage
      BY <2>4 DEF Purge
    <3>2. Resolve(k, base, usage[k], overrides', schedules, quotas, now)
             = Resolve(k, base, usage[k], overrides, schedules, quotas, now)
      BY <2>1, <2>4, PurgeKeepsTraces
    <3> QED
      BY <2>1, <2>2, <3>1, <3>2
  <2> QED
    BY <2>3, <2>4
<1> QED
  BY <1>1, TypeAlways, PTL DEF Spec, CutStaysCut

-----------------------------------------------------------------------------
(* What is set by hand holds.                                               *)

Table(ov) == /\ ov \in Seq(OverrideRow)
             /\ Sourced(ov)
             /\ \A i \in DOMAIN ov : ov[i].expires \in Nat

\* The strongest override of k at t was set by hand and is in force until after t2.
OnTop(ov, k, t, t2, top) ==
    /\ LiveOverrides(ov, k, t) # {}
    /\ top = Strongest(ov, LiveOverrides(ov, k, t))
    /\ ov[top].source = "manual" /\ ov[top].expires > t2

\* The first n rows of ov2 are rows of ov, in their order, and row top is one of
\* them; no later row is by hand for k.
KeepsRow(ov, ov2, k, top, n, at) ==
    /\ n \in 0..Len(ov2) /\ at \in [1..n -> DOMAIN ov]
    /\ \A m \in 1..n : ov2[m] = ov[at[m]]
    /\ \A l, m \in 1..n : l < m => at[l] < at[m]
    /\ \E m \in 1..n : at[m] = top
    /\ \A m \in n + 1..Len(ov2) : ~(ov2[m].target = k /\ ov2[m].source = "manual")

\* The strongest override of k stays the strongest in a table that still has it
\* where it was among the rows it was with, and no new row by hand for k.
LEMMA TopStays ==
    ASSUME NEW ov, NEW ov2, Table(ov), Table(ov2),
           NEW k, NEW t \in Nat, NEW t2 \in Nat, t <= t2,
           NEW top, OnTop(ov, k, t, t2, top),
           NEW n, NEW at, KeepsRow(ov, ov2, k, top, n, at)
    PROVE  /\ LiveOverrides(ov2, k, t2) # {}
           /\ ov2[Strongest(ov2, LiveOverrides(ov2, k, t2))] = ov[top]
<1> DEFINE live  == LiveOverrides(ov, k, t)
           live2 == LiveOverrides(ov2, k, t2)
           top2  == Strongest(ov2, live2)
<1> USE DEF Table, OnTop, KeepsRow
<1>1. /\ Len(ov) \in Nat /\ DOMAIN ov = 1..Len(ov)
      /\ Len(ov2) \in Nat /\ DOMAIN ov2 = 1..Len(ov2)
  BY LenProperties
<1>2. live \in SUBSET (1..Len(ov)) /\ live2 \in SUBSET (1..Len(ov2))
  BY <1>1 DEF LiveOverrides
<1>3. /\ \A i \in live : ov[i].source \in Stored
      /\ \A i \in live2 : ov2[i].source \in Stored
  BY <1>1, <1>2 DEF Sourced
<1>4. /\ top \in live
      /\ \A j \in live : Priority(ov[j].source) = Priority(ov[top].source) => j <= top
  BY <1>1, <1>2, <1>3, StrongestRow
<1>5. PICK m0 \in 1..n : at[m0] = top
  OBVIOUS
<1>6. m0 \in live2 /\ ov2[m0] = ov[top]
  BY <1>1, <1>4, <1>5 DEF LiveOverrides
<1>7. /\ top2 \in live2
      /\ Priority(ov2[m0].source) <= Priority(ov2[top2].source)
      /\ Priority(ov2[m0].source) = Priority(ov2[top2].source) => m0 <= top2
  BY <1>1, <1>2, <1>3, <1>6, StrongestRow
<1>8. ov2[top2].source = "manual" /\ m0 <= top2
  BY <1>3, <1>6, <1>7 DEF Priority, Stored
<1> HIDE DEF top2
<1>9. top2 \in 1..n
  <2>1. ov2[top2].target = k /\ top2 \in 1..Len(ov2)
    BY <1>1, <1>7 DEF LiveOverrides
  <2> QED
    BY <1>1, <1>8, <2>1
<1>10. at[top2] \in live
  <2>1. at[top2] \in DOMAIN ov /\ ov2[top2] = ov[at[top2]]
    BY <1>9
  <2>2. ov[at[top2]].target = k /\ ov[at[top2]].expires > t2
    BY <1>7, <2>1 DEF LiveOverrides
  <2> QED
    BY <2>1, <2>2 DEF LiveOverrides
<1>11. at[top2] <= at[m0]
  BY <1>4, <1>5, <1>8, <1>9, <1>10
<1>12. top2 = m0
  <2>1. m0 < top2 => at[m0] < at[top2]
    BY <1>9
  <2>2. at[m0] \in Nat /\ at[top2] \in Nat
    BY <1>1, <1>9
  <2> QED
    BY <1>8, <1>9, <1>11, <2>1, <2>2
<1> QED
  BY <1>6, <1>12 DEF top2

\* The same for a table some rows are deleted from and some are added to.
LEMMA TopIsKept ==
    ASSUME NEW ov, NEW ov2, Table(ov), Table(ov2), NEW k, NEW t \in Nat,
           NEW top, OnTop(ov, k, t, t, top),
           NEW ids \in SUBSET (DOMAIN ov), top \in ids,
           NEW rest, rest = Only(ov, ids),
           Len(rest) <= Len(ov2),
           \A m \in 1..Len(rest) : ov2[m] = rest[m],
           \A m \in Len(rest) + 1..Len(ov2) :
              ~(ov2[m].target = k /\ ov2[m].source = "manual")
    PROVE  /\ LiveOverrides(ov2, k, t) # {}
           /\ ov2[Strongest(ov2, LiveOverrides(ov2, k, t))] = ov[top]
<1>1. ov \in Seq(OverrideRow) /\ ov2 \in Seq(OverrideRow) /\ DOMAIN ov = 1..Len(ov)
  BY LenProperties DEF Table
<1>2. ids \in SUBSET (1..Len(ov))
  BY <1>1
<1>3. rest \in Seq(OverrideRow)
  BY <1>1, <1>2, OnlyRows
<1>4. PICK at \in [1..Len(rest) -> ids] :
         /\ \A m \in 1..Len(rest) : rest[m] = ov[at[m]]
         /\ \A l, m \in 1..Len(rest) : l < m => at[l] < at[m]
         /\ \A i \in ids : \E m \in 1..Len(rest) : at[m] = i
  <2> DEFINE R == OverrideRow
  <2>1. ov \in Seq(R) /\ ids \in SUBSET (1..Len(ov))
    BY <1>1, <1>2
  <2> HIDE DEF R
  <2>2. \E at \in [1..Len(Only(ov, ids)) -> ids] :
           /\ \A m \in 1..Len(Only(ov, ids)) : Only(ov, ids)[m] = ov[at[m]]
           /\ \A l, m \in 1..Len(Only(ov, ids)) : l < m => at[l] < at[m]
           /\ \A i \in ids : \E m \in 1..Len(Only(ov, ids)) : at[m] = i
    BY <2>1, OnlyRows
  <2> QED
    BY <2>2
<1>5. KeepsRow(ov, ov2, k, top, Len(rest), at)
  <2>1. Len(rest) \in Nat /\ Len(ov2) \in Nat
    BY <1>1, <1>3, LenProperties
  <2>2. at \in [1..Len(rest) -> DOMAIN ov] /\ \E m \in 1..Len(rest) : at[m] = top
    BY <1>4
  <2>3. \A m \in 1..Len(rest) : ov2[m] = ov[at[m]]
    BY <1>4
  <2> QED
    BY <1>4, <2>1, <2>2, <2>3 DEF KeepsRow
<1>6. t <= t
  OBVIOUS
<1> QED
  BY <1>5, <1>6, TopStays

\* The override by hand that a target has on top stays there, whatever step is
\* taken but a pause, a resume or the deletion of that target.
LEMMA HeldStays ==
    ASSUME TypeOK, TypeOK', [Next]_vars, NEW k, HeldByHand(k, now'), ~Resume(k),
           ~\E p \in Choice, n \in PauseLengths : Pause(k, p, n),
           ~Idle /\ Head(deleting.left) = "overrides" => deleting.person # k
    PROVE  /\ LiveOverrides(overrides', k, now') # {}
           /\ overrides'[Strongest(overrides', LiveOverrides(overrides', k, now'))]
                = overrides[Strongest(overrides, LiveOverrides(overrides, k, now))]
<1> DEFINE live == LiveOverrides(overrides, k, now)
           top  == Strongest(overrides, live)
           Stays == /\ LiveOverrides(overrides', k, now') # {}
                    /\ overrides'[Strongest(overrides', LiveOverrides(overrides', k, now'))]
                         = overrides[top]
<1>0. Table(overrides) /\ Table(overrides')
  <2>1. overrides \in Seq(OverrideRow) /\ overrides' \in Seq(OverrideRow)
    BY DEF TypeOK
  <2>2. /\ \A i \in DOMAIN overrides : overrides[i] \in OverrideRow
        /\ \A i \in DOMAIN overrides' : overrides'[i] \in OverrideRow
    BY <2>1, ElementOfSeq, LenProperties
  <2> QED
    BY <2>1, <2>2 DEF Table, Sourced, OverrideRow, Stored
<1>1. /\ live # {} /\ overrides[top].source = "manual" /\ overrides[top].expires > now'
      /\ OnTop(overrides, k, now, now', top)
  BY DEF HeldByHand, OnTop
<1>2. /\ overrides \in Seq(OverrideRow) /\ Len(overrides) \in Nat
      /\ DOMAIN overrides = 1..Len(overrides) /\ now \in Nat /\ now' \in Nat
  BY LenProperties DEF TypeOK
<1>3. top \in DOMAIN overrides /\ overrides[top].target = k
  <2>1. live \in SUBSET (1..Len(overrides))
    BY <1>2 DEF LiveOverrides
  <2>2. \A i \in live : overrides[i].source \in Stored
    BY <1>2, <2>1, WellSourced DEF Sourced
  <2>3. top \in live
    BY <1>1, <1>2, <2>1, <2>2, StrongestRow
  <2> QED
    BY <2>3 DEF LiveOverrides
<1> HIDE DEF top
<1>4. CASE overrides' = overrides
  <2>1. now <= now'
    <3>1. now' = now \/ Tick
      BY DEF Next, Handlers, Sample, Purge, vars, SetDeviceProfile,
         AttachPerson, CreatePerson, UpdatePerson, PauseDevice, PausePerson, ResumeDevice,
         ResumePerson, Pause, Resume, FamilyPause, FamilyResume, CreateSchedule,
         UpdateSchedule, DeleteSchedule, CreateQuota, UpdateQuota, DeleteQuota,
         DeletePerson, Statement, Crash
    <3>2. now' = now \/ now' = now + 1
      BY <3>1 DEF Tick
    <3> QED
      BY <1>2, <3>2
  <2> DEFINE at == [m \in 1..Len(overrides) |-> m]
  <2>2. KeepsRow(overrides, overrides, k, top, Len(overrides), at)
    BY <1>2, <1>3 DEF KeepsRow
  <2> HIDE DEF at
  <2>3. /\ LiveOverrides(overrides, k, now') # {}
        /\ overrides[Strongest(overrides, LiveOverrides(overrides, k, now'))]
             = overrides[top]
    BY <1>0, <1>1, <1>2, <2>1, <2>2, TopStays
  <2> QED
    BY <1>4, <2>3 DEF top
\* The steps that delete rows and add none.
<1>5. ASSUME NEW ids \in SUBSET (DOMAIN overrides), top \in ids, now' = now,
             overrides' = Only(overrides, ids)
      PROVE  Stays
  <2>1. Len(overrides') \in Nat
    BY LenProperties DEF TypeOK
  <2>2. OnTop(overrides, k, now, now, top)
    BY <1>1, <1>5
  <2>3. /\ Len(Only(overrides, ids)) <= Len(overrides')
        /\ \A m \in 1..Len(Only(overrides, ids)) : overrides'[m] = Only(overrides, ids)[m]
        /\ \A m \in Len(Only(overrides, ids)) + 1..Len(overrides') :
              ~(overrides'[m].target = k /\ overrides'[m].source = "manual")
    BY <1>5, <2>1
  <2> QED
    BY <1>0, <1>2, <1>5, <2>2, <2>3, TopIsKept
<1>6. ASSUME NEW q, Resume(q) PROVE Stays
  <2>1. q # k
    BY <1>6
  <2>2. overrides' = Only(overrides, {i \in DOMAIN overrides :
                        ~(overrides[i].target = q /\ overrides[i].source = "manual")})
    BY <1>6 DEF Resume, Without
  <2> QED
    BY <1>3, <1>5, <1>6, <2>1, <2>2 DEF Resume
<1>7. CASE FamilyResume
  <2>1. overrides' = Only(overrides, {i \in DOMAIN overrides :
                        ~(overrides[i].source = "family-pause")})
    BY <1>7 DEF FamilyResume, Without
  <2>2. /\ top \in {i \in DOMAIN overrides : ~(overrides[i].source = "family-pause")}
        /\ {i \in DOMAIN overrides : ~(overrides[i].source = "family-pause")}
              \in SUBSET (DOMAIN overrides)
        /\ now' = now
    BY <1>1, <1>3, <1>7 DEF FamilyResume
  <2> QED
    BY <1>5, <2>1, <2>2 DEF top
<1>8. CASE Purge
  <2>1. overrides' = Only(overrides, {i \in DOMAIN overrides :
                        ~(overrides[i].expires <= now)})
    BY <1>8 DEF Purge, Without
  <2>2. now' = now
    BY <1>8 DEF Purge
  <2>3. ~(overrides[top].expires <= now)
    BY <1>1, <1>2, <1>3, <2>2, RowsTyped DEF OverrideRow
  <2>4. /\ top \in {i \in DOMAIN overrides : ~(overrides[i].expires <= now)}
        /\ {i \in DOMAIN overrides : ~(overrides[i].expires <= now)}
              \in SUBSET (DOMAIN overrides)
    BY <1>3, <2>3
  <2> QED
    BY <1>5, <2>1, <2>2, <2>4 DEF top
<1>9. CASE Statement
  <2>1. CASE Head(deleting.left) = "overrides"
    <3>1. overrides' = Only(overrides, {i \in DOMAIN overrides :
                          ~(overrides[i].target = deleting.person)})
      BY <1>9, <2>1 DEF Statement, Without
    <3>2. deleting.person # k /\ now' = now
      BY <1>9, <2>1 DEF Statement
    <3>3. /\ top \in {i \in DOMAIN overrides : ~(overrides[i].target = deleting.person)}
          /\ {i \in DOMAIN overrides : ~(overrides[i].target = deleting.person)}
                \in SUBSET (DOMAIN overrides)
      BY <1>3, <3>2
    <3> QED
      BY <1>5, <3>1, <3>2, <3>3 DEF top
  <2>2. CASE Head(deleting.left) # "overrides"
    BY <1>4, <1>9, <2>2 DEF Statement
  <2> QED
    BY <2>1, <2>2
<1>10. ASSUME NEW q, NEW p \in Choice, NEW n \in PauseLengths, Pause(q, p, n)
       PROVE  Stays
  <2> DEFINE ids == {i \in DOMAIN overrides :
                        ~(overrides[i].target = q /\ overrides[i].source = "manual")}
             row == [target |-> q, source |-> "manual", profile |-> p, expires |-> now + n]
             rest == Only(overrides, ids)
  <2>1. q # k /\ now' = now
    BY <1>10 DEF Pause
  <2>2. overrides' = Append(rest, row)
    BY <1>10 DEF Pause, Overridden, Without
  <2>3. rest \in Seq(OverrideRow)
    BY OverridesType
  <2>4. top \in ids /\ ids \in SUBSET (DOMAIN overrides)
    BY <1>3, <2>1
  <2>5. row.target = q
    OBVIOUS
  <2> HIDE DEF ids, row
  <2>6. /\ Len(rest) \in Nat /\ Len(overrides') = Len(rest) + 1
        /\ \A m \in 1..Len(rest) : overrides'[m] = rest[m]
        /\ overrides'[Len(rest) + 1] = row
    <3> HIDE DEF rest
    <3>1. Len(rest) \in Nat
      BY <2>3, LenProperties
    <3>2. rest \in Seq(OverrideRow \cup {row})
      BY <2>3, SeqMonotonic
    <3> QED
      BY <2>2, <3>1, <3>2, AppendProperties
  <2>7. \A m \in Len(rest) + 1..Len(overrides') :
           ~(overrides'[m].target = k /\ overrides'[m].source = "manual")
    BY <2>1, <2>5, <2>6
  <2>8. OnTop(overrides, k, now, now, top)
    BY <1>1, <2>1
  <2> QED
    BY <1>0, <1>2, <2>1, <2>4, <2>6, <2>7, <2>8, TopIsKept
<1>11. ASSUME NEW p \in Choice, NEW n \in PauseLengths, FamilyPause(p, n)
       PROVE  Stays
  <2>1. PICK excluded \in SUBSET Targets, unassigned \in BOOLEAN :
           LET paused == {d \in Devices \ excluded :
                             /\ device[d].person \notin excluded
                             /\ device[d].person = None => unassigned}
               kept   == Without(overrides, LAMBDA o : o.target \in paused
                                                       /\ o.source = "family-pause")
               row(d) == [target |-> d, source |-> "family-pause", profile |-> p,
                          expires |-> now + n]
           IN  overrides' = kept \o SetToSeq({row(d) : d \in paused})
    BY <1>11 DEF FamilyPause
  <2> DEFINE paused == {d \in Devices \ excluded :
                           /\ device[d].person \notin excluded
                           /\ device[d].person = None => unassigned}
             ids == {i \in DOMAIN overrides : ~(/\ overrides[i].target \in paused
                                                /\ overrides[i].source = "family-pause")}
             row(d) == [target |-> d, source |-> "family-pause", profile |-> p,
                        expires |-> now + n]
             rows == {row(d) : d \in paused}
             rest == Only(overrides, ids)
             new  == SetToSeq(rows)
  <2>2. overrides' = rest \o new
    BY <2>1 DEF Without
  <2>3. IsFiniteSet(rows)
    <3>1. IsFiniteSet(paused)
      BY HouseholdAssumption, FS_Subset
    <3>2. [d \in paused |-> row(d)] \in Surjection(paused, rows)
      BY DEF Surjection
    <3> QED
      BY <3>1, <3>2, FS_Surjection
  <2>4. \A r \in rows : r.source = "family-pause"
    OBVIOUS
  <2>5. top \in ids /\ ids \in SUBSET (DOMAIN overrides) /\ now' = now
    BY <1>1, <1>3, <1>11 DEF FamilyPause
  <2> HIDE DEF rows, ids
  <2>6. rest \in Seq(OverrideRow) /\ new \in Seq(rows)
    BY <2>3, <2>5, OverridesType, SetToSeqType
  <2> HIDE DEF rest, new
  <2>7. /\ Len(rest) \in Nat /\ Len(new) \in Nat
        /\ Len(overrides') = Len(rest) + Len(new)
        /\ \A m \in 1..Len(rest) : overrides'[m] = rest[m]
        /\ \A m \in Len(rest) + 1..Len(rest) + Len(new) :
              overrides'[m] = new[m - Len(rest)]
    <3>1. rest \in Seq(OverrideRow \cup rows) /\ new \in Seq(OverrideRow \cup rows)
      BY <2>6, SeqMonotonic
    <3>2. Len(rest) \in Nat /\ Len(new) \in Nat
      BY <2>6, LenProperties
    <3>3. /\ Len(rest \o new) = Len(rest) + Len(new)
          /\ \A m \in 1..Len(rest) + Len(new) :
                (rest \o new)[m] = IF m <= Len(rest) THEN rest[m] ELSE new[m - Len(rest)]
      BY <3>1, ConcatProperties
    <3> QED
      BY <2>2, <3>2, <3>3
  <2>8. \A m \in 1..Len(new) : new[m].source = "family-pause"
    BY <2>4, <2>6, ElementOfSeq
  <2>9. \A m \in Len(rest) + 1..Len(overrides') :
           ~(overrides'[m].target = k /\ overrides'[m].source = "manual")
    <3> SUFFICES ASSUME NEW m \in Len(rest) + 1..Len(overrides')
                 PROVE  overrides'[m].source # "manual"
      OBVIOUS
    <3>1. m - Len(rest) \in 1..Len(new) /\ overrides'[m] = new[m - Len(rest)]
      BY <2>7
    <3>2. new[m - Len(rest)].source = "family-pause"
      BY <2>8, <3>1
    <3> QED
      BY <3>1, <3>2
  <2>10. OnTop(overrides, k, now, now, top)
    BY <1>1, <2>5
  <2>11. rest = Only(overrides, ids) /\ Len(rest) <= Len(overrides')
    BY <2>7 DEF rest
  <2> QED
    BY <1>0, <1>2, <2>5, <2>7, <2>9, <2>10, <2>11, TopIsKept
<1>12. \/ overrides' = overrides
       \/ \E q : Resume(q) \/ \E p \in Choice, n \in PauseLengths : Pause(q, p, n)
       \/ \E p \in Choice, n \in PauseLengths : FamilyPause(p, n)
       \/ FamilyResume \/ Purge \/ Statement
  BY DEF Next, Handlers, Tick, Sample, vars, SetDeviceProfile, AttachPerson, CreatePerson,
     UpdatePerson, PauseDevice, PausePerson, ResumeDevice, ResumePerson, CreateSchedule,
     UpdateSchedule, DeleteSchedule, CreateQuota, UpdateQuota, DeleteQuota,
     DeletePerson, Crash
<1> QED
  BY <1>4, <1>6, <1>7, <1>8, <1>9, <1>10, <1>11, <1>12 DEF top

\* Whom the override on top decides for gets its profile.
LEMMA ManualResolves ==
    ASSUME NEW target, NEW base, NEW minutes, NEW ov, NEW sch, NEW q, NEW t,
           LiveOverrides(ov, target, t) # {},
           NEW row, row = ov[Strongest(ov, LiveOverrides(ov, target, t))],
           row.source = "manual"
    PROVE  Resolve(target, base, minutes, ov, sch, q, t) = Trace(Chosen(row.profile), "manual")
  BY DEF Resolve

LEMMA ManualMerges ==
    ASSUME NEW own, NEW p
    PROVE  MergePersonIntoDevice(own, Trace(p, "manual")) = Trace(p, "manual")
  BY DEF MergePersonIntoDevice, Baseline, Trace

(* What somebody has set by hand, for a person or for a device of nobody's,
   stays in force on the devices it decides about until its time is over,
   unless the same target is paused or resumed.                              *)
THEOREM PausesHold == Spec => PauseHolds
<1>1. TypeInv /\ TypeInv' /\ [Next]_vars =>
        [ \A d \in Devices :
             LET target == DecidedBy(d)
             IN  /\ DecidedBy(d)' = target
                 /\ HeldByHand(target, now')
                 /\ ~Resume(target)
                 /\ ~\E p \in Choice, n \in PauseLengths : Pause(target, p, n)
                 => Effective(d)' = Effective(d) ]_vars
  <2> SUFFICES ASSUME TypeInv, TypeInv', [Next]_vars, NEW d \in Devices,
                      DecidedBy(d)' = DecidedBy(d),
                      HeldByHand(DecidedBy(d), now'), ~Resume(DecidedBy(d)),
                      ~\E p \in Choice, n \in PauseLengths : Pause(DecidedBy(d), p, n)
               PROVE  Effective(d)' = Effective(d)
    OBVIOUS
  <2> DEFINE k    == DecidedBy(d)
             live == LiveOverrides(overrides, k, now)
             row  == overrides[Strongest(overrides, live)]
  <2>1. ~Idle /\ Head(deleting.left) = "overrides" => deleting.person # k
    <3> SUFFICES ASSUME ~Idle, Head(deleting.left) = "overrides"
                 PROVE  deleting.person # k
      OBVIOUS
    <3>1. deleting.person \in People /\ device[d].person # deleting.person
      BY DEF TypeInv, MemberInv
    <3> QED
      BY <3>1, HouseholdAssumption DEF DecidedBy
  <2>2. live # {} /\ row.source = "manual"
    BY DEF HeldByHand
  <2>3. /\ LiveOverrides(overrides', k, now') # {}
        /\ overrides'[Strongest(overrides', LiveOverrides(overrides', k, now'))] = row
    BY <2>1, HeldStays DEF TypeInv
  <2> DEFINE held == Trace(Chosen(row.profile), "manual")
  <2>4. Effective(d) = held
    <3>1. CASE Governed(d)
      <4>1. k = device[d].person
        BY <3>1 DEF DecidedBy
      <4>2. PersonTrace(device[d].person) = held
        BY <2>2, <4>1, ManualResolves DEF PersonTrace, TraceOf
      <4> QED
        BY <3>1, <4>2, ManualMerges DEF Effective
    <3>2. CASE ~Governed(d)
      <4>1. k = d
        BY <3>2 DEF DecidedBy
      <4>2. DeviceTrace(d) = held
        BY <2>2, <4>1, ManualResolves DEF DeviceTrace, TraceOf
      <4> QED
        BY <3>2, <4>2 DEF Effective
    <3> QED
      BY <3>1, <3>2
  <2>5. Effective(d)' = held
    <3> HIDE DEF row
    <3>1. CASE Governed(d)'
      <4>1. k = device'[d].person
        BY <3>1 DEF DecidedBy
      <4>2. PersonTrace(device[d].person)' = held
        BY <2>2, <2>3, <4>1, ManualResolves DEF PersonTrace, TraceOf
      <4> QED
        BY <3>1, <4>2, ManualMerges DEF Effective
    <3>2. CASE ~Governed(d)'
      <4>1. k = d
        BY <3>2 DEF DecidedBy
      <4>2. DeviceTrace(d)' = held
        BY <2>2, <2>3, <4>1, ManualResolves DEF DeviceTrace, TraceOf
      <4> QED
        BY <3>2, <4>2 DEF Effective
    <3> QED
      BY <3>1, <3>2
  <2> QED
    BY <2>4, <2>5
<1> QED
  BY <1>1, TypeAlways, PTL DEF Spec, PauseHolds
=============================================================================
