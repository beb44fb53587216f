--------------------------- MODULE AsusRulesProofs ---------------------------
(* The router's lists, for any number of devices, passes, edits and faults. *)
EXTENDS AsusRules, TLAPS

\* What an action of p does to the other passes.
OthersKeep(p) == \A q \in Passes \ {p} : job'[q] = job[q]

LEMMA NoJobIsJob == NoJob \in Job
  BY DEF NoJob, Job, NoEntries, Steps, Stages, Entry

LEMMA FinishedJob ==
    ASSUME TypeOK, NEW p \in Passes, Finish(p)
    PROVE  /\ job' \in [Passes -> Job]
           /\ OthersKeep(p)
           /\ job'[p].step \in {"idle", "load"}
<1>1. job[p] \in Job
  BY DEF TypeOK
<1>2. \/ job'[p] = NoJob
      \/ job'[p] = [NoJob EXCEPT !.step = "load", !.stage = "dns", !.want = job[p].want]
  BY DEF Finish, TypeOK
<1>3. job'[p] \in Job /\ job'[p].step \in {"idle", "load"}
  BY <1>1, <1>2, NoJobIsJob DEF Job, NoJob, Steps, Stages
<1>4. OthersKeep(p) /\ job' = [job EXCEPT ![p] = job'[p]]
  BY DEF Finish, TypeOK, OthersKeep
<1> QED
  BY <1>3, <1>4 DEF TypeOK

LEMMA BegunJob ==
    ASSUME TypeOK, NEW p \in Passes, Begin(p)
    PROVE  job' \in [Passes -> Job] /\ OthersKeep(p) /\ job'[p].step = "load"
<1>1. \A s \in Stages : Desired(s) \in SUBSET Managed
  BY DEF Desired
<1>2. job'[p] = [NoJob EXCEPT !.step = "load", !.want = [s \in Stages |-> Desired(s)]]
  BY DEF Begin, TypeOK
<1>3. job'[p] \in Job /\ job'[p].step = "load"
  <2> DEFINE want == [s \in Stages |-> Desired(s)]
  <2>1. want \in [Stages -> SUBSET Managed]
    BY <1>1
  <2> HIDE DEF want
  <2>2. [NoJob EXCEPT !.step = "load", !.want = want] \in Job
    BY <2>1, NoJobIsJob DEF Job, NoJob, Steps
  <2> QED
    BY <1>2, <2>2 DEF NoJob, want
<1>4. OthersKeep(p) /\ job' = [job EXCEPT ![p] = job'[p]]
  BY DEF Begin, TypeOK, OthersKeep
<1> QED
  BY <1>3, <1>4 DEF TypeOK

LEMMA LoadedJob ==
    ASSUME TypeOK, NEW p \in Passes, Load(p)
    PROVE  /\ job' \in [Passes -> Job]
           /\ OthersKeep(p)
           /\ job'[p].step = "fetch" /\ job'[p].stage = job[p].stage
           /\ job'[p].prev = managed[job[p].stage]
<1> DEFINE j == job[p]
           want == [j.want EXCEPT ![j.stage] = IF Off(p) THEN {} ELSE @]
<1>1. j \in Job /\ managed[j.stage] \in SUBSET Managed
  BY DEF TypeOK, Job
<1>2. want \in [Stages -> SUBSET Managed]
  BY <1>1 DEF Job
<1>3. job'[p] = [j EXCEPT !.step = "fetch", !.prev = managed[j.stage], !.want = want]
  BY DEF Load, TypeOK
<1> HIDE DEF j, want
<1>4. /\ job'[p] \in Job
      /\ job'[p].step = "fetch" /\ job'[p].stage = j.stage /\ job'[p].prev = managed[j.stage]
  BY <1>1, <1>2, <1>3 DEF Job, Steps
<1>5. OthersKeep(p) /\ job' = [job EXCEPT ![p] = job'[p]]
  BY DEF Load, TypeOK, OthersKeep
<1> QED
  BY <1>4, <1>5 DEF TypeOK, j

LEMMA FetchedJob ==
    ASSUME TypeOK, NEW p \in Passes, Fetch(p)
    PROVE  /\ job' \in [Passes -> Job]
           /\ OthersKeep(p)
           /\ job'[p] = [job[p] EXCEPT !.step = "write", !.copy = list[job[p].stage]]
<1>1. job[p] \in Job /\ list[job[p].stage] \in [MACs -> Entry]
  BY DEF TypeOK, Job
<1>2. /\ OthersKeep(p) /\ job' = [job EXCEPT ![p] = job'[p]]
      /\ job'[p] = [job[p] EXCEPT !.step = "write", !.copy = list[job[p].stage]]
  BY DEF Fetch, TypeOK, OthersKeep
<1>3. job'[p] \in Job
  BY <1>1, <1>2 DEF Job, Steps
<1> QED
  BY <1>2, <1>3 DEF TypeOK

LEMMA WrittenJob ==
    ASSUME TypeOK, NEW p \in Passes, Write(p)
    PROVE  /\ job' \in [Passes -> Job]
           /\ OthersKeep(p)
           /\ job'[p] = [job[p] EXCEPT !.step = "record"]
<1>1. job[p] \in Job
  BY DEF TypeOK
<1>2. /\ OthersKeep(p) /\ job' = [job EXCEPT ![p] = job'[p]]
      /\ job'[p] = [job[p] EXCEPT !.step = "record"]
  BY DEF Write, TypeOK, OthersKeep
<1>3. job'[p] \in Job
  BY <1>1, <1>2 DEF Job, Steps
<1> QED
  BY <1>2, <1>3 DEF TypeOK

LEMMA MergedEntries ==
    ASSUME TypeOK, NEW p \in Passes
    PROVE  Merged(job[p].copy, job[p].prev, job[p].want[job[p].stage]) \in [MACs -> Entry]
<1>1. job[p].copy \in [MACs -> Entry]
  BY DEF TypeOK, Job
<1> QED
  BY <1>1 DEF Merged, Entry

LEMMA WrittenList ==
    ASSUME TypeOK, NEW p \in Passes, WriteTo(p)
    PROVE  /\ list' \in [Stages -> [MACs -> Entry]]
           /\ on' \in [Stages -> BOOLEAN]
           /\ list'[job[p].stage] = Merged(job[p].copy, job[p].prev, job[p].want[job[p].stage])
           /\ \A s \in Stages \ {job[p].stage} : list'[s] = list[s]
<1>1. job[p].stage \in Stages
  BY DEF TypeOK, Job
<1>2. on' \in [Stages -> BOOLEAN]
  BY <1>1 DEF WriteTo, TypeOK
<1> QED
  BY <1>1, <1>2, MergedEntries DEF WriteTo, TypeOK

-----------------------------------------------------------------------------

LEMMA PassKeepsTypes ==
    ASSUME TypeOK, NEW p \in Passes, Begin(p) \/ Advance(p)
    PROVE  TypeOK'
<1>0. AsusAssumption
  BY AsusAssumption
<1>1. CASE Begin(p)
  BY <1>1, BegunJob DEF Begin, TypeOK, router, people, choices
<1>2. CASE Skip(p)
  BY <1>2, FinishedJob DEF Skip, TypeOK, router, people, choices
<1>3. CASE Load(p)
  <2>1. job[p].stage \in Stages
    BY DEF TypeOK, Job
  <2> QED
    BY <1>3, <2>1, LoadedJob DEF Load, TypeOK, router, people, choices
<1>4. CASE Fetch(p)
  BY <1>4, FetchedJob DEF Fetch, TypeOK, router, people, choices
<1>5. CASE Write(p)
  BY <1>5, WrittenJob, WrittenList DEF Write, TypeOK, people, choices
<1>6. CASE Record(p)
  <2>1. job[p].stage \in Stages /\ Recorded(job[p]) \in SUBSET Managed
    BY DEF TypeOK, Job, Recorded
  <2> QED
    BY <1>6, <2>1, FinishedJob DEF Record, TypeOK, router, people, choices
<1>7. CASE FetchFails(p) \/ WriteFails(p)
  BY <1>7, <1>0, FinishedJob DEF FetchFails, WriteFails, Fault, TypeOK, router, people, choices, AsusAssumption
<1>8. CASE AnswerLost(p)
  <2>1. job[p].stage \in Stages
    BY DEF TypeOK, Job
  <2> QED
    BY <1>8, <1>0, <2>1, FinishedJob, WrittenList
    DEF AnswerLost, Fault, TypeOK, people, choices, AsusAssumption
<1> QED
  BY <1>1, <1>2, <1>3, <1>4, <1>5, <1>6, <1>7, <1>8 DEF Advance

LEMMA CrashKeepsTypes ==
    ASSUME TypeOK, Crash
    PROVE  TypeOK'
<1>1. job' \in [Passes -> Job]
  BY NoJobIsJob DEF Crash
<1> QED
  BY <1>1, AsusAssumption DEF Crash, Fault, TypeOK, router, people, choices

LEMMA UsersKeepTypes ==
    ASSUME TypeOK, Users
    PROVE  TypeOK'
<1>1. /\ edits' \in 0..MaxEdits
      /\ UNCHANGED <<managed, job, unsure, faults>>
  BY AsusAssumption DEF Users, SetProfile, ToggleDirector, ToggleEnabled, SwitchByHand,
     AddByHand, RemoveByHand, HandEdit, Edit, TypeOK
<1>2. ASSUME NEW m \in Managed, NEW q \in Profiles, SetProfile(m, q) PROVE TypeOK'
  BY <1>1, <1>2 DEF SetProfile, TypeOK, router
<1>3. CASE ToggleDirector \/ ToggleEnabled
  BY <1>1, <1>3 DEF ToggleDirector, ToggleEnabled, TypeOK, router
<1>4. ASSUME NEW s \in Stages, SwitchByHand(s) PROVE TypeOK'
  BY <1>1, <1>4 DEF SwitchByHand, HandEdit, TypeOK
<1>5. ASSUME NEW s \in Stages, NEW m \in MACs, AddByHand(s, m) PROVE TypeOK'
  BY <1>1, <1>5 DEF AddByHand, HandEdit, TypeOK, Entry
<1>6. ASSUME NEW s \in Stages, NEW m \in MACs, RemoveByHand(s, m) PROVE TypeOK'
  BY <1>1, <1>6 DEF RemoveByHand, HandEdit, TypeOK, Entry
<1> QED
  BY <1>2, <1>3, <1>4, <1>5, <1>6 DEF Users

LEMMA StepKeepsTypes == TypeOK /\ [Next]_vars => TypeOK'
<1> SUFFICES ASSUME TypeOK, [Next]_vars PROVE TypeOK'
  OBVIOUS
<1>1. CASE UNCHANGED vars
  BY <1>1 DEF vars, people, choices, router, TypeOK
<1> QED
  BY <1>1, PassKeepsTypes, CrashKeepsTypes, UsersKeepTypes DEF Next

LEMMA InitTypes == Init => TypeOK
  BY AsusAssumption, NoJobIsJob
  DEF Init, TypeOK, Profiles, Stages, NoEntries, Entry

(* Every variable keeps its type, and only devices the dashboard has a row for
   are ever recorded as pushed.                                              *)
THEOREM AsusTypeCorrect == Spec => []TypeOK
<1> QED
  BY InitTypes, StepKeepsTypes, PTL DEF Spec

-----------------------------------------------------------------------------
(* The user's rules.  A rule that is not exposed is on the router, in every copy
   a pass will write back, and on no record that a pass goes by.             *)

Safe(s, m) ==
    /\ list[s][m] = "hand" <=> m \in hand[s]
    /\ m \in hand[s] => ~Claimed(s, m)
    /\ \A p \in Passes :
          At(p, "write") /\ job[p].stage = s => (job[p].copy[m] = "hand" <=> m \in hand[s])

HandInv == TypeOK /\ \A s \in Stages : \A m \in MACs \ exposed[s] : Safe(s, m)

\* A step of p has to be looked at for what it does to the list, to the record
\* and to what p holds.
LEMMA SafeAfter ==
    ASSUME NEW p \in Passes, NEW s \in Stages, NEW m \in MACs, Safe(s, m),
           OthersKeep(p), hand' = hand,
           list'[s][m] = "hand" <=> m \in hand[s],
           m \in hand[s] => m \notin managed'[s],
           job'[p].stage = s /\ job'[p].step \in {"fetch", "write"} /\ m \in hand[s]
              => m \notin job'[p].prev,
           job'[p].stage = s /\ job'[p].step = "write"
              => (job'[p].copy[m] = "hand" <=> m \in hand[s])
    PROVE  Safe(s, m)'
<1>1. m \in hand[s] => ~Claimed(s, m)'
  <2> SUFFICES ASSUME m \in hand[s], NEW q \in Passes, job'[q].stage = s,
                      job'[q].step \in {"fetch", "write"}
               PROVE  m \notin job'[q].prev
    BY DEF Claimed
  <2>1. CASE q = p
    BY <2>1
  <2>2. CASE q # p
    BY <2>2 DEF OthersKeep, Safe, Claimed
  <2> QED
    BY <2>1, <2>2
<1>2. ASSUME NEW q \in Passes, job'[q].step = "write", job'[q].stage = s
      PROVE  job'[q].copy[m] = "hand" <=> m \in hand[s]
  <2>1. CASE q = p
    BY <1>2, <2>1
  <2>2. CASE q # p
    BY <1>2, <2>2 DEF OthersKeep, Safe, At
  <2> QED
    BY <2>1, <2>2
<1> QED
  BY <1>1, <1>2 DEF Safe, At

\* What a pass writes for a device whose rule is safe.
LEMMA SafeWrite ==
    ASSUME TypeOK, NEW p \in Passes, At(p, "write"), WriteTo(p),
           NEW s \in Stages, NEW m \in MACs, Safe(s, m)
    PROVE  list'[s][m] = "hand" <=> m \in hand[s]
<1>1. CASE s # job[p].stage
  BY <1>1, WrittenList DEF Safe
<1>2. CASE s = job[p].stage
  <2>1. list'[s] = Merged(job[p].copy, job[p].prev, job[p].want[s])
    BY <1>2, WrittenList
  <2>2. job[p].copy[m] = "hand" <=> m \in hand[s]
    BY <1>2 DEF Safe
  <2>3. m \in hand[s] => m \notin job[p].prev
    BY <1>2 DEF Safe, Claimed, At
  <2> QED
    BY <2>1, <2>2, <2>3 DEF Merged
<1> QED
  BY <1>1, <1>2

LEMMA PassKeepsHands ==
    ASSUME HandInv, NEW p \in Passes, Begin(p) \/ Advance(p)
    PROVE  HandInv'
<1>1. TypeOK /\ TypeOK'
  BY PassKeepsTypes DEF HandInv
<1>2. hand' = hand /\ \A s \in Stages : exposed[s] \subseteq exposed'[s]
  <2>1. hand' = hand
    BY DEF Begin, Advance, Skip, Load, Fetch, Write, Record, FetchFails, WriteFails,
       AnswerLost, Fault, people, choices
  <2>2. exposed' = exposed \/ Record(p)
    BY DEF Begin, Advance, Skip, Load, Fetch, Write, FetchFails, WriteFails,
       AnswerLost, Fault, people
  <2>3. ASSUME Record(p), NEW s \in Stages PROVE exposed[s] \subseteq exposed'[s]
    BY <1>1, <2>3 DEF Record, TypeOK
  <2> QED
    BY <2>1, <2>2, <2>3
<1>3. job[p].stage \in Stages /\ job[p] \in Job
  BY <1>1 DEF TypeOK, Job
<1> SUFFICES ASSUME NEW s \in Stages, NEW m \in MACs, m \notin exposed'[s]
             PROVE  Safe(s, m)'
  BY <1>1 DEF HandInv
<1>4. /\ Safe(s, m)
      /\ list[s][m] = "hand" <=> m \in hand[s]
      /\ m \in hand[s] => m \notin managed[s]
  BY <1>2 DEF HandInv, Safe, Claimed
<1>5. CASE Begin(p)
  BY <1>1, <1>2, <1>4, <1>5, BegunJob, SafeAfter DEF Begin, router
<1>6. CASE Skip(p) \/ FetchFails(p) \/ WriteFails(p)
  <2>1. Finish(p) /\ list' = list /\ managed' = managed
    BY <1>6 DEF Skip, FetchFails, WriteFails, Fault, router
  <2>2. OthersKeep(p) /\ job'[p].step \in {"idle", "load"}
    BY <1>1, <2>1, FinishedJob
  <2> QED
    BY <1>2, <1>4, <2>1, <2>2, SafeAfter
<1>7. CASE Load(p)
  <2>1. /\ OthersKeep(p) /\ job'[p].step = "fetch"
        /\ job'[p].stage = job[p].stage /\ job'[p].prev = managed[job[p].stage]
    BY <1>1, <1>7, LoadedJob
  <2>2. list' = list /\ managed' = managed
    BY <1>7 DEF Load, router
  <2> QED
    BY <1>2, <1>4, <2>1, <2>2, SafeAfter
<1>8. CASE Fetch(p)
  <2>1. /\ OthersKeep(p) /\ job'[p].stage = job[p].stage
        /\ job'[p].prev = job[p].prev /\ job'[p].copy = list[job[p].stage]
    BY <1>1, <1>3, <1>8, FetchedJob DEF Job
  <2>2. list' = list /\ managed' = managed
    BY <1>8 DEF Fetch, router
  <2>3. m \in hand[s] /\ job[p].stage = s => m \notin job[p].prev
    BY <1>4, <1>8 DEF Fetch, At, Safe, Claimed
  <2> QED
    BY <1>2, <1>4, <2>1, <2>2, <2>3, SafeAfter
<1>9. CASE Write(p)
  <2>1. OthersKeep(p) /\ job'[p].step = "record"
    BY <1>1, <1>3, <1>9, WrittenJob DEF Job
  <2>2. managed' = managed /\ (list'[s][m] = "hand" <=> m \in hand[s])
    BY <1>1, <1>4, <1>9, SafeWrite DEF Write
  <2> QED
    BY <1>2, <1>4, <2>1, <2>2, SafeAfter
<1>10. CASE AnswerLost(p)
  <2>1. OthersKeep(p) /\ job'[p].step \in {"idle", "load"}
    BY <1>1, <1>10, FinishedJob DEF AnswerLost
  <2>2. managed' = managed /\ (list'[s][m] = "hand" <=> m \in hand[s])
    BY <1>1, <1>4, <1>10, SafeWrite DEF AnswerLost, Fault
  <2> QED
    BY <1>2, <1>4, <2>1, <2>2, SafeAfter
<1>11. CASE Record(p)
  <2>1. OthersKeep(p) /\ job'[p].step \in {"idle", "load"}
    BY <1>1, <1>11, FinishedJob DEF Record
  <2>2. list' = list /\ (m \in hand[s] => m \notin managed'[s])
    <3>1. CASE s # job[p].stage
      BY <1>1, <1>4, <1>11, <3>1 DEF Record, router, TypeOK
    <3>2. CASE s = job[p].stage
      <4>1. /\ managed'[s] = job[p].want[s]
            /\ exposed'[s] = exposed[s] \cup (job[p].want[s] \cap hand[s])
        BY <1>1, <1>11, <3>2 DEF Record, Recorded, TypeOK
      <4> QED
        BY <1>11, <4>1 DEF Record, router
    <3> QED
      BY <3>1, <3>2
  <2> QED
    BY <1>2, <1>4, <2>1, <2>2, SafeAfter
<1> QED
  BY <1>5, <1>6, <1>7, <1>8, <1>9, <1>10, <1>11 DEF Advance

\* An edit exposes its own address or finds no pass that could undo it.
LEMMA UsersKeepHands ==
    ASSUME HandInv, Users
    PROVE  HandInv'
<1>1. TypeOK /\ TypeOK'
  BY UsersKeepTypes DEF HandInv
<1>2. job' = job /\ managed' = managed
  BY DEF Users, SetProfile, ToggleDirector, ToggleEnabled, SwitchByHand,
     AddByHand, RemoveByHand, HandEdit, Edit
<1>3. CASE list' = list /\ hand' = hand /\ exposed' = exposed
  BY <1>1, <1>2, <1>3 DEF HandInv, Safe, Claimed, At
<1>4. ASSUME NEW t \in Stages, NEW n \in MACs, AddByHand(t, n) \/ RemoveByHand(t, n)
      PROVE  HandInv'
  <2> SUFFICES ASSUME NEW s \in Stages, NEW m \in MACs, m \notin exposed'[s]
               PROVE  Safe(s, m)'
    BY <1>1 DEF HandInv
  <2>1. CASE s # t \/ m # n
    <3>1. /\ list'[s][m] = list[s][m]
          /\ m \in hand'[s] <=> m \in hand[s]
          /\ m \notin exposed[s]
      BY <1>1, <1>4, <2>1 DEF AddByHand, RemoveByHand, TypeOK
    <3> QED
      BY <1>2, <3>1 DEF HandInv, Safe, Claimed, At
  <2>2. CASE s = t /\ m = n
    <3>1. ~Copied(s)
      BY <1>1, <1>4, <2>2 DEF AddByHand, RemoveByHand, TypeOK
    <3>2. CASE AddByHand(t, n)
      <4>1. list'[s][m] = "hand" /\ m \in hand'[s] /\ ~Claimed(s, m)
        BY <1>1, <2>2, <3>2 DEF AddByHand, TypeOK
      <4> QED
        BY <1>2, <3>1, <4>1 DEF Safe, Claimed, Copied, At
    <3>3. CASE RemoveByHand(t, n)
      <4>1. list'[s][m] = "none" /\ m \notin hand'[s]
        BY <1>1, <2>2, <3>3 DEF RemoveByHand, TypeOK
      <4> QED
        BY <1>2, <3>1, <4>1 DEF Safe, Copied, At
    <3> QED
      BY <1>4, <3>2, <3>3
  <2> QED
    BY <2>1, <2>2
<1> QED
  BY <1>3, <1>4 DEF Users, SetProfile, ToggleDirector, ToggleEnabled, SwitchByHand, router

LEMMA StepKeepsHands ==
    ASSUME HandInv, [Next]_vars
    PROVE  HandInv'
<1>1. CASE UNCHANGED vars
  BY <1>1, StepKeepsTypes
  DEF HandInv, Safe, Claimed, vars, people, choices, router, At
<1>2. CASE Crash
  <2>1. \A p \in Passes : job'[p].step = "idle"
    BY <1>2 DEF Crash, NoJob
  <2>2. UNCHANGED <<list, hand, exposed, managed>>
    BY <1>2 DEF Crash, Fault, router, people, choices
  <2>3. TypeOK'
    BY <1>2, CrashKeepsTypes DEF HandInv
  <2> QED
    BY <2>1, <2>2, <2>3 DEF HandInv, Safe, Claimed, At
<1> QED
  BY <1>1, <1>2, PassKeepsHands, UsersKeepHands DEF Next

(* Whatever passes, failures and crashes happen and whenever rules are edited,
   for whichever devices: the router holds exactly the rules its user has put
   there, but for an edit made while a pass held a copy of the list, and a rule
   for a device that is on the dashboard's record.                           *)
THEOREM HandRulesAreKept == Spec => []HandRulesKept
<1>1. Init => HandInv
  BY InitTypes DEF Init, HandInv, Safe, Claimed, NoEntries, NoJob, At
<1>2. HandInv /\ [Next]_vars => HandInv'
  BY StepKeepsHands
<1>3. HandInv => HandRulesKept
  BY DEF HandInv, Safe, HandRulesKept
<1> QED
  BY <1>1, <1>2, <1>3, PTL DEF Spec

-----------------------------------------------------------------------------
(* The record.  As long as every push of a stage has been recorded and no two
   passes have been in it at once, the pass that is in it knows the record, its
   copy shows no entry outside it, and once it has written, the entries on the
   router are among those it is about to record.                             *)

Busy(p, s) == job[p].stage = s /\ job[p].step \in {"fetch", "write", "record"}

PushedIn(copy) == {m \in MACs : copy[m] = "pushed"}

KnownBy(p, s) ==
    /\ job[p].prev = managed[s]
    /\ At(p, "write") => PushedIn(job[p].copy) \subseteq job[p].prev
    /\ At(p, "record") => Pushed(s) \subseteq job[p].want[s]

Remembered(s) ==
    /\ \A p, q \in Passes : Busy(p, s) /\ Busy(q, s) => p = q
    /\ \A p \in Passes : Busy(p, s) => KnownBy(p, s)
    /\ UpToDate(s) => Pushed(s) \subseteq managed[s]

RecordInv == TypeOK /\ \A s \in Stages \ unsure : Remembered(s)

\* A pass that is not in s after its step has disturbed nothing there.
LEMMA OutOfStage ==
    ASSUME NEW p \in Passes, NEW s \in Stages, Remembered(s), OthersKeep(p),
           job'[p].step \in {"idle", "load"} \/ job'[p].stage # s,
           At(p, "record") => job[p].stage # s,
           list'[s] = list[s], managed'[s] = managed[s]
    PROVE  Remembered(s)'
<1>1. ~Busy(p, s)'
  BY DEF Busy
<1>2. Pushed(s)' = Pushed(s)
  BY DEF Pushed
<1>3. ASSUME NEW q \in Passes, Busy(q, s)'
      PROVE  q # p /\ job'[q] = job[q] /\ Busy(q, s)
  BY <1>1, <1>3 DEF Busy, OthersKeep
<1>4. ASSUME NEW q \in Passes, Busy(q, s)' PROVE KnownBy(q, s)'
  BY <1>2, <1>3, <1>4 DEF KnownBy, Remembered, At
<1>5. UpToDate(s)' => UpToDate(s)
  BY DEF UpToDate, OthersKeep, At
<1> QED
  BY <1>2, <1>3, <1>4, <1>5 DEF Remembered

\* The steps of a pass in its own stage.
LEMMA PassInStage ==
    ASSUME TypeOK, NEW p \in Passes, Load(p) \/ Fetch(p) \/ Write(p) \/ Record(p),
           NEW s, s = job[p].stage, s \notin unsure', Remembered(s)
    PROVE  Remembered(s)'
<1> DEFINE Alone == \A q \in Passes \ {p} : ~Busy(q, s)
<1>1. s \in Stages /\ job[p] \in Job /\ s \notin unsure
  BY DEF TypeOK, Job, Load, Fetch, Write, Record
<1>2. Alone
  <2>1. CASE Load(p)
    BY <2>1, <1>1 DEF Load, Overlapped, Busy
  <2>2. CASE Fetch(p) \/ Write(p) \/ Record(p)
    BY <2>2 DEF Fetch, Write, Record, Busy, At, Remembered
  <2> QED
    BY <2>1, <2>2
<1>3. SUFFICES /\ OthersKeep(p)
               /\ Busy(p, s)' => KnownBy(p, s)'
               /\ UpToDate(s)' => Pushed(s)' \subseteq managed'[s]
  BY <1>2 DEF Busy, OthersKeep, Remembered
<1>4. CASE Load(p)
  <2>1. KnownBy(p, s)'
    BY <1>1, <1>4, LoadedJob DEF KnownBy, At, Load
  <2>2. UpToDate(s) /\ Pushed(s)' = Pushed(s) /\ managed' = managed
    BY <1>2, <1>4 DEF Load, router, Pushed, UpToDate, At, Busy
  <2> QED
    BY <1>4, <2>1, <2>2, LoadedJob DEF Remembered
<1>5. CASE Fetch(p)
  <2>1. UpToDate(s) /\ Pushed(s)' = Pushed(s) /\ managed' = managed
    BY <1>2, <1>5 DEF Fetch, router, Pushed, UpToDate, At, Busy
  <2>2. job[p].prev = managed[s] /\ Pushed(s) \subseteq managed[s]
    BY <1>5, <2>1 DEF Fetch, At, Busy, KnownBy, Remembered
  <2>3. job'[p].step = "write" /\ job'[p].prev = managed[s] /\ job'[p].copy = list[s]
    BY <1>1, <1>5, <2>2, FetchedJob DEF Job
  <2>4. KnownBy(p, s)'
    BY <2>1, <2>2, <2>3 DEF KnownBy, At, PushedIn, Pushed
  <2> QED
    BY <1>5, <2>1, <2>2, <2>4, FetchedJob
<1>6. CASE Write(p)
  <2>1. /\ job[p].prev = managed[s] /\ PushedIn(job[p].copy) \subseteq job[p].prev
    BY <1>6 DEF Write, At, Busy, KnownBy, Remembered
  <2>2. /\ job'[p].step = "record" /\ job'[p].prev = job[p].prev
        /\ job'[p].want = job[p].want /\ job'[p].stage = s
    BY <1>1, <1>6, WrittenJob DEF Job
  <2>3. Pushed(s)' \subseteq job[p].want[s]
    <3>1. list'[s] = Merged(job[p].copy, job[p].prev, job[p].want[s])
      BY <1>6, WrittenList DEF Write
    <3>2. ASSUME NEW m \in MACs, list'[s][m] = "pushed" PROVE m \in job[p].want[s]
      BY <2>1, <3>1, <3>2 DEF PushedIn, Merged
    <3> QED
      BY <3>2 DEF Pushed
  <2>4. KnownBy(p, s)'
    BY <1>6, <2>1, <2>2, <2>3 DEF KnownBy, At, Write
  <2>5. ~UpToDate(s)'
    BY <2>2 DEF UpToDate, At
  <2> QED
    BY <1>6, <2>4, <2>5, WrittenJob
<1>7. CASE Record(p)
  <2>1. Pushed(s)' = Pushed(s) /\ managed'[s] = job[p].want[s]
    BY <1>1, <1>7 DEF Record, Recorded, router, Pushed, TypeOK
  <2>2. Pushed(s) \subseteq job[p].want[s]
    BY <1>7 DEF Record, At, Busy, KnownBy, Remembered
  <2>3. OthersKeep(p) /\ job'[p].step \in {"idle", "load"}
    BY <1>7, FinishedJob DEF Record
  <2> QED
    BY <2>1, <2>2, <2>3 DEF Busy
<1> QED
  BY <1>4, <1>5, <1>6, <1>7

LEMMA PassKeepsRecord ==
    ASSUME RecordInv, NEW p \in Passes, Begin(p) \/ Advance(p)
    PROVE  RecordInv'
<1>1. TypeOK /\ TypeOK' /\ job[p].stage \in Stages
  BY PassKeepsTypes DEF RecordInv, TypeOK, Job
<1>2. unsure \subseteq unsure'
  BY DEF Begin, Advance, Skip, Load, Fetch, Write, Record, FetchFails, WriteFails, AnswerLost
<1>3. OthersKeep(p)
  BY <1>1, BegunJob, FinishedJob, LoadedJob, FetchedJob, WrittenJob
  DEF Advance, Skip, Record, FetchFails, WriteFails, AnswerLost
<1> SUFFICES ASSUME NEW s \in Stages, s \notin unsure' PROVE Remembered(s)'
  BY <1>1 DEF RecordInv
<1>4. Remembered(s)
  BY <1>2 DEF RecordInv
<1>5. CASE Begin(p)
  BY <1>1, <1>3, <1>4, <1>5, OutOfStage, BegunJob DEF Begin, router, At
<1>6. CASE Skip(p) \/ FetchFails(p) \/ WriteFails(p)
  <2>1. job'[p].step \in {"idle", "load"}
    BY <1>1, <1>6, FinishedJob DEF Skip, FetchFails, WriteFails
  <2> QED
    BY <1>3, <1>4, <1>6, <2>1, OutOfStage
    DEF Skip, FetchFails, WriteFails, Fault, router, At
<1>7. CASE Load(p) \/ Fetch(p) \/ Write(p) \/ Record(p)
  <2>1. CASE s = job[p].stage
    BY <1>1, <1>4, <1>7, <2>1, PassInStage
  <2>2. CASE s # job[p].stage
    <3>1. list'[s] = list[s] /\ managed'[s] = managed[s]
      BY <1>1, <1>7, <2>2, WrittenList DEF Load, Fetch, Write, Record, router, TypeOK
    <3>2. job'[p].step \in {"idle", "load"} \/ job'[p].stage # s
      <4>1. CASE Load(p)
        BY <1>1, <2>2, <4>1, LoadedJob
      <4>2. CASE Fetch(p) \/ Write(p)
        <5>1. job[p] \in Job
          BY <1>1 DEF TypeOK
        <5> QED
          BY <1>1, <2>2, <4>2, <5>1, FetchedJob, WrittenJob DEF Job
      <4>3. CASE Record(p)
        BY <1>1, <4>3, FinishedJob DEF Record
      <4> QED
        BY <1>7, <4>1, <4>2, <4>3
    <3> QED
      BY <1>3, <1>4, <2>2, <3>1, <3>2, OutOfStage
  <2> QED
    BY <2>1, <2>2
<1>8. CASE AnswerLost(p)
  <2>1. s # job[p].stage
    BY <1>8 DEF AnswerLost
  <2>2. job'[p].step \in {"idle", "load"} /\ list'[s] = list[s]
    BY <1>1, <1>8, <2>1, FinishedJob, WrittenList DEF AnswerLost
  <2> QED
    BY <1>3, <1>4, <1>8, <2>1, <2>2, OutOfStage DEF AnswerLost, Fault
<1> QED
  BY <1>5, <1>6, <1>7, <1>8 DEF Advance

LEMMA CrashKeepsRecord ==
    ASSUME RecordInv, Crash
    PROVE  RecordInv'
<1>1. TypeOK'
  BY CrashKeepsTypes DEF RecordInv
<1>2. ASSUME NEW s \in Stages \ unsure' PROVE Remembered(s)'
  <2>1. s \in Stages \ unsure /\ UpToDate(s)
    BY <1>2 DEF Crash, UpToDate
  <2>2. Pushed(s)' = Pushed(s) /\ managed' = managed
    BY DEF Crash, Fault, router, Pushed
  <2>3. \A p \in Passes : ~Busy(p, s)'
    BY DEF Crash, NoJob, Busy
  <2> QED
    BY <2>1, <2>2, <2>3 DEF RecordInv, Remembered
<1> QED
  BY <1>1, <1>2 DEF RecordInv

LEMMA UsersKeepRecord ==
    ASSUME RecordInv, Users
    PROVE  RecordInv'
<1>1. TypeOK /\ TypeOK'
  BY UsersKeepTypes DEF RecordInv
<1>2. UNCHANGED <<job, managed, unsure>>
  BY DEF Users, SetProfile, ToggleDirector, ToggleEnabled, SwitchByHand,
     AddByHand, RemoveByHand, HandEdit, Edit
<1>3. ASSUME NEW s \in Stages PROVE Pushed(s)' \subseteq Pushed(s)
  <2>1. CASE list' = list
    BY <2>1 DEF Pushed
  <2>2. ASSUME NEW t \in Stages, NEW m \in MACs, AddByHand(t, m) \/ RemoveByHand(t, m)
        PROVE  Pushed(s)' \subseteq Pushed(s)
    <3>1. \A n \in MACs : list'[s][n] \in {"hand", "none", list[s][n]}
      BY <1>1, <2>2 DEF AddByHand, RemoveByHand, TypeOK
    <3> QED
      BY <3>1 DEF Pushed
  <2> QED
    BY <2>1, <2>2
    DEF Users, SetProfile, ToggleDirector, ToggleEnabled, SwitchByHand, router
<1>4. ASSUME NEW s \in Stages \ unsure PROVE Remembered(s)'
  BY <1>2, <1>3, <1>4 DEF RecordInv, Remembered, Busy, KnownBy, At, UpToDate
<1> QED
  BY <1>1, <1>2, <1>4 DEF RecordInv

(* Whatever the dashboard has on the router it has recorded, except in a stage
   where a crash, a lost answer or a second pass came between push and record. *)
THEOREM NothingIsForgotten == Spec => []NothingForgotten
<1>1. Init => RecordInv
  BY InitTypes
  DEF Init, RecordInv, Remembered, Busy, UpToDate, Pushed, NoEntries, NoJob, At
<1>2. RecordInv /\ [Next]_vars => RecordInv'
  <2> SUFFICES ASSUME RecordInv, [Next]_vars PROVE RecordInv'
    OBVIOUS
  <2>1. CASE UNCHANGED vars
    BY <2>1, StepKeepsTypes
    DEF vars, people, choices, router, RecordInv, Remembered, Busy, KnownBy, At, UpToDate, Pushed, PushedIn
  <2> QED
    BY <2>1, PassKeepsRecord, CrashKeepsRecord, UsersKeepRecord DEF Next
<1>3. RecordInv => NothingForgotten
  BY DEF RecordInv, Remembered, NothingForgotten
<1> QED
  BY <1>1, <1>2, <1>3, PTL DEF Spec
=============================================================================
