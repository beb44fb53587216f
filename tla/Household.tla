------------------------------ MODULE Household ------------------------------
(***************************************************************************)
(* The family's rules and what they make of each device: base profiles,     *)
(* people, pauses, schedules and quotas (the handlers of app.py, the tables *)
(* of store.py), under a running clock.  What applies is what a reconciler  *)
(* pass would compute from the tables at this moment (module Overrides);    *)
(* getting it to Technitium is module Reconciler's business.                *)
(*                                                                          *)
(* Handlers run one at a time (the store is synchronous), but SQLite is in  *)
(* autocommit mode, so a crash can part the statements of one handler: that *)
(* is modelled for delete_person; a pause cut short leaves the tables as a  *)
(* resume, or a family pause with more exclusions, would.                    *)
(***************************************************************************)
EXTENDS Overrides, SequencesExt

CONSTANTS
    Devices, People,
    Offered,        \* the profiles people choose from
    Windows,        \* the windows schedules are given
    PauseLengths,   \* minutes
    QuotaDays,      \* the sets of weekdays quotas are given
    Budgets,        \* minutes per day a quota allows
    Start,          \* the minute the dashboard is installed
    MaxRows, MaxMinutes, Horizon    \* bounds: rules at a time, usage, clock

ASSUME HouseholdAssumption ==
    /\ Offered \subseteq Profiles
    /\ Windows \subseteq Window
    /\ QuotaDays \subseteq SUBSET (0..DaysPerWeek - 1)
    /\ PauseLengths \subseteq Nat \ {0} /\ Budgets \subseteq Nat \ {0}
    /\ IsFiniteSet(Devices)
    /\ Devices \cap People = {} /\ All \notin Devices \cup People
    /\ None \notin Devices \cup People \cup Profiles
    /\ MaxRows \in Nat /\ MaxMinutes \in Nat /\ Horizon \in Nat /\ Start \in Nat

VARIABLES
    now,        \* the clock
    device,     \* table devices: base profile and person
    person,     \* table people: ids are never used twice
    overrides,  \* table device_overrides, in the order of its ids
    schedules,  \* table schedules
    quotas,     \* table quotas
    usage,      \* daily_usage of each target, today
    deleting    \* the person being deleted and the statements still to run, or None

vars == <<now, device, person, overrides, schedules, quotas, usage, deleting>>

Targets == Devices \cup People
Choice  == Offered \cup {None}

\* Wrong: the person goes before the devices are detached.
DeleteRowFirst == <<"row", "detach", "overrides", "schedules", "quotas">>

\* The statements of Store.delete_person, each committed on its own.
DeleteOrder == <<"detach", "row", "overrides", "schedules", "quotas">>

DeviceRow   == [base : Choice, person : People \cup {None}]
PersonRow   == [status : {"new", "here", "gone"}, base : Choice]
OverrideRow == [target : Targets, source : {"manual", "family-pause"},
                profile : Choice, expires : Nat]
ScheduleRow == [target : Targets \cup {All}, window : Windows, profile : Choice,
                enabled : BOOLEAN]
QuotaRow    == [target : Targets, days : QuotaDays,
                max : Budgets, profile : Choice, enabled : BOOLEAN]

Here == {p \in People : person[p].status = "here"}

Without(table, Gone(_)) == Only(table, {i \in DOMAIN table : ~Gone(table[i])})

Init ==
    /\ now = Start
    /\ device = [d \in Devices |-> [base |-> None, person |-> None]]
    /\ person = [p \in People |-> [status |-> "new", base |-> None]]
    /\ overrides = <<>> /\ schedules = <<>> /\ quotas = <<>>
    /\ usage = [k \in Targets |-> 0]
    /\ deleting = None

-----------------------------------------------------------------------------
(* What applies (steps 3 and 4 of Reconciler._tick_inner). *)

TraceOf(target, base) ==
    Resolve(target, base, usage[target], overrides, schedules, quotas, now)

PersonTrace(p) == TraceOf(p, person[p].base)
DeviceTrace(d) == TraceOf(d, device[d].base)

Governed(d) == device[d].person \in Here

Effective(d) ==
    IF Governed(d) THEN MergePersonIntoDevice(DeviceTrace(d), PersonTrace(device[d].person))
                   ELSE DeviceTrace(d)

effective == [d \in Devices |-> Effective(d)]

-----------------------------------------------------------------------------
(* Handlers.  None runs while another one is under way. *)

Idle == deleting = None

Rows == Len(overrides) + Len(schedules) + Len(quotas)

SetDeviceProfile(d, p) ==
    /\ Idle
    /\ device' = [device EXCEPT ![d].base = p]
    /\ UNCHANGED <<now, person, overrides, schedules, quotas, usage, deleting>>

\* Only people that exist can be attached to; NULL detaches.
AttachPerson(d, p) ==
    /\ Idle
    /\ p \in Here \cup {None}
    /\ device' = [device EXCEPT ![d].person = p]
    /\ UNCHANGED <<now, person, overrides, schedules, quotas, usage, deleting>>

CreatePerson(p, base) ==
    /\ Idle
    /\ person[p].status = "new"
    /\ person' = [person EXCEPT ![p] = [status |-> "here", base |-> base]]
    /\ UNCHANGED <<now, device, overrides, schedules, quotas, usage, deleting>>

UpdatePerson(p, base) ==
    /\ Idle
    /\ p \in Here
    /\ person' = [person EXCEPT ![p].base = base]
    /\ UNCHANGED <<now, device, overrides, schedules, quotas, usage, deleting>>

\* Wrong: NULL is resolved when it is stored, not when it is read.
OverriddenResolved(target, source, p, minutes) ==
    Append(Without(overrides, LAMBDA o : o.target = target /\ o.source = source),
           [target |-> target, source |-> source, profile |-> Chosen(p),
            expires |-> now + minutes])

\* Wrong: whoever is paused ends the pauses of everyone else.
OverriddenForEveryone(target, source, p, minutes) ==
    Append(Without(overrides, LAMBDA o : o.source = source),
           [target |-> target, source |-> source, profile |-> p,
            expires |-> now + minutes])

\* One override per target and source: the last one wins.
Overridden(target, source, p, minutes) ==
    Append(Without(overrides, LAMBDA o : o.target = target /\ o.source = source),
           [target |-> target, source |-> source, profile |-> p,
            expires |-> now + minutes])

Pause(target, p, minutes) ==
    /\ Idle
    /\ overrides' = Overridden(target, "manual", p, minutes)
    /\ UNCHANGED <<now, device, person, schedules, quotas, usage, deleting>>
    /\ Rows' <= MaxRows

\* A device is paused and resumed by its address, whether or not it has a row.
PauseDevice(d, p, minutes) == Pause(d, p, minutes)

\* Only people that exist can be paused.
PausePerson(q, p, minutes) == q \in Here /\ Pause(q, p, minutes)

Resume(target) ==
    /\ Idle
    /\ overrides' = Without(overrides, LAMBDA o : o.target = target /\ o.source = "manual")
    /\ UNCHANGED <<now, device, person, schedules, quotas, usage, deleting>>

ResumeDevice(d) == Resume(d)
ResumePerson(q) == Resume(q)

\* Every device that is not excluded gets an override of its own; those of
\* nobody are left out unless the caller asks for them.
FamilyPause(p, minutes) ==
    /\ Idle
    /\ \E excluded \in SUBSET Targets, unassigned \in BOOLEAN :
          LET paused == {d \in Devices \ excluded :
                            /\ device[d].person \notin excluded
                            /\ device[d].person = None => unassigned}
              kept   == Without(overrides, LAMBDA o : o.target \in paused
                                                      /\ o.source = "family-pause")
              row(d) == [target |-> d, source |-> "family-pause", profile |-> p,
                         expires |-> now + minutes]
          IN  overrides' = kept \o SetToSeq({row(d) : d \in paused})
    /\ UNCHANGED <<now, device, person, schedules, quotas, usage, deleting>>
    /\ Rows' <= MaxRows

FamilyResume ==
    /\ Idle
    /\ overrides' = Without(overrides, LAMBDA o : o.source = "family-pause")
    /\ UNCHANGED <<now, device, person, schedules, quotas, usage, deleting>>

CreateSchedule(row) ==
    /\ Idle
    /\ Rows < MaxRows
    /\ schedules' = Append(schedules, row)
    /\ UNCHANGED <<now, device, person, overrides, quotas, usage, deleting>>

\* The editor changes anything but the target.
UpdateSchedule(i, row) ==
    /\ Idle
    /\ row.target = schedules[i].target
    /\ schedules' = [schedules EXCEPT ![i] = row]
    /\ UNCHANGED <<now, device, person, overrides, quotas, usage, deleting>>

DeleteSchedule(i) ==
    /\ Idle
    /\ schedules' = RemoveAt(schedules, i)
    /\ UNCHANGED <<now, device, person, overrides, quotas, usage, deleting>>

CreateQuota(row) ==
    /\ Idle
    /\ Rows < MaxRows
    /\ quotas' = Append(quotas, row)
    /\ UNCHANGED <<now, device, person, overrides, schedules, usage, deleting>>

UpdateQuota(i, row) ==
    /\ Idle
    /\ row.target = quotas[i].target
    /\ quotas' = [quotas EXCEPT ![i] = row]
    /\ UNCHANGED <<now, device, person, overrides, schedules, usage, deleting>>

DeleteQuota(i) ==
    /\ Idle
    /\ quotas' = RemoveAt(quotas, i)
    /\ UNCHANGED <<now, device, person, overrides, schedules, usage, deleting>>

DeletePerson(p) ==
    /\ Idle
    /\ p \in Here
    /\ deleting' = [person |-> p, left |-> DeleteOrder]
    /\ UNCHANGED <<now, device, person, overrides, schedules, quotas, usage>>

\* The next statement of the deletion.
Statement ==
    /\ ~Idle
    /\ LET p == deleting.person
           s == Head(deleting.left)
           gone(row) == row.target = p
       IN  /\ device' = IF s # "detach" THEN device
                        ELSE [d \in Devices |-> IF device[d].person # p THEN device[d]
                                                ELSE [device[d] EXCEPT !.person = None]]
           /\ person' = IF s = "row" THEN [person EXCEPT ![p] = [status |-> "gone", base |-> None]]
                        ELSE person
           /\ overrides' = IF s = "overrides" THEN Without(overrides, gone) ELSE overrides
           /\ schedules' = IF s = "schedules" THEN Without(schedules, gone) ELSE schedules
           /\ quotas' = IF s = "quotas" THEN Without(quotas, gone) ELSE quotas
    /\ deleting' = IF Len(deleting.left) = 1 THEN None
                   ELSE [deleting EXCEPT !.left = Tail(@)]
    /\ UNCHANGED <<now, usage>>

\* The service dies, and the rest of the deletion is never run.
Crash ==
    /\ ~Idle
    /\ deleting' = None
    /\ UNCHANGED <<now, device, person, overrides, schedules, quotas, usage>>

-----------------------------------------------------------------------------
(* The clock, the sampler and the first step of a reconciler pass. *)

\* Wrong: usage is kept per UTC date, which does not begin at midnight here.
TickUtc ==
    /\ Idle
    /\ now < Horizon
    /\ now' = now + 1
    /\ usage' = IF Minute(now') = 2 THEN [k \in Targets |-> 0] ELSE usage
    /\ UNCHANGED <<device, person, overrides, schedules, quotas, deleting>>

\* Usage is kept per date, so a new day starts from nothing.
Tick ==
    /\ Idle
    /\ now < Horizon
    /\ now' = now + 1
    /\ usage' = IF Minute(now') = 0 THEN [k \in Targets |-> 0] ELSE usage
    /\ UNCHANGED <<device, person, overrides, schedules, quotas, deleting>>

\* A bucket is credited to every active device, and once to everyone who owns
\* one of them.
Sample ==
    /\ Idle
    /\ \E active \in SUBSET Devices \ {{}} :
          LET credited == active \cup {device[d].person : d \in active}
          IN  /\ \A k \in credited \cap Targets : usage[k] < MaxMinutes
              /\ usage' = [k \in Targets |-> IF k \in credited THEN usage[k] + 1
                                                              ELSE usage[k]]
    /\ UNCHANGED <<now, device, person, overrides, schedules, quotas, deleting>>

\* Wrong: overrides that end within this minute are dropped already.
PurgeEarly ==
    /\ Idle
    /\ overrides' = Without(overrides, LAMBDA o : o.expires <= now + 1)
    /\ UNCHANGED <<now, device, person, schedules, quotas, usage, deleting>>

Purge ==
    /\ Idle
    /\ overrides' = Without(overrides, LAMBDA o : o.expires <= now)
    /\ UNCHANGED <<now, device, person, schedules, quotas, usage, deleting>>

Handlers ==
    \/ \E d \in Devices, p \in Choice : SetDeviceProfile(d, p)
    \/ \E d \in Devices, p \in People \cup {None} : AttachPerson(d, p)
    \/ \E p \in People, b \in Choice : CreatePerson(p, b) \/ UpdatePerson(p, b)
    \/ \E d \in Devices : \/ ResumeDevice(d)
                          \/ \E p \in Choice, n \in PauseLengths : PauseDevice(d, p, n)
    \/ \E q \in People : \/ ResumePerson(q)
                         \/ \E p \in Choice, n \in PauseLengths : PausePerson(q, p, n)
    \/ \E p \in Choice, n \in PauseLengths : FamilyPause(p, n)
    \/ FamilyResume
    \/ \E row \in ScheduleRow : \/ CreateSchedule(row)
                               \/ \E i \in DOMAIN schedules : UpdateSchedule(i, row)
    \/ \E row \in QuotaRow : \/ CreateQuota(row)
                            \/ \E i \in DOMAIN quotas : UpdateQuota(i, row)
    \/ \E i \in DOMAIN schedules : DeleteSchedule(i)
    \/ \E i \in DOMAIN quotas : DeleteQuota(i)
    \/ \E p \in People : DeletePerson(p)
    \/ Statement
    \/ Crash

Next == Handlers \/ Tick \/ Sample \/ Purge

Spec == Init /\ [][Next]_vars

-----------------------------------------------------------------------------
(* Properties. *)

TypeOK ==
    /\ now \in Nat
    /\ device \in [Devices -> DeviceRow]
    /\ person \in [People -> PersonRow]
    /\ overrides \in Seq(OverrideRow)
    /\ schedules \in Seq(ScheduleRow)
    /\ quotas \in Seq(QuotaRow)
    /\ usage \in [Targets -> Nat]
    /\ deleting \in {None} \cup [person : People, left : Seq({DeleteOrder[i] : i \in 1..5})]

(* No device belongs to a person who is not there, whichever statement of a
   deletion a crash comes after: its rules would never apply again.          *)
NoDanglingMember == \A d \in Devices : device[d].person \in Here \cup {None}

(* schedule_window_active says that a window is open exactly while an opening
   on an enabled day is less than the window's duration ago: for windows within
   a day and across midnight, for the last day of the week, for bounds of 24:00
   and for windows without length, which never open.                         *)
WindowIsOpening ==
    \A w \in Window :
        WindowActive(w, now) <=> \E d \in -1..Day(now) : OpenFromDay(w, d, now)

(* Dropping expired rows changes what applies to no one, even if the pass that
   should have dropped them comes in the very minute they expire.            *)
PurgeIsInvisible == [][Purge => UNCHANGED effective]_vars

\* Something begins or ends at this minute.
Boundary(t) ==
    \/ Minute(t) = 0 /\ quotas # <<>>
    \/ \E i \in DOMAIN overrides : overrides[i].expires = t
    \/ \E i \in DOMAIN schedules : Opens(schedules[i].window, t)
                                   \/ Closes(schedules[i].window, t)

(* The clock alone changes what applies to a device only when a window opens
   or closes, an override expires or a new day refills the quotas: bedtime goes
   through midnight without a gap.                                           *)
NoFlapping == [][Tick /\ ~Boundary(now') => UNCHANGED effective]_vars

\* Whose rules decide about a device when one is in force for them.
DecidedBy(d) == IF Governed(d) THEN device[d].person ELSE d

\* The strongest override of a target was set by hand and is in force until
\* after t.
HeldByHand(target, t) ==
    LET live == LiveOverrides(overrides, target, now)
        top  == overrides[Strongest(overrides, live)]
    IN  live # {} /\ top.source = "manual" /\ top.expires > t

(* What somebody has set by hand, for a person or for a device of nobody's,
   stays in force on the devices it decides about until its time is over:
   no schedule, quota, family pause or family resume, no change to another
   person's or to the device's own rules, no purge and no deletion lifts or
   changes it, only a pause or a resume of the same target does.             *)
PauseHolds ==
    [][ \A d \in Devices :
           LET target == DecidedBy(d)
           IN  /\ DecidedBy(d)' = target
               /\ HeldByHand(target, now')
               /\ ~Resume(target)
               /\ ~\E p \in Choice, n \in PauseLengths : Pause(target, p, n)
               => Effective(d)' = Effective(d) ]_vars

RuleOf(target) == IF target \in Devices THEN DeviceTrace(target) ELSE PersonTrace(target)

(* Once a quota has cut a person or a device off, neither time nor more activity
   lifts the cut before midnight: only a schedule can take over.             *)
CutStaysCut ==
    [][ \A k \in Devices \cup Here :
           /\ RuleOf(k).source = "quota"
           /\ Tick \/ Sample \/ Purge
           /\ Day(now') = Day(now)
           => RuleOf(k)'.source \in {"quota", "schedule"} ]_vars

-----------------------------------------------------------------------------
(* What the documentation says and the code does not do. *)

(* A device that is paused, by itself or with the whole family, is offline
   unless someone has set something else for its person by hand.             *)
PauseCuts ==
    \A d \in Devices :
        LET live == LiveOverrides(overrides, d, now)
        IN  /\ live # {} /\ overrides[Strongest(overrides, live)].profile = None
            /\ Governed(d) => LiveOverrides(overrides, device[d].person, now) = {}
            => Effective(d).profile = "internet-off"
=============================================================================
